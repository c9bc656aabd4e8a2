-------------------------- MODULE MCInitialization --------------------------
(* Instances of Initialization for TLC: the files an operator may write.     *)
EXTENDS Initialization, TLC

TlsDays == [p \in Profiles |-> IF p = "email" THEN 6 ELSE 4]

Section(cn, prefix, days) ==
    [cn |-> cn, prefix |-> prefix, days |-> days, backend |-> "internal",
     label |-> None, profiles |-> <<>>, eeDays |-> 0, simpleDn |-> FALSE,
     policies |-> {}]
Anchor == Section("R", <<"r">>, 7)
Tls == [Section("E", <<"e">>, 6) EXCEPT !.profiles = <<"server">>, !.eeDays = 4]
Email == [Section("M", <<"m">>, 6) EXCEPT !.profiles = <<"email">>, !.eeDays = 5]

\* The smallest deployment, and the ways to grow it.
Base == [pki |-> "org", module |-> None, label |-> None, wellFormed |-> TRUE,
         unknown |-> FALSE, ca |-> [x \in {"root", "tls"} |->
                                       IF x = "root" THEN Anchor ELSE Tls]]
With(f, email) == [f EXCEPT !.ca = [x \in {"root", "tls", "email"} |->
                                       IF x = "email" THEN email ELSE f.ca[x]]]
Both == With(Base, Email)

\* Keys on one token: the root's, or all of them.
OnTokenRoot(f) == [f EXCEPT !.module = "p11", !.ca["root"].backend = "pkcs11",
                            !.ca["root"].label = "ets"]
OnTokenAll(f) == [f EXCEPT !.module = "p11", !.label = "ets",
                    !.ca = [x \in DOMAIN f.ca |-> [f.ca[x] EXCEPT !.backend = "pkcs11"]]]

\* Files no CA may be made from: a slug that could meet, a profile of two CAs.
Refused == {With(Base, [Email EXCEPT !.prefix = <<"e", "1">>]),
            With(Base, [Email EXCEPT !.profiles = <<"email", "server">>, !.eeDays = 4])}

\* Valid by itself, at odds with a store made from any of the others.
Moved == [Base EXCEPT !.ca = [x \in {"root", "email"} |->
             IF x = "root" THEN Anchor
             ELSE [Tls EXCEPT !.cn = "M", !.prefix = <<"e", "1">>]]]
InitFiles == {Base, Both, [Both EXCEPT !.pki = "new org"], Moved, OnTokenAll(Both)}
                 \cup Refused

TokenFiles == {OnTokenRoot(Base)}
DefaultLabel == {OnTokenAll(Base)}
=============================================================================
