---------------------------- MODULE NonceLedger ----------------------------
(***************************************************************************)
(* What both kinds of nonce promise, the replay nonces of the ACME frontend *)
(* (ConsumeNonce of src/acme/db.go) and those that gate a signature        *)
(* (sign_csr of src/src/ca.cpp): a nonce that is drawn is new, it is       *)
(* accepted while it is live, accepting it ends its life, and once that is *)
(* over for whatever reason it is never live again.                        *)
(***************************************************************************)
EXTENDS Naturals

CONSTANT Nonces

VARIABLES
    drawn,      \* the nonces drawn so far
    live,       \* those of them that would be accepted now
    uses        \* [Nonces -> Nat]: how often each was accepted

vars == <<drawn, live, uses>>

Init ==
    /\ drawn = {}
    /\ live = {}
    /\ uses = [n \in Nonces |-> 0]

\* A draw may end the life of others, and nothing says how long its own is.
Draw(n) ==
    /\ n \notin drawn
    /\ drawn' = drawn \cup {n}
    /\ live' \subseteq live \cup {n}
    /\ UNCHANGED uses

Spend(n) ==
    /\ n \in live
    /\ live' = live \ {n}
    /\ uses' = [uses EXCEPT ![n] = @ + 1]
    /\ UNCHANGED drawn

\* Expired, dropped or replaced.
Lapse ==
    /\ live' \subseteq live
    /\ UNCHANGED <<drawn, uses>>

Next == Lapse \/ \E n \in Nonces : Draw(n) \/ Spend(n)

Spec == Init /\ [][Next]_vars
=============================================================================
