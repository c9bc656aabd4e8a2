------------------------------- MODULE Queries -------------------------------
(***************************************************************************)
(* What get answers from a store (src/src/ca.cpp: get_cert,                *)
(* issuers_above).  A get changes nothing: its answers are operators on    *)
(* the state of CaStore, and the properties say what a relying party may   *)
(* conclude from them while ceremonies, revocations and refreshes go on.   *)
(***************************************************************************)
EXTENDS CaStore

\* ski_of: the hash of the certificate's key.  Certificates signed for one
\* slug share the keypair of that label on the token.
Ski(x) == IF x \in CaCerts /\ caCert[x].gen[1] \in TokenPurposes
          THEN <<"token", Slug(caCert[x].gen)>>
          ELSE <<"own", x>>

\* aki_of: the ski of the certificate that signed it.
Aki(x) == IF x \in Leaves THEN Ski(leaf[x].issuer) ELSE Ski(Root)
SelfSigned(x) == Ski(x) = Aki(x)

\* The rows of cert_index, whatever their status.
Rows == {s \in Leaves : leaf[s] # None} \cup {c \in CaCerts : Indexed(c)}
            \cup {Root}

\* WHERE ski=aki ORDER BY fingerprint LIMIT 1: any of the rows there are.
Mutant_ActiveAbove(x) ==
    {r \in Rows : Ski(r) = Aki(x) /\ (r \in CaCerts => caRow[r] = "active")}
Above(x) == {r \in Rows : Ski(r) = Aki(x)}

\* issuers_above: from aki to ski to aki, until nothing is above, or what is
\* has been seen or is the self-signed anchor.
Nth(s, w, i) == IF i = 0 THEN s ELSE w[i]
Seen(s, w, i) == {Nth(s, w, j) : j \in 0 .. i - 1}
Walk(s, w, n) ==
    /\ \A i \in 1 .. n : /\ w[i] \in Above(Nth(s, w, i - 1))
                         /\ w[i] \notin Seen(s, w, i)
                         /\ ~SelfSigned(w[i])
    /\ LET top == Nth(s, w, n)
       IN \/ Above(top) = {}
          \/ \E r \in Above(top) : r \in Seen(s, w, n + 1) \/ SelfSigned(r)
IssuersAbove(s) == UNION {{w \in [1 .. n -> CaCerts] : Walk(s, w, n)} :
                             n \in 0 .. Cardinality(CaCerts)}

\* get <profile> --cn <cn> --chain: the newest valid certificate, and what is
\* above it.
Served(cn) == UNION {{s} \X IssuersAbove(s) : s \in Newest(cn)}

\* caIssuers: where a certificate says its issuer's is published.
CaIssuers(s) == pem[Slug(caCert[leaf[s].issuer].gen)]

\* get crl --cn <cn>: the file of the generation of that CN.
ServedCrls(cn) == {crl[Slug(g)] : g \in GenByCn(cn)}

-----------------------------------------------------------------------------
(* Properties *)

\* A certificate is served with the one certificate it was signed under, and
\* points at that one among the published files, before and after its CA is
\* renewed or revoked, and however often a renewal started over with the key
\* it had left on the token: the chain "follows the issuer of the certificate
\* just signed" (docs/operation.md, issuers_above, add_ee_pointer_extensions).
ChainIsServed ==
    \A cn \in Subjects :
        /\ Served(cn) = {<<s, <<leaf[s].issuer>>>> : s \in Newest(cn)}
        /\ \A s \in Newest(cn) : CaIssuers(s) = leaf[s].issuer

\* The CRL served for a certificate's issuer name verifies under the key that
\* signed the certificate and, once it is revoked, lists it until a CRL past
\* its expiry has: a relying party that asks sees every revocation, whichever
\* ceremonies ran since (revoke, gen_by_cn, get_cert).
RevocationIsSeen ==
    \A s \in Leaves : leaf[s] # None =>
        /\ ServedCrls(caCert[leaf[s].issuer].cn) # {}
        /\ \A k \in ServedCrls(caCert[leaf[s].issuer].cn) :
              /\ k # None
              /\ k.signer = leaf[s].issuer
              /\ leaf[s].status = "revoked" =>
                    s \in k.entries \/ leaf[s].notAfter < k.thisUpdate

-----------------------------------------------------------------------------
(* What the repository states and the code does not keep *)

IssuerRevoked(s) == caRow[leaf[s].issuer] = "revoked"

\* "Re-issue what matters under E2", "no need to revoke its leaves
\* individually" (docs/operation.md, Emergency rotation): a certificate whose
\* CA was revoked does not stand in the way of its replacement.
RevokedIssuersLeavesAreReplaceable ==
    \A cn \in Subjects :
        (\A s \in Leaves : Valid(s) /\ leaf[s].cn = cn => IssuerRevoked(s))
            => ~BlockingDuplicate(cn)
=============================================================================
