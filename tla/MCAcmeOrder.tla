----------------------------- MODULE MCAcmeOrder -----------------------------
(* Instances of AcmeOrder for TLC. *)
EXTENDS AcmeOrder, TLC

CONSTANTS O1, O2, N1, N2, W1, W2, W3, S1, S2, S3

\* One identifier, with both challenge types.
OneName == [o \in Orders |-> {N1}]

\* An order for two identifiers, the second a wildcard.
TwoNames == [o \in Orders |-> {N1, N2}]
Wildcard == (N1 :> {"http-01", "dns-01"}) @@ (N2 :> {"dns-01"})
Plain == [n \in Names |-> {"http-01", "dns-01"}]

Symmetry == Permutations(Workers) \cup Permutations(Serials)
=============================================================================
