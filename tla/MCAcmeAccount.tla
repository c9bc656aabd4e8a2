--------------------------- MODULE MCAcmeAccount ---------------------------
(* Instances of AcmeAccount for TLC. *)
EXTENDS AcmeAccount, TLC

CONSTANTS Single, Shared

\* The single-use credential expires after one unit, the reusable one never.
FirstExpires == [c \in Creds |-> IF c = Single THEN 1 ELSE MaxTime + 1]

Symmetry == Permutations(Workers) \cup Permutations(Accounts)
                \cup Permutations(Keys) \cup Permutations(Orders)
=============================================================================
