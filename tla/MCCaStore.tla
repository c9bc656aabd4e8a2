------------------------------ MODULE MCCaStore ------------------------------
(* Instances of CaStore for TLC: who runs what, and the configured CAs.     *)
EXTENDS Queries, TLC

CONSTANTS p1, p2, p3

Symmetry == Permutations(Leaves) \cup Permutations(CaCerts)
AnyProc == Symmetry \cup Permutations(Procs)

\* One issuing CA, or two, as the [ca.<purpose>] sections declare them.
OneCn == [pu \in {"tls"} |-> "E1"]
OnePrefix == [pu \in {"tls"} |-> "ca-e"]
TwoCn == [pu \in {"tls", "email"} |-> IF pu = "tls" THEN "E1" ELSE "M1"]
TwoPrefix == [pu \in {"tls", "email"} |-> IF pu = "tls" THEN "ca-e" ELSE "ca-m"]
TlsIssues == [x \in Subjects |-> "tls"]

\* The file renamed [ca.tls] to [ca.email], keeping its cn, or picking
\* another cn and keeping its slug_prefix: what add makes of either is in the
\* README (Disagreements).
RenamedCn == [pu \in {"tls", "email"} |-> "E1"]
SharedPrefix == [pu \in {"tls", "email"} |-> "ca-e"]

\* One operator station for the ceremonies; one unattended machine that
\* issues, revokes by serial and refreshes the CRLs.
OneStation ==
    [p \in Procs |-> IF p = p1 THEN {"renew", "add", "revoke-ca"}
                     ELSE {"issue", "revoke-serial", "refresh"}]
\* Machines that each do all of the unattended work.
Unattended == [p \in Procs |-> {"issue", "revoke-serial", "refresh"}]
\* Every process may run a ceremony or revoke a CA.
Ceremonies == [p \in Procs |-> {"renew", "revoke-ca", "add"}]
\* A ceremony beside machines that issue and revoke by CN.
RevokersByCn ==
    [p \in Procs |-> IF p = p1 THEN {"renew"} ELSE {"issue", "revoke-cn"}]
\* No station of its own for the ceremonies.
Renewers == [p \in Procs |-> {"renew", "issue"}]
Adder == [p \in Procs |-> {"add"}]
=============================================================================
