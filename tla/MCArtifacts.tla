----------------------------- MODULE MCArtifacts -----------------------------
(* Instances of Artifacts for TLC.                                          *)
EXTENDS Artifacts, TLC

CONSTANTS mint, revoke, refresh, create, create2

\* A new CA generation, two commands that rewrite its CRL, issuances that
\* deliver under one slug.
Commands == [p \in Procs |-> CASE p = mint -> "mint" [] p = revoke -> "revoke"
                               [] p = refresh -> "refresh" [] OTHER -> "issue"]
Plans == [p \in Procs |-> CASE p = mint -> <<"crt", "crl">>
                            [] p = revoke -> <<"crl">>
                            [] p = refresh -> <<"crl", "root.crl">>
                            [] OTHER -> <<"ee.crt", "ee.key">>]
Mints == [p \in {revoke, refresh} \cap Procs |-> mint]
=============================================================================
