---------------------------- MODULE CaStore_proofs ----------------------------
(***************************************************************************)
(* Proofs about CaStore and the reads of Queries, for every number of      *)
(* processes, purposes, certificates and any bound.                        *)
(*                                                                         *)
(* The invariants build on each other: the types (TInv); the generations   *)
(* of a lineage, which a ceremony about to commit still finds as it left   *)
(* them (LInv); the validity of a subject's certificates (DInv); what is   *)
(* locked for a generation (KInv) and revoked (BInv); what is published of *)
(* it, by whom (SInv); and whose certificates are on which CRL (EInv).     *)
(***************************************************************************)
EXTENDS Queries, FiniteSetTheorems, TLAPS

\* What a process carries fits where it is.
WithGen == {"issue", "revoke", "revoke_commit", "revoke_ca",
            "revoke_ca_commit", "renew_pem", "renew_crl", "renew_commit",
            "add_pem", "add_crl", "add_commit"}
WithCert == WithGen \ {"renew_pem", "add_pem"}
Minting == {"renew_pem", "renew_crl", "renew_commit",
            "add_pem", "add_crl", "add_commit"}
RevokingCa == {"revoke_ca", "revoke_ca_commit"}

Fits(label, j) ==
    /\ label \in WithGen => j.gen \in Gens
    /\ label \in WithCert => j.cert \in CaCerts
    /\ label \in Minting => j.who \in CaNames
    /\ label = "issue" => j.who \in Subjects /\ j.life \in Lives
    /\ label = "revoke_commit" => j.who \in Leaves

JobsFit == \A p \in Procs :
    /\ Fits(pc[p], job[p])
    /\ pc[p] = "revoke_commit" => leaf[job[p].who] # None
    /\ pc[p] \in RevokingCa => gens[job[p].gen] # None

\* No row of the two tables a job points into is deleted.
RowsKept ==
    /\ \A s \in Leaves : leaf[s] # None => leaf'[s] # None
    /\ \A g \in Gens : gens[g] # None => gens'[g] # None

TInv == TypeOK /\ JobsFit

-----------------------------------------------------------------------------
(* Lemmas on the helpers *)

\* What Become does to the two process variables.
LEMMA BecomeStep ==
    ASSUME NEW p \in Procs, NEW label \in Labels, NEW j \in Job,
           pc \in [Procs -> Labels], job \in [Procs -> Job],
           Become(p, label, j)
    PROVE  /\ pc' \in [Procs -> Labels] /\ job' \in [Procs -> Job]
           /\ pc'[p] = label /\ job'[p] = j
           /\ \A q \in Procs : q # p => pc'[q] = pc[q] /\ job'[q] = job[q]
BY DEF Become

\* The empty job is a job, and "idle" asks nothing of it.
LEMMA NoJobIsJob == NoJob \in Job /\ Fits("idle", NoJob) /\ "idle" \in Labels
BY DEF NoJob, Job, Fits, WithGen, WithCert, Minting, Labels

\* A process that changes its own job to a fitting one, and does not delete a
\* leaf row, leaves every job fitting.
LEMMA FitStep ==
    ASSUME NEW p \in Procs, NEW label \in Labels, NEW j \in Job,
           TypeOK, JobsFit, Become(p, label, j), Fits(label, j),
           label = "revoke_commit" => leaf'[j.who] # None,
           label \in RevokingCa => gens'[j.gen] # None,
           RowsKept
    PROVE  JobsFit' /\ pc' \in [Procs -> Labels] /\ job' \in [Procs -> Job]
<1>1. pc \in [Procs -> Labels] /\ job \in [Procs -> Job]
  BY DEF TypeOK
<1>2. /\ pc' \in [Procs -> Labels] /\ job' \in [Procs -> Job]
      /\ pc'[p] = label /\ job'[p] = j
      /\ \A q \in Procs : q # p => pc'[q] = pc[q] /\ job'[q] = job[q]
  BY <1>1, BecomeStep
<1>3. ASSUME NEW q \in Procs
      PROVE  /\ Fits(pc'[q], job'[q])
             /\ pc'[q] = "revoke_commit" => leaf'[job'[q].who] # None
             /\ pc'[q] \in RevokingCa => gens'[job'[q].gen] # None
  <2>1. CASE q = p
    BY <1>2, <2>1
  <2>2. CASE q # p
    <3>1. pc'[q] = pc[q] /\ job'[q] = job[q]
      BY <1>2, <2>2
    <3>2. Fits(pc[q], job[q])
      BY DEF JobsFit
    <3>3. /\ pc[q] = "revoke_commit" => job[q].who \in Leaves
          /\ pc[q] \in RevokingCa => job[q].gen \in Gens
      BY <3>2 DEF Fits, RevokingCa, WithGen
    <3>. QED
      BY <3>1, <3>2, <3>3 DEF JobsFit, RowsKept
  <2>. QED
    BY <2>1, <2>2
<1>4. \A q \in Procs : /\ Fits(pc'[q], job'[q])
                       /\ pc'[q] = "revoke_commit" => leaf'[job'[q].who] # None
                       /\ pc'[q] \in RevokingCa => gens'[job'[q].gen] # None
  BY <1>3
<1>5. JobsFit'
  BY <1>4 DEF JobsFit, Fits
<1>. QED
  BY <1>2, <1>5

-----------------------------------------------------------------------------
(* Types *)

\* A rewritten CRL is a CRL.
LEMMA NewCrlType ==
    ASSUME TypeOK, NEW prev \in Crl, NEW e \in SUBSET (Leaves \cup CaCerts),
           NEW signer \in CaCerts \cup {Root}
    PROVE  NewCrl(prev, Kept(prev) \cup e, signer) \in Crl
BY DEF NewCrl, Kept, Crl, TypeOK

\* A process that ends leaves the jobs fitting.
LEMMA DoneStep ==
    ASSUME NEW p \in Procs, TypeOK, JobsFit, Done(p), RowsKept
    PROVE  JobsFit' /\ pc' \in [Procs -> Labels] /\ job' \in [Procs -> Job]
<1>1. NoJob \in Job /\ Fits("idle", NoJob) /\ "idle" \in Labels
  BY NoJobIsJob
<1>2. Become(p, "idle", NoJob)
  BY DEF Done
<1>. QED
  BY <1>1, <1>2, FitStep DEF RevokingCa

\* The slug of a generation is a slug.
LEMMA SlugType == \A g \in Gens : Slug(g) \in Slugs
BY PurposeAssumption DEF Gens, Slug, Slugs

\* The init ceremony leaves a store of the right shape, with nobody at
\* work (Init).
THEOREM TypeInit == Init => TInv
<1>. SUFFICES ASSUME Init PROVE TInv
  OBVIOUS
<1>1. clock \in Nat /\ lock \in Procs \cup {None}
  BY DEF Init
<1>2. leaf \in [Leaves -> LeafRow \cup {None}] /\ locked \in SUBSET Purposes
  BY PurposeAssumption DEF Init
<1>3. gens \in [Gens -> GenRow \cup {None}]
  <2>1. \A g \in Gens : [cn |-> ConfigCn[g[1]], status |-> "active"] \in GenRow
    BY PurposeAssumption DEF Gens, GenRow
  <2>. QED
    BY <2>1 DEF Init
<1>4. PICK first \in [InitPurposes -> CaCerts] :
          /\ caCert = [c \in CaCerts |->
                         IF \E pu \in InitPurposes : first[pu] = c
                         THEN LET pu == CHOOSE q \in InitPurposes : first[q] = c
                              IN [gen |-> <<pu, 1>>, cn |-> ConfigCn[pu],
                                  notAfter |-> CaLife]
                         ELSE None]
          /\ caRow = [c \in CaCerts |->
                        IF \E pu \in InitPurposes : first[pu] = c
                        THEN "active" ELSE "absent"]
          /\ pem = [sl \in Slugs |->
                      IF \E pu \in InitPurposes : sl = Slug(<<pu, 1>>)
                      THEN first[CHOOSE pu \in InitPurposes :
                                    sl = Slug(<<pu, 1>>)]
                      ELSE None]
          /\ crl = [sl \in Slugs \cup {Root} |->
                      IF sl = Root THEN EmptyCrl(Root)
                      ELSE IF pem[sl] # None THEN EmptyCrl(pem[sl])
                      ELSE None]
  BY DEF Init
<1>5. caRow \in [CaCerts -> {"absent", "active", "revoked"}]
  BY <1>4
<1>6. caCert \in [CaCerts -> CaCertificate \cup {None}]
  <2>1. \A pu \in InitPurposes :
           [gen |-> <<pu, 1>>, cn |-> ConfigCn[pu], notAfter |-> CaLife]
             \in CaCertificate
    BY PurposeAssumption, NumberAssumption DEF CaCertificate, Gens
  <2>. QED
    BY <1>4, <2>1
<1>7. pem \in [Slugs -> CaCerts \cup {None}]
  BY <1>4
<1>8. crl \in [Slugs \cup {Root} -> Crl \cup {None}]
  <2>1. \A c \in CaCerts \cup {Root} : EmptyCrl(c) \in Crl
    BY <1>1 DEF EmptyCrl, Crl
  <2>. QED
    BY <1>4, <1>7, <2>1
<1>9. pc \in [Procs -> Labels] /\ job \in [Procs -> Job] /\ JobsFit
  BY NoJobIsJob DEF Init, JobsFit, RevokingCa
<1>. QED
  BY <1>1, <1>2, <1>3, <1>5, <1>6, <1>7, <1>8, <1>9 DEF TInv, TypeOK

\* Each command's step keeps the types.
LEMMA IssueTypes ==
    ASSUME TInv, NEW p \in Procs,
           IssueStart(p) \/ IssueCommit(p) \/ IssueRefused(p)
    PROVE  TInv'
<1>. USE DEF TInv
<1>1. CASE IssueStart(p)
  <2>1. PICK cn \in Subjects, g \in Gens, life \in Lives :
           /\ Usable(g)
           /\ Become(p, "issue", [NoJob EXCEPT !.gen = g,
                                               !.cert = pem[Slug(g)],
                                               !.who = cn, !.life = life])
    BY <1>1 DEF IssueStart
  <2> DEFINE j == [NoJob EXCEPT !.gen = g, !.cert = pem[Slug(g)],
                                !.who = cn, !.life = life]
  <2>2. pem[Slug(g)] \in CaCerts
    BY <2>1, SlugType DEF Usable, TypeOK
  <2>3. j \in Job /\ Fits("issue", j) /\ "issue" \in Labels
    BY <2>2 DEF NoJob, Job, Fits, WithGen, WithCert, Minting, Labels
  <2>4. UNCHANGED <<clock, leaf, caRow, gens, locked, caCert, pem, crl, lock>>
    BY <1>1 DEF IssueStart, db, files
  <2>5. JobsFit' /\ pc' \in [Procs -> Labels] /\ job' \in [Procs -> Job]
    BY <2>1, <2>3, <2>4, FitStep DEF RowsKept, RevokingCa
  <2>. QED
    BY <2>4, <2>5 DEF TypeOK
<1>2. CASE IssueCommit(p)
  <2>1. job[p].who \in Subjects /\ job[p].cert \in CaCerts
                                /\ job[p].life \in Nat
    BY <1>2, NumberAssumption
    DEF IssueCommit, AtLock, JobsFit, Fits, WithCert, WithGen
  <2>2. PICK s \in Leaves :
          /\ leaf[s] = None
          /\ leaf' = [leaf EXCEPT ![s] =
                        [cn |-> job[p].who, issuer |-> job[p].cert,
                         notBefore |-> clock, notAfter |-> clock + job[p].life,
                         status |-> "active"]]
    BY <1>2 DEF IssueCommit
  <2>3. leaf' \in [Leaves -> LeafRow \cup {None}]
    BY <2>1, <2>2 DEF TypeOK, LeafRow
  <2>4. \A t \in Leaves : leaf[t] # None => leaf'[t] # None
    BY <2>2 DEF TypeOK
  <2>5. JobsFit' /\ pc' \in [Procs -> Labels] /\ job' \in [Procs -> Job]
    BY <1>2, <2>4, DoneStep DEF IssueCommit, RowsKept
  <2>6. UNCHANGED <<clock, caRow, gens, locked, caCert, pem, crl, lock>>
    BY <1>2 DEF IssueCommit, files
  <2>. QED
    BY <2>3, <2>5, <2>6 DEF TypeOK
<1>3. CASE IssueRefused(p)
  <2>1. UNCHANGED <<clock, leaf, caRow, gens, locked, caCert, pem, crl, lock>>
    BY <1>3 DEF IssueRefused, db, files
  <2>2. JobsFit' /\ pc' \in [Procs -> Labels] /\ job' \in [Procs -> Job]
    BY <1>3, <2>1, DoneStep DEF IssueRefused, RowsKept
  <2>. QED
    BY <2>1, <2>2 DEF TypeOK
<1>. QED
  BY <1>1, <1>2, <1>3

\* The steps of revoke keep types and jobs: the looked-up leaf and its
\* generation are rows of the store.
LEMMA RevokeTypes ==
    ASSUME TInv, NEW p \in Procs,
           \/ RevokeStart(p) \/ RevokeWrite(p)
           \/ RevokeGone(p) \/ RevokeCommit(p)
    PROVE  TInv'
<1>. USE DEF TInv
<1>1. CASE RevokeStart(p)
  <2>1. PICK who \in Subjects \cup Leaves, g \in Gens :
           /\ Usable(g)
           /\ Become(p, "revoke", [NoJob EXCEPT !.gen = g,
                                                !.cert = pem[Slug(g)],
                                                !.who = who])
    BY <1>1 DEF RevokeStart, GenByCn
  <2> DEFINE j == [NoJob EXCEPT !.gen = g, !.cert = pem[Slug(g)], !.who = who]
  <2>2. pem[Slug(g)] \in CaCerts
    BY <2>1, SlugType DEF Usable, TypeOK
  <2>3. j \in Job /\ Fits("revoke", j) /\ "revoke" \in Labels
    BY <2>2 DEF NoJob, Job, Fits, WithGen, WithCert, Minting, Labels
  <2>4. UNCHANGED <<clock, leaf, caRow, gens, locked, caCert, pem, crl, lock>>
    BY <1>1 DEF RevokeStart, db, files
  <2>5. JobsFit' /\ pc' \in [Procs -> Labels] /\ job' \in [Procs -> Job]
    BY <2>1, <2>3, <2>4, FitStep DEF RowsKept, RevokingCa
  <2>. QED
    BY <2>4, <2>5 DEF TypeOK
<1>2. CASE RevokeWrite(p)
  <2>1. job[p].gen \in Gens /\ job[p].cert \in CaCerts /\ job[p] \in Job
    BY <1>2
    DEF RevokeWrite, AtLock, JobsFit, Fits, WithCert, WithGen, TypeOK
  <2> DEFINE slug == Slug(job[p].gen)
  <2>2. PICK s \in Leaves :
          /\ leaf[s] # None
          /\ crl' = [crl EXCEPT ![slug] =
                       NewCrl(crl[slug], Kept(crl[slug]) \cup {s},
                              job[p].cert)]
          /\ Become(p, "revoke_commit", [job[p] EXCEPT !.who = s])
    BY <1>2 DEF RevokeWrite, Lookup, Newest, Valid
  <2>3. slug \in Slugs /\ crl[slug] \in Crl
    BY <1>2, <2>1, SlugType DEF RevokeWrite, MayPublish, TypeOK
  <2>4. crl' \in [Slugs \cup {Root} -> Crl \cup {None}]
    <3>1. NewCrl(crl[slug], Kept(crl[slug]) \cup {s}, job[p].cert) \in Crl
      BY <2>1, <2>3, NewCrlType
    <3>. QED
      BY <2>2, <3>1 DEF TypeOK
  <2> DEFINE j == [job[p] EXCEPT !.who = s]
  <2>5. j \in Job /\ Fits("revoke_commit", j) /\ "revoke_commit" \in Labels
    BY <2>1 DEF Job, Fits, WithGen, WithCert, Minting, Labels
  <2>6. UNCHANGED <<clock, leaf, caRow, gens, locked, caCert, pem>> /\ lock' = p
    BY <1>2 DEF RevokeWrite, db
  <2>7. JobsFit' /\ pc' \in [Procs -> Labels] /\ job' \in [Procs -> Job]
    <3>1. leaf'[j.who] # None
      BY <2>1, <2>2, <2>6 DEF Job
    <3>. QED
      BY <2>2, <2>5, <2>6, <3>1, FitStep DEF RowsKept, RevokingCa
  <2>. QED
    BY <2>4, <2>6, <2>7 DEF TypeOK
<1>3. CASE RevokeGone(p)
  <2>1. UNCHANGED <<clock, leaf, caRow, gens, locked, caCert, pem, crl, lock>>
    BY <1>3 DEF RevokeGone, db, files
  <2>2. JobsFit' /\ pc' \in [Procs -> Labels] /\ job' \in [Procs -> Job]
    BY <1>3, <2>1, DoneStep DEF RevokeGone, RowsKept
  <2>. QED
    BY <2>1, <2>2 DEF TypeOK
<1>4. CASE RevokeCommit(p)
  <2>1. job[p].who \in Leaves /\ leaf[job[p].who] # None
    BY <1>4 DEF RevokeCommit, JobsFit, Fits
  <2>2. leaf' = [leaf EXCEPT ![job[p].who] =
                   [leaf[job[p].who] EXCEPT !.status = "revoked"]]
    BY <1>4 DEF RevokeCommit
  <2>3. [leaf[job[p].who] EXCEPT !.status = "revoked"] \in LeafRow
    BY <2>1 DEF TypeOK, LeafRow
  <2>4. leaf' \in [Leaves -> LeafRow \cup {None}]
    BY <2>2, <2>3 DEF TypeOK
  <2>5. \A t \in Leaves : leaf[t] # None => leaf'[t] # None
    BY <2>2, <2>3, AbsentAssumption DEF TypeOK
  <2>6. JobsFit' /\ pc' \in [Procs -> Labels] /\ job' \in [Procs -> Job]
    BY <1>4, <2>5, DoneStep DEF RevokeCommit, RowsKept
  <2>7. UNCHANGED <<clock, caRow, gens, locked, caCert, pem, crl>> /\ lock' = None
    BY <1>4 DEF RevokeCommit, files
  <2>. QED
    BY <2>4, <2>6, <2>7 DEF TypeOK
<1>. QED
  BY <1>1, <1>2, <1>3, <1>4

\* The steps of revoke_ca keep types and jobs: the generation it carries
\* over the lock stays recorded.
LEMMA RevokeCaTypes ==
    ASSUME TInv, NEW p \in Procs,
           RevokeCaStart(p) \/ RevokeCaWrite(p) \/ RevokeCaCommit(p)
    PROVE  TInv'
<1>. USE DEF TInv
<1>1. CASE RevokeCaStart(p)
  <2>1. PICK g \in Gens :
           /\ gens[g] # None
           /\ Revocable(g)
           /\ Become(p, "revoke_ca", [NoJob EXCEPT !.gen = g,
                                                   !.cert = pem[Slug(g)]])
    BY <1>1 DEF RevokeCaStart, GenByCn
  <2> DEFINE j == [NoJob EXCEPT !.gen = g, !.cert = pem[Slug(g)]]
  <2>2. pem[Slug(g)] \in CaCerts
    BY <2>1, SlugType DEF Revocable, TypeOK
  <2>3. j \in Job /\ Fits("revoke_ca", j) /\ "revoke_ca" \in Labels
    BY <2>2 DEF NoJob, Job, Fits, WithGen, WithCert, Minting, Labels
  <2>4. UNCHANGED <<clock, leaf, caRow, gens, locked, caCert, pem, crl, lock>>
    BY <1>1 DEF RevokeCaStart, db, files
  <2>5. j.gen = g /\ RowsKept /\ gens' = gens
    BY <2>4 DEF RowsKept, NoJob
  <2>6. JobsFit' /\ pc' \in [Procs -> Labels] /\ job' \in [Procs -> Job]
    BY <2>1, <2>3, <2>5, FitStep
  <2>. QED
    BY <2>4, <2>6 DEF TypeOK
<1>2. CASE RevokeCaWrite(p)
  <2>1. /\ job[p].gen \in Gens /\ job[p].cert \in CaCerts /\ job[p] \in Job
        /\ gens[job[p].gen] # None
    BY <1>2
    DEF RevokeCaWrite, AtLock, JobsFit, Fits, WithCert, WithGen, TypeOK, RevokingCa
  <2>2. crl' = [crl EXCEPT ![Root] =
                  NewCrl(crl[Root], Kept(crl[Root]) \cup {job[p].cert}, Root)]
    BY <1>2 DEF RevokeCaWrite
  <2>3. crl[Root] \in Crl
    BY <1>2 DEF RevokeCaWrite, MayPublish, TypeOK
  <2>4. NewCrl(crl[Root], Kept(crl[Root]) \cup {job[p].cert}, Root) \in Crl
    BY <2>1, <2>3, NewCrlType
  <2>5. crl' \in [Slugs \cup {Root} -> Crl \cup {None}]
    BY <2>2, <2>4 DEF TypeOK
  <2>6. /\ job[p] \in Job /\ Fits("revoke_ca_commit", job[p])
        /\ "revoke_ca_commit" \in Labels
    BY <2>1 DEF Fits, WithGen, WithCert, Minting, Labels
  <2>7. UNCHANGED <<clock, leaf, caRow, gens, locked, caCert, pem>> /\ lock' = p
    BY <1>2 DEF RevokeCaWrite, db
  <2>8. JobsFit' /\ pc' \in [Procs -> Labels] /\ job' \in [Procs -> Job]
    BY <1>2, <2>1, <2>6, <2>7, FitStep DEF RevokeCaWrite, RowsKept
  <2>. QED
    BY <2>5, <2>7, <2>8 DEF TypeOK
<1>3. CASE RevokeCaCommit(p)
  <2>1. /\ job[p].gen \in Gens /\ job[p].cert \in CaCerts
        /\ gens[job[p].gen] # None
    BY <1>3 DEF RevokeCaCommit, JobsFit, Fits, WithCert, WithGen, RevokingCa
  <2>2. caRow' \in [CaCerts -> {"absent", "active", "revoked"}]
    BY <1>3 DEF RevokeCaCommit, TypeOK
  <2>3. UNCHANGED <<clock, leaf, locked, caCert, pem, crl>> /\ lock' = None
    BY <1>3 DEF RevokeCaCommit, files
  <2> DEFINE row == [gens[job[p].gen] EXCEPT !.status = "revoked"]
  <2>4. row \in GenRow /\ gens' = [gens EXCEPT ![job[p].gen] = row]
    BY <1>3, <2>1 DEF RevokeCaCommit, TypeOK, GenRow
  <2>5. gens' \in [Gens -> GenRow \cup {None}]
    BY <2>4 DEF TypeOK
  <2>6. RowsKept
    BY <2>3, <2>4, AbsentAssumption DEF RowsKept, TypeOK
  <2>7. JobsFit' /\ pc' \in [Procs -> Labels] /\ job' \in [Procs -> Job]
    BY <1>3, <2>6, DoneStep DEF RevokeCaCommit
  <2>. QED
    BY <2>2, <2>3, <2>5, <2>7 DEF TypeOK
<1>. QED
  BY <1>1, <1>2, <1>3

\* The steps of refresh_crl keep types and jobs: each job names a slug and
\* the certificate that signs its CRL.
LEMMA RefreshTypes ==
    ASSUME TInv, NEW p \in Procs,
           \/ RefreshStart(p) \/ RefreshLock(p)
           \/ RefreshWrite(p) \/ RefreshCommit(p)
    PROVE  TInv'
<1>. USE DEF TInv
<1>1. CASE RefreshStart(p)
  <2>1. PICK scope \in {SigningJobs, RootJobs, SigningJobs \cup RootJobs} :
           Become(p, "refresh", [NoJob EXCEPT !.todo = scope])
    BY <1>1 DEF RefreshStart
  <2>2. scope \in SUBSET ((Slugs \X CaCerts) \cup {<<Root, Root>>})
    <3>1. SigningJobs \in SUBSET (Slugs \X CaCerts)
      BY SlugType DEF SigningJobs, Unexpired, LiveGens, TypeOK
    <3>2. RootJobs \in SUBSET {<<Root, Root>>}
      BY DEF RootJobs
    <3>. QED
      BY <3>1, <3>2
  <2> DEFINE j == [NoJob EXCEPT !.todo = scope]
  <2>3. j \in Job /\ Fits("refresh", j) /\ "refresh" \in Labels
    BY <2>2 DEF NoJob, Job, Fits, WithGen, WithCert, Minting, Labels
  <2>4. UNCHANGED <<clock, leaf, caRow, gens, locked, caCert, pem, crl, lock>>
    BY <1>1 DEF RefreshStart, db, files
  <2>5. JobsFit' /\ pc' \in [Procs -> Labels] /\ job' \in [Procs -> Job]
    BY <2>1, <2>3, <2>4, FitStep DEF RowsKept, RevokingCa
  <2>. QED
    BY <2>4, <2>5 DEF TypeOK
<1>2. CASE RefreshLock(p)
  <2>1. job[p] \in Job /\ Fits("refresh_write", job[p]) /\ "refresh_write" \in Labels
    BY DEF TypeOK, Fits, WithGen, WithCert, Minting, Labels
  <2>2. /\ UNCHANGED <<clock, leaf, caRow, gens, locked, caCert, pem, crl>>
        /\ lock' = p
    BY <1>2 DEF RefreshLock, db, files
  <2>3. JobsFit' /\ pc' \in [Procs -> Labels] /\ job' \in [Procs -> Job]
    BY <1>2, <2>1, <2>2, FitStep DEF RefreshLock, RowsKept, RevokingCa
  <2>. QED
    BY <2>2, <2>3 DEF TypeOK
<1>3. CASE RefreshWrite(p)
  <2>1. PICK j \in job[p].todo :
          /\ MayPublish(j[1])
          /\ crl' = [crl EXCEPT ![j[1]] =
                       NewCrl(crl[j[1]], Kept(crl[j[1]]), j[2])]
          /\ Become(p, "refresh_write", [job[p] EXCEPT !.todo = @ \ {j}])
    BY <1>3 DEF RefreshWrite
  <2>2. /\ job[p] \in Job
        /\ job[p].todo \in SUBSET ((Slugs \X CaCerts) \cup {<<Root, Root>>})
    BY DEF TypeOK, Job
  <2>3. j[1] \in Slugs \cup {Root} /\ j[2] \in CaCerts \cup {Root}
    BY <2>2
  <2>4. crl[j[1]] \in Crl
    BY <2>1, <2>3 DEF MayPublish, TypeOK
  <2>5. crl' \in [Slugs \cup {Root} -> Crl \cup {None}]
    <3>1. NewCrl(crl[j[1]], Kept(crl[j[1]]) \cup {}, j[2]) \in Crl
      BY <2>3, <2>4, NewCrlType
    <3>2. Kept(crl[j[1]]) \cup {} = Kept(crl[j[1]])
      OBVIOUS
    <3>. QED
      BY <2>1, <3>1, <3>2 DEF TypeOK
  <2> DEFINE k == [job[p] EXCEPT !.todo = @ \ {j}]
  <2>6. k \in Job /\ Fits("refresh_write", k) /\ "refresh_write" \in Labels
    BY <2>2 DEF Job, Fits, WithGen, WithCert, Minting, Labels
  <2>7. UNCHANGED <<clock, leaf, caRow, gens, locked, caCert, pem, lock>>
    BY <1>3 DEF RefreshWrite, db
  <2>8. JobsFit' /\ pc' \in [Procs -> Labels] /\ job' \in [Procs -> Job]
    BY <2>1, <2>6, <2>7, FitStep DEF RowsKept, RevokingCa
  <2>. QED
    BY <2>5, <2>7, <2>8 DEF TypeOK
<1>4. CASE RefreshCommit(p)
  <2>1. /\ UNCHANGED <<clock, leaf, caRow, gens, locked, caCert, pem, crl>>
        /\ lock' = None
    BY <1>4 DEF RefreshCommit, db, files
  <2>2. JobsFit' /\ pc' \in [Procs -> Labels] /\ job' \in [Procs -> Job]
    BY <1>4, <2>1, DoneStep DEF RefreshCommit, RowsKept
  <2>. QED
    BY <2>1, <2>2 DEF TypeOK
<1>. QED
  BY <1>1, <1>2, <1>3, <1>4

\* ensure_ca_index writes rows of the index and deletes none.
LEMMA BackfillType ==
    ASSUME TypeOK
    PROVE  /\ Backfilled \in [Gens -> GenRow \cup {None}]
           /\ \A g \in Gens : gens[g] # None => Backfilled[g] = gens[g]
<1>1. \A g \in Gens : [cn |-> ConfigCn[g[1]], status |-> "active"] \in GenRow
  BY PurposeAssumption DEF Gens, GenRow
<1>2. Backfilled \in [Gens -> GenRow \cup {None}]
  BY <1>1 DEF Backfilled, TypeOK
<1>3. \A g \in Gens : gens[g] # None => Backfilled[g] = gens[g]
  BY DEF Backfilled, Backfill
<1>. QED
  BY <1>2, <1>3

\* Retiring the incumbent writes rows and deletes none.
LEMMA RetiredType ==
    ASSUME TypeOK, NEW pu \in Purposes
    PROVE  /\ Retired(pu) \in [Gens -> GenRow \cup {None}]
           /\ \A g \in Gens : gens[g] # None => Retired(pu)[g] # None
<1>1. \A g \in ActiveGens(pu) : /\ gens[g] \in GenRow
                                /\ [gens[g] EXCEPT !.status = "retiring"] \in GenRow
  BY DEF ActiveGens, TypeOK, GenRow
<1>. QED
  BY <1>1, AbsentAssumption DEF Retired, TypeOK

\* The steps of renew_signing_ca and add_signing_ca keep types and jobs:
\* a generation is minted within its bound, under a CN of the configuration.
LEMMA CeremonyTypes ==
    ASSUME TInv, NEW p \in Procs,
           \/ RenewStart(p) \/ RenewPem(p) \/ RenewCrl(p) \/ RenewCommit(p)
           \/ AddStart(p) \/ AddPem(p) \/ AddCrl(p) \/ AddCommit(p)
           \/ CeremonyConflict(p)
    PROVE  TInv'
<1>. USE DEF TInv
<1>1. CASE RenewStart(p)
  <2>1. PICK pu \in locked, cn \in NewCns, g \in Gens :
           /\ ActiveCa(pu, g)
           /\ g[2] < MaxGen
           /\ Become(p, "renew_pem", [NoJob EXCEPT !.gen = Successor(g),
                                                   !.who = cn])
    BY <1>1 DEF RenewStart
  <2> DEFINE j == [NoJob EXCEPT !.gen = Successor(g), !.who = cn]
  <2>2. Successor(g) \in Gens /\ cn \in CaNames
    BY <2>1, PurposeAssumption, NumberAssumption DEF Successor, Gens
  <2>3. j \in Job /\ Fits("renew_pem", j) /\ "renew_pem" \in Labels
    BY <2>2 DEF NoJob, Job, Fits, WithGen, WithCert, Minting, Labels
  <2>4. UNCHANGED <<clock, leaf, caRow, gens, locked, caCert, pem, crl, lock>>
    BY <1>1 DEF RenewStart, db, files
  <2>5. JobsFit' /\ pc' \in [Procs -> Labels] /\ job' \in [Procs -> Job]
    BY <2>1, <2>3, <2>4, FitStep DEF RowsKept, RevokingCa
  <2>. QED
    BY <2>4, <2>5 DEF TypeOK
<1>2. CASE AddStart(p)
  <2>1. gens' \in [Gens -> GenRow \cup {None}] /\ RowsKept
    BY <1>2, BackfillType DEF AddStart, RowsKept
  <2>2. UNCHANGED <<clock, leaf, caRow, locked, caCert, pem, crl, lock>>
    BY <1>2 DEF AddStart, files
  <2>3. JobsFit' /\ pc' \in [Procs -> Labels] /\ job' \in [Procs -> Job]
    <3>1. CASE Done(p)
      BY <2>1, <3>1, DoneStep
    <3>2. ASSUME NEW pu \in Purposes,
                 Become(p, "add_pem", [NoJob EXCEPT !.gen = <<pu, 1>>,
                                                    !.who = ConfigCn[pu]])
          PROVE  JobsFit' /\ pc' \in [Procs -> Labels] /\ job' \in [Procs -> Job]
      <4> DEFINE j == [NoJob EXCEPT !.gen = <<pu, 1>>, !.who = ConfigCn[pu]]
      <4>1. <<pu, 1>> \in Gens /\ ConfigCn[pu] \in CaNames
        BY PurposeAssumption, NumberAssumption DEF Gens
      <4>2. j \in Job /\ Fits("add_pem", j) /\ "add_pem" \in Labels
        BY <4>1 DEF NoJob, Job, Fits, WithGen, WithCert, Minting, Labels
      <4>. QED
        BY <2>1, <3>2, <4>2, FitStep DEF RevokingCa
    <3>. QED
      BY <1>2, <3>1, <3>2 DEF AddStart
  <2>. QED
    BY <2>1, <2>2, <2>3 DEF TypeOK
<1>3. ASSUME NEW from \in {"renew_pem", "add_pem"},
             NEW to \in {"renew_crl", "add_crl"},
             MintPem(p, from, to)
      PROVE  TInv'
  <2>1. PICK c \in CaCerts :
          /\ caCert' = [caCert EXCEPT ![c] =
                          [gen |-> job[p].gen, cn |-> job[p].who,
                           notAfter |-> clock + CaLife]]
          /\ pem' = [pem EXCEPT ![Slug(job[p].gen)] = c]
          /\ Become(p, to, [job[p] EXCEPT !.cert = c])
    BY <1>3 DEF MintPem
  <2>2. pc[p] = from
    BY <1>3 DEF MintPem
  <2>3. job[p] \in Job /\ job[p].gen \in Gens /\ job[p].who \in CaNames
    BY <2>2 DEF JobsFit, Fits, WithGen, Minting, TypeOK
  <2>4. caCert' \in [CaCerts -> CaCertificate \cup {None}]
    BY <2>1, <2>3, NumberAssumption DEF TypeOK, CaCertificate
  <2>5. pem' \in [Slugs -> CaCerts \cup {None}]
    BY <2>1 DEF TypeOK
  <2> DEFINE j == [job[p] EXCEPT !.cert = c]
  <2>6. j \in Job /\ Fits(to, j) /\ to \in Labels
    BY <2>3 DEF Job, Fits, WithGen, WithCert, Minting, Labels
  <2>7. UNCHANGED <<clock, leaf, caRow, gens, locked, crl, lock>>
    BY <1>3 DEF MintPem, db
  <2>8. JobsFit' /\ pc' \in [Procs -> Labels] /\ job' \in [Procs -> Job]
    BY <2>1, <2>6, <2>7, FitStep DEF RowsKept, RevokingCa
  <2>. QED
    BY <2>4, <2>5, <2>7, <2>8 DEF TypeOK
<1>4. ASSUME NEW from \in {"renew_crl", "add_crl"},
             NEW to \in {"renew_commit", "add_commit"},
             MintCrl(p, from, to)
      PROVE  TInv'
  <2>1. /\ pc[p] = from
        /\ crl' = [crl EXCEPT ![Slug(job[p].gen)] = EmptyCrl(job[p].cert)]
        /\ Become(p, to, job[p])
    BY <1>4 DEF MintCrl
  <2>2. /\ job[p] \in Job /\ job[p].gen \in Gens
        /\ job[p].cert \in CaCerts /\ job[p].who \in CaNames
    BY <2>1 DEF JobsFit, Fits, WithGen, WithCert, Minting, TypeOK
  <2>3. crl' \in [Slugs \cup {Root} -> Crl \cup {None}]
    BY <2>1, <2>2 DEF EmptyCrl, Crl, TypeOK
  <2>4. Fits(to, job[p]) /\ to \in Labels
    BY <2>2 DEF Fits, WithGen, WithCert, Minting, Labels
  <2>5. UNCHANGED <<clock, leaf, caRow, gens, locked, caCert, pem, lock>>
    BY <1>4 DEF MintCrl, db
  <2>6. JobsFit' /\ pc' \in [Procs -> Labels] /\ job' \in [Procs -> Job]
    BY <2>1, <2>2, <2>4, <2>5, FitStep DEF RowsKept, RevokingCa
  <2>. QED
    BY <2>3, <2>5, <2>6 DEF TypeOK
<1>5. CASE RenewCommit(p)
  <2>1. /\ job[p].gen \in Gens /\ job[p].cert \in CaCerts
        /\ job[p].who \in CaNames /\ job[p].gen[1] \in Purposes
    BY <1>5 DEF RenewCommit, AtLock, JobsFit, Fits, WithGen, WithCert, Minting, Gens
  <2>2. [cn |-> job[p].who, status |-> "active"] \in GenRow
    BY <2>1 DEF GenRow
  <2>3. gens' \in [Gens -> GenRow \cup {None}] /\ RowsKept
    BY <1>5, <2>1, <2>2, RetiredType, AbsentAssumption
    DEF RenewCommit, RowsKept
  <2>4. caRow' \in [CaCerts -> {"absent", "active", "revoked"}]
    BY <1>5, <2>1 DEF RenewCommit, TypeOK
  <2>5. JobsFit' /\ pc' \in [Procs -> Labels] /\ job' \in [Procs -> Job]
    BY <1>5, <2>3, DoneStep DEF RenewCommit
  <2>6. UNCHANGED <<clock, leaf, locked, caCert, pem, crl, lock>>
    BY <1>5 DEF RenewCommit, files
  <2>. QED
    BY <2>3, <2>4, <2>5, <2>6 DEF TypeOK
<1>6. CASE AddCommit(p)
  <2>1. /\ job[p].gen \in Gens /\ job[p].cert \in CaCerts
        /\ job[p].who \in CaNames /\ job[p].gen[1] \in Purposes
    BY <1>6 DEF AddCommit, AtLock, JobsFit, Fits, WithGen, WithCert, Minting, Gens
  <2>2. [cn |-> job[p].who, status |-> "active"] \in GenRow
    BY <2>1 DEF GenRow
  <2>3. gens' \in [Gens -> GenRow \cup {None}] /\ RowsKept
    BY <1>6, <2>1, <2>2, AbsentAssumption DEF AddCommit, RowsKept, TypeOK
  <2>4. /\ caRow' \in [CaCerts -> {"absent", "active", "revoked"}]
        /\ locked' \in SUBSET Purposes
    BY <1>6, <2>1 DEF AddCommit, TypeOK
  <2>5. JobsFit' /\ pc' \in [Procs -> Labels] /\ job' \in [Procs -> Job]
    BY <1>6, <2>3, DoneStep DEF AddCommit
  <2>6. UNCHANGED <<clock, leaf, caCert, pem, crl, lock>>
    BY <1>6 DEF AddCommit, files
  <2>. QED
    BY <2>3, <2>4, <2>5, <2>6 DEF TypeOK
<1>7. CASE CeremonyConflict(p)
  <2>1. UNCHANGED <<clock, leaf, caRow, gens, locked, caCert, pem, crl, lock>>
    BY <1>7 DEF CeremonyConflict, db, files
  <2>2. JobsFit' /\ pc' \in [Procs -> Labels] /\ job' \in [Procs -> Job]
    BY <1>7, <2>1, DoneStep DEF CeremonyConflict, RowsKept
  <2>. QED
    BY <2>1, <2>2 DEF TypeOK
<1>. QED
  BY <1>1, <1>2, <1>3, <1>4, <1>5, <1>6, <1>7
  DEF RenewPem, RenewCrl, AddPem, AddCrl

\* A lock timeout, a crash and the clock keep types and jobs.
LEMMA StopTypes ==
    ASSUME TInv, NEW p \in Procs, LockTimeout(p) \/ Abort(p)
    PROVE  TInv'
<1>. USE DEF TInv
<1>1. /\ UNCHANGED <<clock, leaf, caRow, gens, locked, caCert, pem, crl>>
      /\ lock' \in {lock, None}
      /\ Done(p)
  BY DEF LockTimeout, Abort, db, files
<1>2. JobsFit' /\ pc' \in [Procs -> Labels] /\ job' \in [Procs -> Job]
  BY <1>1, DoneStep DEF RowsKept
<1>. QED
  BY <1>1, <1>2 DEF TypeOK

\* Every step of every command keeps types and jobs.
THEOREM TypeStep == TInv /\ [Next]_vars => TInv'
<1>. SUFFICES ASSUME TInv, [Next]_vars PROVE TInv'
  OBVIOUS
<1>1. CASE Tick
  BY <1>1 DEF Tick, TInv, TypeOK, JobsFit, Fits, db, files, procs
<1>2. CASE UNCHANGED vars
  BY <1>2 DEF vars, TInv, TypeOK, JobsFit, Fits, db, files, procs
<1>3. ASSUME NEW p \in Procs, Start(p) \/ Step(p) \/ Abort(p)
      PROVE  TInv'
  BY <1>3, IssueTypes, RevokeTypes, RevokeCaTypes, RefreshTypes,
     CeremonyTypes, StopTypes
  DEF Start, Step
<1>. QED
  BY <1>1, <1>2, <1>3 DEF Next

\* Every variable keeps its type, and what a process carries from its
\* unlocked reads fits the step it has reached (begin_write's callers).
THEOREM TypeCorrect == Spec => []TypeOK
<1>1. Spec => []TInv
  BY TypeInit, TypeStep, PTL DEF Spec
<1>. QED
  BY <1>1, PTL DEF TInv

-----------------------------------------------------------------------------
(* One active issuer per lineage *)

Renewing == {"renew_pem", "renew_crl", "renew_commit"}
Adding == {"add_pem", "add_crl", "add_commit"}

\* The generation a process is about, against the rows of the index: a
\* renewal follows a recorded generation, an added purpose starts at 1, the
\* victim of revoke ca is not active.
PlacedIn(rows, label, j) ==
    /\ label \in Renewing => \E g \in Gens : rows[g] # None /\ j.gen = Successor(g)
    /\ label \in Adding => j.gen[2] = 1
    /\ label \in RevokingCa => rows[j.gen].status # "active"
JobsPlaced == \A p \in Procs : PlacedIn(gens, pc[p], job[p])

\* A lineage's generations are numbered without gaps.
Contiguous ==
    \A g, h \in Gens : g[1] = h[1] /\ g[2] <= h[2] /\ gens[h] # None
                          => gens[g] # None

LInv == TInv /\ JobsPlaced /\ Contiguous /\ OneActiveIssuer

\* The step relation of GenerationsOnlyAge.
Ages == \A g \in Gens : gens[g] # None =>
            /\ gens'[g] # None
            /\ gens'[g].cn = gens[g].cn
            /\ Rank(gens[g].status) <= Rank(gens'[g].status)

\* The ranks of the three statuses.
LEMMA RankOrder ==
    /\ Rank("active") = 0 /\ Rank("retiring") = 1 /\ Rank("revoked") = 2
BY DEF Rank

\* A generation that is not active never becomes active again.
LEMMA AgesStaysInactive ==
    ASSUME TypeOK, TypeOK', Ages, NEW g \in Gens, gens[g] # None,
           gens[g].status # "active"
    PROVE  gens'[g] # None /\ gens'[g].status # "active"
<1>1. /\ gens[g].status \in {"active", "retiring", "revoked"}
      /\ gens'[g] # None
      /\ gens'[g].status \in {"active", "retiring", "revoked"}
      /\ Rank(gens[g].status) <= Rank(gens'[g].status)
  BY DEF TypeOK, GenRow, Ages
<1>. QED
  BY <1>1, RankOrder

\* A process that moves to a well-placed job leaves every job well placed, as
\* long as generations only age.
LEMMA PlacedStep ==
    ASSUME NEW p \in Procs, NEW label \in Labels, NEW j \in Job,
           LInv, TypeOK', Ages, Become(p, label, j), PlacedIn(gens', label, j)
    PROVE  JobsPlaced'
<1>1. /\ pc'[p] = label /\ job'[p] = j
      /\ \A q \in Procs : q # p => pc'[q] = pc[q] /\ job'[q] = job[q]
  BY BecomeStep DEF LInv, TInv, TypeOK
<1>2. ASSUME NEW q \in Procs
      PROVE  PlacedIn(gens', pc'[q], job'[q])
  <2>1. CASE q = p
    BY <1>1, <2>1
  <2>2. CASE q # p
    <3>1. pc'[q] = pc[q] /\ job'[q] = job[q]
      BY <1>1, <2>2
    <3>2. PlacedIn(gens, pc[q], job[q])
      BY DEF LInv, JobsPlaced
    <3>3. pc[q] \in RevokingCa => job[q].gen \in Gens /\ gens[job[q].gen] # None
      BY DEF LInv, TInv, JobsFit, Fits, RevokingCa, WithGen
    <3>4. pc[q] \in RevokingCa => gens'[job[q].gen].status # "active"
      BY <3>2, <3>3, AgesStaysInactive DEF PlacedIn, LInv, TInv
    <3>5. PlacedIn(gens', pc[q], job[q])
      BY <3>2, <3>4 DEF PlacedIn, Ages
    <3>. QED
      BY <3>1, <3>5
  <2>. QED
    BY <2>1, <2>2
<1>. QED
  BY <1>2 DEF JobsPlaced, PlacedIn

\* An ended process is about no generation.
LEMMA PlacedDone ==
    ASSUME NEW p \in Procs, LInv, TypeOK', Ages, Done(p)
    PROVE  JobsPlaced'
<1>1. PlacedIn(gens', "idle", NoJob)
  BY DEF PlacedIn, Renewing, Adding, RevokingCa
<1>. QED
  BY <1>1, NoJobIsJob, PlacedStep DEF Done

\* A step that leaves the index alone keeps the lineages as they are.
LEMMA SameIndex ==
    ASSUME LInv, gens' = gens
    PROVE  Ages /\ Contiguous' /\ OneActiveIssuer'
<1>1. Ages
  <2>1. ASSUME NEW g \in Gens, gens[g] # None
        PROVE  Rank(gens[g].status) <= Rank(gens[g].status)
    <3>1. gens[g].status \in {"active", "retiring", "revoked"}
      BY <2>1 DEF LInv, TInv, TypeOK, GenRow
    <3>. QED
      BY <3>1, RankOrder
  <2>. QED
    BY <2>1 DEF Ages
<1>. QED
  BY <1>1 DEF LInv, Contiguous, OneActiveIssuer, Held, ActiveGens

\* RevokeCaCommit: the victim was not active, so no lineage loses its issuer.
LEMMA RevokeCaLineage ==
    ASSUME LInv, TInv', NEW p \in Procs, RevokeCaCommit(p)
    PROVE  Ages /\ Contiguous' /\ OneActiveIssuer'
<1> DEFINE v == job[p].gen
           row == [gens[v] EXCEPT !.status = "revoked"]
<1>1. /\ v \in Gens /\ gens[v] \in GenRow /\ gens[v] # None
      /\ gens[v].status # "active"
  BY DEF RevokeCaCommit, LInv, TInv, TypeOK, JobsFit, Fits, WithGen,
         RevokingCa, JobsPlaced, PlacedIn
<1>2. gens' = [gens EXCEPT ![v] = row]
  BY DEF RevokeCaCommit
<1>3. /\ row \in GenRow /\ row # None
      /\ row.cn = gens[v].cn /\ row.status = "revoked"
  BY <1>1, AbsentAssumption DEF GenRow
<1>4. \A g \in Gens : /\ g # v => gens'[g] = gens[g]
                      /\ gens'[v] = row
  BY <1>1, <1>2 DEF LInv, TInv, TypeOK
<1>5. Ages
  <2>1. ASSUME NEW g \in Gens, gens[g] # None
        PROVE  Rank(gens[g].status) <= Rank(gens'[g].status)
    <3>1. gens[g].status \in {"active", "retiring", "revoked"}
      BY <2>1 DEF LInv, TInv, TypeOK, GenRow
    <3>2. CASE g = v
      <4>1. Rank(gens'[g].status) = 2
        BY <1>3, <1>4, <3>2, RankOrder
      <4>. QED
        BY <3>1, <4>1, RankOrder
    <3>3. CASE g # v
      <4>1. gens'[g] = gens[g]
        BY <1>4, <3>3
      <4>. QED
        BY <3>1, <4>1, RankOrder
    <3>. QED
      BY <3>2, <3>3
  <2>. QED
    BY <1>3, <1>4, <2>1 DEF Ages
<1>6. \A g \in Gens : gens'[g] # None <=> gens[g] # None
  BY <1>1, <1>3, <1>4
<1>7. \A pu \in Purposes : ActiveGens(pu)' = ActiveGens(pu)
  BY <1>1, <1>3, <1>4 DEF ActiveGens
<1>8. Contiguous'
  BY <1>6 DEF LInv, Contiguous
<1>9. OneActiveIssuer'
  BY <1>6, <1>7 DEF LInv, OneActiveIssuer, Held
<1>. QED
  BY <1>5, <1>8, <1>9

\* RenewCommit: the successor is the next number of a lineage whose newest
\* generation is the one that retires.
LEMMA RenewLineage ==
    ASSUME LInv, TInv', NEW p \in Procs, RenewCommit(p)
    PROVE  Ages /\ Contiguous' /\ OneActiveIssuer'
<1>0. PICK n \in Gens : n = job[p].gen
  BY DEF RenewCommit, AtLock, LInv, TInv, JobsFit, Fits, WithGen
<1> DEFINE pu == n[1]
           row == [cn |-> job[p].who, status |-> "active"]
<1>1. PICK g0 \in Gens : gens[g0] # None /\ n = Successor(g0)
  BY <1>0 DEF RenewCommit, AtLock, LInv, JobsPlaced, PlacedIn, Renewing
<1>2. /\ n \in Gens /\ job[p].who \in CaNames /\ gens[n] = None
      /\ pu \in Purposes
      /\ gens' = [Retired(pu) EXCEPT ![n] = row]
  BY <1>0 DEF RenewCommit, AtLock, LInv, TInv, JobsFit, Fits, WithGen, Minting, Gens
<1>3. /\ pu = g0[1] /\ n[2] = g0[2] + 1
      /\ \A g \in Gens : g[1] \in Purposes /\ g[2] \in Nat /\ g = <<g[1], g[2]>>
  BY <1>1 DEF Successor, Gens
<1>4. row \in GenRow /\ row # None /\ row.status = "active"
  BY <1>2, AbsentAssumption DEF GenRow
<1>5. \A h \in Gens : h[1] = pu /\ gens[h] # None => h[2] < n[2]
  BY <1>2, <1>3 DEF LInv, Contiguous
<1>6. PICK a \in Gens : ActiveGens(pu) = {a}
  BY <1>1, <1>2, <1>3 DEF LInv, OneActiveIssuer, Held
<1>7. /\ a[1] = pu /\ gens[a] \in GenRow /\ gens[a] # None
      /\ gens[a].status = "active" /\ a # n
  BY <1>2, <1>6 DEF ActiveGens, LInv, TInv, TypeOK
<1> DEFINE old == [gens[a] EXCEPT !.status = "retiring"]
<1>8. /\ old \in GenRow /\ old # None
      /\ old.cn = gens[a].cn /\ old.status = "retiring"
  BY <1>7, AbsentAssumption DEF GenRow
<1>9. /\ gens'[n] = row /\ gens'[a] = old
      /\ \A g \in Gens : g \notin {n, a} => gens'[g] = gens[g]
  BY <1>2, <1>6, <1>7 DEF Retired
<1>10. Ages
  <2>1. ASSUME NEW g \in Gens, gens[g] # None
        PROVE  Rank(gens[g].status) <= Rank(gens'[g].status)
    <3>1. gens[g].status \in {"active", "retiring", "revoked"}
      BY <2>1 DEF LInv, TInv, TypeOK, GenRow
    <3>2. CASE g = a
      <4>1. gens[g].status = "active" /\ gens'[g].status = "retiring"
        BY <1>7, <1>8, <1>9, <3>2
      <4>. QED
        BY <4>1, RankOrder
    <3>3. CASE g # a
      <4>1. gens'[g] = gens[g]
        BY <1>2, <1>9, <2>1, <3>3
      <4>. QED
        BY <3>1, <4>1, RankOrder
    <3>. QED
      BY <3>2, <3>3
  <2>. QED
    BY <1>2, <1>8, <1>9, <2>1 DEF Ages
<1>11. \A g \in Gens : gens'[g] # None <=> (gens[g] # None \/ g = n)
  BY <1>4, <1>7, <1>8, <1>9
<1>12. ActiveGens(pu)' = {n}
  <2>1. gens'[a].status # "active"
    BY <1>8, <1>9
  <2>2. \A g \in Gens : g \notin {n, a} /\ g[1] = pu /\ gens[g] # None
                          => gens'[g].status # "active"
    BY <1>6, <1>9 DEF ActiveGens
  <2>3. gens'[n] # None /\ gens'[n].status = "active"
    BY <1>4, <1>9
  <2>4. \A g \in Gens : g[1] = pu /\ gens'[g] # None
                            /\ gens'[g].status = "active" <=> g = n
    BY <1>11, <2>1, <2>2, <2>3
  <2>. QED
    BY <2>4 DEF ActiveGens
<1>13. \A q \in Purposes : q # pu => ActiveGens(q)' = ActiveGens(q)
  BY <1>2, <1>7, <1>9 DEF ActiveGens
<1>14. Contiguous'
  <2>1. ASSUME NEW g \in Gens, NEW h \in Gens,
               g[1] = h[1], g[2] <= h[2], gens'[h] # None
        PROVE  gens'[g] # None
    <3>1. CASE h = n
      <4>1. g = n \/ g[2] <= g0[2]
        BY <1>2, <1>3, <2>1, <3>1
      <4>. QED
        BY <1>1, <1>3, <1>11, <2>1, <3>1, <4>1 DEF LInv, Contiguous
    <3>2. CASE h # n
      BY <1>11, <2>1, <3>2 DEF LInv, Contiguous
    <3>. QED
      BY <3>1, <3>2
  <2>. QED
    BY <2>1 DEF Contiguous
<1>15. OneActiveIssuer'
  <2>1. ASSUME NEW q \in Purposes, Held(q)'
        PROVE  \E g \in Gens : /\ ActiveGens(q)' = {g}
                               /\ \A h \in Gens : h[1] = q /\ gens'[h] # None
                                                    => h[2] <= g[2]
    <3>1. CASE q = pu
      <4>1. \A h \in Gens : h[1] = pu /\ gens'[h] # None => h[2] <= n[2]
        BY <1>2, <1>3, <1>5, <1>11
      <4>. QED
        BY <1>2, <1>12, <3>1, <4>1
    <3>2. CASE q # pu
      <4>1. Held(q)
        BY <1>11, <2>1, <3>2 DEF Held
      <4>. QED
        BY <1>11, <1>13, <3>2, <4>1 DEF LInv, OneActiveIssuer
    <3>. QED
      BY <3>1, <3>2
  <2>. QED
    BY <2>1 DEF OneActiveIssuer
<1>. QED
  BY <1>10, <1>14, <1>15

\* AddCommit: the purpose had no generation, its first one becomes active.
LEMMA AddLineage ==
    ASSUME LInv, TInv', NEW p \in Procs, AddCommit(p)
    PROVE  Ages /\ Contiguous' /\ OneActiveIssuer'
<1>1. PICK n \in Gens : n = job[p].gen
  BY DEF AddCommit, AtLock, LInv, TInv, JobsFit, Fits, WithGen
<1> DEFINE pu == n[1]
           row == [cn |-> job[p].who, status |-> "active"]
<1>2. /\ n[2] = 1 /\ pu \in Purposes /\ job[p].who \in CaNames
      /\ gens[n] = None /\ gens' = [gens EXCEPT ![n] = row]
  BY <1>1 DEF AddCommit, AtLock, LInv, JobsPlaced, PlacedIn, Adding,
              TInv, JobsFit, Fits, Minting, Gens
<1>3. row \in GenRow /\ row # None /\ row.status = "active"
  BY <1>2, AbsentAssumption DEF GenRow
<1>4. gens'[n] = row /\ \A g \in Gens : g # n => gens'[g] = gens[g]
  BY <1>2 DEF LInv, TInv, TypeOK
<1>5. \A h \in Gens : h[1] = pu => gens[h] = None
  <2>1. \A h \in Gens : h[2] \in Nat /\ 1 <= h[2]
    BY DEF Gens
  <2>. QED
    BY <1>2, <2>1 DEF LInv, Contiguous
<1>6. \A g \in Gens : gens[g] # None => gens'[g] = gens[g]
  BY <1>2, <1>4
<1>7. Ages
  <2>1. ASSUME NEW g \in Gens, gens[g] # None
        PROVE  Rank(gens[g].status) <= Rank(gens[g].status)
    <3>1. gens[g].status \in {"active", "retiring", "revoked"}
      BY <2>1 DEF LInv, TInv, TypeOK, GenRow
    <3>. QED
      BY <3>1, RankOrder
  <2>. QED
    BY <1>6, <2>1 DEF Ages
<1>8. \A g \in Gens : g[1] = pu /\ gens'[g] # None => g = n
  BY <1>4, <1>5
<1>9. ActiveGens(pu)' = {n}
  BY <1>2, <1>3, <1>4, <1>8 DEF ActiveGens
<1>10. \A q \in Purposes : q # pu => ActiveGens(q)' = ActiveGens(q)
  BY <1>2, <1>4 DEF ActiveGens
<1>11. Contiguous'
  <2>1. ASSUME NEW g \in Gens, NEW h \in Gens,
               g[1] = h[1], g[2] <= h[2], gens'[h] # None
        PROVE  gens'[g] # None
    <3>1. CASE h[1] = pu
      <4>1. h = n /\ g = n
        BY <1>2, <1>8, <2>1, <3>1 DEF Gens
      <4>. QED
        BY <1>3, <1>4, <4>1
    <3>2. CASE h[1] # pu
      BY <1>2, <1>4, <2>1, <3>2 DEF LInv, Contiguous
    <3>. QED
      BY <3>1, <3>2
  <2>. QED
    BY <2>1 DEF Contiguous
<1>12. OneActiveIssuer'
  <2>1. ASSUME NEW q \in Purposes, Held(q)'
        PROVE  \E g \in Gens : /\ ActiveGens(q)' = {g}
                               /\ \A h \in Gens : h[1] = q /\ gens'[h] # None
                                                    => h[2] <= g[2]
    <3>1. CASE q = pu
      BY <1>2, <1>8, <1>9, <3>1
    <3>2. CASE q # pu
      <4>1. \A h \in Gens : h[1] = q => gens'[h] = gens[h]
        BY <1>4, <3>2
      <4>2. Held(q)
        BY <2>1, <4>1 DEF Held
      <4>. QED
        BY <1>10, <3>2, <4>1, <4>2 DEF LInv, OneActiveIssuer
    <3>. QED
      BY <3>1, <3>2
  <2>. QED
    BY <2>1 DEF OneActiveIssuer
<1>. QED
  BY <1>7, <1>11, <1>12

\* AddStart: ensure_ca_index gives a first, active generation to lineages
\* that had none.
LEMMA BackfillLineage ==
    ASSUME LInv, TInv', gens' = Backfilled
    PROVE  Ages /\ Contiguous' /\ OneActiveIssuer'
<1> DEFINE row(g) == [cn |-> ConfigCn[g[1]], status |-> "active"]
<1>1. \A g \in Gens : row(g) \in GenRow /\ row(g) # None /\ row(g).status = "active"
  BY PurposeAssumption, AbsentAssumption DEF Gens, GenRow
<1>2. \A g \in Gens : gens'[g] = IF Backfill(g) THEN row(g) ELSE gens[g]
  BY DEF Backfilled
<1>3. \A g \in Gens : Backfill(g) =>
         g[2] = 1 /\ \A h \in Gens : h[1] = g[1] => gens[h] = None
  BY DEF Backfill
<1>4. \A g \in Gens : gens[g] # None => gens'[g] = gens[g]
  BY <1>2, <1>3
<1>5. Ages
  <2>1. ASSUME NEW g \in Gens, gens[g] # None
        PROVE  Rank(gens[g].status) <= Rank(gens[g].status)
    <3>1. gens[g].status \in {"active", "retiring", "revoked"}
      BY <2>1 DEF LInv, TInv, TypeOK, GenRow
    <3>. QED
      BY <3>1, RankOrder
  <2>. QED
    BY <1>4, <2>1 DEF Ages
<1>6. ASSUME NEW b \in Gens, Backfill(b)
      PROVE  /\ ActiveGens(b[1])' = {b}
             /\ \A g \in Gens : g[1] = b[1] /\ gens'[g] # None => g = b
  <2>1. \A g \in Gens : g[1] = b[1] /\ gens'[g] # None => g = b
    <3>1. \A g \in Gens : g[1] = b[1] /\ Backfill(g) => g = b
      BY <1>3, <1>6 DEF Gens
    <3>. QED
      BY <1>2, <1>3, <1>6, <3>1
  <2>2. gens'[b] = row(b)
    BY <1>2, <1>6
  <2>3. \A g \in Gens : g[1] = b[1] /\ gens'[g] # None
                          /\ gens'[g].status = "active" <=> g = b
    BY <1>1, <2>1, <2>2
  <2>. QED
    BY <2>1, <2>3 DEF ActiveGens
<1>7. ASSUME NEW q \in Purposes, \A b \in Gens : b[1] = q => ~Backfill(b)
      PROVE  \A g \in Gens : g[1] = q => gens'[g] = gens[g]
  BY <1>2, <1>7
<1>8. Contiguous'
  <2>1. ASSUME NEW g \in Gens, NEW h \in Gens,
               g[1] = h[1], g[2] <= h[2], gens'[h] # None
        PROVE  gens'[g] # None
    <3>1. CASE \E b \in Gens : b[1] = h[1] /\ Backfill(b)
      <4>1. PICK b \in Gens : b[1] = h[1] /\ Backfill(b)
        BY <3>1
      <4>2. h = b /\ b[2] = 1
        BY <1>3, <1>6, <2>1, <4>1
      <4>3. g = h
        BY <2>1, <4>2 DEF Gens
      <4>. QED
        BY <2>1, <4>3
    <3>2. CASE ~\E b \in Gens : b[1] = h[1] /\ Backfill(b)
      <4>1. h[1] \in Purposes
        BY DEF Gens
      <4>2. gens'[g] = gens[g] /\ gens'[h] = gens[h]
        BY <1>7, <2>1, <3>2, <4>1
      <4>. QED
        BY <2>1, <4>2 DEF LInv, Contiguous
    <3>. QED
      BY <3>1, <3>2
  <2>. QED
    BY <2>1 DEF Contiguous
<1>9. OneActiveIssuer'
  <2>1. ASSUME NEW q \in Purposes, Held(q)'
        PROVE  \E g \in Gens : /\ ActiveGens(q)' = {g}
                               /\ \A h \in Gens : h[1] = q /\ gens'[h] # None
                                                    => h[2] <= g[2]
    <3>1. CASE \E b \in Gens : b[1] = q /\ Backfill(b)
      <4>1. PICK b \in Gens : b[1] = q /\ Backfill(b)
        BY <3>1
      <4>2. b[2] <= b[2]
        BY DEF Gens
      <4>. QED
        BY <1>6, <4>1, <4>2
    <3>2. CASE ~\E b \in Gens : b[1] = q /\ Backfill(b)
      <4>1. \A h \in Gens : h[1] = q => gens'[h] = gens[h]
        BY <1>7, <3>2
      <4>2. Held(q)
        BY <2>1, <4>1 DEF Held
      <4>3. ActiveGens(q)' = ActiveGens(q)
        BY <4>1 DEF ActiveGens
      <4>. QED
        BY <4>1, <4>2, <4>3 DEF LInv, OneActiveIssuer
    <3>. QED
      BY <3>1, <3>2
  <2>. QED
    BY <2>1 DEF OneActiveIssuer
<1>. QED
  BY <1>5, <1>8, <1>9

\* Issuing, revoking a leaf and refreshing leave the generations alone
\* (issue_ee, revoke, refresh_crl).
LEMMA OtherCommandsPlaced ==
    ASSUME LInv, TInv', NEW p \in Procs,
           \/ IssueStart(p) \/ IssueCommit(p) \/ IssueRefused(p)
           \/ RevokeStart(p) \/ RevokeWrite(p) \/ RevokeGone(p) \/ RevokeCommit(p)
           \/ RefreshStart(p) \/ RefreshLock(p) \/ RefreshWrite(p)
           \/ RefreshCommit(p)
    PROVE  gens' = gens /\ JobsPlaced'
<1> DEFINE others == {"idle", "issue", "revoke", "revoke_commit", "refresh",
                      "refresh_write"}
<1>1. gens' = gens
  BY DEF IssueStart, IssueCommit, IssueRefused, RevokeStart, RevokeWrite,
         RevokeGone, RevokeCommit, RefreshStart, RefreshLock, RefreshWrite,
         RefreshCommit, db
<1>2. \E label \in others : \E j : Become(p, label, j)
  BY DEF IssueStart, IssueCommit, IssueRefused, RevokeStart, RevokeWrite,
         RevokeGone, RevokeCommit, RefreshStart, RefreshLock, RefreshWrite,
         RefreshCommit, Done
<1>3. PICK label \in others : pc' = [pc EXCEPT ![p] = label]
                              /\ \E j : job' = [job EXCEPT ![p] = j]
  BY <1>2 DEF Become
<1>4. /\ pc \in [Procs -> Labels] /\ job \in [Procs -> Job]
      /\ JobsPlaced
  BY DEF LInv, TInv, TypeOK
<1>5. /\ \A q \in Procs : q # p => pc'[q] = pc[q] /\ job'[q] = job[q]
      /\ pc'[p] \in others
  BY <1>3, <1>4
<1>6. ASSUME NEW q \in Procs
      PROVE  PlacedIn(gens, pc'[q], job'[q])
  <2>1. CASE q = p
    BY <1>5, <2>1 DEF PlacedIn, Renewing, Adding, RevokingCa
  <2>2. CASE q # p
    BY <1>4, <1>5, <2>2 DEF JobsPlaced
  <2>. QED
    BY <2>1, <2>2
<1>7. JobsPlaced'
  BY <1>1, <1>6 DEF JobsPlaced, PlacedIn
<1>. QED
  BY <1>1, <1>7

\* The ceremonies and CA revocations, step by step.
LEMMA CeremoniesPlaced ==
    ASSUME LInv, TInv', NEW p \in Procs,
           \/ RevokeCaStart(p) \/ RevokeCaWrite(p)
           \/ RenewStart(p) \/ RenewPem(p) \/ RenewCrl(p)
           \/ AddPem(p) \/ AddCrl(p)
           \/ CeremonyConflict(p) \/ LockTimeout(p) \/ Abort(p)
    PROVE  gens' = gens /\ JobsPlaced'
<1>1. gens' = gens
  BY DEF RevokeCaStart, RevokeCaWrite, RenewStart, RenewPem, RenewCrl, AddPem,
         AddCrl, MintPem, MintCrl, CeremonyConflict, LockTimeout, Abort, db
<1>2. Ages /\ TypeOK'
  BY <1>1, SameIndex DEF TInv
<1>3. CASE RevokeCaStart(p)
  <2>1. PICK g \in Gens :
           /\ gens[g] # None
           /\ Revocable(g)
           /\ Become(p, "revoke_ca", [NoJob EXCEPT !.gen = g,
                                                   !.cert = pem[Slug(g)]])
    BY <1>3 DEF RevokeCaStart, GenByCn
  <2> DEFINE j == [NoJob EXCEPT !.gen = g, !.cert = pem[Slug(g)]]
  <2>2. gens[g].status # "active"
    <3>1. SUFFICES ASSUME gens[g].status = "active" PROVE FALSE
      OBVIOUS
    <3>2. g[1] \in Purposes /\ Held(g[1]) /\ g \in ActiveGens(g[1])
      BY <2>1, <3>1 DEF Gens, Held, ActiveGens
    <3>3. PICK a \in Gens : ActiveGens(g[1]) = {a}
      BY <3>2 DEF LInv, OneActiveIssuer
    <3>4. a = g /\ g[2] <= g[2]
      BY <3>2, <3>3 DEF Gens
    <3>. QED
      BY <2>1, <3>2, <3>3, <3>4 DEF Revocable, ActiveCa
  <2>3. j \in Job /\ j.gen = g
    BY <2>1, SlugType DEF Revocable, NoJob, Job, LInv, TInv, TypeOK
  <2>4. PlacedIn(gens', "revoke_ca", j)
    BY <1>1, <2>2, <2>3 DEF PlacedIn, Renewing, Adding
  <2>. QED
    BY <1>1, <1>2, <2>1, <2>3, <2>4, PlacedStep DEF Labels
<1>4. CASE RevokeCaWrite(p)
  <2>1. PlacedIn(gens, "revoke_ca", job[p])
    BY <1>4 DEF RevokeCaWrite, AtLock, LInv, JobsPlaced
  <2>2. PlacedIn(gens', "revoke_ca_commit", job[p]) /\ job[p] \in Job
    BY <1>1, <2>1 DEF PlacedIn, Renewing, Adding, RevokingCa, LInv, TInv, TypeOK
  <2>. QED
    BY <1>1, <1>2, <1>4, <2>2, PlacedStep DEF RevokeCaWrite, Labels
<1>5. CASE RenewStart(p)
  <2>1. PICK pu \in locked, cn \in NewCns, g \in Gens :
           /\ ActiveCa(pu, g)
           /\ g[2] < MaxGen
           /\ Become(p, "renew_pem", [NoJob EXCEPT !.gen = Successor(g),
                                                   !.who = cn])
    BY <1>5 DEF RenewStart
  <2> DEFINE j == [NoJob EXCEPT !.gen = Successor(g), !.who = cn]
  <2>2. Successor(g) \in Gens /\ cn \in CaNames /\ gens[g] # None
    BY <2>1, PurposeAssumption, NumberAssumption
    DEF Successor, Gens, ActiveCa, ActiveGens
  <2>3. j \in Job /\ j.gen = Successor(g)
    BY <2>2 DEF NoJob, Job
  <2>4. PlacedIn(gens', "renew_pem", j)
    BY <1>1, <2>2, <2>3 DEF PlacedIn, Adding, RevokingCa
  <2>. QED
    BY <1>1, <1>2, <2>1, <2>3, <2>4, PlacedStep DEF Labels
<1>6. ASSUME NEW from \in {"renew_pem", "add_pem"},
             NEW to \in {"renew_crl", "add_crl"},
             from = "renew_pem" <=> to = "renew_crl",
             MintPem(p, from, to)
      PROVE  JobsPlaced'
  <2>1. PICK c \in CaCerts : Become(p, to, [job[p] EXCEPT !.cert = c])
    BY <1>6 DEF MintPem
  <2> DEFINE j == [job[p] EXCEPT !.cert = c]
  <2>0. job[p] \in Job
    BY DEF LInv, TInv, TypeOK
  <2>2. j \in Job /\ j.gen = job[p].gen
    BY <2>0 DEF Job
  <2>3. PlacedIn(gens, from, job[p])
    BY <1>6 DEF MintPem, LInv, JobsPlaced
  <2>4. PlacedIn(gens', to, j)
    BY <1>1, <1>6, <2>2, <2>3 DEF PlacedIn, Renewing, Adding, RevokingCa
  <2>. QED
    BY <1>1, <1>2, <2>1, <2>2, <2>4, PlacedStep DEF Labels
<1>7. ASSUME NEW from \in {"renew_crl", "add_crl"},
             NEW to \in {"renew_commit", "add_commit"},
             from = "renew_crl" <=> to = "renew_commit",
             MintCrl(p, from, to)
      PROVE  JobsPlaced'
  <2>1. PlacedIn(gens, from, job[p]) /\ job[p] \in Job /\ Become(p, to, job[p])
    BY <1>7 DEF MintCrl, LInv, JobsPlaced, TInv, TypeOK
  <2>2. PlacedIn(gens', to, job[p])
    BY <1>1, <1>7, <2>1 DEF PlacedIn, Renewing, Adding, RevokingCa
  <2>. QED
    BY <1>1, <1>2, <2>1, <2>2, PlacedStep DEF Labels
<1>8. CASE CeremonyConflict(p) \/ LockTimeout(p) \/ Abort(p)
  BY <1>1, <1>2, <1>8, PlacedDone DEF CeremonyConflict, LockTimeout, Abort
<1>. QED
  BY <1>1, <1>3, <1>4, <1>5, <1>6, <1>7, <1>8
  DEF RenewPem, RenewCrl, AddPem, AddCrl

\* The init ceremony leaves one active generation per purpose, the first.
THEOREM LineageInit == Init => LInv
<1>. SUFFICES ASSUME Init PROVE LInv
  OBVIOUS
<1>1. TInv
  BY TypeInit
<1>2. JobsPlaced
  BY DEF Init, JobsPlaced, PlacedIn, Renewing, Adding, RevokingCa
<1> DEFINE row(g) == [cn |-> ConfigCn[g[1]], status |-> "active"]
<1>3. \A g \in Gens : gens[g] = IF g[1] \in InitPurposes /\ g[2] = 1
                                THEN row(g) ELSE None
  BY DEF Init
<1>4. \A g \in Gens : row(g) # None /\ row(g).status = "active"
  BY PurposeAssumption, AbsentAssumption DEF Gens, GenRow
<1>5. \A g \in Gens : g[2] \in Nat /\ 1 <= g[2]
  BY DEF Gens
<1>6. Contiguous
  <2>1. ASSUME NEW g \in Gens, NEW h \in Gens,
               g[1] = h[1], g[2] <= h[2], gens[h] # None
        PROVE  gens[g] # None
    <3>1. h[1] \in InitPurposes /\ h[2] = 1
      BY <1>3, <2>1
    <3>2. g[2] = 1
      BY <1>5, <2>1, <3>1
    <3>. QED
      BY <1>3, <1>4, <2>1, <3>1, <3>2
  <2>. QED
    BY <2>1 DEF Contiguous
<1>7. OneActiveIssuer
  <2>1. ASSUME NEW pu \in Purposes, Held(pu)
        PROVE  \E g \in Gens : /\ ActiveGens(pu) = {g}
                               /\ \A h \in Gens : h[1] = pu /\ gens[h] # None
                                                    => h[2] <= g[2]
    <3>1. PICK g \in Gens : g[1] = pu /\ gens[g] # None
      BY <2>1 DEF Held
    <3>2. \A h \in Gens : h[1] = pu /\ gens[h] # None => h[2] = 1 /\ h = g
      <4>1. \A h \in Gens : gens[h] # None => h[2] = 1
        BY <1>3
      <4>2. \A h \in Gens : h[1] = g[1] /\ h[2] = g[2] => h = g
        BY DEF Gens
      <4>. QED
        BY <3>1, <4>1, <4>2
    <3>3. gens[g].status = "active"
      BY <1>3, <1>4, <3>1
    <3>4. ActiveGens(pu) = {g}
      BY <3>1, <3>2, <3>3 DEF ActiveGens
    <3>. QED
      BY <1>5, <3>2, <3>4
  <2>. QED
    BY <2>1 DEF OneActiveIssuer
<1>. QED
  BY <1>1, <1>2, <1>6, <1>7 DEF LInv

\* Every step keeps one active generation per lineage, the newest, and
\* only ages the generations (renew_signing_ca, add_signing_ca, revoke_ca).
THEOREM LineageStep == LInv /\ [Next]_vars => LInv' /\ Ages
<1>. SUFFICES ASSUME LInv, [Next]_vars PROVE LInv' /\ Ages
  OBVIOUS
<1>1. TInv' /\ TypeOK'
  BY TypeStep DEF LInv, TInv
<1>2. CASE gens' = gens /\ JobsPlaced'
  BY <1>1, <1>2, SameIndex DEF LInv
<1>3. CASE Tick \/ UNCHANGED vars
  <2>1. gens' = gens /\ pc' = pc /\ job' = job
    BY <1>3 DEF Tick, vars, db, procs
  <2>. QED
    BY <1>2, <2>1 DEF LInv, JobsPlaced, PlacedIn
<1>4. ASSUME NEW p \in Procs, Start(p) \/ Step(p) \/ Abort(p)
      PROVE  LInv' /\ Ages
  <2>1. CASE RevokeCaCommit(p)
    <3>1. Ages /\ Contiguous' /\ OneActiveIssuer'
      BY <1>1, <2>1, RevokeCaLineage
    <3>. QED
      BY <1>1, <2>1, <3>1, PlacedDone DEF LInv, RevokeCaCommit
  <2>2. CASE RenewCommit(p)
    <3>1. Ages /\ Contiguous' /\ OneActiveIssuer'
      BY <1>1, <2>2, RenewLineage
    <3>. QED
      BY <1>1, <2>2, <3>1, PlacedDone DEF LInv, RenewCommit
  <2>3. CASE AddCommit(p)
    <3>1. Ages /\ Contiguous' /\ OneActiveIssuer'
      BY <1>1, <2>3, AddLineage
    <3>. QED
      BY <1>1, <2>3, <3>1, PlacedDone DEF LInv, AddCommit
  <2>4. CASE AddStart(p)
    <3>1. Ages /\ Contiguous' /\ OneActiveIssuer'
      BY <1>1, <2>4, BackfillLineage DEF AddStart
    <3>2. JobsPlaced'
      <4>1. CASE Done(p)
        BY <1>1, <3>1, <4>1, PlacedDone
      <4>2. ASSUME NEW pu \in Purposes,
                   Become(p, "add_pem", [NoJob EXCEPT !.gen = <<pu, 1>>,
                                                      !.who = ConfigCn[pu]])
            PROVE  JobsPlaced'
        <5> DEFINE j == [NoJob EXCEPT !.gen = <<pu, 1>>, !.who = ConfigCn[pu]]
        <5>1. <<pu, 1>> \in Gens /\ ConfigCn[pu] \in CaNames
          BY PurposeAssumption, NumberAssumption DEF Gens
        <5>2. j \in Job /\ j.gen[2] = 1
          BY <5>1 DEF NoJob, Job
        <5>3. PlacedIn(gens', "add_pem", j)
          BY <5>2 DEF PlacedIn, Renewing, RevokingCa
        <5>. QED
          BY <1>1, <3>1, <4>2, <5>2, <5>3, PlacedStep DEF Labels
      <4>. QED
        BY <2>4, <4>1, <4>2 DEF AddStart
    <3>. QED
      BY <1>1, <3>1, <3>2 DEF LInv
  <2>. QED
    BY <1>1, <1>2, <1>4, <2>1, <2>2, <2>3, <2>4,
       OtherCommandsPlaced, CeremoniesPlaced
    DEF Start, Step
<1>. QED
  BY <1>3, <1>4 DEF Next

\* However many renewals, added purposes and CA revocations race, every
\* recorded lineage has one active generation and it is the newest
\* (renew_signing_ca, add_signing_ca, revoke_ca).
THEOREM AlwaysOneActiveIssuer == Spec => []OneActiveIssuer
<1>1. Spec => []LInv
  BY LineageInit, LineageStep, PTL DEF Spec
<1>. QED
  BY <1>1, PTL DEF LInv

\* A generation keeps its CN and only goes from active to retiring to
\* revoked (the UPDATEs of renew_signing_ca and revoke_ca).
THEOREM GenerationsAge == Spec => GenerationsOnlyAge
<1>1. LInv /\ [Next]_vars => [Ages]_gens
  BY LineageStep
<1>2. Spec => []LInv
  BY LineageInit, LineageStep, PTL DEF Spec
<1>3. Spec => [][Ages]_gens
  BY <1>1, <1>2, PTL DEF Spec
<1>. QED
  BY <1>3 DEF GenerationsOnlyAge, Ages

-----------------------------------------------------------------------------
(* No two live certificates of a subject but at a renewal *)

\* A certificate was issued in the past and has a validity.
LeafDates == \A s \in Leaves : leaf[s] # None =>
                 /\ leaf[s].notBefore <= clock
                 /\ leaf[s].notBefore < leaf[s].notAfter

\* What RenewalDiscipline asks of two rows.
Overlap(a, b) == (a.notAfter - b.notBefore) * 100
                   <= (a.notAfter - a.notBefore) * WindowPct
Both(a, b) == /\ a.cn = b.cn /\ a.status = "active" /\ b.status = "active"
              /\ a.notBefore <= b.notBefore

DInv == TInv /\ LeafDates /\ RenewalDiscipline

\* A positive validity is more than the window's share of it.
LEMMA WindowIsPartial ==
    ASSUME NEW n \in Nat \ {0} PROVE n * WindowPct < n * 100
<1>1. WindowPct \in Nat /\ WindowPct < 100
  BY NumberAssumption
<1>2. n * (100 - WindowPct) > 0
  BY <1>1
<1>3. n * (100 - WindowPct) = n * 100 - n * WindowPct
  BY <1>1
<1>. QED
  BY <1>1, <1>2, <1>3

\* The share of a validity is not negative.
LEMMA WindowIsNat == \A n \in Nat : n * WindowPct \in Nat
BY NumberAssumption

\* A new certificate against an older one of its subject: the check under the
\* lock found the older one expired, revoked or in its window, and none was
\* issued in the same second.
LEMMA IssueDiscipline ==
    ASSUME DInv, TInv', NEW p \in Procs, IssueCommit(p)
    PROVE  LeafDates' /\ RenewalDiscipline'
<1>1. /\ job[p].who \in Subjects /\ job[p].cert \in CaCerts
      /\ job[p].life \in Nat \ {0} /\ clock \in Nat
  BY NumberAssumption
  DEF IssueCommit, AtLock, DInv, TInv, TypeOK, JobsFit, Fits, WithCert, WithGen
<1> DEFINE new == [cn |-> job[p].who, issuer |-> job[p].cert,
                   notBefore |-> clock, notAfter |-> clock + job[p].life,
                   status |-> "active"]
<1>2. PICK s \in Leaves : leaf[s] = None /\ leaf' = [leaf EXCEPT ![s] = new]
  BY DEF IssueCommit
<1>3. /\ leaf'[s] = new /\ clock' = clock
      /\ \A t \in Leaves : t # s => leaf'[t] = leaf[t]
  BY <1>2 DEF IssueCommit, DInv, TInv, TypeOK
<1>4. /\ new.cn = job[p].who /\ new.status = "active"
      /\ new.notBefore = clock /\ new.notAfter = clock + job[p].life
  OBVIOUS
<1>5. \A t \in Leaves : leaf[t] # None =>
         /\ leaf[t] \in LeafRow
         /\ leaf[t].notBefore \in Nat /\ leaf[t].notAfter \in Nat
         /\ leaf[t].notBefore <= clock
         /\ leaf[t].notBefore < leaf[t].notAfter
  BY DEF DInv, TInv, TypeOK, LeafRow, LeafDates
<1>6. LeafDates'
  <2>1. ASSUME NEW t \in Leaves, leaf'[t] # None
        PROVE  leaf'[t].notBefore <= clock /\ leaf'[t].notBefore < leaf'[t].notAfter
    <3>1. CASE t = s
      BY <1>1, <1>3, <1>4, <3>1
    <3>2. CASE t # s
      BY <1>3, <1>5, <2>1, <3>2
    <3>. QED
      BY <3>1, <3>2
  <2>. QED
    BY <1>3, <2>1 DEF LeafDates
<1>7. ASSUME NEW t \in Leaves, leaf[t] # None,
             leaf[t].cn = job[p].who, leaf[t].status = "active"
      PROVE  Overlap(leaf[t], new)
  <2>1. ~Valid(t) \/ (leaf[t].notAfter - clock) * 100
                        <= (leaf[t].notAfter - leaf[t].notBefore) * WindowPct
    <3>1. ~((leaf[t].notAfter - clock) * 100
              > (leaf[t].notAfter - leaf[t].notBefore) * WindowPct)
            \/ ~Valid(t)
      BY <1>7 DEF IssueCommit, StillFree, BlockingDuplicate
    <3>2. /\ (leaf[t].notAfter - clock) * 100 \in Int
          /\ (leaf[t].notAfter - leaf[t].notBefore) * WindowPct \in Int
      BY <1>1, <1>5, <1>7, NumberAssumption
    <3>. QED
      BY <3>1, <3>2
  <2>2. CASE Valid(t)
    BY <1>4, <2>1, <2>2 DEF Overlap
  <2>3. CASE ~Valid(t)
    <3>1. leaf[t].notAfter <= clock
      BY <1>1, <1>5, <1>7, <2>3 DEF Valid
    <3>2. (leaf[t].notAfter - clock) * 100 <= 0
      BY <1>1, <1>5, <1>7, <3>1
    <3>3. leaf[t].notAfter - leaf[t].notBefore \in Nat
      BY <1>5, <1>7
    <3>4. 0 <= (leaf[t].notAfter - leaf[t].notBefore) * WindowPct
      BY <3>3, WindowIsNat
    <3>5. /\ (leaf[t].notAfter - clock) * 100 \in Int
          /\ (leaf[t].notAfter - leaf[t].notBefore) * WindowPct \in Int
      BY <1>1, <1>5, <1>7, NumberAssumption
    <3>. QED
      BY <1>4, <3>2, <3>4, <3>5 DEF Overlap
  <2>. QED
    BY <2>2, <2>3
<1>8. ASSUME NEW t \in Leaves, leaf[t] # None,
             leaf[t].cn = job[p].who, leaf[t].status = "active"
      PROVE  leaf[t].notBefore < clock
  <2>1. SUFFICES ASSUME leaf[t].notBefore = clock PROVE FALSE
    BY <1>1, <1>5, <1>8
  <2>2. Overlap(leaf[t], new)
    BY <1>7, <1>8
  <2>3. leaf[t].notAfter - clock \in Nat \ {0}
    BY <1>1, <1>5, <1>8, <2>1
  <2>4. (leaf[t].notAfter - clock) * 100 <= (leaf[t].notAfter - clock) * WindowPct
    BY <1>4, <2>1, <2>2 DEF Overlap
  <2>5. (leaf[t].notAfter - clock) * WindowPct < (leaf[t].notAfter - clock) * 100
    BY <2>3, WindowIsPartial
  <2>6. (leaf[t].notAfter - clock) * WindowPct \in Nat
    BY <2>3, WindowIsNat
  <2>. QED
    BY <2>3, <2>4, <2>5, <2>6
<1>9. ASSUME NEW a \in Leaves, NEW b \in Leaves, a # b,
             leaf'[a] # None, leaf'[b] # None, Both(leaf'[a], leaf'[b])
      PROVE  Overlap(leaf'[a], leaf'[b])
  <2>1. CASE b = s
    BY <1>3, <1>4, <1>7, <1>9, <2>1 DEF Both
  <2>2. CASE a = s
    <3>1. leaf[b] # None /\ leaf[b].cn = job[p].who /\ leaf[b].status = "active"
          /\ clock <= leaf[b].notBefore
      BY <1>3, <1>4, <1>9, <2>2 DEF Both
    <3>. QED
      BY <1>1, <1>5, <1>8, <3>1
  <2>3. CASE a # s /\ b # s
    BY <1>3, <1>9, <2>3 DEF Both, Overlap, DInv, RenewalDiscipline
  <2>. QED
    BY <2>1, <2>2, <2>3
<1>10. RenewalDiscipline'
  BY <1>9 DEF RenewalDiscipline, Both, Overlap
<1>. QED
  BY <1>6, <1>10

\* A step that issues nothing leaves dates alone and revives no certificate.
LEMMA NoIssueDiscipline ==
    ASSUME DInv, TInv', clock' \in Nat, clock <= clock',
           \A s \in Leaves : /\ leaf'[s] # None => leaf[s] # None
                             /\ leaf'[s] # None =>
                                  /\ leaf'[s].cn = leaf[s].cn
                                  /\ leaf'[s].notBefore = leaf[s].notBefore
                                  /\ leaf'[s].notAfter = leaf[s].notAfter
                                  /\ leaf'[s].status = "active"
                                       => leaf[s].status = "active"
    PROVE  LeafDates' /\ RenewalDiscipline'
<1>1. LeafDates'
  <2>1. ASSUME NEW s \in Leaves, leaf'[s] # None
        PROVE  leaf'[s].notBefore <= clock' /\ leaf'[s].notBefore < leaf'[s].notAfter
    <3>1. leaf[s] \in LeafRow /\ leaf[s].notBefore <= clock
          /\ leaf[s].notBefore < leaf[s].notAfter
      BY <2>1 DEF DInv, TInv, TypeOK, LeafDates
    <3>2. leaf[s].notBefore \in Nat /\ clock \in Nat
      BY <3>1 DEF LeafRow, DInv, TInv, TypeOK
    <3>. QED
      BY <2>1, <3>1, <3>2
  <2>. QED
    BY <2>1 DEF LeafDates
<1>2. RenewalDiscipline'
  BY DEF DInv, RenewalDiscipline
<1>. QED
  BY <1>1, <1>2

\* Every step keeps the renewal discipline: only issue_ee adds a
\* certificate, and it repeats the duplicate check under the lock.
THEOREM DisciplineStep == DInv /\ [Next]_vars => DInv'
<1>. SUFFICES ASSUME DInv, [Next]_vars PROVE DInv'
  OBVIOUS
<1>1. TInv' /\ TInv
  BY TypeStep DEF DInv
<1>2. CASE leaf' = leaf /\ clock' \in {clock, clock + 1}
  <2>1. clock' \in Nat /\ clock <= clock'
    BY <1>2 DEF DInv, TInv, TypeOK
  <2>. QED
    BY <1>1, <1>2, <2>1, NoIssueDiscipline DEF DInv
<1>3. CASE Tick \/ UNCHANGED vars
  BY <1>2, <1>3 DEF Tick, vars, db
<1>4. ASSUME NEW p \in Procs, Start(p) \/ Step(p) \/ Abort(p)
      PROVE  DInv'
  <2>1. CASE IssueCommit(p)
    BY <1>1, <2>1, IssueDiscipline DEF DInv
  <2>2. CASE RevokeCommit(p)
    <3> DEFINE s == job[p].who
               row == [leaf[s] EXCEPT !.status = "revoked"]
    <3>1. /\ s \in Leaves /\ leaf[s] \in LeafRow /\ leaf[s] # None
          /\ leaf' = [leaf EXCEPT ![s] = row] /\ clock' = clock
      BY <1>1, <2>2 DEF RevokeCommit, TInv, TypeOK, JobsFit, Fits
    <3>2. /\ row.cn = leaf[s].cn /\ row.notBefore = leaf[s].notBefore
          /\ row.notAfter = leaf[s].notAfter /\ row.status = "revoked"
      BY <3>1 DEF LeafRow
    <3>3. leaf'[s] = row /\ \A t \in Leaves : t # s => leaf'[t] = leaf[t]
      BY <1>1, <3>1 DEF TInv, TypeOK
    <3>4. clock \in Nat /\ clock <= clock
      BY <1>1 DEF TInv, TypeOK
    <3>. QED
      BY <1>1, <3>1, <3>2, <3>3, <3>4, NoIssueDiscipline DEF DInv
  <2>3. CASE ~IssueCommit(p) /\ ~RevokeCommit(p)
    <3>1. leaf' = leaf /\ clock' = clock
      BY <1>4, <2>3
      DEF Start, Step, Abort, db,
          IssueStart, IssueRefused, RevokeStart, RevokeWrite, RevokeGone,
          RevokeCaStart, RevokeCaWrite, RevokeCaCommit, RefreshStart,
          RefreshLock, RefreshWrite, RefreshCommit, RenewStart, RenewPem,
          RenewCrl, MintPem, MintCrl, RenewCommit, AddStart, AddPem, AddCrl,
          AddCommit, CeremonyConflict, LockTimeout
    <3>. QED
      BY <1>2, <3>1
  <2>. QED
    BY <2>1, <2>2, <2>3
<1>. QED
  BY <1>3, <1>4 DEF Next

\* Two unrevoked certificates of one subject overlap only by the earlier
\* one's renewal window (blocking_duplicate, checked again under the lock),
\* for every window of less than the whole validity.
THEOREM RenewalsKeepDiscipline == Spec => []RenewalDiscipline
<1>1. Init => DInv
  <2>1. Init => TInv
    BY TypeInit
  <2>2. Init => \A s \in Leaves : leaf[s] = None
    BY DEF Init
  <2>. QED
    BY <2>1, <2>2 DEF DInv, LeafDates, RenewalDiscipline
<1>2. Spec => []DInv
  BY <1>1, DisciplineStep, PTL DEF Spec
<1>. QED
  BY <1>2, PTL DEF DInv

-----------------------------------------------------------------------------
(* What no step takes back *)

\* The steps that only read and move on, or give up: they write nothing.
OnlyReads(p) ==
    \/ IssueStart(p) \/ IssueRefused(p) \/ RevokeStart(p) \/ RevokeGone(p)
    \/ RevokeCaStart(p) \/ RefreshStart(p) \/ RenewStart(p)
    \/ CeremonyConflict(p) \/ LockTimeout(p)

\* What each step leaves alone.
LEMMA Frame ==
    ASSUME NEW p \in Procs
    PROVE  /\ OnlyReads(p) =>
                UNCHANGED <<clock, leaf, caRow, gens, locked, caCert, pem, crl, lock>>
           /\ Abort(p) \/ RefreshLock(p) \/ RefreshCommit(p) =>
                UNCHANGED <<clock, leaf, caRow, gens, locked, caCert, pem, crl>>
           /\ IssueCommit(p) =>
                UNCHANGED <<clock, caRow, gens, locked, caCert, pem, crl, lock>>
           /\ RevokeWrite(p) \/ RevokeCaWrite(p) \/ RefreshWrite(p) =>
                UNCHANGED <<clock, leaf, caRow, gens, locked, caCert, pem>>
           /\ RevokeCommit(p) =>
                UNCHANGED <<clock, caRow, gens, locked, caCert, pem, crl>>
           /\ RevokeCaCommit(p) =>
                UNCHANGED <<clock, leaf, locked, caCert, pem, crl>>
           /\ AddStart(p) =>
                UNCHANGED <<clock, leaf, caRow, locked, caCert, pem, crl, lock>>
           /\ RenewPem(p) \/ AddPem(p) =>
                UNCHANGED <<clock, leaf, caRow, gens, locked, crl, lock>>
           /\ RenewCrl(p) \/ AddCrl(p) =>
                UNCHANGED <<clock, leaf, caRow, gens, locked, caCert, pem, lock>>
           /\ RenewCommit(p) =>
                UNCHANGED <<clock, leaf, locked, caCert, pem, crl, lock>>
           /\ AddCommit(p) =>
                UNCHANGED <<clock, leaf, caCert, pem, crl, lock>>
<1>1. OnlyReads(p) =>
        UNCHANGED <<clock, leaf, caRow, gens, locked, caCert, pem, crl, lock>>
  BY DEF OnlyReads, IssueStart, IssueRefused, RevokeStart, RevokeGone,
         RevokeCaStart, RefreshStart, RenewStart, CeremonyConflict, LockTimeout,
         db, files
<1>2. Abort(p) \/ RefreshLock(p) \/ RefreshCommit(p) =>
        UNCHANGED <<clock, leaf, caRow, gens, locked, caCert, pem, crl>>
  BY DEF Abort, RefreshLock, RefreshCommit, db, files
<1>3. /\ IssueCommit(p) =>
           UNCHANGED <<clock, caRow, gens, locked, caCert, pem, crl, lock>>
      /\ RevokeCommit(p) =>
           UNCHANGED <<clock, caRow, gens, locked, caCert, pem, crl>>
  BY DEF IssueCommit, RevokeCommit, files
<1>4. RevokeWrite(p) \/ RevokeCaWrite(p) \/ RefreshWrite(p) =>
        UNCHANGED <<clock, leaf, caRow, gens, locked, caCert, pem>>
  BY DEF RevokeWrite, RevokeCaWrite, RefreshWrite, db
<1>5. /\ RevokeCaCommit(p) =>
           UNCHANGED <<clock, leaf, locked, caCert, pem, crl>>
      /\ AddStart(p) =>
           UNCHANGED <<clock, leaf, caRow, locked, caCert, pem, crl, lock>>
  BY DEF RevokeCaCommit, AddStart, files
<1>6. /\ RenewPem(p) \/ AddPem(p) =>
           UNCHANGED <<clock, leaf, caRow, gens, locked, crl, lock>>
      /\ RenewCrl(p) \/ AddCrl(p) =>
           UNCHANGED <<clock, leaf, caRow, gens, locked, caCert, pem, lock>>
  BY DEF RenewPem, AddPem, RenewCrl, AddCrl, MintPem, MintCrl, db
<1>7. /\ RenewCommit(p) =>
           UNCHANGED <<clock, leaf, locked, caCert, pem, crl, lock>>
      /\ AddCommit(p) => UNCHANGED <<clock, leaf, caCert, pem, crl, lock>>
  BY DEF RenewCommit, AddCommit, files
<1>. QED
  BY <1>1, <1>2, <1>3, <1>4, <1>5, <1>6, <1>7

\* The steps of a process, one by one.
LEMMA ProcessSteps ==
    ASSUME NEW p \in Procs, Start(p) \/ Step(p) \/ Abort(p)
    PROVE  \/ OnlyReads(p) \/ Abort(p) \/ RefreshLock(p) \/ RefreshCommit(p)
           \/ IssueCommit(p) \/ RevokeWrite(p) \/ RevokeCaWrite(p)
           \/ RefreshWrite(p) \/ RevokeCommit(p) \/ RevokeCaCommit(p)
           \/ AddStart(p) \/ RenewPem(p) \/ AddPem(p) \/ RenewCrl(p) \/ AddCrl(p)
           \/ RenewCommit(p) \/ AddCommit(p)
BY DEF Start, Step, OnlyReads

\* A certificate the root signed stays what it is, the index forgets none, a
\* section stays in the store, and a leaf's row keeps all but its status.
CertsKept == \A c \in CaCerts : /\ caCert[c] # None => caCert'[c] = caCert[c]
                                /\ caRow[c] # "absent" => caRow'[c] # "absent"
LeavesKept ==
    \A s \in Leaves : leaf[s] # None =>
        /\ leaf'[s] # None
        /\ leaf'[s].issuer = leaf[s].issuer
        /\ leaf'[s].notAfter = leaf[s].notAfter
        /\ leaf[s].status = "revoked" => leaf'[s].status = "revoked"
RowsLast == CertsKept /\ LeavesKept /\ locked \subseteq locked' /\ clock <= clock'

LEMMA KeptStep == TInv /\ [Next]_vars => RowsLast
<1>. SUFFICES ASSUME TInv, [Next]_vars PROVE RowsLast
  OBVIOUS
<1>1. TypeOK
  BY DEF TInv
<1>2. CASE Tick \/ UNCHANGED vars
  BY <1>1, <1>2
  DEF Tick, vars, db, files, TypeOK, RowsLast, CertsKept, LeavesKept
<1>3. ASSUME NEW p \in Procs, Start(p) \/ Step(p) \/ Abort(p) PROVE RowsLast
  <2>0. clock \in Nat
    BY <1>1 DEF TypeOK
  <2>1. CASE RevokeCommit(p)
    <3>1. job[p].who \in Leaves /\ leaf[job[p].who] \in LeafRow
      BY <1>1, <2>1 DEF RevokeCommit, JobsFit, Fits, TInv, TypeOK
    <3>2. leaf' = [leaf EXCEPT ![job[p].who] =
                     [leaf[job[p].who] EXCEPT !.status = "revoked"]]
      BY <2>1 DEF RevokeCommit
    <3>3. LeavesKept
      BY <1>1, <3>1, <3>2, AbsentAssumption DEF LeavesKept, LeafRow, TypeOK
    <3>. QED
      BY <2>0, <2>1, <3>3, Frame DEF RowsLast, CertsKept
  <2>2. CASE IssueCommit(p)
    <3>1. LeavesKept
      BY <1>1, <2>2 DEF IssueCommit, LeavesKept, TypeOK
    <3>. QED
      BY <2>0, <2>2, <3>1, Frame DEF RowsLast, CertsKept
  <2>3. CASE RevokeCaCommit(p)
    <3>1. \A c \in CaCerts : caRow[c] # "absent" => caRow'[c] # "absent"
      BY <1>1, <2>3 DEF RevokeCaCommit, TypeOK
    <3>. QED
      BY <2>0, <2>3, <3>1, Frame DEF RowsLast, CertsKept, LeavesKept
  <2>4. CASE RenewPem(p) \/ AddPem(p)
    <3>1. \A c \in CaCerts : caCert[c] # None => caCert'[c] = caCert[c]
      BY <1>1, <2>4 DEF RenewPem, AddPem, MintPem, TypeOK
    <3>. QED
      BY <2>0, <2>4, <3>1, Frame DEF RowsLast, CertsKept, LeavesKept
  <2>5. CASE RenewCommit(p) \/ AddCommit(p)
    <3>1. \A c \in CaCerts : caRow[c] # "absent" => caRow'[c] # "absent"
      BY <1>1, <2>5 DEF RenewCommit, AddCommit, TypeOK
    <3>2. locked \subseteq locked'
      BY <2>5 DEF RenewCommit, AddCommit
    <3>. QED
      BY <2>0, <2>5, <3>1, <3>2, Frame DEF RowsLast, CertsKept, LeavesKept
  <2>6. CASE UNCHANGED <<clock, leaf, caRow, locked, caCert>>
    BY <2>0, <2>6 DEF RowsLast, CertsKept, LeavesKept
  <2>. QED
    BY <1>3, <2>1, <2>2, <2>3, <2>4, <2>5, <2>6, Frame, ProcessSteps
<1>. QED
  BY <1>2, <1>3 DEF Next

-----------------------------------------------------------------------------
(* Only sections of the store have generations *)

\* No two sections name one CA, and no renewal takes the name of a section
\* that is yet to be added.
DistinctNames ==
    /\ \A a, b \in Purposes : ConfigCn[a] = ConfigCn[b] => a = b
    /\ \A pu \in Purposes \ InitPurposes : ConfigCn[pu] \notin NewCns

Minted == Minting \ {"renew_pem", "add_pem"}

\* What a ceremony is about: a renewal has its section in the store, an added
\* CA the name of its section, a minted certificate both.
KnownIn(sections, certs, label, j) ==
    /\ label \in Renewing => j.who \in NewCns /\ j.gen[1] \in sections
    /\ label \in Adding => j.who = ConfigCn[j.gen[1]]
    /\ label \in Minted => certs[j.cert] # None /\ certs[j.cert].gen = j.gen
                                               /\ certs[j.cert].cn = j.who
JobsKnown == \A p \in Procs : KnownIn(locked, caCert, pc[p], job[p])

\* An indexed CA belongs to a section of the store and has its name or one
\* that a renewal gave it.
IndexedIsMade ==
    \A c \in CaCerts : caRow[c] # "absent" =>
        /\ caCert[c] # None
        /\ caCert[c].gen[1] \in locked
        /\ caCert[c].cn \in NewCns \cup {ConfigCn[caCert[c].gen[1]]}
LockedIsHeld ==
    /\ InitPurposes \subseteq locked
    /\ \A pu \in locked : gens[<<pu, 1>>] # None

KInv == LInv /\ JobsKnown /\ IndexedIsMade /\ LockedIsHeld /\ GenerationsAreLocked

\* A section has a generation already, and no CA indexed has the name of one
\* that is not in the store: ensure_ca_index inserts nothing.
LEMMA NothingToBackfill ==
    ASSUME DistinctNames, KInv PROVE Backfilled = gens
<1>1. TypeOK /\ IndexedIsMade /\ LockedIsHeld
  BY DEF KInv, LInv, TInv
<1>2. ASSUME NEW g \in Gens, Backfill(g) PROVE FALSE
  <2>1. PICK c \in CaCerts : caRow[c] # "absent" /\ caCert[c].cn = ConfigCn[g[1]]
    BY <1>2 DEF Backfill
  <2>2. PICK a \in locked : /\ a = caCert[c].gen[1]
                            /\ ConfigCn[g[1]] \in NewCns \cup {ConfigCn[a]}
    BY <1>1, <2>1 DEF IndexedIsMade
  <2>3. g[1] \in Purposes /\ a \in Purposes /\ <<g[1], 1>> \in Gens
    BY <1>1, NumberAssumption DEF Gens, TypeOK
  <2>4. g[1] \notin locked
    BY <1>1, <1>2, <2>3 DEF Backfill, LockedIsHeld
  <2>5. ConfigCn[g[1]] = ConfigCn[a]
    BY <1>1, <2>2, <2>3, <2>4 DEF DistinctNames, LockedIsHeld
  <2>. QED
    BY <2>2, <2>3, <2>4, <2>5 DEF DistinctNames
<1>. QED
  BY <1>1, <1>2 DEF Backfilled, TypeOK

\* A process that moves to a job it knows leaves every job known.
LEMMA KnownStep ==
    ASSUME NEW p \in Procs, NEW label \in Labels, NEW j \in Job,
           KInv, RowsLast, Become(p, label, j), KnownIn(locked', caCert', label, j)
    PROVE  JobsKnown'
<1>1. /\ pc'[p] = label /\ job'[p] = j
      /\ \A q \in Procs : q # p => pc'[q] = pc[q] /\ job'[q] = job[q]
  BY BecomeStep DEF KInv, LInv, TInv, TypeOK
<1>2. ASSUME NEW q \in Procs
      PROVE  KnownIn(locked', caCert', pc'[q], job'[q])
  <2>1. CASE q = p
    BY <1>1, <2>1
  <2>2. CASE q # p
    <3>1. pc'[q] = pc[q] /\ job'[q] = job[q]
      BY <1>1, <2>2
    <3>2. KnownIn(locked, caCert, pc[q], job[q])
      BY DEF KInv, JobsKnown
    <3>3. pc[q] \in Minted => job[q].cert \in CaCerts
      BY DEF KInv, LInv, TInv, JobsFit, Fits, WithCert, WithGen, Minted, Minting
    <3>4. KnownIn(locked', caCert', pc[q], job[q])
      BY <3>2, <3>3 DEF KnownIn, RowsLast, CertsKept
    <3>. QED
      BY <3>1, <3>4
  <2>. QED
    BY <2>1, <2>2
<1>. QED
  BY <1>2 DEF JobsKnown, KnownIn

\* Labels that are no ceremony's ask nothing.
LEMMA KnownElsewhere ==
    ASSUME NEW label \in Labels \ Minting, NEW j, NEW l, NEW k
    PROVE  KnownIn(l, k, label, j)
BY DEF KnownIn, Minted, Minting, Renewing, Adding

\* Every step of a process goes to a job it knows.
LEMMA KnownJobs ==
    ASSUME DistinctNames, KInv, TInv', RowsLast, NEW p \in Procs,
           Start(p) \/ Step(p) \/ Abort(p)
    PROVE  JobsKnown'
<1>0. TypeOK /\ TInv /\ JobsPlaced /\ JobsKnown
  BY DEF KInv, LInv, TInv
<1>1. ASSUME NEW label \in Labels \ Minting, NEW j \in Job, Become(p, label, j)
      PROVE  JobsKnown'
  BY <1>1, KnownElsewhere, KnownStep
<1>2. CASE Done(p)
  BY <1>1, <1>2, NoJobIsJob DEF Done, Minting
<1>3. CASE RenewStart(p)
  <2>1. PICK pu \in locked, cn \in NewCns, g \in Gens :
           /\ ActiveCa(pu, g)
           /\ g[2] < MaxGen
           /\ Become(p, "renew_pem", [NoJob EXCEPT !.gen = Successor(g),
                                                   !.who = cn])
    BY <1>3 DEF RenewStart
  <2> DEFINE j == [NoJob EXCEPT !.gen = Successor(g), !.who = cn]
  <2>2. Successor(g) \in Gens /\ cn \in CaNames /\ Successor(g)[1] = pu
    BY <2>1, PurposeAssumption, NumberAssumption
    DEF Successor, Gens, ActiveCa, ActiveGens
  <2>3. j \in Job /\ j.gen = Successor(g) /\ j.who = cn
    BY <2>2 DEF NoJob, Job
  <2>4. locked' = locked
    BY <1>3, Frame DEF OnlyReads
  <2>5. KnownIn(locked', caCert', "renew_pem", j)
    BY <2>2, <2>3, <2>4 DEF KnownIn, Adding, Minted, Minting
  <2>. QED
    BY <2>1, <2>3, <2>5, KnownStep DEF Labels
<1>4. CASE AddStart(p)
  <2>1. CASE Done(p)
    BY <1>2, <2>1
  <2>2. ASSUME NEW pu \in Purposes,
               Become(p, "add_pem", [NoJob EXCEPT !.gen = <<pu, 1>>,
                                                  !.who = ConfigCn[pu]])
        PROVE  JobsKnown'
    <3> DEFINE j == [NoJob EXCEPT !.gen = <<pu, 1>>, !.who = ConfigCn[pu]]
    <3>1. <<pu, 1>> \in Gens /\ ConfigCn[pu] \in CaNames
      BY PurposeAssumption, NumberAssumption DEF Gens
    <3>2. j \in Job /\ j.gen = <<pu, 1>> /\ j.who = ConfigCn[pu]
      BY <3>1 DEF NoJob, Job
    <3>3. KnownIn(locked', caCert', "add_pem", j)
      BY <3>2 DEF KnownIn, Renewing, Minted, Minting
    <3>. QED
      BY <2>2, <3>2, <3>3, KnownStep DEF Labels
  <2>. QED
    BY <1>4, <2>1, <2>2 DEF AddStart
<1>5. ASSUME NEW from \in {"renew_pem", "add_pem"},
             NEW to \in {"renew_crl", "add_crl"},
             from = "renew_pem" <=> to = "renew_crl",
             MintPem(p, from, to)
      PROVE  JobsKnown'
  <2>1. PICK c \in CaCerts :
          /\ caCert[c] = None
          /\ caCert' = [caCert EXCEPT ![c] =
                          [gen |-> job[p].gen, cn |-> job[p].who,
                           notAfter |-> clock + CaLife]]
          /\ Become(p, to, [job[p] EXCEPT !.cert = c])
    BY <1>5 DEF MintPem
  <2> DEFINE j == [job[p] EXCEPT !.cert = c]
  <2>2. job[p] \in Job /\ KnownIn(locked, caCert, from, job[p])
    BY <1>0, <1>5 DEF MintPem, JobsKnown, TypeOK
  <2>3. /\ j \in Job /\ j.gen = job[p].gen /\ j.who = job[p].who /\ j.cert = c
    BY <2>2 DEF Job
  <2>4. /\ caCert'[c] \in CaCertificate
        /\ caCert'[c].gen = j.gen /\ caCert'[c].cn = j.who
    <3>1. job[p].gen \in Gens /\ job[p].who \in CaNames
      BY <1>0, <1>5 DEF MintPem, TInv, JobsFit, Fits, WithGen, Minting
    <3>. QED
      BY <1>0, <2>1, <2>3, <3>1, NumberAssumption DEF TypeOK, CaCertificate
  <2>5. KnownIn(locked', caCert', to, j)
    BY <1>5, <2>2, <2>3, <2>4, AbsentAssumption
    DEF KnownIn, Renewing, Adding, Minted, Minting, RowsLast
  <2>. QED
    BY <2>1, <2>3, <2>5, KnownStep DEF Labels
<1>6. ASSUME NEW from \in {"renew_crl", "add_crl"},
             NEW to \in {"renew_commit", "add_commit"},
             from = "renew_crl" <=> to = "renew_commit",
             MintCrl(p, from, to)
      PROVE  JobsKnown'
  <2>1. /\ KnownIn(locked, caCert, from, job[p]) /\ job[p] \in Job
        /\ Become(p, to, job[p])
    BY <1>0, <1>6 DEF MintCrl, JobsKnown, TypeOK
  <2>2. caCert' = caCert
    BY <1>6 DEF MintCrl
  <2>3. KnownIn(locked', caCert', to, job[p])
    BY <1>6, <2>1, <2>2 DEF KnownIn, Renewing, Adding, Minted, Minting, RowsLast
  <2>. QED
    BY <2>1, <2>3, KnownStep DEF Labels
<1>7. CASE \/ IssueStart(p) \/ RevokeStart(p) \/ RevokeWrite(p)
           \/ RevokeCaStart(p) \/ RevokeCaWrite(p)
           \/ RefreshStart(p) \/ RefreshLock(p) \/ RefreshWrite(p)
  <2>1. \E label \in Labels \ Minting : \E j : Become(p, label, j)
    BY <1>7 DEF IssueStart, RevokeStart, RevokeWrite, RevokeCaStart, RevokeCaWrite,
                RefreshStart, RefreshLock, RefreshWrite, Labels, Minting
  <2>2. PICK label \in Labels \ Minting : \E j : Become(p, label, j)
    BY <2>1
  <2>3. PICK j : Become(p, label, j)
    BY <2>2
  <2>4. j \in Job
    BY <1>0, <2>3 DEF Become, TInv, TypeOK
  <2>. QED
    BY <1>1, <2>3, <2>4
<1>. QED
  BY <1>2, <1>3, <1>4, <1>5, <1>6, <1>7, ProcessSteps
  DEF OnlyReads, IssueRefused, RevokeGone, CeremonyConflict, LockTimeout, Abort,
      RefreshCommit, IssueCommit, RevokeCommit, RevokeCaCommit, RenewCommit,
      AddCommit, RenewPem, AddPem, RenewCrl, AddCrl

\* Only a ceremony's commit, under the names it carries, indexes a CA, records
\* a generation or adds a section.
LEMMA CommitRecords ==
    ASSUME KInv, NEW p \in Procs, RenewCommit(p) \/ AddCommit(p)
    PROVE  /\ job[p].gen \in Gens /\ job[p].cert \in CaCerts
           /\ \A c \in CaCerts : caRow'[c] # "absent" =>
                 caRow[c] # "absent" \/ c = job[p].cert
           /\ \A g \in Gens : gens'[g] # None => gens[g] # None \/ g = job[p].gen
           /\ gens'[job[p].gen] = [cn |-> job[p].who, status |-> "active"]
           /\ gens'[job[p].gen] # None
           /\ job[p].gen[1] \in locked'
           /\ locked' \subseteq locked \cup {job[p].gen[1]}
           /\ job[p].who \in NewCns \cup {ConfigCn[job[p].gen[1]]}
           /\ caCert[job[p].cert] # None
           /\ caCert[job[p].cert].gen = job[p].gen
           /\ caCert[job[p].cert].cn = job[p].who
<1>1. TypeOK /\ TInv /\ KnownIn(locked, caCert, pc[p], job[p])
  BY DEF KInv, LInv, TInv, JobsKnown
<1>2. /\ job[p].gen \in Gens /\ job[p].cert \in CaCerts /\ job[p].who \in CaNames
      /\ pc[p] \in {"renew_commit", "add_commit"} /\ job[p].gen[1] \in Purposes
  BY <1>1 DEF RenewCommit, AddCommit, AtLock, TInv, JobsFit, Fits, WithGen, WithCert,
              Minting, Gens
<1>3. [cn |-> job[p].who, status |-> "active"] \in GenRow
  BY <1>2 DEF GenRow
<1>4. CASE RenewCommit(p)
  <2>1. \A g \in Gens : Retired(job[p].gen[1])[g] # None => gens[g] # None
    BY <1>1 DEF Retired, ActiveGens
  <2>2. /\ \A g \in Gens : gens'[g] # None => gens[g] # None \/ g = job[p].gen
        /\ gens'[job[p].gen] = [cn |-> job[p].who, status |-> "active"]
        /\ gens'[job[p].gen] # None
    BY <1>2, <1>3, <1>4, <2>1, AbsentAssumption DEF RenewCommit, Retired
  <2>. QED
    BY <1>1, <1>2, <1>4, <2>2
    DEF RenewCommit, AtLock, TypeOK, KnownIn, Renewing, Minted, Minting
<1>5. CASE AddCommit(p)
  <2>1. /\ \A g \in Gens : gens'[g] # None => gens[g] # None \/ g = job[p].gen
        /\ gens'[job[p].gen] = [cn |-> job[p].who, status |-> "active"]
        /\ gens'[job[p].gen] # None
    BY <1>1, <1>2, <1>3, <1>5, AbsentAssumption DEF AddCommit, TypeOK
  <2>. QED
    BY <1>1, <1>2, <1>5, <2>1
    DEF AddCommit, AtLock, TypeOK, KnownIn, Adding, Minted, Minting
<1>. QED
  BY <1>4, <1>5

\* Nothing else indexes a CA, records a generation or adds a section.
LEMMA OthersRecordNothing ==
    ASSUME DistinctNames, KInv, NEW p \in Procs, Start(p) \/ Step(p) \/ Abort(p),
           ~RenewCommit(p), ~AddCommit(p)
    PROVE  /\ \A c \in CaCerts : caRow'[c] # "absent" => caRow[c] # "absent"
           /\ \A g \in Gens : gens'[g] # None => gens[g] # None
           /\ locked' = locked
<1>1. TypeOK /\ TInv
  BY DEF KInv, LInv, TInv
<1>2. CASE RevokeCaCommit(p)
  <2>1. job[p].gen \in Gens /\ gens[job[p].gen] # None
    BY <1>1, <1>2 DEF RevokeCaCommit, TInv, JobsFit, Fits, WithGen, RevokingCa
  <2>2. \A g \in Gens : gens'[g] # None => gens[g] # None
    BY <1>1, <1>2, <2>1 DEF RevokeCaCommit, TypeOK
  <2>3. \A c \in CaCerts : caRow'[c] # "absent" => caRow[c] # "absent"
    BY <1>1, <1>2 DEF RevokeCaCommit, TypeOK
  <2>. QED
    BY <1>2, <2>2, <2>3 DEF RevokeCaCommit
<1>3. CASE AddStart(p)
  BY <1>3, NothingToBackfill, Frame DEF AddStart
<1>4. CASE UNCHANGED <<caRow, gens, locked>>
  BY <1>4
<1>. QED
  BY <1>2, <1>3, <1>4, ProcessSteps, Frame

LEMMA NamesStep == DistinctNames /\ KInv /\ [Next]_vars => KInv'
<1>. SUFFICES ASSUME DistinctNames, KInv, [Next]_vars PROVE KInv'
  OBVIOUS
<1>1. LInv' /\ Ages /\ TInv' /\ TypeOK' /\ TInv /\ TypeOK
  BY LineageStep DEF KInv, LInv, TInv
<1>2. RowsLast
  BY <1>1, KeptStep
<1>3. CASE Tick \/ UNCHANGED vars
  <2>1. UNCHANGED <<leaf, caRow, gens, locked, caCert, pc, job>>
    BY <1>3 DEF Tick, vars, db, procs
  <2>. QED
    BY <1>1, <2>1 DEF KInv, JobsKnown, KnownIn, IndexedIsMade, LockedIsHeld,
                      GenerationsAreLocked
<1>4. ASSUME NEW p \in Procs, Start(p) \/ Step(p) \/ Abort(p) PROVE KInv'
  <2>1. JobsKnown'
    BY <1>1, <1>2, <1>4, KnownJobs
  <2>2. CASE RenewCommit(p) \/ AddCommit(p)
    <3> DEFINE n == job[p].gen
               k == job[p].cert
    <3>1. /\ n \in Gens /\ k \in CaCerts
          /\ \A c \in CaCerts : caRow'[c] # "absent" => caRow[c] # "absent" \/ c = k
          /\ \A g \in Gens : gens'[g] # None => gens[g] # None \/ g = n
          /\ gens'[n] # None /\ n[1] \in locked' /\ locked' \subseteq locked \cup {n[1]}
          /\ job[p].who \in NewCns \cup {ConfigCn[n[1]]}
          /\ caCert[k] # None /\ caCert[k].gen = n /\ caCert[k].cn = job[p].who
      BY <2>2, CommitRecords
    <3> HIDE DEF n, k
    <3>2. IndexedIsMade'
      <4>. SUFFICES ASSUME NEW c \in CaCerts, caRow'[c] # "absent"
                    PROVE  /\ caCert'[c] # None
                           /\ caCert'[c].gen[1] \in locked'
                           /\ caCert'[c].cn \in NewCns \cup {ConfigCn[caCert'[c].gen[1]]}
        BY DEF IndexedIsMade
      <4>1. caCert[c] # None => caCert'[c] = caCert[c]
        BY <1>2 DEF RowsLast, CertsKept
      <4>2. CASE c = k
        BY <3>1, <4>1, <4>2
      <4>3. CASE caRow[c] # "absent"
        BY <1>2, <4>1, <4>3 DEF KInv, IndexedIsMade, RowsLast
      <4>. QED
        BY <3>1, <4>2, <4>3
    <3>3. GenerationsAreLocked'
      BY <1>2, <3>1 DEF KInv, GenerationsAreLocked, RowsLast
    <3>4. LockedIsHeld'
      <4>1. InitPurposes \subseteq locked'
        BY <1>2 DEF KInv, LockedIsHeld, RowsLast
      <4>2. ASSUME NEW pu \in locked' PROVE gens'[<<pu, 1>>] # None
        <5>1. CASE pu \in locked
          <6>1. <<pu, 1>> \in Gens
            BY <1>1, <5>1, NumberAssumption DEF Gens, TypeOK
          <6>. QED
            BY <1>1, <5>1, <6>1 DEF KInv, LockedIsHeld, Ages
        <5>2. CASE pu = n[1]
          <6>1. <<pu, 1>> \in Gens
            BY <3>1, <5>2, NumberAssumption DEF Gens
          <6>2. <<pu, 1>>[1] = n[1] /\ <<pu, 1>>[2] <= n[2]
            BY <3>1, <5>2 DEF Gens
          <6>. QED
            BY <1>1, <3>1, <6>1, <6>2 DEF LInv, Contiguous
        <5>. QED
          BY <3>1, <5>1, <5>2
      <4>. QED
        BY <4>1, <4>2 DEF LockedIsHeld
    <3>. QED
      BY <1>1, <2>1, <3>2, <3>3, <3>4 DEF KInv
  <2>3. CASE ~RenewCommit(p) /\ ~AddCommit(p)
    <3>1. /\ \A c \in CaCerts : caRow'[c] # "absent" => caRow[c] # "absent"
          /\ \A g \in Gens : gens'[g] # None => gens[g] # None
          /\ locked' = locked
      BY <1>4, <2>3, OthersRecordNothing
    <3>2. IndexedIsMade'
      BY <1>2, <3>1 DEF KInv, IndexedIsMade, RowsLast, CertsKept
    <3>3. GenerationsAreLocked'
      BY <3>1 DEF KInv, GenerationsAreLocked
    <3>4. LockedIsHeld'
      <4>1. \A pu \in locked : <<pu, 1>> \in Gens
        BY <1>1, NumberAssumption DEF Gens, TypeOK
      <4>. QED
        BY <1>1, <3>1, <4>1 DEF KInv, LockedIsHeld, Ages
    <3>. QED
      BY <1>1, <2>1, <3>2, <3>3, <3>4 DEF KInv
  <2>. QED
    BY <2>2, <2>3
<1>. QED
  BY <1>3, <1>4 DEF Next

\* What init signed and published: one CA certificate for each of its
\* purposes, an empty CRL with each.
InitSigned(first) ==
    /\ \A a, b \in InitPurposes : first[a] = first[b] => a = b
    /\ \A pu \in InitPurposes : /\ caCert[first[pu]] # None
                                /\ caCert[first[pu]].gen = <<pu, 1>>
                                /\ caCert[first[pu]].cn = ConfigCn[pu]
                                /\ caRow[first[pu]] = "active"
    /\ \A c \in CaCerts : (\A pu \in InitPurposes : first[pu] # c) =>
          caCert[c] = None /\ caRow[c] = "absent"
InitPublished(first) ==
    /\ pem = [sl \in Slugs |->
                IF \E pu \in InitPurposes : sl = Slug(<<pu, 1>>)
                THEN first[CHOOSE pu \in InitPurposes :
                              sl = Slug(<<pu, 1>>)]
                ELSE None]
    /\ crl = [sl \in Slugs \cup {Root} |->
                IF sl = Root THEN EmptyCrl(Root)
                ELSE IF pem[sl] # None THEN EmptyCrl(pem[sl])
                ELSE None]

LEMMA InitCerts ==
    ASSUME Init
    PROVE  \E first \in [InitPurposes -> CaCerts] :
              InitSigned(first) /\ InitPublished(first)
<1>1. PICK first \in [InitPurposes -> CaCerts] :
        /\ \A a, b \in InitPurposes : first[a] = first[b] => a = b
        /\ caCert = [c \in CaCerts |->
                       IF \E pu \in InitPurposes : first[pu] = c
                       THEN LET pu == CHOOSE q \in InitPurposes : first[q] = c
                            IN [gen |-> <<pu, 1>>, cn |-> ConfigCn[pu],
                                notAfter |-> CaLife]
                       ELSE None]
        /\ caRow = [c \in CaCerts |->
                      IF \E pu \in InitPurposes : first[pu] = c
                      THEN "active" ELSE "absent"]
        /\ pem = [sl \in Slugs |->
                    IF \E pu \in InitPurposes : sl = Slug(<<pu, 1>>)
                    THEN first[CHOOSE pu \in InitPurposes :
                                  sl = Slug(<<pu, 1>>)]
                    ELSE None]
        /\ crl = [sl \in Slugs \cup {Root} |->
                    IF sl = Root THEN EmptyCrl(Root)
                    ELSE IF pem[sl] # None THEN EmptyCrl(pem[sl])
                    ELSE None]
  BY DEF Init
<1>2. ASSUME NEW pu \in InitPurposes
      PROVE  /\ caCert[first[pu]] # None
             /\ caCert[first[pu]].gen = <<pu, 1>>
             /\ caCert[first[pu]].cn = ConfigCn[pu]
             /\ caRow[first[pu]] = "active"
  <2> DEFINE q == CHOOSE q \in InitPurposes : first[q] = first[pu]
  <2>1. q = pu
    BY <1>1
  <2>2. caCert[first[pu]] = [gen |-> <<q, 1>>, cn |-> ConfigCn[q], notAfter |-> CaLife]
    BY <1>1
  <2>3. [gen |-> <<pu, 1>>, cn |-> ConfigCn[pu], notAfter |-> CaLife] \in CaCertificate
    BY PurposeAssumption, NumberAssumption DEF CaCertificate, Gens
  <2>. QED
    BY <1>1, <2>1, <2>2, <2>3, AbsentAssumption
<1>. QED
  BY <1>1, <1>2 DEF InitSigned, InitPublished

LEMMA NamesInit == Init => KInv
<1>. SUFFICES ASSUME Init PROVE KInv
  OBVIOUS
<1>1. LInv
  BY LineageInit
<1>2. JobsKnown
  BY DEF Init, JobsKnown, KnownIn, Renewing, Adding, Minted, Minting
<1>3. \A g \in Gens : [cn |-> ConfigCn[g[1]], status |-> "active"] # None
  BY PurposeAssumption, AbsentAssumption DEF Gens, GenRow
<1>4. \A g \in Gens : gens[g] # None <=> g[1] \in InitPurposes /\ g[2] = 1
  BY <1>3 DEF Init
<1>5. GenerationsAreLocked
  BY <1>4 DEF Init, GenerationsAreLocked
<1>6. LockedIsHeld
  <2>1. \A pu \in InitPurposes : <<pu, 1>> \in Gens
    BY PurposeAssumption, NumberAssumption DEF Gens
  <2>. QED
    BY <1>4, <2>1 DEF Init, LockedIsHeld
<1>7. IndexedIsMade
  <2>1. PICK first \in [InitPurposes -> CaCerts] : InitSigned(first)
    BY InitCerts
  <2>2. locked = InitPurposes
    BY DEF Init
  <2>. QED
    BY <2>1, <2>2 DEF IndexedIsMade, InitSigned
<1>. QED
  BY <1>1, <1>2, <1>5, <1>6, <1>7 DEF KInv

\* However many renewals and added CAs race, a generation belongs to a section
\* that is in the store, as long as names are not reused: ensure_ca_index
\* fills in nothing.
THEOREM GenerationsHaveSections ==
    ASSUME DistinctNames PROVE Spec => []GenerationsAreLocked
<1>1. KInv /\ [Next]_vars => KInv'
  BY NamesStep
<1>2. KInv => GenerationsAreLocked
  BY DEF KInv
<1>. QED
  BY <1>1, <1>2, NamesInit, PTL DEF Spec

-----------------------------------------------------------------------------
(* What a step does to the processes and to the CRLs *)

\* A process reaches a label by one command's step, and the others stand still.
LEMMA Arrives ==
    ASSUME TypeOK, NEW p \in Procs, Start(p) \/ Step(p) \/ Abort(p)
    PROVE  /\ \A q \in Procs : q # p => pc'[q] = pc[q] /\ job'[q] = job[q]
           /\ pc'[p] = "issue" => IssueStart(p)
           /\ pc'[p] = "revoke" => RevokeStart(p)
           /\ pc'[p] = "revoke_commit" => RevokeWrite(p)
           /\ pc'[p] = "revoke_ca" => RevokeCaStart(p)
           /\ pc'[p] = "revoke_ca_commit" => RevokeCaWrite(p)
           /\ pc'[p] = "refresh" => RefreshStart(p)
           /\ pc'[p] = "refresh_write" => RefreshLock(p) \/ RefreshWrite(p)
           /\ pc'[p] = "renew_pem" => RenewStart(p)
           /\ pc'[p] = "renew_crl" => RenewPem(p)
           /\ pc'[p] = "renew_commit" => RenewCrl(p)
           /\ pc'[p] = "add_pem" => AddStart(p)
           /\ pc'[p] = "add_crl" => AddPem(p)
           /\ pc'[p] = "add_commit" => AddCrl(p)
<1>1. pc \in [Procs -> Labels] /\ job \in [Procs -> Job]
  BY DEF TypeOK
<1>2. ASSUME NEW label, NEW j, Become(p, label, j)
      PROVE  /\ pc'[p] = label
             /\ \A q \in Procs : q # p => pc'[q] = pc[q] /\ job'[q] = job[q]
  BY <1>1, <1>2 DEF Become
<1> DEFINE To(label) ==
             /\ pc'[p] = label
             /\ \A q \in Procs : q # p => pc'[q] = pc[q] /\ job'[q] = job[q]
<1>3. Done(p) => To("idle")
  BY <1>2 DEF Done
<1>4. /\ IssueStart(p) => To("issue")
      /\ RevokeStart(p) => To("revoke")
      /\ RevokeWrite(p) => To("revoke_commit")
  BY <1>2 DEF IssueStart, RevokeStart, RevokeWrite
<1>5. /\ RevokeCaStart(p) => To("revoke_ca")
      /\ RevokeCaWrite(p) => To("revoke_ca_commit")
      /\ RefreshStart(p) => To("refresh")
      /\ RefreshLock(p) \/ RefreshWrite(p) => To("refresh_write")
  BY <1>2 DEF RevokeCaStart, RevokeCaWrite, RefreshStart, RefreshLock, RefreshWrite
<1>6. /\ RenewStart(p) => To("renew_pem")
      /\ RenewPem(p) => To("renew_crl")
      /\ RenewCrl(p) => To("renew_commit")
      /\ AddStart(p) => To("add_pem") \/ To("idle")
      /\ AddPem(p) => To("add_crl")
      /\ AddCrl(p) => To("add_commit")
  BY <1>2, <1>3 DEF RenewStart, RenewPem, RenewCrl, AddStart, AddPem, AddCrl,
                    MintPem, MintCrl
<1>7. \/ IssueRefused(p) \/ RevokeGone(p) \/ CeremonyConflict(p) \/ LockTimeout(p)
      \/ Abort(p) \/ RefreshCommit(p) \/ IssueCommit(p) \/ RevokeCommit(p)
      \/ RevokeCaCommit(p) \/ RenewCommit(p) \/ AddCommit(p)
      => To("idle")
  BY <1>3 DEF IssueRefused, RevokeGone, CeremonyConflict, LockTimeout, Abort,
              RefreshCommit, IssueCommit, RevokeCommit, RevokeCaCommit, RenewCommit,
              AddCommit
<1>. QED
  BY <1>4, <1>5, <1>6, <1>7, ProcessSteps DEF OnlyReads

\* A CRL is replaced by its successor, with what the writer adds to it.
Rewrites(p, slug) ==
    /\ crl[slug] # None
    /\ \E new \in SUBSET (Leaves \cup CaCerts), signer \in CaCerts \cup {Root} :
         /\ crl'[slug] = NewCrl(crl[slug], Kept(crl[slug]) \cup new, signer)
         /\ \/ /\ RevokeWrite(p) /\ slug = Slug(job[p].gen) /\ signer = job[p].cert
               /\ \E s \in Lookup(job[p].who) :
                    new = {s} /\ job'[p] = [job[p] EXCEPT !.who = s]
            \/ /\ RevokeCaWrite(p) /\ slug = Root /\ signer = Root
               /\ new = {job[p].cert}
            \/ RefreshWrite(p) /\ new = {} /\ <<slug, signer>> \in job[p].todo

LEMMA CrlSteps ==
    ASSUME TInv, NEW p \in Procs, Start(p) \/ Step(p) \/ Abort(p),
           NEW slug \in Slugs \cup {Root}, crl'[slug] # crl[slug]
    PROVE  \/ /\ RenewCrl(p) \/ AddCrl(p)
              /\ slug = Slug(job[p].gen) /\ crl'[slug] = EmptyCrl(job[p].cert)
           \/ Rewrites(p, slug)
<1>1. /\ TypeOK /\ crl \in [Slugs \cup {Root} -> Crl \cup {None}]
      /\ job \in [Procs -> Job]
  BY DEF TInv, TypeOK
<1>2. CASE RenewCrl(p) \/ AddCrl(p)
  BY <1>1, <1>2 DEF RenewCrl, AddCrl, MintCrl
<1>3. CASE RevokeWrite(p)
  <2>1. /\ job[p].gen \in Gens /\ job[p].cert \in CaCerts
    BY <1>3 DEF RevokeWrite, AtLock, TInv, JobsFit, Fits, WithCert, WithGen
  <2>2. PICK s \in Lookup(job[p].who) :
          /\ crl' = [crl EXCEPT ![Slug(job[p].gen)] =
                       NewCrl(crl[Slug(job[p].gen)],
                              Kept(crl[Slug(job[p].gen)]) \cup {s}, job[p].cert)]
          /\ Become(p, "revoke_commit", [job[p] EXCEPT !.who = s])
    BY <1>3 DEF RevokeWrite
  <2>3. slug = Slug(job[p].gen) /\ crl[slug] # None
    BY <1>1, <1>3, <2>2 DEF RevokeWrite, MayPublish
  <2>4. crl'[slug] = NewCrl(crl[slug], Kept(crl[slug]) \cup {s}, job[p].cert)
    BY <1>1, <2>2, <2>3
  <2>5. s \in Leaves /\ job'[p] = [job[p] EXCEPT !.who = s]
    BY <1>1, <2>2 DEF Lookup, Newest, Become
  <2>. QED
    BY <1>3, <2>1, <2>3, <2>4, <2>5 DEF Rewrites
<1>4. CASE RevokeCaWrite(p)
  <2>1. job[p].cert \in CaCerts
    BY <1>4 DEF RevokeCaWrite, AtLock, TInv, JobsFit, Fits, WithCert, WithGen
  <2>2. slug = Root /\ crl[Root] # None
    BY <1>1, <1>4 DEF RevokeCaWrite, MayPublish
  <2>3. crl'[Root] = NewCrl(crl[Root], Kept(crl[Root]) \cup {job[p].cert}, Root)
    BY <1>1, <1>4 DEF RevokeCaWrite
  <2>. QED
    BY <1>4, <2>1, <2>2, <2>3 DEF Rewrites
<1>5. CASE RefreshWrite(p)
  <2>1. PICK j \in job[p].todo :
          /\ MayPublish(j[1])
          /\ crl' = [crl EXCEPT ![j[1]] =
                       NewCrl(crl[j[1]], Kept(crl[j[1]]), j[2])]
    BY <1>5 DEF RefreshWrite
  <2>2. j \in (Slugs \X CaCerts) \cup {<<Root, Root>>}
    BY <1>1 DEF Job
  <2>3. slug = j[1] /\ crl[slug] # None /\ j[2] \in CaCerts \cup {Root}
        /\ j = <<slug, j[2]>>
    BY <1>1, <2>1, <2>2 DEF MayPublish
  <2>4. crl'[slug] = NewCrl(crl[slug], Kept(crl[slug]) \cup {}, j[2])
    <3>1. Kept(crl[slug]) \cup {} = Kept(crl[slug])
      OBVIOUS
    <3>. QED
      BY <1>1, <2>1, <2>3, <3>1
  <2>. QED
    BY <1>5, <2>3, <2>4 DEF Rewrites
<1>6. CASE crl' = crl
  BY <1>6
<1>. QED
  BY <1>2, <1>3, <1>4, <1>5, <1>6, Frame, ProcessSteps

-----------------------------------------------------------------------------
(* Today's issuer is not revoked *)

\* Every section, and the root, names its files differently (check of
\* prefixes in load).
DistinctSlugs ==
    /\ \A a, b \in Purposes : SlugPrefix[a] = SlugPrefix[b] => a = b
    /\ Root \notin Slugs

\* What is published under a generation's slug was minted for it.
PemOfGen ==
    \A g \in Gens : pem[Slug(g)] # None =>
        caCert[pem[Slug(g)]] # None /\ caCert[pem[Slug(g)]].gen = g

\* A CA revocation in flight has a certificate of the generation it revokes.
VictimsOwn ==
    \A p \in Procs : pc[p] \in RevokingCa =>
        caCert[job[p].cert] # None /\ caCert[job[p].cert].gen = job[p].gen

\* What is revoked, or listed on the root's CRL, is a certificate of a
\* generation that no longer signs.
Barred ==
    \A c \in CaCerts : caRow[c] = "revoked" \/ c \in crl[Root].entries =>
        /\ caCert[c] # None
        /\ gens[caCert[c].gen] # None
        /\ gens[caCert[c].gen].status # "active"

BInv == LInv /\ PemOfGen /\ VictimsOwn /\ Barred /\ crl[Root] # None

LEMMA SlugsDiffer ==
    ASSUME DistinctSlugs, NEW g \in Gens, NEW h \in Gens, Slug(g) = Slug(h)
    PROVE  g = h
BY DEF DistinctSlugs, Slug, Gens

\* mint_ca_generation publishes a certificate under the slug of the generation
\* it was signed for; nothing else publishes one.
LEMMA PemStep ==
    ASSUME DistinctSlugs, TInv, PemOfGen, RowsLast, NEW p \in Procs,
           Start(p) \/ Step(p) \/ Abort(p)
    PROVE  PemOfGen'
<1>1. TypeOK
  BY DEF TInv
<1>2. CASE RenewPem(p) \/ AddPem(p)
  <2>1. PICK c \in CaCerts :
          /\ caCert' = [caCert EXCEPT ![c] =
                          [gen |-> job[p].gen, cn |-> job[p].who,
                           notAfter |-> clock + CaLife]]
          /\ pem' = [pem EXCEPT ![Slug(job[p].gen)] = c]
    BY <1>2 DEF RenewPem, AddPem, MintPem
  <2>2. job[p].gen \in Gens /\ job[p].who \in CaNames
    BY <1>2 DEF RenewPem, AddPem, MintPem, TInv, JobsFit, Fits, WithGen, Minting
  <2>3. caCert'[c] \in CaCertificate /\ caCert'[c].gen = job[p].gen
    BY <1>1, <2>1, <2>2, NumberAssumption DEF TypeOK, CaCertificate
  <2>. SUFFICES ASSUME NEW g \in Gens, pem'[Slug(g)] # None
                PROVE  caCert'[pem'[Slug(g)]] # None /\ caCert'[pem'[Slug(g)]].gen = g
    BY DEF PemOfGen
  <2>4. CASE Slug(g) = Slug(job[p].gen)
    BY <1>1, <2>1, <2>2, <2>3, <2>4, SlugType, SlugsDiffer, AbsentAssumption DEF TypeOK
  <2>5. CASE Slug(g) # Slug(job[p].gen)
    <3>1. pem'[Slug(g)] = pem[Slug(g)] /\ pem[Slug(g)] \in CaCerts
      BY <1>1, <2>1, <2>5, SlugType DEF TypeOK
    <3>. QED
      BY <3>1 DEF PemOfGen, RowsLast, CertsKept
  <2>. QED
    BY <2>4, <2>5
<1>3. CASE pem' = pem
  <2>1. \A g \in Gens : pem[Slug(g)] # None => pem[Slug(g)] \in CaCerts
    BY <1>1, SlugType DEF TypeOK
  <2>. QED
    BY <1>3, <2>1 DEF PemOfGen, RowsLast, CertsKept
<1>. QED
  BY <1>2, <1>3, Frame, ProcessSteps

LEMMA VictimStep ==
    ASSUME TInv, PemOfGen, VictimsOwn, RowsLast, NEW p \in Procs,
           Start(p) \/ Step(p) \/ Abort(p)
    PROVE  VictimsOwn'
<1>1. TypeOK
  BY DEF TInv
<1>. SUFFICES ASSUME NEW q \in Procs, pc'[q] \in RevokingCa
              PROVE  /\ caCert'[job'[q].cert] # None
                     /\ caCert'[job'[q].cert].gen = job'[q].gen
  BY DEF VictimsOwn
<1>2. CASE q # p
  <2>1. pc'[q] = pc[q] /\ job'[q] = job[q]
    BY <1>1, <1>2, Arrives
  <2>2. job[q].cert \in CaCerts
    BY <2>1 DEF TInv, JobsFit, Fits, WithCert, WithGen, RevokingCa
  <2>. QED
    BY <2>1, <2>2 DEF VictimsOwn, RowsLast, CertsKept
<1>3. CASE q = p /\ RevokeCaStart(p)
  <2>1. PICK g \in Gens :
           /\ Revocable(g)
           /\ job' = [job EXCEPT ![p] = [NoJob EXCEPT !.gen = g,
                                                      !.cert = pem[Slug(g)]]]
    BY <1>3 DEF RevokeCaStart, GenByCn, Become
  <2>2. job'[p].gen = g /\ job'[p].cert = pem[Slug(g)]
    BY <1>1, <2>1 DEF TypeOK, NoJob
  <2>3. pem[Slug(g)] \in CaCerts
    BY <1>1, <2>1, SlugType DEF Revocable, TypeOK
  <2>. QED
    BY <1>3, <2>1, <2>2, <2>3 DEF Revocable, PemOfGen, RowsLast, CertsKept
<1>4. CASE q = p /\ RevokeCaWrite(p)
  <2>1. job'[p] = job[p] /\ pc[p] \in RevokingCa
    BY <1>1, <1>4 DEF RevokeCaWrite, AtLock, Become, TypeOK, RevokingCa
  <2>2. job[p].cert \in CaCerts
    BY <2>1 DEF TInv, JobsFit, Fits, WithCert, WithGen, RevokingCa
  <2>. QED
    BY <1>4, <2>1, <2>2 DEF VictimsOwn, RowsLast, CertsKept
<1>. QED
  BY <1>1, <1>2, <1>3, <1>4, Arrives DEF RevokingCa

\* A certificate is revoked, or listed by the root, for a generation that is
\* not active then, and never is again (revoke_ca).
LEMMA BarredStep ==
    ASSUME DistinctSlugs, BInv, TInv', Ages, RowsLast, NEW p \in Procs,
           Start(p) \/ Step(p) \/ Abort(p)
    PROVE  Barred' /\ crl'[Root] # None
<1>1. TInv /\ TypeOK /\ TypeOK' /\ JobsPlaced /\ PlacedIn(gens, pc[p], job[p])
  BY DEF BInv, LInv, TInv, JobsPlaced
<1>2. pc[p] \in RevokingCa =>
        /\ job[p].gen \in Gens /\ job[p].cert \in CaCerts
        /\ gens[job[p].gen] # None /\ gens[job[p].gen].status # "active"
        /\ caCert[job[p].cert] # None /\ caCert[job[p].cert].gen = job[p].gen
  BY <1>1 DEF TInv, JobsFit, Fits, WithGen, WithCert, RevokingCa, PlacedIn, BInv,
              VictimsOwn
<1>3. ASSUME NEW c \in CaCerts, caRow'[c] = "revoked"
      PROVE  caRow[c] = "revoked" \/ (pc[p] \in RevokingCa /\ c = job[p].cert)
  <2>1. CASE RevokeCaCommit(p)
    BY <1>1, <1>3, <2>1 DEF RevokeCaCommit, RevokingCa, TypeOK
  <2>2. CASE RenewCommit(p) \/ AddCommit(p)
    BY <1>1, <1>3, <2>2 DEF RenewCommit, AddCommit, TypeOK
  <2>3. CASE caRow' = caRow
    BY <1>3, <2>3
  <2>. QED
    BY <2>1, <2>2, <2>3, Frame, ProcessSteps
<1>4. /\ crl'[Root] # None
      /\ \A c \in CaCerts : c \in crl'[Root].entries =>
            c \in crl[Root].entries \/ (pc[p] \in RevokingCa /\ c = job[p].cert)
  <2>1. CASE crl'[Root] = crl[Root]
    BY <2>1 DEF BInv
  <2>2. CASE crl'[Root] # crl[Root]
    <3>1. \A g \in Gens : Slug(g) # Root
      BY SlugType DEF DistinctSlugs
    <3>2. Rewrites(p, Root)
      <4>1. RenewCrl(p) \/ AddCrl(p) => job[p].gen \in Gens
        BY <1>1 DEF RenewCrl, AddCrl, MintCrl, TInv, JobsFit, Fits, WithGen
      <4>. QED
        BY <1>1, <2>2, <3>1, <4>1, CrlSteps
    <3>3. PICK new \in SUBSET (Leaves \cup CaCerts), signer \in CaCerts \cup {Root} :
            /\ crl'[Root] = NewCrl(crl[Root], Kept(crl[Root]) \cup new, signer)
            /\ \/ RevokeWrite(p) /\ Root = Slug(job[p].gen)
               \/ RevokeCaWrite(p) /\ new = {job[p].cert}
               \/ new = {}
      BY <3>2 DEF Rewrites
    <3>4. RevokeWrite(p) => Root # Slug(job[p].gen)
      BY <1>1, <3>1 DEF RevokeWrite, AtLock, TInv, JobsFit, Fits, WithGen
    <3>5. RevokeCaWrite(p) => pc[p] \in RevokingCa
      BY DEF RevokeCaWrite, AtLock, RevokingCa
    <3>6. crl'[Root].entries = Kept(crl[Root]) \cup new
      BY <3>3 DEF NewCrl
    <3>7. crl'[Root] # None
      <4>1. crl'[Root] \in Crl
        BY <1>1, <3>2, <3>3, NewCrlType DEF Rewrites, TypeOK, Crl, NewCrl
      <4>. QED
        BY <4>1, AbsentAssumption
    <3>. QED
      BY <3>3, <3>4, <3>5, <3>6, <3>7 DEF Kept
  <2>. QED
    BY <2>1, <2>2
<1>5. ASSUME NEW c \in CaCerts, caRow'[c] = "revoked" \/ c \in crl'[Root].entries
      PROVE  /\ caCert'[c] # None
             /\ gens'[caCert'[c].gen] # None
             /\ gens'[caCert'[c].gen].status # "active"
  <2>1. /\ caCert[c] # None /\ gens[caCert[c].gen] # None
        /\ gens[caCert[c].gen].status # "active"
    BY <1>2, <1>3, <1>4, <1>5 DEF BInv, Barred
  <2>2. caCert'[c] = caCert[c] /\ caCert[c].gen \in Gens
    BY <1>1, <2>1 DEF RowsLast, CertsKept, TypeOK, CaCertificate
  <2>. QED
    BY <1>1, <2>1, <2>2, AgesStaysInactive
<1>. QED
  BY <1>4, <1>5 DEF Barred

LEMMA BarredKept == DistinctSlugs /\ BInv /\ [Next]_vars => BInv'
<1>. SUFFICES ASSUME DistinctSlugs, BInv, [Next]_vars PROVE BInv'
  OBVIOUS
<1>1. LInv' /\ Ages /\ TInv /\ TInv'
  BY LineageStep DEF BInv, LInv
<1>2. RowsLast
  BY <1>1, KeptStep
<1>3. CASE Tick \/ UNCHANGED vars
  <2>1. UNCHANGED <<caRow, gens, caCert, pem, crl, pc, job>>
    BY <1>3 DEF Tick, vars, db, files, procs
  <2>. QED
    BY <1>1, <2>1 DEF BInv, PemOfGen, VictimsOwn, Barred
<1>4. ASSUME NEW p \in Procs, Start(p) \/ Step(p) \/ Abort(p) PROVE BInv'
  BY <1>1, <1>2, <1>4, PemStep, VictimStep, BarredStep DEF BInv
<1>. QED
  BY <1>3, <1>4 DEF Next

\* Init publishes under every slug the certificate it made for it.
LEMMA InitPem ==
    ASSUME DistinctSlugs, NEW first \in [InitPurposes -> CaCerts],
           InitPublished(first)
    PROVE  /\ \A pu \in InitPurposes : pem[Slug(<<pu, 1>>)] = first[pu]
           /\ \A g \in Gens : pem[Slug(g)] # None =>
                 g[1] \in InitPurposes /\ g[2] = 1 /\ pem[Slug(g)] = first[g[1]]
<1>1. \A pu \in InitPurposes : <<pu, 1>> \in Gens
  BY PurposeAssumption, NumberAssumption DEF Gens
<1>2. ASSUME NEW pu \in InitPurposes PROVE pem[Slug(<<pu, 1>>)] = first[pu]
  <2> DEFINE q == CHOOSE q \in InitPurposes : Slug(<<pu, 1>>) = Slug(<<q, 1>>)
  <2>1. q \in InitPurposes /\ Slug(<<pu, 1>>) = Slug(<<q, 1>>)
    OBVIOUS
  <2>2. <<pu, 1>> = <<q, 1>>
    BY <1>1, <2>1, SlugsDiffer
  <2>. QED
    BY <1>1, <2>2, SlugType DEF InitPublished
<1>3. ASSUME NEW g \in Gens, pem[Slug(g)] # None
      PROVE  g[1] \in InitPurposes /\ g[2] = 1 /\ pem[Slug(g)] = first[g[1]]
  <2>1. PICK pu \in InitPurposes : Slug(g) = Slug(<<pu, 1>>)
    BY <1>3, SlugType DEF InitPublished
  <2>2. g = <<pu, 1>>
    BY <1>1, <2>1, SlugsDiffer
  <2>. QED
    BY <1>2, <2>2
<1>. QED
  BY <1>2, <1>3

LEMMA BarredInit == DistinctSlugs /\ Init => BInv
<1>. SUFFICES ASSUME DistinctSlugs, Init PROVE BInv
  OBVIOUS
<1>1. PICK first \in [InitPurposes -> CaCerts] :
        InitSigned(first) /\ InitPublished(first)
  BY InitCerts
<1>2. LInv
  BY LineageInit
<1>3. VictimsOwn
  BY DEF Init, VictimsOwn, RevokingCa
<1>4. PemOfGen
  <2>1. \A g \in Gens : g = <<g[1], g[2]>>
    BY DEF Gens
  <2>. QED
    BY <1>1, <2>1, InitPem DEF PemOfGen, InitSigned
<1>5. \A c \in CaCerts : caRow[c] # "revoked"
  BY <1>1 DEF InitSigned
<1>6. crl[Root] = EmptyCrl(Root) /\ EmptyCrl(Root) \in Crl
  BY <1>1 DEF InitPublished, EmptyCrl, Crl, Init
<1>. QED
  BY <1>2, <1>3, <1>4, <1>5, <1>6, AbsentAssumption DEF BInv, Barred, EmptyCrl

\* The certificate that signs today is neither revoked nor on the root's CRL,
\* however a CA revocation that read the store before the lock races with
\* ceremonies (revoke_ca): what it read not to be active stays so.
THEOREM IssuersAreNotRevoked ==
    ASSUME DistinctSlugs PROVE Spec => []ActiveIssuerNotRevoked
<1>1. DistinctSlugs /\ BInv /\ [Next]_vars => BInv'
  BY BarredKept
<1>2. BInv => ActiveIssuerNotRevoked
  <2>. SUFFICES ASSUME BInv, NEW pu \in Purposes, NEW g \in Gens, g \in ActiveGens(pu),
                       pem[Slug(g)] # None
                PROVE  /\ pem[Slug(g)] \notin crl[Root].entries
                       /\ caRow[pem[Slug(g)]] # "revoked"
    BY DEF ActiveIssuerNotRevoked
  <2>1. pem[Slug(g)] \in CaCerts
    BY SlugType DEF BInv, LInv, TInv, TypeOK
  <2>. QED
    BY <2>1 DEF BInv, PemOfGen, Barred, ActiveGens
<1>. QED
  BY <1>1, <1>2, BarredInit, PTL DEF Spec

-----------------------------------------------------------------------------
(* One ceremony station *)

\* renew and add are run from one place, as the offline root's are.
RunsCeremonies(p) == Station[p] \cap {"renew", "add"} # {}
OneCeremonyStation ==
    \A p, q \in Procs : RunsCeremonies(p) /\ RunsCeremonies(q) => p = q

\* A recorded generation and the certificate that is published for it.
Published(g, c) == gens[g] # None /\ pem[Slug(g)] = c

\* Who is to sign or to revoke with a CA has one that is published; so has a
\* refresh, for each of its CRLs.
Signing == {"issue", "revoke", "revoke_commit"} \cup RevokingCa
Refreshing == {"refresh", "refresh_write"}
SignersPublished ==
    \A p \in Procs : pc[p] \in Signing => Published(job[p].gen, job[p].cert)
RefreshesPublished ==
    \A p \in Procs : pc[p] \in Refreshing =>
        \A t \in job[p].todo :
            t = <<Root, Root>> \/ \E g \in Gens : t[1] = Slug(g) /\ Published(g, t[2])
IssuersPublished ==
    \A s \in Leaves : leaf[s] # None =>
        /\ caCert[leaf[s].issuer] # None
        /\ Published(caCert[leaf[s].issuer].gen, leaf[s].issuer)

\* The index has one certificate for a generation, the published one.
RowsPublished ==
    \A c \in CaCerts : Indexed(c) =>
        /\ caCert[c] # None
        /\ Published(caCert[c].gen, c)

\* A ceremony in flight is the station's: its generation and its name are not
\* recorded, what it has published is its own, and not indexed.
Mints(p) ==
    /\ pc[p] \in Minting => /\ RunsCeremonies(p)
                            /\ gens[job[p].gen] = None
                            /\ ~CnIsTaken(job[p].who)
    /\ pc[p] \in Minted => /\ pem[Slug(job[p].gen)] = job[p].cert
                           /\ caRow[job[p].cert] = "absent"
    /\ pc[p] \in {"renew_commit", "add_commit"} =>
          /\ crl[Slug(job[p].gen)] # None
          /\ crl[Slug(job[p].gen)].signer = job[p].cert
StationMints == \A p \in Procs : Mints(p)

SInv == /\ KInv /\ BInv
        /\ SignersPublished /\ RefreshesPublished /\ IssuersPublished
        /\ RowsPublished /\ StationMints /\ GenerationNamesUnique /\ PublishedIsRecorded

\* A file of a recorded generation is not replaced.
PublishedKept == \A g \in Gens : gens[g] # None =>
                    gens'[g] # None /\ pem'[Slug(g)] = pem[Slug(g)]

LEMMA PublishedStays ==
    ASSUME DistinctSlugs, TInv, StationMints, Ages, NEW p \in Procs,
           Start(p) \/ Step(p) \/ Abort(p)
    PROVE  PublishedKept
<1>1. CASE RenewPem(p) \/ AddPem(p)
  <2>1. PICK c \in CaCerts : pem' = [pem EXCEPT ![Slug(job[p].gen)] = c]
    BY <1>1 DEF RenewPem, AddPem, MintPem
  <2>2. job[p].gen \in Gens /\ gens[job[p].gen] = None
    BY <1>1 DEF RenewPem, AddPem, MintPem, TInv, JobsFit, Fits, WithGen, Minting,
                StationMints, Mints
  <2>. QED
    BY <2>1, <2>2, SlugType, SlugsDiffer DEF PublishedKept, Ages, TInv, TypeOK
<1>2. CASE pem' = pem
  BY <1>2 DEF PublishedKept, Ages
<1>. QED
  BY <1>1, <1>2, Frame, ProcessSteps

\* Each CRL is rewritten with the key of the CA it is of.
LEMMA RewriterSigns ==
    ASSUME DistinctSlugs, SInv, NEW p \in Procs, NEW g \in Gens,
           Rewrites(p, Slug(g))
    PROVE  /\ gens[g] # None
           /\ crl'[Slug(g)] \in Crl /\ crl'[Slug(g)].signer = pem[Slug(g)]
<1>1. TInv /\ TypeOK /\ Slug(g) \in Slugs /\ Slug(g) # Root
  BY SlugType DEF SInv, KInv, LInv, TInv, DistinctSlugs
<1>2. PICK new \in SUBSET (Leaves \cup CaCerts), signer \in CaCerts \cup {Root} :
        /\ crl'[Slug(g)] = NewCrl(crl[Slug(g)], Kept(crl[Slug(g)]) \cup new, signer)
        /\ \/ RevokeWrite(p) /\ Slug(g) = Slug(job[p].gen) /\ signer = job[p].cert
           \/ RefreshWrite(p) /\ <<Slug(g), signer>> \in job[p].todo
  BY <1>1 DEF Rewrites
<1>3. crl[Slug(g)] \in Crl
  BY <1>1 DEF Rewrites, TypeOK
<1>4. crl'[Slug(g)] \in Crl /\ crl'[Slug(g)].signer = signer
  <2>1. crl'[Slug(g)] \in Crl
    BY <1>1, <1>2, <1>3, NewCrlType
  <2>. QED
    BY <1>2, <2>1 DEF NewCrl
<1>5. Published(g, signer)
  <2>1. CASE RevokeWrite(p) /\ Slug(g) = Slug(job[p].gen) /\ signer = job[p].cert
    <3>1. pc[p] = "revoke" /\ job[p].gen \in Gens
      BY <1>1, <2>1 DEF RevokeWrite, AtLock, TInv, JobsFit, Fits, WithGen
    <3>. QED
      BY <2>1, <3>1, SlugsDiffer DEF SInv, SignersPublished, Signing
  <2>2. CASE RefreshWrite(p) /\ <<Slug(g), signer>> \in job[p].todo
    <3>1. pc[p] \in Refreshing
      BY <2>2 DEF RefreshWrite, Refreshing
    <3>2. PICK h \in Gens : Slug(g) = Slug(h) /\ Published(h, signer)
      BY <1>1, <2>2, <3>1 DEF SInv, RefreshesPublished
    <3>. QED
      BY <3>2, SlugsDiffer
  <2>. QED
    BY <1>2, <2>1, <2>2
<1>. QED
  BY <1>4, <1>5 DEF Published

LEMMA SignersStep ==
    ASSUME SInv, PublishedKept, NEW p \in Procs, Start(p) \/ Step(p) \/ Abort(p)
    PROVE  SignersPublished'
<1>1. TInv /\ TypeOK
  BY DEF SInv, KInv, LInv, TInv
<1>. SUFFICES ASSUME NEW q \in Procs, pc'[q] \in Signing
              PROVE  Published(job[q].gen, job[q].cert)'
  BY DEF SignersPublished
<1>2. CASE q # p
  <2>1. pc'[q] = pc[q] /\ job'[q] = job[q]
    BY <1>1, <1>2, Arrives
  <2>2. job[q].gen \in Gens
    BY <1>1, <2>1 DEF TInv, JobsFit, Fits, WithGen, Signing, RevokingCa
  <2>. QED
    BY <2>1, <2>2 DEF SInv, SignersPublished, Published, PublishedKept
<1>3. CASE q = p /\ (RevokeWrite(p) \/ RevokeCaWrite(p))
  <2>1. job[p] \in Job /\ pc[p] \in Signing /\ job[p].gen \in Gens
    BY <1>1, <1>3 DEF RevokeWrite, RevokeCaWrite, AtLock, TypeOK, TInv, JobsFit, Fits,
                      WithGen, Signing, RevokingCa
  <2>2. job'[p].gen = job[p].gen /\ job'[p].cert = job[p].cert
    <3>1. CASE RevokeWrite(p)
      <4>1. PICK s : job' = [job EXCEPT ![p] = [job[p] EXCEPT !.who = s]]
        BY <3>1 DEF RevokeWrite, Become
      <4>. QED
        BY <1>1, <2>1, <4>1 DEF TypeOK, Job
    <3>2. CASE RevokeCaWrite(p)
      BY <1>1, <3>2 DEF RevokeCaWrite, Become, TypeOK
    <3>. QED
      BY <1>3, <3>1, <3>2
  <2>. QED
    BY <1>3, <2>1, <2>2 DEF SInv, SignersPublished, Published, PublishedKept
<1>4. CASE q = p /\ (IssueStart(p) \/ RevokeStart(p) \/ RevokeCaStart(p))
  <2>1. \E g \in Gens : /\ gens[g] # None
                        /\ job'[p].gen = g /\ job'[p].cert = pem[Slug(g)]
    <3>1. CASE IssueStart(p)
      <4>1. PICK cn \in Subjects, g \in Gens, life \in Lives :
              /\ ActiveCa(IssuedBy[cn], g)
              /\ Become(p, "issue", [NoJob EXCEPT !.gen = g, !.cert = pem[Slug(g)],
                                                  !.who = cn, !.life = life])
        BY <3>1 DEF IssueStart
      <4>2. gens[g] # None
        BY <4>1 DEF ActiveCa, ActiveGens
      <4>3. job'[p] = [NoJob EXCEPT !.gen = g, !.cert = pem[Slug(g)],
                                    !.who = cn, !.life = life]
        BY <1>1, <4>1 DEF Become, TypeOK
      <4>4. job'[p].gen = g /\ job'[p].cert = pem[Slug(g)]
        BY <4>3 DEF NoJob
      <4>. QED
        BY <4>2, <4>4
    <3>2. CASE RevokeStart(p)
      <4>1. PICK g \in Gens :
              /\ gens[g] # None
              /\ \E w : job' = [job EXCEPT ![p] =
                          [NoJob EXCEPT !.gen = g, !.cert = pem[Slug(g)], !.who = w]]
        BY <3>2 DEF RevokeStart, GenByCn, Become
      <4>. QED
        BY <1>1, <4>1 DEF TypeOK, NoJob
    <3>3. CASE RevokeCaStart(p)
      <4>1. PICK g \in Gens :
              /\ gens[g] # None
              /\ job' = [job EXCEPT ![p] =
                           [NoJob EXCEPT !.gen = g, !.cert = pem[Slug(g)]]]
        BY <3>3 DEF RevokeCaStart, GenByCn, Become
      <4>. QED
        BY <1>1, <4>1 DEF TypeOK, NoJob
    <3>. QED
      BY <1>4, <3>1, <3>2, <3>3
  <2>. QED
    BY <1>4, <2>1 DEF Published, PublishedKept
<1>. QED
  BY <1>1, <1>2, <1>3, <1>4, Arrives DEF Signing, RevokingCa

LEMMA RefreshesStep ==
    ASSUME SInv, PublishedKept, NEW p \in Procs, Start(p) \/ Step(p) \/ Abort(p)
    PROVE  RefreshesPublished'
<1>1. TInv /\ TypeOK
  BY DEF SInv, KInv, LInv, TInv
<1>. SUFFICES ASSUME NEW q \in Procs, pc'[q] \in Refreshing, NEW t \in job'[q].todo,
                     t # <<Root, Root>>
              PROVE  \E g \in Gens : t[1] = Slug(g) /\ gens'[g] # None
                                                    /\ pem'[Slug(g)] = t[2]
  BY DEF RefreshesPublished, Published
<1>2. CASE q # p \/ RefreshLock(p) \/ RefreshWrite(p)
  <2>1. pc[q] \in Refreshing /\ t \in job[q].todo
    <3>1. CASE q # p
      BY <1>1, <3>1, Arrives
    <3>2. CASE q = p
      <4>1. job[p] \in Job
        BY <1>1 DEF TypeOK
      <4>. QED
        BY <1>1, <1>2, <3>2, <4>1
        DEF RefreshLock, RefreshWrite, AtLock, Become, TypeOK, Job, Refreshing
    <3>. QED
      BY <3>1, <3>2
  <2>2. PICK g \in Gens : t[1] = Slug(g) /\ gens[g] # None /\ pem[Slug(g)] = t[2]
    BY <2>1 DEF SInv, RefreshesPublished, Published
  <2>. QED
    BY <2>2 DEF PublishedKept
<1>3. CASE q = p /\ RefreshStart(p)
  <2>1. PICK scope \in {SigningJobs, RootJobs, SigningJobs \cup RootJobs} :
           job' = [job EXCEPT ![p] = [NoJob EXCEPT !.todo = scope]]
    BY <1>3 DEF RefreshStart, Become
  <2>2. t \in scope
    BY <1>1, <1>3, <2>1 DEF TypeOK, NoJob
  <2>3. t \in SigningJobs
    BY <2>2 DEF RootJobs
  <2>4. PICK g \in Gens : gens[g] # None /\ t = <<Slug(g), pem[Slug(g)]>>
    BY <2>3 DEF SigningJobs, Unexpired, LiveGens
  <2>. QED
    BY <2>4 DEF PublishedKept
<1>. QED
  BY <1>1, <1>2, <1>3, Arrives DEF Refreshing

LEMMA RowsStep ==
    ASSUME DistinctNames, SInv, PublishedKept, RowsLast, NEW p \in Procs,
           Start(p) \/ Step(p) \/ Abort(p)
    PROVE  RowsPublished'
<1>1. TInv /\ TypeOK
  BY DEF SInv, KInv, LInv, TInv
<1>2. ASSUME NEW c \in CaCerts, Indexed(c)
      PROVE  caCert'[c] # None /\ Published(caCert[c].gen, c)'
  <2>1. caCert[c] # None /\ Published(caCert[c].gen, c)
    BY <1>2 DEF SInv, RowsPublished
  <2>2. caCert'[c] = caCert[c] /\ caCert[c].gen \in Gens
    BY <1>1, <2>1 DEF RowsLast, CertsKept, TypeOK, CaCertificate
  <2>. QED
    BY <2>1, <2>2 DEF Published, PublishedKept
<1>3. CASE RenewCommit(p) \/ AddCommit(p)
  <2>1. /\ job[p].gen \in Gens /\ job[p].cert \in CaCerts
        /\ \A c \in CaCerts : caRow'[c] # "absent" => Indexed(c) \/ c = job[p].cert
        /\ gens'[job[p].gen] # None
        /\ caCert[job[p].cert] # None /\ caCert[job[p].cert].gen = job[p].gen
    BY <1>3, CommitRecords DEF SInv, Indexed
  <2>2. pem[Slug(job[p].gen)] = job[p].cert
    BY <1>3 DEF RenewCommit, AddCommit, AtLock, SInv, StationMints, Mints, Minted, Minting
  <2>3. UNCHANGED <<pem, caCert>>
    BY <1>3, Frame
  <2>. QED
    BY <1>2, <2>1, <2>2, <2>3 DEF RowsPublished, Indexed, Published
<1>4. CASE ~RenewCommit(p) /\ ~AddCommit(p)
  <2>1. \A c \in CaCerts : caRow'[c] # "absent" => Indexed(c)
    BY <1>4, OthersRecordNothing DEF SInv, Indexed
  <2>. QED
    BY <1>2, <2>1 DEF RowsPublished, Indexed
<1>. QED
  BY <1>3, <1>4

LEMMA IssuersStep ==
    ASSUME SInv, PublishedKept, RowsLast, NEW p \in Procs,
           Start(p) \/ Step(p) \/ Abort(p)
    PROVE  IssuersPublished'
<1>1. TInv /\ TypeOK
  BY DEF SInv, KInv, LInv, TInv
<1>2. ASSUME NEW c \in CaCerts, caCert[c] # None, Published(caCert[c].gen, c)
      PROVE  caCert'[c] # None /\ Published(caCert[c].gen, c)'
  <2>1. caCert'[c] = caCert[c] /\ caCert[c].gen \in Gens
    BY <1>1, <1>2 DEF RowsLast, CertsKept, TypeOK, CaCertificate
  <2>. QED
    BY <1>2, <2>1 DEF Published, PublishedKept
<1>3. CASE IssueCommit(p)
  <2>1. /\ job[p].gen \in Gens /\ job[p].cert \in CaCerts
        /\ Published(job[p].gen, job[p].cert)
    BY <1>1, <1>3 DEF IssueCommit, AtLock, TInv, JobsFit, Fits, WithGen, WithCert,
                      SInv, SignersPublished, Signing
  <2>2. caCert[job[p].cert] # None /\ caCert[job[p].cert].gen = job[p].gen
    BY <2>1, AbsentAssumption, DistinctAssumption DEF Published, SInv, BInv, PemOfGen
  <2>3. PICK r \in Leaves :
          /\ leaf[r] = None
          /\ leaf' = [leaf EXCEPT ![r] =
                        [cn |-> job[p].who, issuer |-> job[p].cert,
                         notBefore |-> clock, notAfter |-> clock + job[p].life,
                         status |-> "active"]]
    BY <1>3 DEF IssueCommit
  <2>4. UNCHANGED <<gens, pem, caCert>>
    BY <1>3, Frame
  <2>5. /\ leaf'[r].issuer = job[p].cert
        /\ \A s \in Leaves : s # r => leaf'[s] = leaf[s]
    BY <1>1, <2>3 DEF TypeOK
  <2>. QED
    BY <2>1, <2>2, <2>4, <2>5 DEF IssuersPublished, Published, SInv
<1>4. CASE ~IssueCommit(p)
  <2>1. \A s \in Leaves : leaf'[s] # None => leaf[s] # None
    <3>1. CASE RevokeCommit(p)
      BY <1>1, <3>1 DEF RevokeCommit, TypeOK, TInv, JobsFit, Fits
    <3>2. CASE leaf' = leaf
      BY <3>2
    <3>. QED
      BY <1>4, <3>1, <3>2, Frame, ProcessSteps
  <2>. SUFFICES ASSUME NEW s \in Leaves, leaf'[s] # None
                PROVE  /\ caCert'[leaf'[s].issuer] # None
                       /\ Published(caCert[leaf[s].issuer].gen, leaf[s].issuer)'
    BY DEF IssuersPublished
  <2>2. leaf[s] # None /\ leaf'[s].issuer = leaf[s].issuer /\ leaf[s].issuer \in CaCerts
    BY <1>1, <2>1 DEF RowsLast, LeavesKept, TypeOK, LeafRow
  <2>3. PICK c \in CaCerts : c = leaf[s].issuer /\ c = leaf'[s].issuer
    BY <2>2
  <2>4. caCert[c] # None /\ Published(caCert[c].gen, c)
    BY <2>2, <2>3 DEF SInv, IssuersPublished
  <2>5. caCert'[c] = caCert[c]
    BY <2>4 DEF RowsLast, CertsKept
  <2>. QED
    BY <1>2, <2>3, <2>4, <2>5 DEF Published
<1>. QED
  BY <1>3, <1>4

\* Only the station takes a step of a ceremony.
LEMMA OnlyTheStation ==
    ASSUME SInv, NEW p \in Procs, ~RunsCeremonies(p), Start(p) \/ Step(p) \/ Abort(p)
    PROVE  /\ UNCHANGED <<pem, caCert, locked>>
           /\ ~RenewCrl(p) /\ ~AddCrl(p) /\ ~RenewCommit(p) /\ ~AddCommit(p)
           /\ ~RenewPem(p) /\ ~AddPem(p) /\ ~RenewStart(p) /\ ~AddStart(p)
<1>1. pc[p] \notin Minting
  BY DEF SInv, StationMints, Mints
<1>2. ~RenewStart(p) /\ ~AddStart(p)
  BY DEF RenewStart, AddStart, Runs, RunsCeremonies
<1>3. ~RenewPem(p) /\ ~AddPem(p) /\ ~RenewCrl(p) /\ ~AddCrl(p)
  BY <1>1 DEF RenewPem, AddPem, RenewCrl, AddCrl, MintPem, MintCrl, Minting
<1>4. ~RenewCommit(p) /\ ~AddCommit(p)
  BY <1>1 DEF RenewCommit, AddCommit, AtLock, Minting
<1>. QED
  BY <1>2, <1>3, <1>4, Frame, ProcessSteps

\* No other command disturbs a ceremony in flight.
LEMMA OthersLeaveMints ==
    ASSUME OneCeremonyStation, DistinctNames, DistinctSlugs, SInv, Ages,
           NEW p \in Procs, Start(p) \/ Step(p) \/ Abort(p),
           NEW q \in Procs, q # p
    PROVE  Mints(q)'
<1>1. TInv /\ TypeOK /\ pc'[q] = pc[q] /\ job'[q] = job[q]
  BY Arrives DEF SInv, KInv, LInv, TInv
<1>2. CASE pc[q] \notin Minting
  BY <1>1, <1>2 DEF Mints, Minted, Minting
<1>3. CASE pc[q] \in Minting
  <2>1. /\ Mints(q) /\ RunsCeremonies(q)
        /\ job[q].gen \in Gens /\ gens[job[q].gen] = None /\ ~CnIsTaken(job[q].who)
        /\ pc[q] \in Minted => job[q].cert \in CaCerts
    BY <1>1, <1>3 DEF SInv, StationMints, Mints, TInv, JobsFit, Fits, WithGen, WithCert,
                      Minting, Minted
  <2>2. /\ UNCHANGED <<pem, caCert, locked>>
        /\ ~RenewCrl(p) /\ ~AddCrl(p) /\ ~RenewCommit(p) /\ ~AddCommit(p)
    BY <2>1, OnlyTheStation DEF OneCeremonyStation
  <2>3. /\ \A c \in CaCerts : caRow'[c] # "absent" => caRow[c] # "absent"
        /\ \A g \in Gens : gens'[g] # None => gens[g] # None
    BY <2>2, OthersRecordNothing DEF SInv
  <2>4. gens'[job[q].gen] = None
    BY <2>1, <2>3
  <2>5. \A g \in Gens : ~(gens'[g] # None /\ gens'[g].cn = job[q].who)
    BY <2>1, <2>3 DEF CnIsTaken, GenByCn, Ages
  <2>6. crl'[Slug(job[q].gen)] = crl[Slug(job[q].gen)]
    BY <1>1, <2>1, <2>2, SlugType, CrlSteps, RewriterSigns
  <2>7. pc[q] \in Minted => caRow'[job[q].cert] = "absent"
    BY <2>1, <2>3 DEF Mints
  <2>. QED
    BY <1>1, <2>1, <2>2, <2>4, <2>5, <2>6, <2>7
    DEF Mints, CnIsTaken, GenByCn
<1>. QED
  BY <1>2, <1>3

\* A ceremony starts on a generation and a name that are not recorded.
LEMMA CeremonyStarts ==
    ASSUME DistinctNames, SInv, NEW p \in Procs, RenewStart(p) \/ AddStart(p),
           pc'[p] \in Minting
    PROVE  Mints(p)'
<1>1. TypeOK /\ KInv /\ LInv
  BY DEF SInv, KInv, LInv, TInv
<1>2. /\ RunsCeremonies(p) /\ gens' = gens
  BY NothingToBackfill, Frame, <1>1
  DEF OnlyReads, RenewStart, AddStart, Runs, RunsCeremonies
<1>3. /\ pc'[p] \in {"renew_pem", "add_pem"}
      /\ gens[job'[p].gen] = None /\ ~CnIsTaken(job'[p].who)
  <2>1. CASE RenewStart(p)
    <3>1. PICK pu \in locked, cn \in NewCns, g \in Gens :
            /\ ActiveCa(pu, g) /\ g[2] < MaxGen /\ ~CnIsTaken(cn)
            /\ Become(p, "renew_pem", [NoJob EXCEPT !.gen = Successor(g), !.who = cn])
      BY <2>1 DEF RenewStart
    <3>2. /\ pc'[p] = "renew_pem"
          /\ job'[p].gen = Successor(g) /\ job'[p].who = cn
      BY <1>1, <3>1 DEF Become, TypeOK, NoJob
    <3>3. /\ pu \in Purposes /\ g[1] = pu /\ gens[g] # None /\ g \in ActiveGens(pu)
          /\ g[2] \in Nat
      BY <1>1, <3>1, NumberAssumption DEF TypeOK, ActiveCa, ActiveGens, Gens
    <3>4. \A h \in Gens : h[1] = pu /\ gens[h] # None => h[2] <= g[2]
      BY <1>1, <3>3 DEF LInv, OneActiveIssuer, Held
    <3>5. /\ Successor(g) \in Gens /\ Successor(g)[1] = pu
          /\ ~(Successor(g)[2] <= g[2])
      BY <3>1, <3>3, NumberAssumption DEF Successor, Gens
    <3>. QED
      BY <3>1, <3>2, <3>4, <3>5
  <2>2. CASE AddStart(p)
    <3>1. PICK pu \in Purposes :
            \/ Done(p)
            \/ /\ pu \notin locked
               /\ ~\E g \in Gens : gens[g] # None /\ gens[g].cn = ConfigCn[pu]
               /\ Become(p, "add_pem", [NoJob EXCEPT !.gen = <<pu, 1>>,
                                                     !.who = ConfigCn[pu]])
      BY <1>2, <2>2 DEF AddStart
    <3>2. ~Done(p)
      BY <1>1 DEF Done, Become, TypeOK, Minting
    <3>3. /\ pc'[p] = "add_pem"
          /\ job'[p].gen = <<pu, 1>> /\ job'[p].who = ConfigCn[pu]
      <4>1. Become(p, "add_pem", [NoJob EXCEPT !.gen = <<pu, 1>>,
                                               !.who = ConfigCn[pu]])
        BY <3>1, <3>2
      <4>2. /\ pc' = [pc EXCEPT ![p] = "add_pem"]
            /\ job' = [job EXCEPT ![p] = [NoJob EXCEPT !.gen = <<pu, 1>>,
                                                       !.who = ConfigCn[pu]]]
        BY <4>1 DEF Become
      <4>3. pc'[p] = "add_pem"
        BY <1>1, <4>2 DEF TypeOK
      <4>4. job'[p] = [NoJob EXCEPT !.gen = <<pu, 1>>, !.who = ConfigCn[pu]]
        BY <1>1, <4>2 DEF TypeOK
      <4>. QED
        BY <4>3, <4>4 DEF NoJob
    <3>4. <<pu, 1>> \in Gens
      BY NumberAssumption DEF Gens
    <3>. QED
      BY <1>1, <3>1, <3>2, <3>3, <3>4 DEF KInv, GenerationsAreLocked, CnIsTaken, GenByCn
  <2>. QED
    BY <2>1, <2>2
<1>. QED
  BY <1>2, <1>3 DEF Mints, Minted, Minting, CnIsTaken, GenByCn

\* mint_ca_generation publishes what the ceremony signed, and indexes nothing.
LEMMA CeremonyPublishes ==
    ASSUME SInv, NEW p \in Procs, \/ RenewPem(p) \/ AddPem(p)
                                  \/ RenewCrl(p) \/ AddCrl(p)
    PROVE  Mints(p)'
<1>1. TInv /\ TypeOK /\ pc[p] \in Minting /\ job[p] \in Job /\ gens' = gens
      /\ caRow' = caRow
  BY Frame DEF SInv, KInv, LInv, TInv, TypeOK, RenewPem, AddPem, RenewCrl, AddCrl,
               MintPem, MintCrl, Minting
<1>2. /\ RunsCeremonies(p) /\ gens[job[p].gen] = None /\ ~CnIsTaken(job[p].who)
      /\ job[p].gen \in Gens
  BY <1>1 DEF SInv, StationMints, Mints, TInv, JobsFit, Fits, WithGen, Minting
<1>3. CASE RenewPem(p) \/ AddPem(p)
  <2>1. PICK c \in CaCerts :
          /\ caCert[c] = None
          /\ pem' = [pem EXCEPT ![Slug(job[p].gen)] = c]
          /\ job' = [job EXCEPT ![p] = [job[p] EXCEPT !.cert = c]]
    BY <1>3 DEF RenewPem, AddPem, MintPem, Become
  <2>2. /\ job'[p].gen = job[p].gen /\ job'[p].who = job[p].who /\ job'[p].cert = c
    BY <1>1, <2>1 DEF TypeOK, Job
  <2>3. pem'[Slug(job[p].gen)] = c
    BY <1>1, <1>2, <2>1, SlugType DEF TypeOK
  <2>4. caRow[c] = "absent"
    BY <2>1 DEF SInv, KInv, IndexedIsMade
  <2>5. pc'[p] \in {"renew_crl", "add_crl"}
    BY <1>1, <1>3 DEF RenewPem, AddPem, MintPem, Become, TypeOK
  <2>. QED
    BY <1>1, <1>2, <2>2, <2>3, <2>4, <2>5 DEF Mints, CnIsTaken, GenByCn
<1>4. CASE RenewCrl(p) \/ AddCrl(p)
  <2>1. /\ job' = job /\ pem' = pem
        /\ crl' = [crl EXCEPT ![Slug(job[p].gen)] = EmptyCrl(job[p].cert)]
    BY <1>1, <1>4, Frame DEF RenewCrl, AddCrl, MintCrl, Become, TypeOK
  <2>2. pc[p] \in {"renew_crl", "add_crl"}
    BY <1>4 DEF RenewCrl, AddCrl, MintCrl
  <2>3. /\ job[p].cert \in CaCerts /\ pem[Slug(job[p].gen)] = job[p].cert
        /\ caRow[job[p].cert] = "absent"
    BY <1>1, <2>2 DEF SInv, StationMints, Mints, Minted, Minting, TInv, JobsFit, Fits,
                      WithGen, WithCert
  <2>4. EmptyCrl(job[p].cert) \in Crl /\ EmptyCrl(job[p].cert).signer = job[p].cert
    BY <1>1, <2>3 DEF EmptyCrl, Crl, TypeOK
  <2>5. crl'[Slug(job[p].gen)] = EmptyCrl(job[p].cert)
    BY <1>1, <1>2, <2>1, SlugType DEF TypeOK
  <2>. QED
    BY <1>1, <1>2, <2>1, <2>3, <2>4, <2>5, AbsentAssumption DEF Mints, CnIsTaken, GenByCn
<1>. QED
  BY <1>3, <1>4

LEMMA StationStep ==
    ASSUME OneCeremonyStation, DistinctNames, DistinctSlugs, SInv, Ages,
           NEW p \in Procs, Start(p) \/ Step(p) \/ Abort(p)
    PROVE  StationMints'
<1>1. TypeOK
  BY DEF SInv, KInv, LInv, TInv
<1>2. Mints(p)'
  <2>1. CASE pc'[p] \notin Minting
    BY <2>1 DEF Mints, Minted, Minting
  <2>2. CASE pc'[p] \in Minting
    <3>1. \/ RenewStart(p) \/ AddStart(p) \/ RenewPem(p) \/ AddPem(p)
          \/ RenewCrl(p) \/ AddCrl(p)
      BY <1>1, <2>2, Arrives DEF Minting
    <3>. QED
      BY <2>2, <3>1, CeremonyStarts, CeremonyPublishes
  <2>. QED
    BY <2>1, <2>2
<1>. QED
  BY <1>2, OthersLeaveMints DEF StationMints

\* A generation is recorded under a name no other has.
LEMMA NamesUniqueStep ==
    ASSUME DistinctNames, SInv, Ages, NEW p \in Procs, Start(p) \/ Step(p) \/ Abort(p)
    PROVE  GenerationNamesUnique'
<1>1. CASE RenewCommit(p) \/ AddCommit(p)
  <2>1. /\ \A g \in Gens : gens'[g] # None => gens[g] # None \/ g = job[p].gen
        /\ gens'[job[p].gen] = [cn |-> job[p].who, status |-> "active"]
    BY <1>1, CommitRecords DEF SInv
  <2>2. gens[job[p].gen] = None /\ ~CnIsTaken(job[p].who)
    BY <1>1 DEF RenewCommit, AddCommit, AtLock, SInv, StationMints, Mints, Minting
  <2>3. \A g \in Gens : gens[g] # None =>
           gens'[g].cn = gens[g].cn /\ gens[g].cn # job[p].who
    BY <2>2 DEF Ages, CnIsTaken, GenByCn
  <2>. QED
    BY <2>1, <2>3 DEF GenerationNamesUnique, SInv
<1>2. CASE ~RenewCommit(p) /\ ~AddCommit(p)
  <2>1. \A g \in Gens : gens'[g] # None => gens[g] # None
    BY <1>2, OthersRecordNothing DEF SInv
  <2>. QED
    BY <2>1 DEF GenerationNamesUnique, SInv, Ages
<1>. QED
  BY <1>1, <1>2

\* What PublishedIsRecorded says of one generation.
WellPublished(g) ==
    /\ pem[Slug(g)] # None /\ Indexed(pem[Slug(g)])
    /\ caCert[pem[Slug(g)]].gen = g
    /\ caCert[pem[Slug(g)]].cn = gens[g].cn
    /\ crl[Slug(g)] # None /\ crl[Slug(g)].signer = pem[Slug(g)]
    /\ gens[g].status = "revoked" <=> caRow[pem[Slug(g)]] = "revoked"

\* A generation and its published certificate are revoked by one commit
\* (revoke_ca).
LEMMA RevokedTogether ==
    ASSUME DistinctNames, DistinctSlugs, SInv, NEW p \in Procs,
           Start(p) \/ Step(p) \/ Abort(p), NEW g \in Gens, gens[g] # None,
           NEW c \in CaCerts, pem[Slug(g)] = c
    PROVE  gens'[g].status = "revoked" <=> caRow'[c] = "revoked"
<1>1. TInv /\ TypeOK
  BY DEF SInv, KInv, LInv, TInv
<1>2. /\ Indexed(c) /\ caCert[c].gen = g
      /\ gens[g].status = "revoked" <=> caRow[c] = "revoked"
  BY DEF SInv, PublishedIsRecorded
<1>3. CASE RevokeCaCommit(p)
  <2>1. /\ job[p].gen \in Gens /\ job[p].cert \in CaCerts
        /\ Published(job[p].gen, job[p].cert)
        /\ caCert[job[p].cert].gen = job[p].gen
    BY <1>1, <1>3 DEF RevokeCaCommit, TInv, JobsFit, Fits, WithGen, WithCert, RevokingCa,
                      SInv, BInv, SignersPublished, Signing, VictimsOwn
  <2>2. gens[job[p].gen] \in GenRow
    BY <1>1, <2>1 DEF Published, TypeOK
  <2>3. gens' = [gens EXCEPT ![job[p].gen] = [gens[job[p].gen] EXCEPT !.status = "revoked"]]
    BY <1>3 DEF RevokeCaCommit
  <2>4. caRow' = [caRow EXCEPT ![job[p].cert] =
                    IF caRow[job[p].cert] = "absent" THEN caRow[job[p].cert]
                    ELSE "revoked"]
    BY <1>3 DEF RevokeCaCommit
  <2>5. CASE g = job[p].gen
    <3>1. c = job[p].cert
      BY <2>1, <2>5 DEF Published
    <3>2. gens'[g].status = "revoked"
      BY <1>1, <2>2, <2>3, <2>5 DEF GenRow, TypeOK
    <3>3. caRow'[c] = "revoked"
      BY <1>1, <1>2, <2>4, <3>1 DEF Indexed, TypeOK
    <3>. QED
      BY <3>2, <3>3
  <2>6. CASE g # job[p].gen
    <3>1. c # job[p].cert
      BY <1>2, <2>1, <2>6
    <3>2. gens'[g] = gens[g] /\ caRow'[c] = caRow[c]
      BY <1>1, <2>3, <2>4, <2>6, <3>1 DEF TypeOK
    <3>. QED
      BY <1>2, <3>2
  <2>. QED
    BY <2>5, <2>6
<1>4. CASE RenewCommit(p) \/ AddCommit(p)
  <2>1. /\ job[p].gen # g /\ job[p].cert # c /\ job[p].cert \in CaCerts
        /\ job[p].gen \in Gens
    BY <1>1, <1>2, <1>4
    DEF RenewCommit, AddCommit, AtLock, SInv, StationMints, Mints, Minted, Minting,
        Indexed, TInv, JobsFit, Fits, WithGen, WithCert
  <2>2. caRow'[c] = caRow[c]
    BY <1>1, <1>4, <2>1 DEF RenewCommit, AddCommit, TypeOK
  <2>3. gens'[g].status = "revoked" <=> gens[g].status = "revoked"
    <3>1. CASE RenewCommit(p)
      <4>1. gens'[g] = Retired(job[p].gen[1])[g]
        BY <2>1, <3>1 DEF RenewCommit, Retired
      <4>2. gens[g] \in GenRow
        BY <1>1 DEF TypeOK
      <4>. QED
        BY <4>1, <4>2 DEF Retired, ActiveGens, GenRow
    <3>2. CASE AddCommit(p)
      BY <1>1, <2>1, <3>2 DEF AddCommit, TypeOK
    <3>. QED
      BY <1>4, <3>1, <3>2
  <2>. QED
    BY <1>2, <2>2, <2>3
<1>5. CASE UNCHANGED <<caRow, gens>>
  BY <1>2, <1>5
<1>6. CASE AddStart(p)
  BY <1>2, <1>6, NothingToBackfill, Frame DEF SInv, AddStart
<1>. QED
  BY <1>3, <1>4, <1>5, <1>6, Frame, ProcessSteps

\* The published files of a recorded generation go on matching its row.
LEMMA RecordedStays ==
    ASSUME DistinctNames, DistinctSlugs, SInv, Ages, RowsLast, PublishedKept,
           TypeOK', NEW p \in Procs, Start(p) \/ Step(p) \/ Abort(p),
           NEW g \in Gens, gens[g] # None
    PROVE  WellPublished(g)'
<1>1. TInv /\ TypeOK /\ WellPublished(g)
  BY DEF SInv, KInv, LInv, TInv, PublishedIsRecorded, WellPublished
<1>2. PICK c \in CaCerts : c = pem[Slug(g)] /\ c = pem'[Slug(g)]
  BY <1>1, SlugType DEF WellPublished, TypeOK, PublishedKept
<1>3. caRow'[c] # "absent" /\ caCert'[c] = caCert[c] /\ gens'[g].cn = gens[g].cn
  BY <1>1, <1>2 DEF RowsLast, CertsKept, Ages, WellPublished, Indexed,
                    SInv, BInv, PemOfGen
<1>4. c # None
  BY DistinctAssumption
<1>5. crl'[Slug(g)] # None /\ crl'[Slug(g)].signer = c
  <2>1. CASE crl'[Slug(g)] = crl[Slug(g)]
    BY <1>1, <1>2, <2>1 DEF WellPublished
  <2>2. CASE Rewrites(p, Slug(g))
    BY <1>2, <2>2, RewriterSigns, AbsentAssumption
  <2>3. ~((RenewCrl(p) \/ AddCrl(p)) /\ Slug(g) = Slug(job[p].gen))
    <3>1. RenewCrl(p) \/ AddCrl(p) =>
             job[p].gen \in Gens /\ gens[job[p].gen] = None
      BY <1>1 DEF RenewCrl, AddCrl, MintCrl, TInv, JobsFit, Fits, WithGen, Minting,
                  SInv, StationMints, Mints
    <3>. QED
      BY <3>1, SlugsDiffer
  <2>. QED
    BY <1>1, <2>1, <2>2, <2>3, CrlSteps, SlugType
<1>6. gens'[g].status = "revoked" <=> caRow'[c] = "revoked"
  BY <1>2, RevokedTogether
<1>. QED
  BY <1>1, <1>2, <1>3, <1>4, <1>5, <1>6 DEF WellPublished, Indexed

LEMMA PublishedStep ==
    ASSUME DistinctNames, DistinctSlugs, SInv, Ages, RowsLast, PublishedKept,
           TypeOK', NEW p \in Procs, Start(p) \/ Step(p) \/ Abort(p)
    PROVE  PublishedIsRecorded'
<1>1. TInv /\ TypeOK
  BY DEF SInv, KInv, LInv, TInv
<1>2. ASSUME NEW g \in Gens, gens'[g] # None, gens[g] = None PROVE WellPublished(g)'
  <2>1. RenewCommit(p) \/ AddCommit(p)
    BY <1>2, OthersRecordNothing DEF SInv
  <2>2. /\ g = job[p].gen /\ job[p].cert \in CaCerts
        /\ gens'[g] = [cn |-> job[p].who, status |-> "active"]
        /\ caCert[job[p].cert].gen = g /\ caCert[job[p].cert].cn = job[p].who
    BY <1>2, <2>1, CommitRecords DEF SInv
  <2>3. /\ pem[Slug(g)] = job[p].cert
        /\ crl[Slug(g)] # None /\ crl[Slug(g)].signer = job[p].cert
    BY <2>1, <2>2 DEF RenewCommit, AddCommit, AtLock, SInv, StationMints, Mints, Minted,
                      Minting
  <2>4. UNCHANGED <<pem, crl, caCert>> /\ caRow'[job[p].cert] = "active"
    BY <1>1, <2>1, <2>2, Frame DEF RenewCommit, AddCommit, TypeOK
  <2>. QED
    BY <2>2, <2>3, <2>4, DistinctAssumption DEF WellPublished, Indexed
<1>3. ASSUME NEW g \in Gens, gens'[g] # None PROVE WellPublished(g)'
  BY <1>2, <1>3, RecordedStays
<1>. QED
  BY <1>3 DEF PublishedIsRecorded, WellPublished

LEMMA StationKept ==
    OneCeremonyStation /\ DistinctNames /\ DistinctSlugs /\ SInv /\ [Next]_vars => SInv'
<1>. SUFFICES ASSUME OneCeremonyStation, DistinctNames, DistinctSlugs, SInv, [Next]_vars
              PROVE  SInv'
  OBVIOUS
<1>1. KInv' /\ BInv' /\ Ages /\ TInv /\ TypeOK'
  BY NamesStep, BarredKept, LineageStep DEF SInv, KInv, LInv, TInv
<1>2. RowsLast
  BY <1>1, KeptStep
<1>3. CASE Tick \/ UNCHANGED vars
  <2>1. UNCHANGED <<leaf, caRow, gens, locked, caCert, pem, crl, pc, job>>
    BY <1>3 DEF Tick, vars, db, files, procs
  <2>2. StationMints'
    BY <2>1 DEF SInv, StationMints, Mints, CnIsTaken, GenByCn
  <2>3. SignersPublished' /\ RefreshesPublished' /\ IssuersPublished' /\ RowsPublished'
    BY <2>1 DEF SInv, SignersPublished, RefreshesPublished, IssuersPublished,
                RowsPublished, Indexed, Published
  <2>4. GenerationNamesUnique' /\ PublishedIsRecorded'
    BY <2>1 DEF SInv, GenerationNamesUnique, PublishedIsRecorded, Indexed
  <2>. QED
    BY <1>1, <2>2, <2>3, <2>4 DEF SInv
<1>4. ASSUME NEW p \in Procs, Start(p) \/ Step(p) \/ Abort(p) PROVE SInv'
  <2>1. PublishedKept
    BY <1>1, <1>4, PublishedStays DEF SInv
  <2>2. SignersPublished' /\ RefreshesPublished' /\ IssuersPublished' /\ RowsPublished'
    BY <1>2, <1>4, <2>1, SignersStep, RefreshesStep, IssuersStep, RowsStep
  <2>3. StationMints' /\ GenerationNamesUnique'
    BY <1>1, <1>4, StationStep, NamesUniqueStep
  <2>4. PublishedIsRecorded'
    BY <1>1, <1>2, <1>4, <2>1, PublishedStep
  <2>. QED
    BY <1>1, <2>2, <2>3, <2>4 DEF SInv
<1>. QED
  BY <1>3, <1>4 DEF Next

LEMMA StationInit == DistinctNames /\ DistinctSlugs /\ Init => SInv
<1>. SUFFICES ASSUME DistinctNames, DistinctSlugs, Init PROVE SInv
  OBVIOUS
<1>1. KInv /\ BInv
  BY NamesInit, BarredInit
<1>2. /\ SignersPublished /\ RefreshesPublished /\ StationMints
  BY DEF Init, SignersPublished, RefreshesPublished, StationMints, Mints, Signing,
         Refreshing, Minting, Minted, RevokingCa
<1>3. IssuersPublished
  BY DEF Init, IssuersPublished
<1>4. PICK first \in [InitPurposes -> CaCerts] :
        InitSigned(first) /\ InitPublished(first)
  BY InitCerts
<1>5. \A g \in Gens : gens[g] # None =>
        /\ g[1] \in InitPurposes /\ g = <<g[1], 1>>
        /\ gens[g].cn = ConfigCn[g[1]] /\ gens[g].status = "active"
  <2>. SUFFICES ASSUME NEW g \in Gens, gens[g] # None
                PROVE  /\ g[1] \in InitPurposes /\ g = <<g[1], 1>>
                       /\ gens[g].cn = ConfigCn[g[1]] /\ gens[g].status = "active"
    OBVIOUS
  <2>1. gens[g] = [cn |-> ConfigCn[g[1]], status |-> "active"]
    BY DEF Init
  <2>2. gens[g].cn = ConfigCn[g[1]] /\ gens[g].status = "active"
    BY <2>1
  <2>. QED
    BY <2>2 DEF Init, Gens
<1>6. GenerationNamesUnique
  <2>. SUFFICES ASSUME NEW g \in Gens, NEW h \in Gens, gens[g] # None, gens[h] # None,
                       gens[g].cn = gens[h].cn
                PROVE  g = h
    BY DEF GenerationNamesUnique
  <2>1. gens[g].cn = ConfigCn[g[1]] /\ gens[h].cn = ConfigCn[h[1]]
    BY <1>5
  <2>2. g[1] = h[1]
    BY <1>5, <2>1, PurposeAssumption DEF DistinctNames
  <2>. QED
    BY <1>5, <2>2
<1>7. ASSUME NEW g \in Gens, gens[g] # None
      PROVE  WellPublished(g)
  <2>1. g[1] \in InitPurposes /\ g = <<g[1], 1>> /\ pem[Slug(g)] = first[g[1]]
    BY <1>4, <1>5, <1>7, InitPem
  <2>2. first[g[1]] \in CaCerts
    BY <2>1
  <2>3. /\ caCert[pem[Slug(g)]].gen = g /\ caCert[pem[Slug(g)]].cn = ConfigCn[g[1]]
        /\ caRow[pem[Slug(g)]] = "active" /\ pem[Slug(g)] # None
    BY <1>4, <2>1, <2>2, DistinctAssumption DEF InitSigned
  <2>4. crl[Slug(g)] = EmptyCrl(pem[Slug(g)])
    BY <1>4, <2>3, SlugType DEF InitPublished, DistinctSlugs
  <2>5. EmptyCrl(pem[Slug(g)]) \in Crl
    BY <1>1, <2>1, <2>2 DEF EmptyCrl, Crl, Init
  <2>6. crl[Slug(g)] # None /\ crl[Slug(g)].signer = pem[Slug(g)]
    BY <2>4, <2>5, AbsentAssumption DEF EmptyCrl
  <2>7. gens[g].cn = ConfigCn[g[1]] /\ gens[g].status = "active"
    BY <1>5, <1>7
  <2>. QED
    BY <2>3, <2>6, <2>7 DEF WellPublished, Indexed
<1>8. RowsPublished
  <2>. SUFFICES ASSUME NEW c \in CaCerts, Indexed(c)
                PROVE  caCert[c] # None /\ Published(caCert[c].gen, c)
    BY DEF RowsPublished
  <2>1. PICK pu \in InitPurposes : first[pu] = c
    BY <1>4 DEF InitSigned, Indexed
  <2>2. caCert[c] # None /\ caCert[c].gen = <<pu, 1>>
    BY <1>4, <2>1 DEF InitSigned
  <2>3. pem[Slug(<<pu, 1>>)] = c /\ <<pu, 1>> \in Gens
    BY <1>4, <2>1, InitPem, PurposeAssumption, NumberAssumption DEF Gens
  <2>4. gens[<<pu, 1>>] = [cn |-> ConfigCn[pu], status |-> "active"]
    BY <2>3 DEF Init
  <2>5. gens[<<pu, 1>>] \in GenRow
    BY <2>4, PurposeAssumption DEF GenRow
  <2>. QED
    BY <2>2, <2>3, <2>5, AbsentAssumption DEF Published
<1>. QED
  BY <1>1, <1>2, <1>3, <1>6, <1>7, <1>8 DEF SInv, PublishedIsRecorded, WellPublished

\* What is published for a recorded generation is the certificate the index
\* has for it, with its key and a CRL of its own, through every renewal, added
\* CA, crash and revocation (mint_ca_generation), when the ceremonies are run
\* from one station and neither names nor slugs clash.
THEOREM RecordedIsPublished ==
    ASSUME OneCeremonyStation, DistinctNames, DistinctSlugs
    PROVE  Spec => []PublishedIsRecorded
<1>1. SInv /\ [Next]_vars => SInv'
  BY StationKept
<1>2. Init => SInv
  BY StationInit
<1>3. SInv => PublishedIsRecorded
  BY DEF SInv
<1>. QED
  BY <1>1, <1>2, <1>3, PTL DEF Spec

\* Above a leaf is its issuer and nothing else, and above that the root.
LEMMA OneAbove ==
    ASSUME DistinctSlugs, SInv, NEW s \in Leaves, leaf[s] # None,
           NEW c, c = leaf[s].issuer
    PROVE  /\ c \in CaCerts /\ c # s /\ ~SelfSigned(c)
           /\ Above(s) = {c}
           /\ Above(c) = {Root} /\ SelfSigned(Root)
<1>1. TypeOK
  BY DEF SInv, KInv, LInv, TInv
<1>2. c \in CaCerts
  BY <1>1 DEF TypeOK, LeafRow
<1>3. c # s /\ s \notin CaCerts /\ c \notin Leaves /\ Root \notin CaCerts \cup Leaves
  BY <1>2, DistinctAssumption
<1>4. /\ caCert[c] # None /\ caCert[c].gen \in Gens
      /\ Published(caCert[c].gen, c)
  BY <1>1, <1>2 DEF SInv, IssuersPublished, TypeOK, CaCertificate
<1>5. Indexed(c)
  BY <1>4 DEF Published, SInv, PublishedIsRecorded
<1>6. ASSUME NEW r \in Rows, Ski(r) = Ski(c) PROVE r = c
  <2>1. CASE r \notin CaCerts
    BY <1>2, <1>6, <2>1 DEF Ski
  <2>2. CASE r \in CaCerts
    <3>1. Indexed(r)
      BY <1>3, <2>2, DistinctAssumption DEF Rows
    <3>2. caCert[r].gen \in Gens /\ Published(caCert[r].gen, r)
      BY <1>1, <2>2, <3>1 DEF SInv, RowsPublished, TypeOK, CaCertificate
    <3>3. CASE Slug(caCert[r].gen) = Slug(caCert[c].gen)
      BY <1>4, <3>2, <3>3 DEF Published
    <3>4. CASE Slug(caCert[r].gen) # Slug(caCert[c].gen)
      BY <1>2, <1>6, <2>2, <3>4 DEF Ski
    <3>. QED
      BY <3>3, <3>4
  <2>. QED
    BY <2>1, <2>2
<1>7. Aki(s) = Ski(c) /\ Aki(c) = Ski(Root) /\ Aki(Root) = Ski(Root)
  BY <1>3 DEF Aki
<1>8. Above(s) = {c}
  BY <1>2, <1>5, <1>6, <1>7 DEF Above, Rows
<1>9. \A r : Ski(r) = Ski(Root) => r = Root
  BY <1>3 DEF Ski
<1>10. Above(c) = {Root} /\ ~SelfSigned(c) /\ SelfSigned(Root)
  BY <1>2, <1>3, <1>7, <1>9 DEF Above, Rows, SelfSigned
<1>. QED
  BY <1>2, <1>3, <1>8, <1>10

\* Before its first step a walk has seen the certificate it starts from.
LEMMA SeenFirst ==
    ASSUME NEW s, NEW w PROVE Seen(s, w, 1) = {s}
<1>1. 0 .. 1 - 1 = {0}
  OBVIOUS
<1>2. Seen(s, w, 1) = {Nth(s, w, j) : j \in {0}}
  BY <1>1 DEF Seen
<1>3. Nth(s, w, 0) = s
  BY DEF Nth
<1>. QED
  BY <1>2, <1>3

\* The walk from a leaf takes one step, to its issuer, and stops there.
LEMMA OneWalk ==
    ASSUME DistinctSlugs, SInv, NEW s \in Leaves, leaf[s] # None
    PROVE  IssuersAbove(s) = {<<leaf[s].issuer>>}
<1> DEFINE c == leaf[s].issuer
<1>1. /\ c \in CaCerts /\ c # s /\ ~SelfSigned(c)
      /\ Above(s) = {c}
      /\ Above(c) = {Root} /\ SelfSigned(Root)
  BY OneAbove
<1>2. ASSUME NEW n \in 0 .. Cardinality(CaCerts), NEW w \in [1 .. n -> CaCerts],
             Walk(s, w, n)
      PROVE  w = <<c>>
  <2>0. n \in Nat
    BY <1>2, FiniteAssumption, FS_CardinalityType
  <2>1. n # 0
    <3>. SUFFICES ASSUME n = 0 PROVE FALSE
      OBVIOUS
    <3>1. n + 1 = 1 /\ Seen(s, w, 1) = {s}
      BY SeenFirst
    <3>2. Above(Nth(s, w, n)) = {c}
      BY <1>1 DEF Nth
    <3>3. \/ Above(Nth(s, w, n)) = {}
          \/ \E r \in Above(Nth(s, w, n)) : r \in Seen(s, w, n + 1) \/ SelfSigned(r)
      BY <1>2 DEF Walk
    <3>4. Seen(s, w, n + 1) = {s}
      BY <3>1
    <3>5. {c} = {} \/ \E r \in {c} : r \in {s} \/ SelfSigned(r)
      BY <3>2, <3>3, <3>4, Zenon
    <3>. QED
      BY <1>1, <3>5, Zenon
  <2>2. w[1] = c
    <3>1. w[1] \in Above(Nth(s, w, 0))
      BY <1>2, <2>0, <2>1 DEF Walk
    <3>. QED
      BY <1>1, <3>1 DEF Nth
  <2>3. n < 2
    <3>. SUFFICES ASSUME n >= 2 PROVE FALSE
      BY <2>0
    <3>1. w[2] \in Above(Nth(s, w, 1)) /\ ~SelfSigned(w[2])
      BY <1>2, <2>0 DEF Walk
    <3>. QED
      BY <1>1, <2>2, <3>1 DEF Nth
  <2>. QED
    BY <2>0, <2>1, <2>2, <2>3
<1>3. 1 \in 0 .. Cardinality(CaCerts)
  BY <1>1, FiniteAssumption, FS_CardinalityType, FS_EmptySet
<1>4. <<c>> \in [1 .. 1 -> CaCerts] /\ Walk(s, <<c>>, 1)
  <2>1. Nth(s, <<c>>, 0) = s /\ Nth(s, <<c>>, 1) = c
    BY DEF Nth
  <2>2. Seen(s, <<c>>, 1) = {s}
    BY SeenFirst
  <2>3. \A i \in 1 .. 1 : /\ <<c>>[i] \in Above(Nth(s, <<c>>, i - 1))
                         /\ <<c>>[i] \notin Seen(s, <<c>>, i)
                         /\ ~SelfSigned(<<c>>[i])
    BY <1>1, <2>1, <2>2
  <2>. QED
    BY <1>1, <2>1, <2>3 DEF Walk
<1>5. IssuersAbove(s) \subseteq {<<c>>}
  BY <1>2 DEF IssuersAbove
<1>6. <<c>> \in {w \in [1 .. 1 -> CaCerts] : Walk(s, w, 1)}
  BY <1>4
<1>7. <<c>> \in IssuersAbove(s)
  BY <1>3, <1>6 DEF IssuersAbove
<1>. QED
  BY <1>5, <1>7

\* get answers with the certificate that signed the one asked for, and no
\* other, and the file the certificate points at is that one, before and
\* after its CA is renewed or revoked (issuers_above): one certificate is
\* indexed under a key, whatever an interrupted renewal left on the token.
THEOREM ChainsAreServed ==
    ASSUME OneCeremonyStation, DistinctNames, DistinctSlugs
    PROVE  Spec => []ChainIsServed
<1>1. SInv /\ [Next]_vars => SInv'
  BY StationKept
<1>2. Init => SInv
  BY StationInit
<1>3. SInv => ChainIsServed
  <2>. SUFFICES ASSUME SInv, NEW cn \in Subjects
                PROVE  /\ Served(cn) = {<<s, <<leaf[s].issuer>>>> : s \in Newest(cn)}
                       /\ \A s \in Newest(cn) : CaIssuers(s) = leaf[s].issuer
    BY DEF ChainIsServed
  <2>1. \A s \in Newest(cn) : s \in Leaves /\ leaf[s] # None
    BY DEF Newest, Valid
  <2>2. \A s \in Newest(cn) : IssuersAbove(s) = {<<leaf[s].issuer>>}
    BY <2>1, OneWalk
  <2>3. Served(cn) = {<<s, <<leaf[s].issuer>>>> : s \in Newest(cn)}
    BY <2>2 DEF Served
  <2>4. \A s \in Newest(cn) : CaIssuers(s) = leaf[s].issuer
    BY <2>1 DEF CaIssuers, SInv, IssuersPublished, Published
  <2>. QED
    BY <2>3, <2>4
<1>. QED
  BY <1>1, <1>2, <1>3, PTL DEF Spec

\* The CRL of a recorded CA changes by being rewritten.
LEMMA RecordedIsRewritten ==
    ASSUME DistinctSlugs, SInv, NEW p \in Procs, Start(p) \/ Step(p) \/ Abort(p),
           NEW slug \in Slugs \cup {Root}, Recorded(slug), crl'[slug] # crl[slug]
    PROVE  Rewrites(p, slug)
<1>1. TInv
  BY DEF SInv, KInv, LInv
<1>2. RenewCrl(p) \/ AddCrl(p) => job[p].gen \in Gens /\ gens[job[p].gen] = None
  BY <1>1 DEF RenewCrl, AddCrl, MintCrl, TInv, JobsFit, Fits, WithGen, Minting, SInv,
              StationMints, Mints
<1>3. ~((RenewCrl(p) \/ AddCrl(p)) /\ slug = Slug(job[p].gen))
  BY <1>2, SlugsDiffer, SlugType DEF Recorded, DistinctSlugs
<1>. QED
  BY <1>1, <1>3, CrlSteps

\* The step relation of CrlContinuity.
Continues ==
    \A slug \in Slugs \cup {Root} :
        Recorded(slug) /\ crl[slug] # None /\ crl'[slug] # crl[slug] =>
          /\ crl'[slug] # None
          /\ crl'[slug].number > crl[slug].number
          /\ \A x \in crl[slug].entries \ crl'[slug].entries :
                NotAfter(x) < crl[slug].thisUpdate

\* The CRL of a recorded CA is only ever replaced by its successor, without
\* losing an entry before its time: no ceremony puts an empty one in its place
\* (NewCrl's number, crl_entry_prunable).
THEOREM CrlsContinue ==
    ASSUME OneCeremonyStation, DistinctNames, DistinctSlugs
    PROVE  Spec => CrlContinuity
<1>1. SInv /\ [Next]_vars => SInv'
  BY StationKept
<1>2. Init => SInv
  BY StationInit
<1>3. SInv /\ [Next]_vars => [Continues]_crl
  <2>. SUFFICES ASSUME SInv, [Next]_vars, NEW slug \in Slugs \cup {Root},
                       Recorded(slug), crl[slug] # None, crl'[slug] # crl[slug]
                PROVE  /\ crl'[slug] # None
                       /\ crl'[slug].number > crl[slug].number
                       /\ \A x \in crl[slug].entries \ crl'[slug].entries :
                             NotAfter(x) < crl[slug].thisUpdate
    BY DEF Continues
  <2>1. TInv /\ TypeOK
    BY DEF SInv, KInv, LInv, TInv
  <2>2. PICK p \in Procs : Start(p) \/ Step(p) \/ Abort(p)
    BY DEF Next, Tick, vars, files
  <2>3. Rewrites(p, slug)
    BY <2>2, RecordedIsRewritten
  <2>4. PICK new \in SUBSET (Leaves \cup CaCerts), signer \in CaCerts \cup {Root} :
          crl'[slug] = NewCrl(crl[slug], Kept(crl[slug]) \cup new, signer)
    BY <2>3 DEF Rewrites
  <2>5. crl[slug] \in Crl
    BY <2>1 DEF TypeOK
  <2>6. crl'[slug] \in Crl
    BY <2>1, <2>4, <2>5, NewCrlType
  <2>7. crl'[slug].number > crl[slug].number
    BY <2>4, <2>5 DEF NewCrl, Crl
  <2>8. ASSUME NEW x \in crl[slug].entries \ crl'[slug].entries
        PROVE  NotAfter(x) < crl[slug].thisUpdate
    <3>1. Prunable(x, crl[slug])
      BY <2>4 DEF NewCrl, Kept
    <3>. QED
      BY <3>1, DistinctAssumption DEF Prunable, NotAfter
  <2>. QED
    BY <2>6, <2>7, <2>8, AbsentAssumption
<1>4. Spec => []SInv
  BY <1>1, <1>2, PTL DEF Spec
<1>5. Spec => [][Continues]_crl
  BY <1>3, <1>4, PTL DEF Spec
<1>. QED
  BY <1>5 DEF CrlContinuity, Continues

-----------------------------------------------------------------------------
(* Revocation by serial *)

\* Nobody revokes by CN: the certificate that is revoked is the one the
\* issuer was resolved for.
RevokesBySerial == \A p \in Procs : "revoke-cn" \notin Station[p]

\* A revocation in flight goes to the CRL of the CA that issued the
\* certificate.
RevokingLeaf == {"revoke", "revoke_commit"}
JobsRevokeOwn ==
    \A p \in Procs : pc[p] \in RevokingLeaf =>
        /\ job[p].who \in Leaves /\ leaf[job[p].who] # None
        /\ caCert[leaf[job[p].who].issuer].gen = job[p].gen

\* From the first file it replaces to its commit a process has the lock, and
\* what it revokes is on the CRL already.
Holding == {"revoke_commit", "revoke_ca_commit", "refresh_write"}
LockIsHeld == \A p \in Procs : pc[p] \in Holding <=> lock = p
Written ==
    \A p \in Procs :
        /\ pc[p] = "revoke_commit" => job[p].who \in crl[Slug(job[p].gen)].entries
        /\ pc[p] = "revoke_ca_commit" => job[p].cert \in crl[Root].entries

\* Every leaf on a CRL has a row, and no CRL is from the future.
EntriesKnown ==
    \A slug \in Slugs \cup {Root} : crl[slug] # None =>
        /\ \A x \in crl[slug].entries \cap Leaves : leaf[x] # None
        /\ crl[slug].thisUpdate <= clock

EInv == /\ SInv /\ JobsRevokeOwn /\ LockIsHeld /\ Written
        /\ EntriesKnown /\ EntryOnIssuersCrl /\ RevokedIsListed

\* The CA a certificate names as its issuer is one generation.
LEMMA IssuerByName ==
    ASSUME SInv, NEW s \in Leaves, leaf[s] # None,
           NEW g \in GenByCn(caCert[leaf[s].issuer].cn)
    PROVE  /\ leaf[s].issuer \in CaCerts /\ caCert[leaf[s].issuer] # None
           /\ caCert[leaf[s].issuer].gen = g /\ pem[Slug(g)] = leaf[s].issuer
<1> DEFINE c == leaf[s].issuer
           h == caCert[c].gen
<1>1. c \in CaCerts /\ caCert[c] # None /\ Published(h, c)
  BY DEF SInv, IssuersPublished, KInv, LInv, TInv, TypeOK, LeafRow
<1>2. h \in Gens
  BY <1>1 DEF SInv, KInv, LInv, TInv, TypeOK, CaCertificate
<1>3. gens[h] # None /\ gens[h].cn = caCert[c].cn
  BY <1>1, <1>2 DEF Published, SInv, PublishedIsRecorded
<1>4. g \in Gens /\ gens[g] # None /\ gens[g].cn = caCert[c].cn
  BY DEF GenByCn
<1>5. g = h
  BY <1>2, <1>3, <1>4 DEF SInv, GenerationNamesUnique
<1>. QED
  BY <1>1, <1>5 DEF Published

\* Looked up by serial, a certificate is itself.
LEMMA LookupSerial ==
    ASSUME NEW w \in Leaves, NEW s \in Lookup(w)
    PROVE  s = w /\ leaf[s] # None
BY DistinctAssumption DEF Lookup, Newest, Valid

LEMMA OwnStep ==
    ASSUME RevokesBySerial, SInv, JobsRevokeOwn, RowsLast, NEW p \in Procs,
           Start(p) \/ Step(p) \/ Abort(p)
    PROVE  JobsRevokeOwn'
<1>1. TInv /\ TypeOK
  BY DEF SInv, KInv, LInv, TInv
<1>2. ASSUME NEW s \in Leaves, leaf[s] # None
      PROVE  /\ leaf'[s] # None
             /\ caCert'[leaf'[s].issuer].gen = caCert[leaf[s].issuer].gen
  <2>1. leaf[s].issuer \in CaCerts /\ caCert[leaf[s].issuer] # None
    BY <1>1, <1>2 DEF SInv, IssuersPublished, TypeOK, LeafRow
  <2>. QED
    BY <1>2, <2>1 DEF RowsLast, LeavesKept, CertsKept
<1>. SUFFICES ASSUME NEW q \in Procs, pc'[q] \in RevokingLeaf
              PROVE  /\ job'[q].who \in Leaves /\ leaf[job'[q].who] # None
                     /\ caCert[leaf[job'[q].who].issuer].gen = job'[q].gen
  BY <1>2 DEF JobsRevokeOwn
<1>3. CASE q # p
  BY <1>1, <1>3, Arrives DEF JobsRevokeOwn
<1>4. CASE q = p /\ RevokeStart(p)
  <2>1. PICK w \in Leaves :
          \E s \in Lookup(w) : \E g \in GenByCn(caCert[leaf[s].issuer].cn) :
             job' = [job EXCEPT ![p] = [NoJob EXCEPT !.gen = g, !.cert = pem[Slug(g)],
                                                     !.who = w]]
    BY <1>4 DEF RevokeStart, RevokesBySerial, Runs, Become
  <2>2. PICK g \in GenByCn(caCert[leaf[w].issuer].cn) :
             job' = [job EXCEPT ![p] = [NoJob EXCEPT !.gen = g, !.cert = pem[Slug(g)],
                                                     !.who = w]]
    BY <2>1, LookupSerial
  <2>3. leaf[w] # None
    BY <2>1, LookupSerial
  <2>4. job'[p].gen = g /\ job'[p].who = w
    BY <1>1, <2>2 DEF TypeOK, NoJob
  <2>. QED
    BY <1>4, <2>2, <2>3, <2>4, IssuerByName
<1>5. CASE q = p /\ RevokeWrite(p)
  <2>1. pc[p] \in RevokingLeaf /\ job[p] \in Job
    BY <1>1, <1>5 DEF RevokeWrite, AtLock, RevokingLeaf, TypeOK
  <2>2. PICK s \in Lookup(job[p].who) : job' = [job EXCEPT ![p] = [job[p] EXCEPT !.who = s]]
    BY <1>5 DEF RevokeWrite, Become
  <2>3. s = job[p].who
    BY <2>1, <2>2, LookupSerial DEF JobsRevokeOwn
  <2>4. job'[p].gen = job[p].gen /\ job'[p].who = job[p].who
    BY <1>1, <2>1, <2>2, <2>3 DEF TypeOK, Job
  <2>. QED
    BY <1>5, <2>1, <2>4 DEF JobsRevokeOwn
<1>. QED
  BY <1>1, <1>3, <1>4, <1>5, Arrives DEF RevokingLeaf

LEMMA HeldStep ==
    ASSUME TInv, LockIsHeld, NEW p \in Procs, Start(p) \/ Step(p) \/ Abort(p)
    PROVE  LockIsHeld'
<1>1. TypeOK /\ None \notin Procs
  BY DistinctAssumption DEF TInv
<1>2. \A q \in Procs : q # p => pc'[q] = pc[q]
  BY <1>1, Arrives
<1>3. CASE RevokeWrite(p) \/ RevokeCaWrite(p) \/ RefreshLock(p)
  <2>1. lock = None /\ lock' = p /\ pc'[p] \in Holding
    BY <1>1, <1>3 DEF RevokeWrite, RevokeCaWrite, RefreshLock, AtLock, Become, TypeOK,
                      Holding
  <2>. QED
    BY <1>1, <1>2, <2>1 DEF LockIsHeld
<1>4. CASE RefreshWrite(p)
  BY <1>1, <1>2, <1>4 DEF RefreshWrite, Become, TypeOK, Holding, LockIsHeld
<1>5. CASE RevokeCommit(p) \/ RevokeCaCommit(p) \/ RefreshCommit(p) \/ Abort(p)
  <2>1. pc'[p] \notin Holding /\ lock' = IF lock = p THEN None ELSE lock
    BY <1>1, <1>5 DEF RevokeCommit, RevokeCaCommit, RefreshCommit, Abort, Done, Become,
                      TypeOK, Holding, LockIsHeld
  <2>. QED
    BY <1>1, <1>2, <2>1 DEF LockIsHeld
<1>6. CASE \/ OnlyReads(p) \/ IssueCommit(p) \/ AddStart(p) \/ RenewPem(p) \/ AddPem(p)
           \/ RenewCrl(p) \/ AddCrl(p) \/ RenewCommit(p) \/ AddCommit(p)
  <2>1. pc[p] \notin Holding
    BY <1>1, <1>6
    DEF OnlyReads, IssueStart, IssueRefused, RevokeStart, RevokeGone, RevokeCaStart,
        RefreshStart, RenewStart, CeremonyConflict, LockTimeout, IssueCommit, AddStart,
        RenewPem, AddPem, RenewCrl, AddCrl, MintPem, MintCrl, RenewCommit, AddCommit,
        Runs, AtLock, Waiting, Holding
  <2>2. pc'[p] \notin Holding
    BY <1>1, <1>6
    DEF OnlyReads, IssueStart, IssueRefused, RevokeStart, RevokeGone, RevokeCaStart,
        RefreshStart, RenewStart, CeremonyConflict, LockTimeout, IssueCommit, AddStart,
        RenewPem, AddPem, RenewCrl, AddCrl, MintPem, MintCrl, RenewCommit, AddCommit,
        Done, Become, TypeOK, Holding
  <2>. QED
    BY <1>2, <1>6, <2>1, <2>2, Frame DEF LockIsHeld
<1>. QED
  BY <1>3, <1>4, <1>5, <1>6, ProcessSteps

\* Under the lock nobody else changes the CRL of a recorded CA.
LEMMA HeldCrl ==
    ASSUME DistinctSlugs, SInv, LockIsHeld, NEW p \in Procs,
           Start(p) \/ Step(p) \/ Abort(p), NEW q \in Procs, q # p, lock = q,
           NEW slug \in Slugs \cup {Root}, Recorded(slug)
    PROVE  crl'[slug] = crl[slug]
<1>1. lock # None /\ pc[p] \notin Holding
  BY DistinctAssumption DEF LockIsHeld
<1>2. ~RevokeWrite(p) /\ ~RevokeCaWrite(p) /\ ~RefreshWrite(p)
  BY <1>1 DEF RevokeWrite, RevokeCaWrite, RefreshWrite, AtLock, Holding
<1>. QED
  BY <1>2, RecordedIsRewritten DEF Rewrites

LEMMA WrittenStep ==
    ASSUME RevokesBySerial, DistinctSlugs, SInv, JobsRevokeOwn, LockIsHeld, Written,
           NEW p \in Procs, Start(p) \/ Step(p) \/ Abort(p)
    PROVE  Written'
<1>1. TInv /\ TypeOK
  BY DEF SInv, KInv, LInv, TInv
<1>. SUFFICES ASSUME NEW q \in Procs
              PROVE  /\ pc'[q] = "revoke_commit" =>
                           job'[q].who \in crl'[Slug(job'[q].gen)].entries
                     /\ pc'[q] = "revoke_ca_commit" => job'[q].cert \in crl'[Root].entries
  BY DEF Written
<1>2. CASE q # p
  <2>1. pc'[q] = pc[q] /\ job'[q] = job[q]
    BY <1>1, <1>2, Arrives
  <2>2. CASE pc[q] = "revoke_commit"
    <3>1. job[q].gen \in Gens /\ lock = q
      BY <1>1, <2>2 DEF TInv, JobsFit, Fits, WithGen, LockIsHeld, Holding
    <3>2. gens[job[q].gen] # None
      BY <2>2 DEF SInv, SignersPublished, Signing, Published
    <3>3. crl'[Slug(job[q].gen)] = crl[Slug(job[q].gen)]
      BY <1>2, <3>1, <3>2, SlugType, HeldCrl DEF Recorded
    <3>. QED
      BY <2>1, <2>2, <3>3 DEF Written
  <2>3. CASE pc[q] = "revoke_ca_commit"
    <3>1. crl'[Root] = crl[Root]
      BY <1>2, <2>3, HeldCrl DEF Recorded, LockIsHeld, Holding
    <3>. QED
      BY <2>1, <2>3, <3>1 DEF Written
  <2>. QED
    BY <2>1, <2>2, <2>3
<1>3. CASE q = p /\ RevokeWrite(p)
  <2>1. /\ pc'[p] = "revoke_commit" /\ job[p] \in Job /\ job[p].gen \in Gens
        /\ job[p].who \in Leaves
    BY <1>1, <1>3 DEF RevokeWrite, AtLock, Become, TypeOK, TInv, JobsFit, Fits, WithGen,
                      JobsRevokeOwn, RevokingLeaf
  <2> DEFINE slug == Slug(job[p].gen)
  <2>2. PICK s \in Lookup(job[p].who) :
          /\ crl' = [crl EXCEPT ![slug] =
                       NewCrl(crl[slug], Kept(crl[slug]) \cup {s}, job[p].cert)]
          /\ job' = [job EXCEPT ![p] = [job[p] EXCEPT !.who = s]]
    BY <1>3 DEF RevokeWrite, Become
  <2>3. job'[p].gen = job[p].gen /\ job'[p].who = s
    BY <1>1, <2>1, <2>2 DEF TypeOK, Job
  <2>4. crl'[slug] = NewCrl(crl[slug], Kept(crl[slug]) \cup {s}, job[p].cert)
    BY <1>1, <2>1, <2>2, SlugType DEF TypeOK
  <2>. QED
    BY <1>3, <2>1, <2>3, <2>4 DEF NewCrl
<1>4. CASE q = p /\ RevokeCaWrite(p)
  <2>1. pc'[p] = "revoke_ca_commit" /\ job'[p] = job[p]
    BY <1>1, <1>4 DEF RevokeCaWrite, Become, TypeOK
  <2>2. crl'[Root] = NewCrl(crl[Root], Kept(crl[Root]) \cup {job[p].cert}, Root)
    BY <1>1, <1>4 DEF RevokeCaWrite, TypeOK
  <2>. QED
    BY <1>4, <2>1, <2>2 DEF NewCrl
<1>. QED
  BY <1>1, <1>2, <1>3, <1>4, Arrives

\* A revocation under way lists the certificate it looked up, on the CRL of
\* the CA that issued it.
LEMMA RewritersAdd ==
    ASSUME RevokesBySerial, SInv, JobsRevokeOwn, NEW p \in Procs,
           NEW slug \in Slugs \cup {Root}, Rewrites(p, slug)
    PROVE  /\ crl'[slug].thisUpdate = clock
           /\ Kept(crl[slug]) \subseteq crl'[slug].entries
           /\ \A x \in crl'[slug].entries :
                 \/ x \in crl[slug].entries
                 \/ /\ x \in Leaves /\ leaf[x] # None
                    /\ slug = Slug(caCert[leaf[x].issuer].gen)
                 \/ x \notin Leaves /\ slug = Root
<1>1. TInv
  BY DEF SInv, KInv, LInv
<1>2. PICK new \in SUBSET (Leaves \cup CaCerts), signer \in CaCerts \cup {Root} :
        /\ crl'[slug] = NewCrl(crl[slug], Kept(crl[slug]) \cup new, signer)
        /\ \/ RevokeWrite(p) /\ slug = Slug(job[p].gen)
              /\ \E s \in Lookup(job[p].who) : new = {s}
           \/ RevokeCaWrite(p) /\ slug = Root /\ new = {job[p].cert}
           \/ new = {}
  BY DEF Rewrites
<1>3. /\ crl'[slug].thisUpdate = clock
      /\ crl'[slug].entries = Kept(crl[slug]) \cup new
  BY <1>2 DEF NewCrl
<1>4. ASSUME NEW x \in new
      PROVE  \/ x \in Leaves /\ leaf[x] # None /\ slug = Slug(caCert[leaf[x].issuer].gen)
             \/ x \notin Leaves /\ slug = Root
  <2>1. CASE RevokeWrite(p) /\ slug = Slug(job[p].gen) /\ x \in Lookup(job[p].who)
    <3>1. pc[p] \in RevokingLeaf
      BY <2>1 DEF RevokeWrite, AtLock, RevokingLeaf
    <3>2. job[p].who \in Leaves
      BY <3>1 DEF JobsRevokeOwn
    <3>3. x = job[p].who
      BY <2>1, <3>2, LookupSerial
    <3>. QED
      BY <2>1, <3>1, <3>3 DEF JobsRevokeOwn
  <2>2. CASE RevokeCaWrite(p) /\ slug = Root /\ x = job[p].cert
    BY <1>1, <2>2, DistinctAssumption
    DEF RevokeCaWrite, AtLock, TInv, JobsFit, Fits, WithGen, WithCert
  <2>. QED
    BY <1>2, <1>4, <2>1, <2>2
<1>. QED
  BY <1>3, <1>4 DEF Kept

\* What a CRL lists has a row and was issued by the CA whose CRL it is.
LEMMA EntriesStep ==
    ASSUME RevokesBySerial, EInv, TInv', RowsLast, NEW p \in Procs,
           Start(p) \/ Step(p) \/ Abort(p)
    PROVE  EntriesKnown' /\ EntryOnIssuersCrl'
<1>1. TInv /\ TypeOK /\ SInv /\ clock \in Nat /\ clock' \in Nat
  BY DEF EInv, SInv, KInv, LInv, TInv, TypeOK
<1>2. ASSUME NEW s \in Leaves, leaf[s] # None
      PROVE  /\ leaf'[s] # None
             /\ caCert'[leaf'[s].issuer].gen = caCert[leaf[s].issuer].gen
  <2>1. leaf[s].issuer \in CaCerts /\ caCert[leaf[s].issuer] # None
    BY <1>1, <1>2 DEF SInv, IssuersPublished, TypeOK, LeafRow
  <2>. QED
    BY <1>2, <2>1 DEF RowsLast, LeavesKept, CertsKept
<1>3. ASSUME NEW slug \in Slugs \cup {Root}, crl'[slug] # None
      PROVE  /\ crl'[slug].thisUpdate <= clock'
             /\ \A x \in crl'[slug].entries :
                   /\ x \in Leaves => leaf[x] # None
                   /\ slug = IF x \in Leaves THEN Slug(caCert[leaf[x].issuer].gen)
                             ELSE Root
  <2>1. CASE crl'[slug] = crl[slug]
    <3>1. crl[slug].thisUpdate <= clock /\ clock <= clock'
      BY <1>3, <2>1 DEF EInv, EntriesKnown, RowsLast
    <3>2. crl[slug].thisUpdate \in Nat
      BY <1>1, <1>3, <2>1 DEF TypeOK, Crl
    <3>3. crl'[slug].thisUpdate <= clock'
      BY <1>1, <2>1, <3>1, <3>2
    <3>. QED
      BY <1>3, <2>1, <3>3 DEF EInv, EntriesKnown, EntryOnIssuersCrl
  <2>2. CASE crl'[slug] = EmptyCrl(job[p].cert)
    BY <1>1, <2>2 DEF EmptyCrl, RowsLast
  <2>3. CASE Rewrites(p, slug)
    <3>1. crl[slug] # None
      BY <2>3 DEF Rewrites
    <3>2. \A x \in crl[slug].entries :
             /\ x \in Leaves => leaf[x] # None
             /\ slug = IF x \in Leaves THEN Slug(caCert[leaf[x].issuer].gen) ELSE Root
      BY <3>1 DEF EInv, EntriesKnown, EntryOnIssuersCrl
    <3>. QED
      BY <1>1, <2>3, <3>2, RewritersAdd DEF EInv, RowsLast
  <2>. QED
    BY <1>1, <2>1, <2>2, <2>3, CrlSteps
<1>. QED
  BY <1>2, <1>3 DEF EntriesKnown, EntryOnIssuersCrl

\* x is on a CRL, or was on one past its end.
Listed(x, end, k) == x \in k.entries \/ end < k.thisUpdate

\* A revoked certificate stays on the CRL until one past its expiry has had it
\* (prune_crl_entries).
LEMMA ListedStays ==
    ASSUME RevokesBySerial, DistinctSlugs, EInv, NEW p \in Procs,
           Start(p) \/ Step(p) \/ Abort(p),
           NEW slug \in Slugs \cup {Root}, Recorded(slug), crl[slug] # None,
           NEW x \in Leaves \cup CaCerts,
           x \in Leaves => leaf[x] # None, x \in CaCerts => caCert[x] # None,
           Listed(x, NotAfter(x), crl[slug])
    PROVE  Listed(x, NotAfter(x), crl'[slug])
<1>1. TypeOK /\ SInv /\ clock \in Nat /\ NotAfter(x) \in Nat
  BY DEF EInv, SInv, KInv, LInv, TInv, TypeOK, NotAfter, LeafRow, CaCertificate
<1>2. crl[slug].thisUpdate \in Nat /\ crl[slug].thisUpdate <= clock
  BY <1>1 DEF EInv, EntriesKnown, TypeOK, Crl
<1>3. CASE crl'[slug] = crl[slug]
  BY <1>3
<1>4. CASE crl'[slug] # crl[slug]
  <2>1. Rewrites(p, slug)
    BY <1>1, <1>4, RecordedIsRewritten
  <2>2. /\ crl'[slug].thisUpdate = clock
        /\ Kept(crl[slug]) \subseteq crl'[slug].entries
    BY <1>1, <2>1, RewritersAdd DEF EInv
  <2>3. NotAfter(x) < crl[slug].thisUpdate \/ x \in Kept(crl[slug])
    BY DistinctAssumption DEF Listed, Kept, Prunable, NotAfter
  <2>. QED
    BY <1>1, <1>2, <2>2, <2>3 DEF Listed
<1>. QED
  BY <1>3, <1>4

LEMMA ListedStep ==
    ASSUME RevokesBySerial, DistinctSlugs, EInv, TInv', RowsLast, NEW p \in Procs,
           Start(p) \/ Step(p) \/ Abort(p)
    PROVE  RevokedIsListed'
<1>1. TInv /\ TypeOK /\ SInv
  BY DEF EInv, SInv, KInv, LInv, TInv
<1>2. ASSUME NEW s \in Leaves, leaf'[s] # None, leaf'[s].status = "revoked"
      PROVE  Listed(s, leaf'[s].notAfter, crl'[Slug(caCert'[leaf'[s].issuer].gen)])
  <2>1. CASE leaf[s] = None
    <3>1. IssueCommit(p)
      <4>1. CASE RevokeCommit(p)
        BY <1>1, <1>2, <2>1, <4>1 DEF RevokeCommit, TypeOK, TInv, JobsFit, Fits
      <4>2. CASE leaf' = leaf
        BY <1>2, <2>1, <4>2
      <4>. QED
        BY <4>1, <4>2, Frame, ProcessSteps
    <3>2. leaf'[s].status = "active"
      BY <1>1, <1>2, <2>1, <3>1 DEF IssueCommit, TypeOK
    <3>. QED
      BY <1>2, <3>2
  <2>2. CASE leaf[s] # None
    <3> DEFINE g == caCert[leaf[s].issuer].gen
               slug == Slug(g)
    <3>1. /\ leaf[s].issuer \in CaCerts /\ caCert[leaf[s].issuer] # None
          /\ gens[g] # None /\ g \in Gens
      BY <1>1, <2>2 DEF SInv, IssuersPublished, Published, TypeOK, LeafRow, CaCertificate
    <3>2. /\ leaf'[s].notAfter = leaf[s].notAfter
          /\ caCert'[leaf'[s].issuer].gen = g
      BY <2>2, <3>1 DEF RowsLast, LeavesKept, CertsKept
    <3>3. slug \in Slugs /\ Recorded(slug) /\ crl[slug] # None
      BY <1>1, <3>1, SlugType DEF Recorded, SInv, PublishedIsRecorded
    <3>4. Listed(s, leaf[s].notAfter, crl[slug])
      <4>1. CASE leaf[s].status = "revoked"
        BY <2>2, <4>1 DEF EInv, RevokedIsListed, Listed
      <4>2. CASE leaf[s].status # "revoked"
        <5>1. RevokeCommit(p)
          <6>1. CASE IssueCommit(p)
            BY <1>1, <1>2, <2>2, <4>2, <6>1 DEF IssueCommit, TypeOK
          <6>2. CASE leaf' = leaf
            BY <1>2, <4>2, <6>2
          <6>. QED
            BY <6>1, <6>2, Frame, ProcessSteps
        <5>2. s = job[p].who
          BY <1>1, <1>2, <4>2, <5>1 DEF RevokeCommit, TypeOK
        <5>. QED
          BY <5>1, <5>2 DEF RevokeCommit, EInv, Written, JobsRevokeOwn, RevokingLeaf, Listed
      <4>. QED
        BY <4>1, <4>2
    <3>5. NotAfter(s) = leaf[s].notAfter /\ s \notin CaCerts
      BY DistinctAssumption DEF NotAfter
    <3> HIDE DEF slug, g
    <3>6. Listed(s, leaf[s].notAfter, crl'[slug])
      BY <2>2, <3>3, <3>4, <3>5, ListedStays
    <3>. QED
      BY <3>2, <3>6 DEF slug
  <2>. QED
    BY <2>1, <2>2
<1>3. ASSUME NEW c \in CaCerts, caRow'[c] = "revoked"
      PROVE  Listed(c, caCert'[c].notAfter, crl'[Root])
  <2>1. caRow[c] # "absent"
    <3>1. CASE RenewCommit(p) \/ AddCommit(p)
      BY <1>1, <1>3, <3>1 DEF RenewCommit, AddCommit, TypeOK
    <3>2. CASE RevokeCaCommit(p)
      BY <1>1, <1>3, <3>2 DEF RevokeCaCommit, TypeOK
    <3>3. CASE caRow' = caRow
      BY <1>3, <3>3
    <3>. QED
      BY <3>1, <3>2, <3>3, Frame, ProcessSteps
  <2>2. caCert[c] # None /\ caCert'[c] = caCert[c]
    BY <1>1, <2>1 DEF SInv, KInv, IndexedIsMade, RowsLast, CertsKept
  <2>3. Listed(c, caCert[c].notAfter, crl[Root])
    <3>1. CASE caRow[c] = "revoked"
      BY <3>1 DEF EInv, RevokedIsListed, Listed
    <3>2. CASE caRow[c] # "revoked"
      <4>1. RevokeCaCommit(p) /\ c = job[p].cert
        <5>1. ~RenewCommit(p) /\ ~AddCommit(p)
          BY <1>1, <1>3, <3>2 DEF RenewCommit, AddCommit, TypeOK
        <5>2. RevokeCaCommit(p)
          BY <1>3, <3>2, <5>1, Frame, ProcessSteps
        <5>. QED
          BY <1>1, <1>3, <3>2, <5>2 DEF RevokeCaCommit, TypeOK
      <4>. QED
        BY <4>1 DEF RevokeCaCommit, EInv, Written, Listed
    <3>. QED
      BY <3>1, <3>2
  <2>4. NotAfter(c) = caCert[c].notAfter /\ c \notin Leaves
    BY DistinctAssumption DEF NotAfter
  <2>5. Recorded(Root) /\ crl[Root] # None
    BY <1>1 DEF Recorded, SInv, BInv
  <2>. QED
    BY <2>2, <2>3, <2>4, <2>5, ListedStays
<1>. QED
  BY <1>2, <1>3 DEF RevokedIsListed, Listed

LEMMA SerialKept ==
    /\ RevokesBySerial /\ OneCeremonyStation /\ DistinctNames /\ DistinctSlugs
    /\ EInv /\ [Next]_vars
    => EInv'
<1>. SUFFICES ASSUME RevokesBySerial, OneCeremonyStation, DistinctNames, DistinctSlugs,
                     EInv, [Next]_vars
              PROVE  EInv'
  OBVIOUS
<1>1. SInv' /\ SInv
  BY StationKept DEF EInv
<1>2. TInv /\ TInv' /\ RowsLast
  BY <1>1, KeptStep DEF SInv, KInv, LInv
<1>3. CASE Tick \/ UNCHANGED vars
  <2>1. UNCHANGED <<leaf, caRow, gens, caCert, crl, lock, pc, job>>
    BY <1>3 DEF Tick, vars, db, files, procs
  <2>2. JobsRevokeOwn' /\ LockIsHeld' /\ Written'
    BY <2>1 DEF EInv, JobsRevokeOwn, LockIsHeld, Written
  <2>3. EntryOnIssuersCrl' /\ RevokedIsListed'
    BY <2>1 DEF EInv, EntryOnIssuersCrl, RevokedIsListed
  <2>4. EntriesKnown'
    <3>. SUFFICES ASSUME NEW slug \in Slugs \cup {Root}, crl[slug] # None
                  PROVE  /\ \A x \in crl[slug].entries \cap Leaves : leaf[x] # None
                         /\ crl[slug].thisUpdate <= clock'
      BY <2>1 DEF EntriesKnown
    <3>1. /\ crl[slug].thisUpdate \in Nat /\ clock \in Nat /\ clock' \in Nat
          /\ clock <= clock'
      BY <1>2 DEF TInv, TypeOK, Crl, RowsLast
    <3>. QED
      BY <3>1 DEF EInv, EntriesKnown
  <2>. QED
    BY <1>1, <2>2, <2>3, <2>4 DEF EInv
<1>4. ASSUME NEW p \in Procs, Start(p) \/ Step(p) \/ Abort(p) PROVE EInv'
  <2>1. JobsRevokeOwn' /\ LockIsHeld'
    BY <1>1, <1>2, <1>4, OwnStep, HeldStep DEF EInv
  <2>2. Written'
    BY <1>1, <1>4, WrittenStep DEF EInv
  <2>3. EntriesKnown' /\ EntryOnIssuersCrl' /\ RevokedIsListed'
    BY <1>2, <1>4, EntriesStep, ListedStep
  <2>. QED
    BY <1>1, <2>1, <2>2, <2>3 DEF EInv
<1>. QED
  BY <1>3, <1>4 DEF Next

LEMMA SerialInit == DistinctNames /\ DistinctSlugs /\ Init => EInv
<1>. SUFFICES ASSUME DistinctNames, DistinctSlugs, Init PROVE EInv
  OBVIOUS
<1>1. SInv
  BY StationInit
<1>2. JobsRevokeOwn /\ LockIsHeld /\ Written
  BY DistinctAssumption
  DEF Init, JobsRevokeOwn, RevokingLeaf, LockIsHeld, Holding, Written
<1>3. PICK first \in [InitPurposes -> CaCerts] :
        InitSigned(first) /\ InitPublished(first)
  BY InitCerts
<1>4. \A slug \in Slugs \cup {Root} : crl[slug] # None =>
        crl[slug].entries = {} /\ crl[slug].thisUpdate = 0
  BY <1>3 DEF InitPublished, EmptyCrl, Init
<1>5. EntriesKnown /\ EntryOnIssuersCrl
  <2>1. clock = 0
    BY DEF Init
  <2>2. \A slug \in Slugs \cup {Root} : crl[slug] # None =>
           crl[slug].thisUpdate <= clock /\ \A x : x \notin crl[slug].entries
    BY <1>4, <2>1
  <2>. QED
    BY <2>2 DEF EntriesKnown, EntryOnIssuersCrl
<1>6. RevokedIsListed
  BY <1>3 DEF RevokedIsListed, InitSigned, Init
<1>. QED
  BY <1>1, <1>2, <1>5, <1>6 DEF EInv

\* A CRL lists only what its own CA issued: between the lookup before the lock
\* and the entry written under it the issuer of a serial cannot change
\* (revoke).
THEOREM EntriesAreTheIssuers ==
    ASSUME RevokesBySerial, OneCeremonyStation, DistinctNames, DistinctSlugs
    PROVE  Spec => []EntryOnIssuersCrl
<1>1. EInv /\ [Next]_vars => EInv'
  BY SerialKept
<1>2. Init => EInv
  BY SerialInit
<1>3. EInv => EntryOnIssuersCrl
  BY DEF EInv
<1>. QED
  BY <1>1, <1>2, <1>3, PTL DEF Spec

\* A revoked certificate is on its issuer's CRL, a revoked CA on the root's,
\* until one published past its expiry has had it: the CRL is written before
\* the row and both under the lock, so neither a crash nor a refresh or a
\* ceremony in between loses a revocation (revoke, revoke_ca, prune_crl_entries).
THEOREM RevocationsAreListed ==
    ASSUME RevokesBySerial, OneCeremonyStation, DistinctNames, DistinctSlugs
    PROVE  Spec => []RevokedIsListed
<1>1. EInv /\ [Next]_vars => EInv'
  BY SerialKept
<1>2. Init => EInv
  BY SerialInit
<1>3. EInv => RevokedIsListed
  BY DEF EInv
<1>. QED
  BY <1>1, <1>2, <1>3, PTL DEF Spec

\* Who asks for the CRL of a certificate's issuer, by the name in it, gets one
\* that the key of that issuer signed and that shows the revocation, whichever
\* generations came since (gen_by_cn, get_cert).
THEOREM RevocationsAreSeen ==
    ASSUME RevokesBySerial, OneCeremonyStation, DistinctNames, DistinctSlugs
    PROVE  Spec => []RevocationIsSeen
<1>1. EInv /\ [Next]_vars => EInv'
  BY SerialKept
<1>2. Init => EInv
  BY SerialInit
<1>3. EInv => RevocationIsSeen
  <2>. SUFFICES ASSUME EInv, NEW s \in Leaves, leaf[s] # None
                PROVE  /\ ServedCrls(caCert[leaf[s].issuer].cn) # {}
                       /\ \A k \in ServedCrls(caCert[leaf[s].issuer].cn) :
                             /\ k # None
                             /\ k.signer = leaf[s].issuer
                             /\ leaf[s].status = "revoked" =>
                                   s \in k.entries \/ leaf[s].notAfter < k.thisUpdate
    BY DEF RevocationIsSeen
  <2>1. SInv /\ TypeOK
    BY DEF EInv, SInv, KInv, LInv, TInv
  <2> DEFINE c == leaf[s].issuer
             h == caCert[c].gen
  <2>2. c \in CaCerts /\ caCert[c] # None /\ Published(h, c) /\ h \in Gens
    BY <2>1 DEF SInv, IssuersPublished, TypeOK, LeafRow, CaCertificate
  <2>3. h \in GenByCn(caCert[c].cn)
    BY <2>1, <2>2 DEF Published, SInv, PublishedIsRecorded, GenByCn
  <2>4. ASSUME NEW g \in GenByCn(caCert[c].cn)
        PROVE  /\ crl[Slug(g)] # None /\ crl[Slug(g)].signer = c
               /\ leaf[s].status = "revoked" =>
                     s \in crl[Slug(g)].entries \/ leaf[s].notAfter < crl[Slug(g)].thisUpdate
    <3>1. g \in Gens /\ gens[g] # None /\ h = g /\ pem[Slug(g)] = c
      BY <2>1, <2>4, IssuerByName DEF GenByCn
    <3>. QED
      BY <2>1, <3>1 DEF EInv, SInv, PublishedIsRecorded, RevokedIsListed
  <2>. QED
    BY <2>3, <2>4 DEF ServedCrls
<1>. QED
  BY <1>1, <1>2, <1>3, PTL DEF Spec
=============================================================================
