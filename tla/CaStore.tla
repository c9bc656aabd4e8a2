------------------------------- MODULE CaStore -------------------------------
(***************************************************************************)
(* The CA store and the commands that change it (src/src/ca.cpp).          *)
(*                                                                         *)
(* Each yca invocation is one process.  It reads the store and the         *)
(* published files without a lock, takes SQLite's write lock               *)
(* (begin_write), replaces a published file and commits.  The database     *)
(* rolls back when the process stops in between; the published files do    *)
(* not.  A process is modelled by its steps between those points: one      *)
(* Start action for the unlocked reads of a command, one action for each   *)
(* file it publishes, one for its commit.                                  *)
(***************************************************************************)
EXTENDS Integers, FiniteSets

CONSTANTS
    Procs,          \* yca processes
    Station,        \* [Procs -> SUBSET CommandNames]: what each one is run for
    Purposes,       \* issuing-CA lineages, the <purpose> of [ca.<purpose>]
    InitPurposes,   \* those the init ceremony created
    MaxGen,         \* bound: generations per purpose
    CaNames,        \* common names of CA generations (the root's own excluded)
    NewCns,         \* those an operator passes to renew --new-cn
    ConfigCn,       \* [Purposes -> CaNames]: cn of [ca.<purpose>]
    Prefixes,       \* slug prefixes
    SlugPrefix,     \* [Purposes -> Prefixes]: slug_prefix of [ca.<purpose>]
    TokenPurposes,  \* those with key_backend "pkcs11", on one token
    CaCerts,        \* bound: issuing-CA certificates ever signed, by serial
    CaLife,         \* valid_days of an issuing CA
    RootEnd,        \* notAfter of the root
    Subjects,       \* (cn, profile) pairs of end-entity certificates
    IssuedBy,       \* [Subjects -> Purposes]: the CA that lists the profile
    Leaves,         \* bound: end-entity certificates ever issued, by serial
    Lives,          \* validities a certificate is issued with
    WindowPct,      \* app::renew_window_pct
    MaxTime,        \* bound: the clock
    MaxCrlNumber,   \* bound: CRLs published per CA
    Root, None

CommandNames == {"issue", "revoke-cn", "revoke-serial", "revoke-ca",
                 "renew", "add", "refresh"}

ASSUME StationAssumption == Station \in [Procs -> SUBSET CommandNames]
ASSUME PurposeAssumption ==
    /\ InitPurposes \subseteq Purposes
    /\ ConfigCn \in [Purposes -> CaNames]
    /\ SlugPrefix \in [Purposes -> Prefixes]
    /\ TokenPurposes \subseteq Purposes
    /\ NewCns \subseteq CaNames
    /\ IssuedBy \in [Subjects -> Purposes]
ASSUME NumberAssumption ==
    /\ MaxGen \in Nat \ {0}
    /\ CaLife \in Nat
    /\ RootEnd \in Nat
    /\ Lives \subseteq Nat \ {0}
    /\ WindowPct \in 0 .. 99
    /\ MaxTime \in Nat
    /\ MaxCrlNumber \in Nat
ASSUME DistinctAssumption ==
    /\ Leaves \cap CaCerts = {}
    /\ Leaves \cap Subjects = {}
    /\ None \notin CaCerts \cup Procs
    /\ Root \notin CaCerts \cup Leaves
ASSUME FiniteAssumption == IsFiniteSet(CaCerts)

VARIABLES
    clock,      \* now_epoch()
    leaf,       \* cert_index and certificates, the end-entity rows
    caRow,      \* cert_index, the CA rows: absent, active or revoked; an
                \* internal private key is stored with its certificate's row
    gens,       \* ca_cert_index
    locked,     \* ca_config purposes: the [ca.<purpose>] sections in the store
    caCert,     \* the certificates the root key ever signed
    pem,        \* <store>/ca/<slug>.pem (and .crt, written with it)
    crl,        \* <store>/ca/<slug>.crl
    lock,       \* holder of the SQLite write lock
    pc, job     \* each process: where it is, and what it read on the way

db == <<leaf, caRow, gens, locked>>
files == <<pem, crl>>
procs == <<pc, job>>
vars == <<clock, db, caCert, files, lock, procs>>

-----------------------------------------------------------------------------
(* Types *)

Gens == Purposes \X (1 .. MaxGen)
Slugs == Prefixes \X (1 .. MaxGen)
Mutant_SlugWithoutGen(g) == <<SlugPrefix[g[1]], 1>>
Slug(g) == <<SlugPrefix[g[1]], g[2]>>

\* The generation a renewal of g creates.
Successor(g) == <<g[1], g[2] + 1>>

LeafRow == [cn : Subjects, issuer : CaCerts, notBefore : Nat, notAfter : Nat,
            status : {"active", "revoked"}]
GenRow == [cn : CaNames, status : {"active", "retiring", "revoked"}]
CaCertificate == [gen : Gens, cn : CaNames, notAfter : Nat]
Crl == [number : Nat, thisUpdate : Nat, entries : SUBSET (Leaves \cup CaCerts),
        signer : CaCerts \cup {Root}]

\* What a process carries from its unlocked reads to its commit: the
\* generation and CA certificate it resolved, the subject, serial or new CN
\* it is about, the validity asked for, the CRLs left to refresh.
Job == [gen : Gens \cup {None}, cert : CaCerts \cup {None},
        who : Subjects \cup Leaves \cup CaNames \cup {None},
        life : Lives \cup {None},
        todo : SUBSET ((Slugs \X CaCerts) \cup {<<Root, Root>>})]
NoJob == [gen |-> None, cert |-> None, who |-> None, life |-> None,
          todo |-> {}]

\* An absent row or file is none of the rows or files there are.
ASSUME AbsentAssumption ==
    None \notin LeafRow \cup GenRow \cup CaCertificate \cup Crl

Labels == {"idle", "issue", "revoke", "revoke_commit", "revoke_ca",
           "revoke_ca_commit", "refresh", "refresh_write", "renew_pem",
           "renew_crl", "renew_commit", "add_pem", "add_crl", "add_commit"}

TypeOK ==
    /\ clock \in Nat
    /\ leaf \in [Leaves -> LeafRow \cup {None}]
    /\ caRow \in [CaCerts -> {"absent", "active", "revoked"}]
    /\ gens \in [Gens -> GenRow \cup {None}]
    /\ locked \in SUBSET Purposes
    /\ caCert \in [CaCerts -> CaCertificate \cup {None}]
    /\ pem \in [Slugs -> CaCerts \cup {None}]
    /\ crl \in [Slugs \cup {Root} -> Crl \cup {None}]
    /\ lock \in Procs \cup {None}
    /\ pc \in [Procs -> Labels]
    /\ job \in [Procs -> Job]

-----------------------------------------------------------------------------
(* Queries on the store *)

\* active_ca: the active generation of a purpose, newest first.
ActiveGens(pu) ==
    {g \in Gens : g[1] = pu /\ gens[g] # None /\ gens[g].status = "active"}
ActiveCa(pu, g) ==
    g \in ActiveGens(pu) /\ \A h \in ActiveGens(pu) : h[2] <= g[2]

\* gen_by_cn: LIMIT 1 without an order, so any of these.
Mutant_ActiveGenOfCn(cn) ==
    UNION {ActiveGens(g[1]) : g \in {h \in Gens : gens[h] # None
                                                 /\ gens[h].cn = cn}}
GenByCn(cn) == {g \in Gens : gens[g] # None /\ gens[g].cn = cn}
Mutant_CnIsActive(cn) == \E g \in GenByCn(cn) : gens[g].status = "active"
CnIsTaken(cn) == GenByCn(cn) # {}

\* live_cas: what refresh crl signing covers.
LiveGens ==
    {g \in Gens : gens[g] # None /\ gens[g].status \in {"active", "retiring"}}

Indexed(c) == caRow[c] # "absent"

\* token_ca_key: the keypair labelled with the slug is generated before the
\* first certificate for that slug, and adopted for every later one.
OnToken(slug) ==
    \E c \in CaCerts : /\ caCert[c] # None
                       /\ caCert[c].gen[1] \in TokenPurposes
                       /\ Slug(caCert[c].gen) = slug

\* ca_key: by the generation's label on the token, or (store.find_key) by
\* the certificate whose row it was stored with.
HasKey(g) == IF g[1] \in TokenPurposes THEN OnToken(Slug(g))
             ELSE Indexed(pem[Slug(g)])

\* A generation's published certificate can sign: it is there, with its key.
Usable(g) == pem[Slug(g)] # None /\ HasKey(g)

Valid(s) == leaf[s] # None /\ leaf[s].status = "active"
                           /\ leaf[s].notAfter > clock

\* blocking_duplicate: a valid certificate of the subject is not yet in its
\* renewal window.
BlockingDuplicate(cn) ==
    \E s \in Leaves :
        /\ Valid(s)
        /\ leaf[s].cn = cn
        /\ (leaf[s].notAfter - clock) * 100
             > (leaf[s].notAfter - leaf[s].notBefore) * WindowPct

\* active_fp: the newest valid certificate of a subject.
Newest(cn) ==
    {s \in Leaves :
        /\ Valid(s)
        /\ leaf[s].cn = cn
        /\ \A t \in Leaves : Valid(t) /\ leaf[t].cn = cn
                                => leaf[t].notBefore <= leaf[s].notBefore}

\* revoke's lookup, by CN or (active_fp_by_serial) by serial.
Lookup(who) == {s \in Leaves : Valid(s) /\ who = s}
                   \cup {s \in Leaves : who \in Subjects /\ s \in Newest(who)}

Mutant_PrunableAtExpiry(x, prev) ==
    /\ x \in Leaves /\ leaf[x] # None
    /\ leaf[x].status = "revoked" /\ leaf[x].notAfter <= clock

\* prune_crl_entries: a revoked certificate leaves the CRL once a CRL issued
\* after its expiry has carried it.
Prunable(x, prev) ==
    \/ x \in Leaves /\ leaf[x] # None /\ leaf[x].status = "revoked"
                    /\ leaf[x].notAfter < prev.thisUpdate
    \/ x \in CaCerts /\ caRow[x] = "revoked"
                     /\ caCert[x].notAfter < prev.thisUpdate
Kept(prev) == {x \in prev.entries : ~Prunable(x, prev)}

Mutant_SameNumber(prev, entries, signer) ==
    [number |-> prev.number, thisUpdate |-> clock, entries |-> entries,
     signer |-> signer]
NewCrl(prev, entries, signer) ==
    [number |-> prev.number + 1, thisUpdate |-> clock, entries |-> entries,
     signer |-> signer]
EmptyCrl(signer) ==
    [number |-> 1, thisUpdate |-> clock, entries |-> {}, signer |-> signer]

-----------------------------------------------------------------------------
(* Processes *)

Become(p, label, j) ==
    /\ pc' = [pc EXCEPT ![p] = label]
    /\ job' = [job EXCEPT ![p] = j]
Done(p) == Become(p, "idle", NoJob)

Runs(p, command) == pc[p] = "idle" /\ command \in Station[p]

\* begin_write: nobody else holds the write lock.
AtLock(p, label) == pc[p] = label /\ lock = None

\* The bound on CRL numbers.
MayPublish(slug) == crl[slug] # None /\ crl[slug].number < MaxCrlNumber

-----------------------------------------------------------------------------
(* create: issue_ee *)

\* Up to begin_write: active CA, its published certificate and key, the
\* issuer's remaining life, the duplicate check that fails fast.
IssueStart(p) ==
    /\ Runs(p, "issue")
    /\ \E cn \in Subjects, g \in Gens, life \in Lives :
          /\ IssuedBy[cn] \in locked
          /\ ActiveCa(IssuedBy[cn], g)
          /\ Usable(g)
          /\ clock + life <= caCert[pem[Slug(g)]].notAfter
          /\ ~BlockingDuplicate(cn)
          /\ Become(p, "issue", [NoJob EXCEPT !.gen = g,
                                              !.cert = pem[Slug(g)],
                                              !.who = cn, !.life = life])
    /\ UNCHANGED <<clock, db, caCert, files, lock>>

\* Under the lock: the duplicate check again, then sign, insert, commit.
Mutant_CheckedOnce(p) == TRUE
StillFree(p) == ~BlockingDuplicate(job[p].who)
IssueCommit(p) ==
    /\ AtLock(p, "issue")
    /\ StillFree(p)
    /\ \E s \in Leaves :
          /\ leaf[s] = None
          /\ leaf' = [leaf EXCEPT ![s] =
                        [cn |-> job[p].who, issuer |-> job[p].cert,
                         notBefore |-> clock, notAfter |-> clock + job[p].life,
                         status |-> "active"]]
    /\ Done(p)
    /\ UNCHANGED <<clock, caRow, gens, locked, caCert, files, lock>>

IssueRefused(p) ==
    /\ AtLock(p, "issue")
    /\ ~StillFree(p)
    /\ Done(p)
    /\ UNCHANGED <<clock, db, caCert, files, lock>>

-----------------------------------------------------------------------------
(* revoke: by CN or by serial *)

\* Up to begin_write: the certificate found now fixes the issuing generation,
\* and with it the CRL and the key that will sign it.
RevokeStart(p) ==
    /\ \E who \in Subjects \cup Leaves :
          /\ Runs(p, IF who \in Leaves THEN "revoke-serial" ELSE "revoke-cn")
          /\ \E s \in Lookup(who) :
             \E g \in GenByCn(caCert[leaf[s].issuer].cn) :
                  /\ g[1] \in locked
                  /\ Usable(g)
                  /\ crl[Slug(g)] # None
                  /\ Become(p, "revoke", [NoJob EXCEPT !.gen = g,
                                                       !.cert = pem[Slug(g)],
                                                       !.who = who])
    /\ UNCHANGED <<clock, db, caCert, files, lock>>

\* Under the lock: look the certificate up again, then rewrite the CRL.
RevokeWrite(p) ==
    /\ AtLock(p, "revoke")
    /\ LET slug == Slug(job[p].gen) IN
       /\ MayPublish(slug)
       /\ \E s \in Lookup(job[p].who) :
            /\ crl' = [crl EXCEPT ![slug] =
                         NewCrl(crl[slug], Kept(crl[slug]) \cup {s},
                                job[p].cert)]
            /\ Become(p, "revoke_commit", [job[p] EXCEPT !.who = s])
    /\ lock' = p
    /\ UNCHANGED <<clock, db, caCert, pem>>

RevokeGone(p) ==
    /\ AtLock(p, "revoke")
    /\ Lookup(job[p].who) = {}
    /\ Done(p)
    /\ UNCHANGED <<clock, db, caCert, files, lock>>

RevokeCommit(p) ==
    /\ pc[p] = "revoke_commit"
    /\ leaf' = [leaf EXCEPT ![job[p].who].status = "revoked"]
    /\ lock' = None
    /\ Done(p)
    /\ UNCHANGED <<clock, caRow, gens, locked, caCert, files>>

-----------------------------------------------------------------------------
(* revoke ca *)

\* The victim is not its purpose's active generation, and its published
\* certificate is not revoked yet: all of it read before the lock.
Mutant_RevocableIfActive(g) ==
    pem[Slug(g)] # None /\ caRow[pem[Slug(g)]] # "revoked"
Revocable(g) ==
    /\ ~ActiveCa(g[1], g)
    /\ pem[Slug(g)] # None
    /\ caRow[pem[Slug(g)]] # "revoked"
RevokeCaStart(p) ==
    /\ Runs(p, "revoke-ca")
    /\ \E cn \in CaNames : \E g \in GenByCn(cn) :
          /\ Revocable(g)
          /\ Become(p, "revoke_ca", [NoJob EXCEPT !.gen = g,
                                                  !.cert = pem[Slug(g)]])
    /\ UNCHANGED <<clock, db, caCert, files, lock>>

RevokeCaWrite(p) ==
    /\ AtLock(p, "revoke_ca")
    /\ MayPublish(Root)
    /\ crl' = [crl EXCEPT ![Root] =
                 NewCrl(crl[Root], Kept(crl[Root]) \cup {job[p].cert}, Root)]
    /\ lock' = p
    /\ Become(p, "revoke_ca_commit", job[p])
    /\ UNCHANGED <<clock, db, caCert, pem>>

RevokeCaCommit(p) ==
    /\ pc[p] = "revoke_ca_commit"
    /\ caRow' = [caRow EXCEPT ![job[p].cert] =
                   IF @ = "absent" THEN @ ELSE "revoked"]
    /\ gens' = [gens EXCEPT ![job[p].gen].status = "revoked"]
    /\ lock' = None
    /\ Done(p)
    /\ UNCHANGED <<clock, leaf, locked, caCert, files>>

-----------------------------------------------------------------------------
(* refresh crl *)

Unexpired == {g \in LiveGens : pem[Slug(g)] # None
                                 /\ caCert[pem[Slug(g)]].notAfter > clock}
SigningJobs == {<<Slug(g), pem[Slug(g)]>> : g \in Unexpired}
RootJobs == IF RootEnd > clock THEN {<<Root, Root>>} ELSE {}

\* One job per live CA that has not expired, collected before the lock.  One
\* CA without a section, an artifact or a key fails the whole run.
RefreshStart(p) ==
    /\ Runs(p, "refresh")
    /\ \E scope \in {SigningJobs, RootJobs, SigningJobs \cup RootJobs} :
          /\ scope # {}
          /\ scope # RootJobs =>
               /\ \A g \in LiveGens : /\ g[1] \in locked
                                      /\ pem[Slug(g)] # None
                                      /\ crl[Slug(g)] # None
               /\ \A g \in Unexpired : HasKey(g)
          /\ Become(p, "refresh", [NoJob EXCEPT !.todo = scope])
    /\ UNCHANGED <<clock, db, caCert, files, lock>>

RefreshLock(p) ==
    /\ AtLock(p, "refresh")
    /\ lock' = p
    /\ Become(p, "refresh_write", job[p])
    /\ UNCHANGED <<clock, db, caCert, files>>

RefreshWrite(p) ==
    /\ pc[p] = "refresh_write"
    /\ \E j \in job[p].todo :
          /\ MayPublish(j[1])
          /\ crl' = [crl EXCEPT ![j[1]] =
                       NewCrl(crl[j[1]], Kept(crl[j[1]]), j[2])]
          /\ Become(p, "refresh_write", [job[p] EXCEPT !.todo = @ \ {j}])
    /\ UNCHANGED <<clock, db, caCert, pem, lock>>

RefreshCommit(p) ==
    /\ pc[p] = "refresh_write"
    /\ job[p].todo = {}
    /\ lock' = None
    /\ Done(p)
    /\ UNCHANGED <<clock, db, caCert, files>>

-----------------------------------------------------------------------------
(* The root ceremonies: renew signing-ca, add signing-ca *)

\* The incumbent, the successor's number and the CN check, before the lock.
RenewStart(p) ==
    /\ Runs(p, "renew")
    /\ \E pu \in locked, cn \in NewCns, g \in Gens :
          /\ ActiveCa(pu, g)
          /\ g[2] < MaxGen
          /\ ~CnIsTaken(cn)
          /\ Become(p, "renew_pem", [NoJob EXCEPT !.gen = Successor(g),
                                                  !.who = cn])
    /\ UNCHANGED <<clock, db, caCert, files, lock>>

\* ensure_ca_index, run with the file's sections: a purpose without a
\* generation gets generation 1 if the store indexes a CA of its CN.
Mutant_BackfillUnindexed(g) ==
    g[2] = 1 /\ \A h \in Gens : h[1] = g[1] => gens[h] = None
Backfill(g) ==
    /\ g[2] = 1
    /\ \A h \in Gens : h[1] = g[1] => gens[h] = None
    /\ \E c \in CaCerts : /\ caRow[c] # "absent"
                          /\ caCert[c].cn = ConfigCn[g[1]]
Backfilled ==
    [g \in Gens |-> IF Backfill(g)
                    THEN [cn |-> ConfigCn[g[1]], status |-> "active"]
                    ELSE gens[g]]

\* add runs ensure_ca_index before its own checks, outside any transaction:
\* what it inserts stays, whatever the checks say.
AddStart(p) ==
    /\ Runs(p, "add")
    /\ gens' = Backfilled
    /\ \E pu \in Purposes :
          IF \/ pu \in locked
             \/ \E g \in Gens : gens'[g] # None /\ gens'[g].cn = ConfigCn[pu]
          THEN Done(p)
          ELSE Become(p, "add_pem", [NoJob EXCEPT !.gen = <<pu, 1>>,
                                                  !.who = ConfigCn[pu]])
    /\ UNCHANGED <<clock, leaf, caRow, locked, caCert, files, lock>>

\* mint_ca_generation signs the certificate and publishes it, with an empty
\* CRL, under the generation's slug.
MintPem(p, from, to) ==
    /\ pc[p] = from
    /\ clock + CaLife <= RootEnd
    /\ \E c \in CaCerts :
          /\ caCert[c] = None
          /\ caCert' = [caCert EXCEPT ![c] =
                          [gen |-> job[p].gen, cn |-> job[p].who,
                           notAfter |-> clock + CaLife]]
          /\ pem' = [pem EXCEPT ![Slug(job[p].gen)] = c]
          /\ Become(p, to, [job[p] EXCEPT !.cert = c])
    /\ UNCHANGED <<clock, db, crl, lock>>

MintCrl(p, from, to) ==
    /\ pc[p] = from
    /\ crl' = [crl EXCEPT ![Slug(job[p].gen)] = EmptyCrl(job[p].cert)]
    /\ Become(p, to, job[p])
    /\ UNCHANGED <<clock, db, caCert, pem, lock>>

RenewPem(p) == MintPem(p, "renew_pem", "renew_crl")
RenewCrl(p) == MintCrl(p, "renew_crl", "renew_commit")
AddPem(p) == MintPem(p, "add_pem", "add_crl")
AddCrl(p) == MintCrl(p, "add_crl", "add_commit")

\* The incumbent retires, the successor is recorded as active.
Mutant_NoneRetired(pu) == gens
Mutant_AllRetired(pu) ==
    [g \in Gens |-> IF g[1] = pu /\ gens[g] # None
                    THEN [gens[g] EXCEPT !.status = "retiring"]
                    ELSE gens[g]]
Mutant_StatusMisspelt(pu) ==
    [g \in Gens |-> IF g \in ActiveGens(pu)
                    THEN [gens[g] EXCEPT !.status = "retired"]
                    ELSE gens[g]]
Retired(pu) ==
    [g \in Gens |-> IF g \in ActiveGens(pu)
                    THEN [gens[g] EXCEPT !.status = "retiring"]
                    ELSE gens[g]]

RenewCommit(p) ==
    /\ AtLock(p, "renew_commit")
    /\ gens[job[p].gen] = None
    /\ gens' = [Retired(job[p].gen[1]) EXCEPT ![job[p].gen] =
                  [cn |-> job[p].who, status |-> "active"]]
    /\ caRow' = [caRow EXCEPT ![job[p].cert] = "active"]
    /\ Done(p)
    /\ UNCHANGED <<clock, leaf, locked, caCert, files, lock>>

AddCommit(p) ==
    /\ AtLock(p, "add_commit")
    /\ gens[job[p].gen] = None
    /\ job[p].gen[1] \notin locked
    /\ gens' = [gens EXCEPT ![job[p].gen] =
                  [cn |-> job[p].who, status |-> "active"]]
    /\ locked' = locked \cup {job[p].gen[1]}
    /\ caRow' = [caRow EXCEPT ![job[p].cert] = "active"]
    /\ Done(p)
    /\ UNCHANGED <<clock, leaf, caCert, files, lock>>

\* The generation was recorded meanwhile: the INSERT hits the primary key and
\* the transaction rolls back.  The files stay as this process wrote them.
CeremonyConflict(p) ==
    /\ \/ AtLock(p, "renew_commit")
       \/ AtLock(p, "add_commit")
    /\ gens[job[p].gen] # None
    /\ Done(p)
    /\ UNCHANGED <<clock, db, caCert, files, lock>>

-----------------------------------------------------------------------------
(* Time, and what stops a command *)

Waiting == {"issue", "revoke", "revoke_ca", "refresh", "renew_commit",
            "add_commit"}

\* busy_timeout runs out while another process holds the lock.
LockTimeout(p) ==
    /\ pc[p] \in Waiting
    /\ lock \notin {None, p}
    /\ Done(p)
    /\ UNCHANGED <<clock, db, caCert, files, lock>>

\* A crash, a kill or a failed write anywhere: the open transaction rolls
\* back, the files already renamed into place stay.
Abort(p) ==
    /\ pc[p] # "idle"
    /\ lock' = IF lock = p THEN None ELSE lock
    /\ Done(p)
    /\ UNCHANGED <<clock, db, caCert, files>>

Tick ==
    /\ clock < MaxTime
    /\ clock' = clock + 1
    /\ UNCHANGED <<db, caCert, files, lock, procs>>

-----------------------------------------------------------------------------
\* The init ceremony: generation 1 of every configured purpose, an empty CRL
\* for each CA, nothing issued.
Init ==
    /\ clock = 0
    /\ leaf = [s \in Leaves |-> None]
    /\ locked = InitPurposes
    /\ gens = [g \in Gens |-> IF g[1] \in InitPurposes /\ g[2] = 1
                              THEN [cn |-> ConfigCn[g[1]], status |-> "active"]
                              ELSE None]
    /\ \E first \in [InitPurposes -> CaCerts] :
          /\ \A a, b \in InitPurposes : first[a] = first[b] => a = b
          /\ caCert = [c \in CaCerts |->
                         IF \E pu \in InitPurposes : first[pu] = c
                         THEN LET pu == CHOOSE q \in InitPurposes : first[q] = c
                              IN [gen |-> <<pu, 1>>, cn |-> ConfigCn[pu],
                                  notAfter |-> CaLife]
                         ELSE None]
          /\ caRow = [c \in CaCerts |->
                        IF \E pu \in InitPurposes : first[pu] = c
                        THEN "active" ELSE "absent"]
          /\ pem = [sl \in Slugs |->
                      IF \E pu \in InitPurposes : sl = Slug(<<pu, 1>>)
                      THEN first[CHOOSE pu \in InitPurposes :
                                    sl = Slug(<<pu, 1>>)]
                      ELSE None]
          /\ crl = [sl \in Slugs \cup {Root} |->
                      IF sl = Root THEN EmptyCrl(Root)
                      ELSE IF pem[sl] # None THEN EmptyCrl(pem[sl])
                      ELSE None]
    /\ lock = None
    /\ pc = [p \in Procs |-> "idle"]
    /\ job = [p \in Procs |-> NoJob]

\* What a process does once it has started, if nothing stops it.
Step(p) ==
    \/ IssueCommit(p) \/ IssueRefused(p)
    \/ RevokeWrite(p) \/ RevokeGone(p) \/ RevokeCommit(p)
    \/ RevokeCaWrite(p) \/ RevokeCaCommit(p)
    \/ RefreshLock(p) \/ RefreshWrite(p) \/ RefreshCommit(p)
    \/ RenewPem(p) \/ RenewCrl(p) \/ RenewCommit(p)
    \/ AddPem(p) \/ AddCrl(p) \/ AddCommit(p)
    \/ CeremonyConflict(p) \/ LockTimeout(p)

Start(p) ==
    \/ IssueStart(p) \/ RevokeStart(p) \/ RevokeCaStart(p)
    \/ RefreshStart(p) \/ RenewStart(p) \/ AddStart(p)

Next == Tick \/ \E p \in Procs : Start(p) \/ Step(p) \/ Abort(p)

Spec == Init /\ [][Next]_vars

-----------------------------------------------------------------------------
(* What holds whatever runs together *)

Held(pu) == \E g \in Gens : g[1] = pu /\ gens[g] # None

\* Every lineage the store records has exactly one active generation, the
\* newest one, however many ceremonies and CA revocations race: "replace
\* first, revoke second" leaves no gap and no second issuer
\* (renew_signing_ca, revoke_ca).
OneActiveIssuer ==
    \A pu \in Purposes : Held(pu) =>
        \E g \in Gens : /\ ActiveGens(pu) = {g}
                        /\ \A h \in Gens : h[1] = pu /\ gens[h] # None
                                               => h[2] <= g[2]

\* Two certificates of one subject are both unrevoked only as a renewal
\* overlap: when the later was issued the earlier was inside its renewal
\* window (blocking_duplicate, repeated under the lock by issue_ee).
RenewalDiscipline ==
    \A s, t \in Leaves :
        /\ s # t /\ leaf[s] # None /\ leaf[t] # None
        /\ leaf[s].cn = leaf[t].cn
        /\ leaf[s].status = "active" /\ leaf[t].status = "active"
        /\ leaf[s].notBefore <= leaf[t].notBefore
        => (leaf[s].notAfter - leaf[t].notBefore) * 100
             <= (leaf[s].notAfter - leaf[s].notBefore) * WindowPct

\* The certificate that signs today is neither on the root CRL nor marked
\* revoked, although revoke_ca checks "not the active generation" before it
\* takes the lock.
ActiveIssuerNotRevoked ==
    \A pu \in Purposes, g \in Gens :
        g \in ActiveGens(pu) /\ pem[Slug(g)] # None
        => /\ pem[Slug(g)] \notin crl[Root].entries
           /\ caRow[pem[Slug(g)]] # "revoked"

Rank(status) == CASE status = "active" -> 0
                  [] status = "retiring" -> 1
                  [] status = "revoked" -> 2

\* A generation keeps its name and only ages: a renewal never brings a
\* revoked predecessor back to "retiring", where refresh and the chain
\* lookups would treat it as an issuer of record again.
GenerationsOnlyAge ==
    [][\A g \in Gens : gens[g] # None =>
          /\ gens'[g] # None
          /\ gens'[g].cn = gens[g].cn
          /\ Rank(gens[g].status) <= Rank(gens'[g].status)]_gens

-----------------------------------------------------------------------------
(* What holds when one operator station runs the ceremonies *)

Recorded(slug) == slug = Root \/ \E g \in Gens : Slug(g) = slug /\ gens[g] # None

NotAfter(x) == IF x \in Leaves THEN leaf[x].notAfter ELSE caCert[x].notAfter

\* A revoked certificate is on the CRL of the generation that issued it (a
\* revoked CA on the root's), until a CRL published after its expiry has
\* carried it (revoke, revoke_ca, prune_crl_entries).
RevokedIsListed ==
    /\ \A s \in Leaves : leaf[s] # None /\ leaf[s].status = "revoked" =>
          LET k == crl[Slug(caCert[leaf[s].issuer].gen)]
          IN s \in k.entries \/ leaf[s].notAfter < k.thisUpdate
    /\ \A c \in CaCerts : caRow[c] = "revoked" =>
          c \in crl[Root].entries \/ caCert[c].notAfter < crl[Root].thisUpdate

\* A CRL lists only what its own CA issued: "an entry on the wrong CRL
\* revokes nothing" (revoke).
EntryOnIssuersCrl ==
    \A slug \in Slugs \cup {Root} : crl[slug] # None =>
        \A x \in crl[slug].entries :
            slug = IF x \in Leaves THEN Slug(caCert[leaf[x].issuer].gen)
                   ELSE Root

\* The CRL of a recorded CA is replaced by one with a higher number, and an
\* entry leaves it only after a CRL published past the certificate's expiry
\* has carried it (RFC 5280 3.3, crl_entry_prunable).
CrlContinuity ==
    [][\A slug \in Slugs \cup {Root} :
          Recorded(slug) /\ crl[slug] # None /\ crl'[slug] # crl[slug] =>
            /\ crl'[slug] # None
            /\ crl'[slug].number > crl[slug].number
            /\ \A x \in crl[slug].entries \ crl'[slug].entries :
                  NotAfter(x) < crl[slug].thisUpdate]_crl

\* A recorded generation's published certificate is the one the store
\* indexes for it, beside which an internal key is stored, and its CRL
\* verifies under it ("an active generation without a published certificate
\* would break issuance", mint_ca_generation).
PublishedIsRecorded ==
    \A g \in Gens : gens[g] # None =>
        /\ pem[Slug(g)] # None /\ Indexed(pem[Slug(g)])
        /\ caCert[pem[Slug(g)]].gen = g
        /\ caCert[pem[Slug(g)]].cn = gens[g].cn
        /\ crl[Slug(g)] # None /\ crl[Slug(g)].signer = pem[Slug(g)]
        /\ gens[g].status = "revoked" <=> caRow[pem[Slug(g)]] = "revoked"

\* Only purposes with a section in the store have generations, as long as CA
\* names differ: ensure_ca_index backfills a section of the file under which a
\* certificate of its name is found, before add has locked it.
GenerationsAreLocked == \A g \in Gens : gens[g] # None => g[1] \in locked

-----------------------------------------------------------------------------
(* What the repository states and the code does not keep *)

\* No two recorded generations share a CN, so a certificate's issuer name
\* leads back to one of them (gen_by_cn); two renewals may take one CN.
GenerationNamesUnique ==
    \A g, h \in Gens : gens[g] # None /\ gens[h] # None
                          /\ gens[g].cn = gens[h].cn => g = h

\* A certificate never outlives its issuer (outlives_issuer).
LeafWithinIssuer ==
    \A s \in Leaves : leaf[s] # None =>
        leaf[s].notAfter <= caCert[leaf[s].issuer].notAfter

\* A new certificate is signed by the generation active when it is issued
\* (docs/operation.md, Planned rotation).
IssuanceFollowsActive ==
    [][\A s \in Leaves : leaf[s] = None /\ leaf'[s] # None =>
          \E pu \in Purposes, g \in Gens :
              /\ g \in ActiveGens(pu)
              /\ caCert[leaf'[s].issuer].gen = g]_leaf

\* A CRL that replaces one published after a certificate's expiry no longer
\* lists the certificate (docs/operation.md, Revoke).
ExpiredIsPruned ==
    [][\A slug \in Slugs \cup {Root} :
          crl[slug] # None /\ crl'[slug] # crl[slug] =>
            \A x \in crl[slug].entries \cap crl'[slug].entries :
                ~(NotAfter(x) < crl[slug].thisUpdate)]_crl
=============================================================================
