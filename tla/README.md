# yca in TLA+

yca is a private certificate authority kept in one SQLite database and one
directory of published files. `src/src` is the CA, a C++ command-line program:
each invocation is one process that reads the store, does one thing and exits.
`src/acme` is an ACME server in Go that keeps its own database and runs the CA
as a child process. This directory models the two programs' protocols: what
the processes and the requests do to the shared state, in which order, and what
holds when they run together, stop half-way or wait for each other.

Paths below are those of the source tree: `ca.cpp` is `src/src/ca.cpp`, the Go
files are in `src/acme`, the manuals in `src/docs`.

## 1. Inventory

### The CA (`ca.cpp`, `store.cpp`)

State: the tables `cert_index` and `certificates` (every certificate, its
status and dates), `ca_cert_index` (the generations of each issuing CA: active,
retiring, revoked), `ca_config` (the `[ca.<purpose>]` sections the store has
locked), `enrollment` (identities and their pending nonces), the key table, and
the files `<store>/ca/<slug>.pem`, `.crt` and `.crl`.

| Operation | Code | Reads without the lock | Under the lock or later |
|---|---|---|---|
| init | `init`, `create` | the file, `is_initialized`, keys on the token | nothing is locked: database, keys, `ca_config`, index rows, generations and files, one by one |
| issue | `issue_ee` | active CA, its certificate and key, duplicate | duplicate again, sign, insert, commit, then `ee/<slug>` files |
| revoke | `revoke` | certificate, issuing generation, its CRL and key | certificate again, CRL file, mark, commit |
| revoke ca | `revoke_ca` | generation, not active, not revoked | root CRL file, mark, commit |
| refresh crl | `refresh_crl` | the CRLs to rewrite, with their keys | each CRL file in turn |
| renew signing-ca | `renew_signing_ca` | incumbent, number, new CN | certificate and CRL files *before* the lock, then retire, insert, commit |
| add signing-ca | `add_signing_ca` | backfill (written at once), section, CN | files before the lock, then insert, commit |
| enroll, get nonce | `enroll`, `get_nonce` | - | one transaction each |
| sign | `sign_csr` | nonce, CSR, duplicate | nonce and duplicate again, sign, insert, consume, commit |
| get, list, log | `get_cert`, `issuers_above` | read-only; `get config` prints what is locked | |

Hard: everything read before the lock is stale under it; a published file is
replaced by a rename that no rollback undoes; the wait for the lock lets time
pass; init is no transaction and may be run twice, or again over keys a token
kept. Correct when: one active issuer per purpose at all times; a revoked
certificate is on its issuer's CRL until it expires and one CRL more; CRL
numbers grow; published artifacts, index and keys agree; what `get` answers
shows every revocation; a subject has two certificates only as a renewal; a
nonce signs once, for its identity, in time; a store that counts as initialized
is complete.

### The files (`write_file` in `ca.cpp`, `ca_detail.h`)

State: `<store>/ca/<slug>.pem`, `.crt`, `.crl`, `<store>/ee/<slug>.crt`, `.key`
and a sibling `.tmp` of each while it is being written. A call opens the
sibling, writes, closes, makes it read-only and renames it. Hard: each step may
fail or be the last; the commands differ in what they do next and in whether the
database comes before or after, and an error that only closing the file reports
is looked at by nobody. Correct when: a reader finds all that a writer left or
what was there before, and the database never says more than the files do.

### Configuration (`config.cpp`, `main.cpp`)

State: `yca.toml`, which the operator edits, and the sections the store has
locked. `init` and `add` read the file, every other command reads what is
locked; `reconcile` compares the two. Hard: every rule is about one file, and
a store grows from several; a default is resolved on the way. Correct when:
no file is accepted from which two CAs could share a name or a profile, at any
generation, and adding from later files keeps that.

### The ACME frontend (`src/acme`)

State: `nonces`, `accounts`, `eab_creds`, `orders`, `authzs`, `challenges`,
`certs` in its own SQLite database, on one connection and without transactions
around handlers; a mutex (`ycaRunner.mu`) around each exec of yca.

| Part | Operations | Code |
|---|---|---|
| replay nonces | issue (three statements), consume | `db.go`, `jws.go` |
| accounts and EAB | newAccount, account update, keyChange, `eab new`, `eab delete` | `account.go`, `keychange.go`, `main.go` |
| orders | newOrder, challenge, finalize, collector | `order.go`, `challenge.go`, `finalize.go`, `db.go` |
| revocation | revokeCert | `revoke.go` |
| renewal information | window arithmetic, accelerate and clear | `ari.go` |

Hard: requests interleave between any two statements; status writes do not
compare what they replace; an exec may fail after the CA committed; a restart
loses every handler. Correct when: nothing is signed for an order whose
identifiers were not all validated; one certificate per order; an order's status
only advances and does not stay in processing; a linked certificate is served;
a noted revocation happened; a single-use credential admits one account; a key
belongs to one account; a nonce is accepted once.

### How they interact

The frontend execs `yca sign`, `get server --chain`, `get crl` and `revoke`
against the store the operator uses at the command line and the timers use for
`refresh crl`. All of them meet at SQLite's write lock and at the files.
Keys are in the database or on a PKCS#11 token, which outlives the store; they
are found there by label. The remaining parts (profiles and extensions, command
line, utilities, seed tool, packaging, vendored libraries) keep no state the protocols depend on. PROJECT.json lists
each part with what is modelled of it, and the hazards with their lines.

## 2. Modules

| Module | Models | Proofs |
|---|---|---|
| `CaStore` | the store, files and write lock; issue, revoke, revoke ca, refresh, renew, add | `CaStore_proofs` |
| `Queries` | what `get` answers on a state of `CaStore` | `CaStore_proofs` |
| `Artifacts` | the published files, `write_file` step by step, the commands that write | `Artifacts_proofs` |
| `AtomicFile` | what `write_file` promises; `Artifacts` implements it | `Artifacts_proofs` |
| `ConfigRules` | which files are accepted, what a section is loaded as | `ConfigRules_proofs` |
| `Initialization` | init step by step, the operator's file, directory and token, add and renew from an edited file, `get config` | `Initialization_proofs` |
| `Enrollment` | enroll, get nonce, sign | `Enrollment_proofs` |
| `NonceLedger` | what a nonce promises; `Enrollment` and `ReplayNonces` implement it | `Enrollment_proofs`, `ReplayNonces_proofs` |
| `AcmeOrder` | orders, authorizations, challenges, finalize, revokeCert, collector, mutex, and the CA as the frontend sees it | `AcmeOrder_proofs` |
| `AcmeAccount` | accounts, EAB credentials, key change, deactivation, what gates an order | `AcmeAccount_proofs` |
| `ReplayNonces` | IssueNonce, ConsumeNonce | `ReplayNonces_proofs` |

`Queries` EXTENDS `CaStore`, `Initialization` EXTENDS `ConfigRules`, `Artifacts`
has an `INSTANCE` of `AtomicFile`, `Enrollment` and `ReplayNonces` each have one of
`NonceLedger`. Each family has an `MC` module with the
instances and symmetry sets its configurations use. `CaStore` and `AcmeOrder` both have the CA's certificates:
the first with all of the CA's protocol, the second with what the frontend can
observe (`signed`: who it was signed for, when, whether it is revoked).
Operators named `Mutant_...` are plausible errors in the code; each is put in
the place of the definition it stands before to see that a property notices.

### CaStore

A process (`Procs`) is one invocation. `pc` is the point it has reached,
`job` what it read on the way there. `Station` says which commands a process may
be run for: a configuration chooses who does what. One `Start` action stands
for all unlocked reads of a command, down to `begin_write`; it enables the steps
that follow, one per published file and one per commit. A step `AtLock` takes
the write lock; when the command writes no file under the lock, taking it,
committing and releasing it are one step. `Abort` is a crash, a kill or a failed
write at any point: the transaction is undone and the files stay. `LockTimeout` is
the busy timeout.

Abstractions. Certificates are identities with a generation, a name and dates;
`caRow` is their index row, which stands also for an internal private key, stored in
the same transaction; the keys of `TokenPurposes` are on a token, found by the label
of their generation, generated before the first certificate for it and adopted by
every later one (`OnToken`, `HasKey`). A CRL is its number, its `thisUpdate`, its signer and the *set*
of its entries (`prune_crl_entries` may leave a duplicate entry, which says nothing
more). `.crt` is written with `.pem` and is not modelled apart. The unlocked
reads of one command are one step: their interleavings with others between two
reads are not modelled. `(cn, profile)` is one subject. Revocation reasons, the
backdating of notBefore and the CDP are left out. `IssueCommit` is also what
`sign` does to this store.

### Queries

`Served` and `ServedCrls` are the answers of `get <profile> --chain` and `get crl`
to a caller who comes at any state, between two steps of a ceremony included.
`IssuersAbove` is the set of the chains `issuers_above` may answer with: it walks from
a certificate's `Aki` to a row with that `Ski`, whichever the fingerprints put first,
until it meets nothing, what it has seen, or the self-signed anchor. A certificate's
key is its own, or the token's for its slug: then two certificates of one
key exist as soon as a renewal that died is started over, and the walk is right
only because no more than one of them is ever indexed. `CaIssuers` is the
pointer in the certificate. `list` and `get ca` only format rows.

### Artifacts, AtomicFile

`CaStore` replaces a file in one step; here are that step's parts. An inode holds
a version, part of one (`Part`), nothing or a mixture (`Torn`), so that two writers of one path who
share a `.tmp` do what they do on a disk. `Command` says which of the four
shapes of command a process is (mint, revoke, refresh, issue), `Plan` the
files it writes, in the order of the code. Each process may run again after
it ended. `Write` may always lose data when the destructor closes the file, which
the code does not see (`late`): the call goes on, and `Part` of its version is
published. So the contract is one about what is left of the content
(`LateError` of `AtomicFile`), and that files are whole is in Disagreements. The mode
of a file matters as far as an open of a leftover `.tmp` of mode 0400 fails for the
user yca. `AtomicFile` has a reader's view (`published`) and the calls in progress;
the mapping is `Published` and `Call`.

### ConfigRules

A file is a record of the keys that some rule compares with others; `wellFormed`
stands for the reading of the rest (present, of their type, in their
alphabet). Prefixes and slugs are sequences of characters, because
`digits_apart` is about characters. `IntHalf` is the range of `int`.

### Initialization

`Inits` are processes that run `create`; an action is one row, key or file of it.
Ceremonies are numbered (`runs`) and a key is named by the ceremony that made
it, so that a certificate tells whose key signed it and under which `[pki]`, `[pkcs11]` and
`[root]`. `Begin` merges the reading of the file, `is_initialized` and
the check that the directory has no store; `dir` is what a second init can see
of the first. A row of `cert_index` is a set because two inits may insert for the
same CA. `MoveAway` is what the messages of init ask for. `add` and `renew` are
one step each: their races are in `CaStore`, what they take from the file or from
the store is here. Validity of the certificates is in `CaStore` too. `Printed`
takes the strings to need no escape. `OneTokenHolder` says that ceremonies with a
token do not overlap: whoever unlocks it runs one at a time. `SwapToken` is
only in `AnyTokenSpec`.

### Enrollment

`row` is the enrollment table, `drawn` and the nonce in `cert` are history. `SignStart`
is the first check of nonce and subject, `SignCommit` the transaction that
checks both again. Retrieval policies and the CSR's policing are a request that
may be refused. Certificates are not revoked here, so the duplicate check is
by age alone.

### AcmeOrder

A worker is one request's goroutine; each action is one statement, exec or
outbound validation of its handler. `WithStatus` is `SetOrderStatus`, which
updates whatever row there is. `Faults` chooses what may fail: a crash of the
daemon, a failing statement, a failing exec. An exec that fails may have
committed at the CA (timeout after the commit) or not. `proved` is history: the
identifiers whose control a validation confirmed. `Operator` is what someone
does at the same CA by hand. Merged: newOrder's inserts, which nobody can refer to before its
answer; the collector's three statements; `get nonce` and `sign` of one exec, both
under the mutex. A handler reads its rows and the clock (`ChallengeStart`,
`FinalizeStart`), and claims in a statement of its own, which finds the row as
others left it (`ChallengeClaim` or `ChallengeTaken`, `FinalizeClaim` or `FinalizeTaken`)
and compares with the time that was read. Account ownership is `AcmeAccount`'s.

### NonceLedger

One abstract specification for the nonces of both programs: drawn once, live
for a while, each acceptance counted and the end of a life. A lapse stands for
expiry, the cap and rotation alike. `ReplayNonces` maps what is in its table
to `live` (ConsumeNonce accepts an expired row that nothing has dropped yet);
`Enrollment` what is pending and in its lifetime, and the certificates signed
with a nonce to `uses`. The mapping of `Enrollment` says pending in words of
its own (`Pending`), not by the check `Accepted` it is to judge.

### AcmeAccount, ReplayNonces

A request is authenticated by a `Start` action and writes in a later one. The
unbound, bound, absent and deleted states of a credential are values of `cred`.
`ReplayNonces` has rowids as SQLite assigns them to a table without
AUTOINCREMENT: one more than the largest present. The time a statement takes as an
argument is read in a step before it (`Start`, `Stamp`; `now` carries it), because
`Exec` may have to wait for the one connection (`db.go:70`): of two rows the one
inserted later may be dated earlier. `inserts` and `born` are history, the order
of the insertions.

## 3. Runs

All are in PROJECT.json with the properties they check. Bounds are
CONSTANTS of the modules, guards of the actions they bound.

| Run | Instance | Shows |
|---|---|---|
| CaRotation | one station for ceremonies and CA revocation, one machine that issues, revokes by serial, refreshes; keys on a token; 2 leaves, 3 CA certificates, clock to 1, 3 CRLs per CA | with one operator at a time the index, files and CRLs agree through every crash, CRLs continue, and `get` serves each leaf with its own chain and a CRL that shows its revocation |
| CaIssuance | two machines, 2 certificates of one subject with validities 1 and 3, clock to 3, 5 CRLs | the duplicate rule under races; a revoked certificate through expiry, equality of times included, and pruning |
| CaCeremonies | three processes with every ceremony at once, two purposes, 3 generations, 4 CA certificates | one active issuer, never revoked; statuses only age; no generation without a section |
| Artifacts | a ceremony with two files, a revocation and a refresh that share its CRL, 5 versions, every step crashing or failing, each close losing data or not | files are replaced in one step by what their writer left, the database is never ahead of them |
| Initialization | two inits, 3 ceremonies, one crash, 2 generations, 7 files of which 2 must be refused and 2 are at odds with the others, keys in the store or on a token | what counts as initialized is complete and stays; a profile and a slug have one owner through every edit; init gets there |
| EnrolledSigning | two signs, 2 identities, 3 nonces, 2 subjects, validity 4, rotation at half | nonces are spent as NonceLedger says, by their owner, in time; two identities cannot both take a subject |
| AcmeOrders | three requests, a one-name order with two challenges, 3 certificates, every fault, an operator who issues and revokes, clock past the collection of an order | the order protocol end to end |
| AcmeAuthorization | two requests, one order for a name with both challenges and a wildcard with one, 3 certificates, failing execs, an operator who revokes; under fairness | nothing unproved is signed, failure is final, at most one certificate per name, no order stays in processing |
| AcmeAccounts | two requests, 3 accounts, 3 keys, a single-use and a reusable credential, clock past the first's expiry | registration, key and status races |
| NonceTable | two requests, 5 nonces, cap 3, lifetime 1, clock to 3 | single use (NonceLedger), the cap, the order of reused rowids |
| RevokeByCn | a ceremony beside two machines that issue and revoke by CN | violated: see Disagreements |
| ConfigRoundTrip | one init from a file whose keys are all on the default token | violated: see Disagreements |

Why the bounds suffice. Every race of the code is between an unlocked read of
one process and a commit of another, or between two statements of two
requests; two actors produce it, and three where a third must act in the
window between the two (CaCeremonies, RevokeByCn). Two certificates are one
and its renewal; three CA certificates are generation 1, a successor, and one
signed by an attempt that lost or died; of AcmeAuthorization's three, one is more
than the order has names. AcmeOrders has one order: requests about different
orders meet only at the CA, where the operator, who signs and revokes at any
moment, does what another order's requests would do. The clock runs past each deadline there is
by at least one unit, so that before, at and after occur. `MaxCrlNumber` lets a
CRL be replaced at least twice. The replacement of each
mutated definition is found under the same bounds, so the case a property is
about does occur. Times are small numbers in place of seconds: Enrollment has a
nonce of 4 units that rotates below `max(2, 20 %)`, in place of 5 minutes and
1 minute, which keeps the floor in force. Three ceremonies in Initialization
are an init that dies, a second one and an add, or two inits that race and a
renewal; a third purpose would compare with each of the two as they do with
each other. In Artifacts seven inodes are one for each of three paths and its sibling and
one more, and five versions let two commands run again after a failure of each.
Symmetry is over processes, requests and identities that nothing tells apart
(in CaRotation not over processes), and in neither run with a liveness
property. No configuration checks for deadlock: with the clock, the
identities and the numbers used up a bounded instance stops.

Fairness. `LiveSpec` of AcmeOrder: each worker's next step is weakly fair, because the
Go scheduler runs every goroutine, an exec ends within 60 s and a validation
within 10 s. Taking the mutex is strongly fair: `sync.Mutex` hands over to a
waiter that starves. Clients, operator, clock, collector and crashes are not
fair. `ProcessingEnds` is checked while the frontend's own statements
succeed and it is not restarted: a failed insert of a certificate
(`finalize.go:217-227`) and a restart both leave an order in processing until
it is collected. `Spec` of Initialization: the steps of a started init are
weakly fair, and so are starting it on a store that is not initialized and
moving that store away, which is what init's messages tell the operator to do.
Edits, add, renew and crashes are not fair; the crashes are bounded.

## 4. Disagreements

Where the repository states something the code does not keep. Two have a
run; the other formulas are at the end of their modules or named in the table,
and TLC refutes each when it is added to the configuration in the last
column, with the changes named there, in place of its properties. The first
is about a revocation that revokes nothing; the second about a file that is
the documented way back from a loss and is refused.

| Formula | What happens | Stated at | Configuration |
|---|---|---|---|
| EntryOnIssuersCrl | `revoke` by CN waits for the lock while the subject is renewed under a new generation; the new certificate's entry goes on the old generation's CRL | `ca.cpp:2259-2261` | run RevokeByCn |
| PrintedIsAccepted | `get config` prints the default token label and, resolved from it, the label of every CA; load refuses a default nobody falls back on | `ca.cpp:2632-2633`, `docs/operation.md:407` | run ConfigRoundTrip |
| PublishedIsRecorded | two renewals of one CA: the loser of the INSERT has replaced the winner's published certificate and CRL | `ca.cpp:1240-1242` | CaCeremonies |
| ChainIsServed | the same two renewals: a leaf's caIssuers points at a file the loser has replaced | `docs/operation.md:523-524` | CaRotation, `Station <- Renewers` |
| OneCertificatePerOrder | of an order for two names, a late write of ready re-opens a claimed order; it is finalized twice | `finalize.go:177-178` | AcmeAuthorization |
| OrderOnlyAdvances | the same write, seen at the order | `db.go:392` | AcmeAuthorization |
| GenerationNamesUnique | two purposes renewed at once with one new CN: the check precedes the transaction | `ca_detail.h:81-82`, `docs/operation.md:492-493` | CaCeremonies |
| IssuanceFollowsActive | an issuance that read its issuer before a renewal commits after it | `docs/operation.md:521-522` | CaRotation |
| LeafWithinIssuer | the certificate is dated after the wait, the issuer's margin checked before it | `docs/operation.md:56` | CaIssuance |
| ExpiredIsPruned | killed between CRL and commit, `revoke` leaves an entry the index does not have as revoked and no later CRL drops | `docs/operation.md:373-377`, `ca.h:181-182` | CaIssuance |
| RevokedIssuersLeavesAreReplaceable | a leaf of a CA that was revoked still blocks a certificate of its subject from the next one | `docs/operation.md:570-572`, `597-598` | CaRotation |
| PublishedIsRecorded | `add` with a section renamed in the file that keeps its slug_prefix | `config.cpp:499` | CaCeremonies, `Station <- Adder`, `SlugPrefix <- SharedPrefix`, one prefix |
| GenerationsAreLocked | `add` with a section renamed in the file that keeps its cn: the backfill stays when add refuses. A renewal that takes the cn of a section not yet added has the same effect | `ca.cpp:177-179` | CaCeremonies, `Station <- Adder`, `ConfigCn <- RenamedCn` |
| LeftoversAreReplaced | a `.tmp` that was already read-only when its writer died cannot be opened by the next one | `docs/operation.md:603-607` | Artifacts |
| FilesAreWhole | a write error that only close reports goes unseen, and what is left of the file is renamed over the published one | `ca_detail.h:114-116` | Artifacts |
| Contract, KeyMatchesCertificate | two issuances of one CN write one pair of `ee/` files without the lock; the pair differs as well when one of them dies between the two | `ca_detail.h:114-116`; `ca.cpp:1840` | Artifacts, `Procs = {create, create2}`, `Paths = {"ee.crt", "ee.key"}` |
| ActiveIsPublished | init records a generation and then warns that its file could not be written | `ca.cpp:1240-1242` | Initialization |
| ReadonlyIsIgnored | reconcile says a changed `[pki]` or `[root]` is ignored; add makes the CA under the changed values | `ca.cpp:1626` | Initialization |
| OneIssuerPerProfile | add takes a profile that a locked section, missing from today's file, has | `config.cpp:515` | Initialization |
| InitializedIsComplete | two inits with one token: each finds no keypair and generates one | `ca.cpp:989` | Initialization, `OneTokenHolder = FALSE` |
| SignedByTheRoot | a renewal over another token of the same label generates a second root key and signs with it | `docs/softhsm.md:173-175` | Initialization, `SPECIFICATION AnyTokenSpec`, `Files <- TokenFiles` |
| NumbersAreTheFiles | a number of days is cast to int before it is compared; 2^32 + 825 is read as 825 | `config.cpp:192` | Initialization with a file whose days exceed `IntHalf` by `2 * IntHalf`; the formula takes the file |
| InFlightKeepsNonce | `get nonce` replaces a nonce in its last minute while a sign waits with it | `ca.cpp:1955-1956` | EnrolledSigning |
| NothingIssuedLate | a finalize claimed in time waits for the mutex past the order's expiry | `finalize.go:178` | AcmeOrders |
| RecordedIsOwn | the chain is fetched by CN; if the operator has revoked the new certificate an older one is recorded | `revoke.go:70-71` | AcmeOrders |
| PerformedIsNoted | a revocation whose exec times out after the commit is never recorded | `docs/acme-operation.md:562-563` | AcmeOrders |
| KeyChangesItself | of two key changes authenticated by one key the second replaces the first one's key | `db.go:378-379` | AcmeAccounts |
| DeletedOrdersNothing | an order open when its account's credential is deleted can be finalized | `docs/acme-operation.md:824`, `main.go:362` | AcmeAccounts |
| DroppedPastCap | the rowid window counts consumed nonces; a live nonce is dropped below the cap | `db.go:57-59` | NonceTable |

## 5. Proofs

Every invariant and every action property a passing run checks is also a
theorem. TLAPS checks these for every value of the constants that satisfies the
ASSUMEs of the modules: the configuration's functions have their types, `None` is no
row, numbers are naturals. Nothing bounds the number of processes, purposes,
certificates, orders or nonces; `ReplayNonces` needs its requests, and
`AcmeOrder` the identifiers of an order, to be finitely many, to count them.

Where a theorem has a hypothesis, that is an `ASSUME` of its own and says
under which use of the program the property holds. Each excludes runs that
TLC found, in section 4, and each is met by the run that checks the property:

| Hypothesis | Says | Excludes, of section 4 |
|---|---|---|
| `OneCeremonyStation` | one process runs renew and add | PublishedIsRecorded, ChainIsServed, GenerationNamesUnique (two renewals at once) |
| `DistinctSlugs` | no two sections, nor the root, share a slug prefix | PublishedIsRecorded (a renamed section) |
| `DistinctNames` | no two sections share a CN, no renewal takes that of a section to come | GenerationsAreLocked |
| `RevokesBySerial` | nobody revokes by CN | EntryOnIssuersCrl |
| `OneWriterPerPath` | processes that write one file are kept apart by the lock, or by the order of generation and CRL | Contract, KeyMatchesCertificate (two issuances) |
| `OneNameEach` | every order is for one name | OneCertificatePerOrder, OrderOnlyAdvances |
| `OneTokenHolder` | ceremonies that need a token do not overlap | InitializedIsComplete |

### CaStore_proofs

The invariants build on each other.

- `TInv` = TypeOK and `JobsFit` (what a process carries at each label: a commit
  writes what its job names, so the job must have it): `TypeCorrect`.
- `LInv` = TInv, `JobsPlaced` (a ceremony in flight is for the successor of a
  generation that exists, or for generation 1; the victim of a CA revocation is
  not active), `Contiguous` (generations of a lineage have no gap) and
  OneActiveIssuer: a ceremony that commits finds its number free, so by contiguity
  its predecessor is the newest and the only active one; everyone else's
  commit conflicts. `AlwaysOneActiveIssuer`, `GenerationsAge`.
- `DInv` = TInv, `LeafDates` (nothing is issued in the future) and
  RenewalDiscipline: `RenewalsKeepDiscipline`.
- `KInv` = LInv, `JobsKnown` and `IndexedIsMade` (what is minted and indexed has the
  name of its section or one a renewal gave it), `LockedIsHeld` (a locked section has
  a generation): so the backfill of a listing finds nothing to insert.
  `GenerationsHaveSections`, from DistinctNames.
- `BInv` = LInv, `PemOfGen` (what is published under a slug was minted for
  its generation), `VictimsOwn` and `Barred` (what is revoked, or on the root's CRL,
  is of a generation that is not active): `IssuersAreNotRevoked`, from
  DistinctSlugs alone, whatever ceremonies race.
- `SInv` = KInv, BInv, PublishedIsRecorded, and who holds on to what is published:
  `SignersPublished` and `RefreshesPublished` (between the unlocked read and
  the lock the file is not replaced), `IssuersPublished` (nor is the issuer of any
  leaf, and a certificate that is indexed is the published one of its generation:
  `RowsPublished`), `StationMints` (a ceremony in flight writes under a slug that is not
  recorded, and what it has written is still there) and GenerationNamesUnique.
  `RecordedIsPublished`, `ChainsAreServed`, `CrlsContinue`, from one station. The
  second follows the walk from key to key: two rows of one key would be two
  published certificates of one slug, so there is one row above a leaf, its
  issuer (`OneAbove`), above that the root, and the walk has one answer (`OneWalk`).
- `EInv` = SInv, `JobsRevokeOwn`, `LockIsHeld`, `Written` (from the first file to the
  commit the lock is held and the entry is on the CRL), `EntriesKnown`,
  EntryOnIssuersCrl, RevokedIsListed: `EntriesAreTheIssuers`,
  `RevocationsAreListed`, and for a relying party `RevocationsAreSeen`, with
  RevokesBySerial on top.

### AcmeOrder_proofs

- `PInv` = TInv (`TypeCorrect`, as above), `RowsProved` (a valid authorization and an
  order past pending were proved), `WorkersProved` (a request about to write
  ready, or to sign, is for a proved order) and IssuedIsAuthorized. The invariant
  is needed because the order's status is written from a scan made earlier: what
  the scan saw must be carried by the worker. `IssuanceIsAuthorized` holds
  through crashes, failures and the late write of section 4: ready is only ever written
  for a proved order.
- A request that has read its rows and not yet claimed (`Claiming`) carries nothing but
  names: no invariant says anything of what it read, because the claim asks again.
- `CInv` = PInv and `Claims`: who validates has claimed a challenge of the
  authorization (`ClaimHeld`, `ClaimLasts`) and is alone at it (`Apart`); an
  order moves on through a claim only (`Touched`). `ValidationsAreSingle`.
- `FInv` = CInv, `Collected` (the collector leaves no authorization),
  `Earned` (an order past pending, or about to be, has valid authorizations
  only) and `Undecided` (who is to decide one finds it pending):
  `FailuresAreFinal`.
- `LInv` and `NInv`: a worker about to link has recorded, one about to note has
  revoked. `LinkedCertificatesAreRecorded`, `NotedRevocationsAreTrue`.
- `OInv` = FInv and, for orders of one name, that a challenge handler works on a
  pending order, a finalize on a processing one and alone, and a
  certificate is signed only for an order that left ready for good:
  `OrdersGetOneCertificate`, `OrdersOnlyAdvance`.
- `BInv` = CInv and, for orders of any number of names, an account (`Funded`): the
  certificates signed for an order, the finalizes on their way to one
  (`Issuers`), its being ready (`Readied`) and the names that can still make it
  ready (`Unspent`) are together no more than its names. A name is spent when
  the validation that claimed it has written ready, or has ended; ready is
  spent by a claim (ClaimOrder), a claim by a signature. `Untouched` says that an
  order to come has no certificate. Each kind of step moves one from a part
  to the next: `NameReadies`, `ReadyIssues`, `IssuerSigns`. `OrdersGetWhatNamesPay`, without
  OneNameEach: the late write of ready of section 4 issues again, but no more
  often than there are names.

### The others

- **AcmeAccount_proofs.** `SingleUseAdmitsOne`, `BoundCredentialsAreUsed`,
  `KeysHaveOneAccount`, `DeactivationIsForGood` and `TypeCorrect` from `RInv`: a request
  carries an account that exists (`Carries`), and the row of a used single-use credential
  names the account it admitted or is deleted for good (`UsedIsBound`), since both
  tables are written in one transaction.
- **ReplayNonces_proofs.** `NoNonceTwice` from `VInv` (a nonce in the table has not
  been accepted and is in one row); `RowidsFollowInsertion` from `OInv`, which
  carries that rowids end somewhere, because MAX(rowid) must exist again after
  a row in the middle is consumed, and that no row was inserted later than the last
  insertion. Nothing is assumed of the times of creation, which need not be in
  that order;
  `TableStaysBounded` from `RoomLeft`, which counts the requests between their
  second and third statement. `TypeCorrect`. `TableKeepsLedger`: from VInv and OInv
  an insertion is a draw of NonceLedger, a consumption spends, anything else is
  a lapse.
- **Enrollment_proofs.** `NeverDoubleSpent` and `SpentByItsOwner` from `NInv`: TypeOK;
  a sign in flight carries arguments; a row's nonce was drawn for its identity
  at its time; a pending nonce has signed nothing; and the two properties.
  `SigningKeepsLedger` from the same: the commit finds its nonce pending, for one
  identity and with no certificate yet, so it is a Spend of NonceLedger.
  `SubjectsRenewInWindow` from `WInv`, which adds that no certificate is from
  the future.
- **Artifacts_proofs.** `WriteFileIsAtomic`: from one writer per path
  (`OneWriterPerPath`: two processes with a file in common both hold the lock
  while they write, or one republishes what the other has recorded), `Spec`
  implements AtomicFile under the mapping of `INSTANCE`. The invariant `AInv` says that who is in a file has its `.tmp`
  to itself and that the inode there holds what the writer has written so far;
  a rename then publishes exactly one version, or the part of it that a close has
  left (a step of its own in AtomicFile, `LateError`). Every other step is a stutter or
  the giving up of a call. `RecordedGenerationsArePublished` and
  `CommittedRevocationsArePublished` from `DInv` = AInv, `Delivered` (a command
  has published every file it no longer has to replace), `Numbered` (who
  rewrites a CRL has a later version than anything recorded about it) and `Founded`
  (a CRL is republished only after its generation was recorded).
- **ConfigRules_proofs.** `SlugsOfAcceptedDiffer`: two prefixes neither of which is
  the other plus digits never meet at any two generations, so load's check of
  prefixes is enough for all slugs there will be.
- **Initialization_proofs.** `MadeUnderLockedHolds`, `ProfileHasOneIssuerHolds`,
  `SlugsNeverMeetHolds` and `LockedIsFinalHolds` from `IInv`. An init
  that locks sections and indexes certificates is the only one that does (`Alone`) and
  works from the file whose globals are locked, before the root has a certificate
  (`Writers`); without globals nothing is locked or made (`Unlocked`); every CA
  was made under the locked globals or with a warning (`Under`); and one
  accepted file has the locked globals and every section that was made without a
  warning (`OneFile`). The last is why rules about one file carry over to a store
  that grew from several: an add without a warning saw a file that has every
  locked section in it, as it is locked.
  `InitializedStoresAreComplete` and `CertificatesAreTheRoots` from `RInv`, given
  OneTokenHolder: a label has one keypair on the token at most (`OneIn`) and one
  init at a time uses it (`OneUser`), so the keys of an init stay where it made or
  found them (`KeysMade`); rows come after all sections are locked, the root's
  first (`Looped`); so a CA with a row has one certificate with a key that can be
  found (`RowsMade`), the published root has the key of the recorded one
  (`PemRoot`), and whichever way a ceremony comes by a root key it is that one
  (`Signed`). Nothing is assumed about crashes, edited files or stores moved away;
  the token is the same throughout, as in `Spec` (`AnyTokenSpec`, which swaps it, is
  in section 4).

Only model-checked: liveness (ProcessingEnds, InitCompletes: fairness and ENABLED
are outside the prover). No module declares a RECURSIVE operator, and nothing
proved needs induction over data. Deadlock is not checked (section 3).

## 6. Not modelled

- Renewal information (`ari.go`): reads and two one-row statements that nothing
  else depends on.
- The content of certificates: profiles, extensions, distribution points, a CRL's
  nextUpdate. It has no state and no order.
- `list` and `get ca`, which format rows; logging, utilities, the SQLite wrapper;
  the seed tool, one transaction of one process.
- The sessions, PINs and mechanisms of a token, below finding, adopting and
  generating a keypair.
- Parsing: of arguments, of TOML values and of PEM. A value of the wrong type is
  one field of a file in ConfigRules.
- The ACME server's shell (flags, listeners, directory), packaging and units, and
  the vendored libraries.

## 7. Plan

1. `RenewWindow`: the arithmetic of the renewal window and of renewal information
   against a reference, at its boundaries.
2. `CrlLedger`: what a CRL promises a relying party, as an abstract
   specification that `CaStore` implements for one ceremony station. What it would
   promise is proved piece by piece today (CrlContinuity, EntryOnIssuersCrl,
   RevocationIsSeen).
3. ACME finalize composed with the CA's lock and timeouts, in place of
   `AcmeOrder`'s atomic sign.
