------------------------------ MODULE AcmeOrder ------------------------------
(***************************************************************************)
(* The ACME frontend's orders (src/acme): from newOrder over the           *)
(* challenges to finalize and revokeCert.                                  *)
(*                                                                         *)
(* Every HTTP request runs in a goroutine of its own, here a worker.  Its  *)
(* database statements are atomic one by one (a single connection, no      *)
(* transaction around a handler), so other workers run between any two of  *)
(* them, and a handler that dies leaves what it wrote.  The CA is a        *)
(* separate program the frontend execs under one mutex (ycaRunner); its    *)
(* store is also used by an operator at the command line.                  *)
(***************************************************************************)
EXTENDS Integers, FiniteSets

CONSTANTS
    Workers,        \* concurrent requests
    Orders,         \* bound: orders ever created, by id
    Names,          \* dns identifiers
    Identifiers,    \* [Orders -> SUBSET Names]: what each order asks for
    Types,          \* challenge types
    TypesOf,        \* [Names -> SUBSET Types]: dns-01 alone for a wildcard
    Serials,        \* bound: certificates the CA ever signs
    OrderTTL,       \* orderTTL
    GcGrace,        \* gcGrace
    Life,           \* validity of a certificate
    RenewAfter,     \* its age when the CA's renewal window opens
    MaxTime,        \* bound: the clock
    Faults,         \* what may fail, of FaultNames
    Operator,       \* what the operator does at the CA, of OperatorNames
    None, Gone

FaultNames == {"crash", "db", "yca"}
OperatorNames == {"issue", "revoke"}

ASSUME OrderAssumption ==
    /\ Identifiers \in [Orders -> (SUBSET Names) \ {{}}]
    /\ TypesOf \in [Names -> (SUBSET Types) \ {{}}]
    /\ Faults \subseteq FaultNames
    /\ Operator \subseteq OperatorNames
    /\ None \notin Workers \cup Orders \cup Names \cup Types \cup Serials
ASSUME FiniteAssumption == \A o \in Orders : IsFiniteSet(Identifiers[o])
ASSUME TimeAssumption ==
    /\ OrderTTL \in Nat
    /\ GcGrace \in Nat
    /\ Life \in Nat
    /\ RenewAfter \in Nat
    /\ MaxTime \in Nat

VARIABLES
    clock,      \* time.Now()
    order,      \* orders: None before newOrder, Gone once collected
    authz,      \* authzs, by order and identifier; they expire with the order
    chall,      \* challenges, by order, identifier and type
    recorded,   \* certs: the order and the serial of each row
    noted,      \* certs.revoked: the serials MarkCertRevoked recorded
    signed,     \* the CA's certificates, whoever had them signed
    mutex,      \* ycaRunner.mu
    pc, job,    \* each worker: where its handler is, and what it is about
    proved      \* history: the identifiers whose control was validated

tables == <<order, authz, chall, recorded, noted>>
ca == <<signed, mutex>>
workers == <<pc, job>>
vars == <<clock, tables, ca, workers, proved>>

-----------------------------------------------------------------------------
(* Types *)

Authzs == {a \in Orders \X Names : a[2] \in Identifiers[a[1]]}
Challenges == {k \in Orders \X Names \X Types :
                  k[2] \in Identifiers[k[1]] /\ k[3] \in TypesOf[k[2]]}

OrderRow == [status : {"pending", "ready", "processing", "valid", "invalid"},
             expires : Nat, cert : Serials \cup {None}]
Certificate == [order : Orders \cup {None}, cn : Names, at : Nat,
                revoked : {"no", "frontend", "operator"}]

ASSUME RowAssumption ==
    /\ {None, Gone} \cap OrderRow = {} /\ None # Gone /\ None \notin Certificate
    /\ {None, Gone} \cap {"pending", "ready", "processing", "valid", "invalid"} = {}

Job == [order : Orders \cup {None}, name : Names \cup {None},
        type : Types \cup {None}, serial : Serials \cup {None}]
NoJob == [order |-> None, name |-> None, type |-> None, serial |-> None]

Labels == {"idle", "claim_challenge", "validate", "authz_valid", "authz_invalid",
           "scan", "order_ready", "order_invalid", "claim_order", "issue", "sign",
           "chain", "failed", "record", "order_valid", "revoke", "revoke_exec",
           "note"}

TypeOK ==
    /\ clock \in Nat
    /\ order \in [Orders -> OrderRow \cup {None, Gone}]
    /\ authz \in [Authzs -> {"absent", "pending", "valid", "invalid"}]
    /\ chall \in [Challenges -> {"absent", "pending", "processing", "valid",
                                 "invalid"}]
    /\ recorded \subseteq Orders \X Serials
    /\ noted \subseteq Serials
    /\ signed \in [Serials -> Certificate \cup {None}]
    /\ mutex \in Workers \cup {None}
    /\ pc \in [Workers -> Labels]
    /\ job \in [Workers -> Job]
    /\ proved \subseteq Authzs

-----------------------------------------------------------------------------
(* The tables *)

Live(o) == order[o] \notin {None, Gone}
Status(o) == IF Live(o) THEN order[o].status ELSE order[o]

\* SetOrderStatus: whatever the row's status is; no row, no change.
WithStatus(o, status, cert) ==
    IF Live(o)
    THEN [order EXCEPT ![o].status = status, ![o].cert = cert]
    ELSE order

\* SetAuthzStatus and SetChallengeStatus, likewise.
WithAuthz(a, status) ==
    IF authz[a] = "absent" THEN authz ELSE [authz EXCEPT ![a] = status]
WithChallenge(k, status) ==
    IF chall[k] = "absent" THEN chall ELSE [chall EXCEPT ![k] = status]

\* The handlers ignore the error of a status write.
Attempted(after, before) ==
    IF "db" \in Faults THEN {after, before} ELSE {after}

AuthzOf(w) == <<job[w].order, job[w].name>>
ChallengeOf(w) == <<job[w].order, job[w].name, job[w].type>>

\* ClaimChallenge's condition: pending, with its authorization, and no
\* challenge of the authorization attempted yet.
Mutant_AnyPending(k) ==
    chall[k] = "pending" /\ authz[<<k[1], k[2]>>] = "pending"
ClaimableChallenge(k) ==
    /\ authz[<<k[1], k[2]>>] = "pending"
    /\ \A t \in TypesOf[k[2]] : chall[<<k[1], k[2], t>>] = "pending"

\* ClaimOrder's condition on the row as it is now; the time it compares with
\* is the caller's.
Mutant_ClaimAgain(o) == Live(o) /\ order[o].status \in {"ready", "processing"}
ClaimableOrder(o) == Live(o) /\ order[o].status = "ready"

\* AuthzsByOrder: every authorization the table still has is valid.
Mutant_NonePending(o) ==
    \A n \in Identifiers[o] : authz[<<o, n>>] # "pending"
AllValid(o) ==
    \A n \in Identifiers[o] : authz[<<o, n>>] \in {"valid", "absent"}

-----------------------------------------------------------------------------
(* The CA *)

Valid(s) == /\ signed[s] # None
            /\ signed[s].revoked = "no"
            /\ clock < signed[s].at + Life

\* blocking_duplicate
Blocked(cn) == \E s \in Serials : /\ Valid(s)
                                  /\ signed[s].cn = cn
                                  /\ clock < signed[s].at + RenewAfter

\* active_fp, behind get server --cn: the newest valid certificate of a CN.
Newest(cn) == {s \in Serials :
                 /\ Valid(s)
                 /\ signed[s].cn = cn
                 /\ \A r \in Serials : Valid(r) /\ signed[r].cn = cn
                                          => signed[r].at <= signed[s].at}

Signed(o, cn) ==
    {[signed EXCEPT ![s] = [order |-> o, cn |-> cn, at |-> clock,
                            revoked |-> "no"]] :
        s \in {r \in Serials : signed[r] = None}}

-----------------------------------------------------------------------------
(* Workers *)

Goto(w, label) == pc' = [pc EXCEPT ![w] = label] /\ UNCHANGED job
Begin(w, label, j) ==
    /\ pc[w] = "idle"
    /\ pc' = [pc EXCEPT ![w] = label]
    /\ job' = [job EXCEPT ![w] = j]
Done(w) == pc' = [pc EXCEPT ![w] = "idle"] /\ job' = [job EXCEPT ![w] = NoJob]

Unlock(w) == mutex' = None
YcaFails == "yca" \in Faults

-----------------------------------------------------------------------------
(* newOrder *)

\* Nobody knows the ids of the rows before the last one is written, so the
\* handler's inserts are one step.
NewOrder(o) ==
    /\ order[o] = None
    /\ order' = [order EXCEPT ![o] = [status |-> "pending", cert |-> None,
                                      expires |-> clock + OrderTTL]]
    /\ authz' = [a \in Authzs |-> IF a[1] = o THEN "pending" ELSE authz[a]]
    /\ chall' = [k \in Challenges |-> IF k[1] = o THEN "pending" ELSE chall[k]]
    /\ UNCHANGED <<clock, recorded, noted, ca, workers, proved>>

-----------------------------------------------------------------------------
(* challenge *)

\* The rows and the clock, before the claim.
ChallengeStart(w) ==
    /\ \E k \in Challenges :
          /\ chall[k] = "pending" /\ authz[<<k[1], k[2]>>] = "pending"
          /\ Live(k[1]) /\ clock <= order[k[1]].expires
          /\ Begin(w, "claim_challenge", [NoJob EXCEPT !.order = k[1],
                                                       !.name = k[2], !.type = k[3]])
    /\ UNCHANGED <<clock, tables, ca, proved>>

\* "Claimed atomically: a concurrent POST, or a sibling challenge in flight,
\* gets the current state."
ChallengeClaim(w) ==
    /\ pc[w] = "claim_challenge"
    /\ ClaimableChallenge(ChallengeOf(w))
    /\ chall' = [chall EXCEPT ![ChallengeOf(w)] = "processing"]
    /\ Goto(w, "validate")
    /\ UNCHANGED <<clock, order, authz, recorded, noted, ca, proved>>

ChallengeTaken(w) ==
    /\ pc[w] = "claim_challenge"
    /\ ~ClaimableChallenge(ChallengeOf(w)) \/ "db" \in Faults
    /\ Done(w)
    /\ UNCHANGED <<clock, tables, ca, proved>>

\* The answer from the network, and the first write that follows.
ValidateOk(w) ==
    /\ pc[w] = "validate"
    /\ proved' = proved \cup {AuthzOf(w)}
    /\ chall' \in Attempted(WithChallenge(ChallengeOf(w), "valid"), chall)
    /\ Goto(w, "authz_valid")
    /\ UNCHANGED <<clock, order, authz, recorded, noted, ca>>

ValidateBad(w) ==
    /\ pc[w] = "validate"
    /\ chall' \in Attempted(WithChallenge(ChallengeOf(w), "invalid"), chall)
    /\ Goto(w, "authz_invalid")
    /\ UNCHANGED <<clock, order, authz, recorded, noted, ca, proved>>

AuthzInvalid(w) ==
    /\ pc[w] = "authz_invalid"
    /\ authz' \in Attempted(WithAuthz(AuthzOf(w), "invalid"), authz)
    /\ Goto(w, "order_invalid")
    /\ UNCHANGED <<clock, order, chall, recorded, noted, ca, proved>>

OrderInvalid(w) ==
    /\ pc[w] = "order_invalid"
    /\ order' \in Attempted(WithStatus(job[w].order, "invalid", None), order)
    /\ Done(w)
    /\ UNCHANGED <<clock, authz, chall, recorded, noted, ca, proved>>

AuthzValid(w) ==
    /\ pc[w] = "authz_valid"
    /\ authz' \in Attempted(WithAuthz(AuthzOf(w), "valid"), authz)
    /\ Goto(w, "scan")
    /\ UNCHANGED <<clock, order, chall, recorded, noted, ca, proved>>

\* The order becomes ready once every authorization is valid: the scan and
\* the write are two statements.
Scan(w) ==
    /\ pc[w] = "scan"
    /\ IF AllValid(job[w].order) THEN Goto(w, "order_ready") ELSE Done(w)
    /\ UNCHANGED <<clock, tables, ca, proved>>

OrderReady(w) ==
    /\ pc[w] = "order_ready"
    /\ order' \in Attempted(WithStatus(job[w].order, "ready", None), order)
    /\ Done(w)
    /\ UNCHANGED <<clock, authz, chall, recorded, noted, ca, proved>>

-----------------------------------------------------------------------------
(* finalize *)

\* The CSR names exactly the order's identifiers, one of them as its CN.  The
\* clock is read before the claim, which compares with what it read.
FinalizeStart(w) ==
    /\ \E o \in Orders, cn \in Names :
          /\ cn \in Identifiers[o]
          /\ Live(o) /\ order[o].status = "ready" /\ order[o].expires > clock
          /\ Begin(w, "claim_order", [NoJob EXCEPT !.order = o, !.name = cn])
    /\ UNCHANGED <<clock, tables, ca, proved>>

\* "Of concurrent finalizes exactly one issues."
FinalizeClaim(w) ==
    /\ pc[w] = "claim_order"
    /\ ClaimableOrder(job[w].order)
    /\ order' = [order EXCEPT ![job[w].order].status = "processing"]
    /\ Goto(w, "issue")
    /\ UNCHANGED <<clock, authz, chall, recorded, noted, ca, proved>>

FinalizeTaken(w) ==
    /\ pc[w] = "claim_order"
    /\ ~ClaimableOrder(job[w].order) \/ "db" \in Faults
    /\ Done(w)
    /\ UNCHANGED <<clock, tables, ca, proved>>

IssueLock(w) ==
    /\ pc[w] = "issue"
    /\ mutex = None
    /\ mutex' = w
    /\ Goto(w, "sign")
    /\ UNCHANGED <<clock, tables, signed, proved>>

\* yca get nonce and yca sign: the second can be killed by its timeout after
\* the CA committed.
Sign(w) ==
    /\ pc[w] = "sign"
    /\ ~Blocked(job[w].name)
    /\ signed' \in Signed(job[w].order, job[w].name)
    /\ \/ Goto(w, "chain") /\ UNCHANGED mutex
       \/ YcaFails /\ Goto(w, "failed") /\ Unlock(w)
    /\ UNCHANGED <<clock, tables, proved>>

SignFails(w) ==
    /\ pc[w] = "sign"
    /\ Blocked(job[w].name) \/ YcaFails
    /\ Goto(w, "failed")
    /\ Unlock(w)
    /\ UNCHANGED <<clock, tables, signed, proved>>

\* yca get server --cn: by CN, the newest one now.
Chain(w) ==
    /\ pc[w] = "chain"
    /\ \E s \in Newest(job[w].name) :
          /\ pc' = [pc EXCEPT ![w] = "record"]
          /\ job' = [job EXCEPT ![w].serial = s]
    /\ Unlock(w)
    /\ UNCHANGED <<clock, tables, signed, proved>>

ChainFails(w) ==
    /\ pc[w] = "chain"
    /\ Newest(job[w].name) = {} \/ YcaFails
    /\ Goto(w, "failed")
    /\ Unlock(w)
    /\ UNCHANGED <<clock, tables, signed, proved>>

Mutant_LeftProcessing(w) ==
    /\ pc[w] = "failed"
    /\ Done(w)
    /\ UNCHANGED <<clock, tables, ca, proved>>
OrderFails(w) ==
    /\ pc[w] = "failed"
    /\ order' \in Attempted(WithStatus(job[w].order, "invalid", None), order)
    /\ Done(w)
    /\ UNCHANGED <<clock, authz, chall, recorded, noted, ca, proved>>

Mutant_RecordIgnored(w) ==
    /\ pc[w] = "record"
    /\ recorded' \in Attempted(recorded \cup {<<job[w].order, job[w].serial>>},
                               recorded)
    /\ Goto(w, "order_valid")
    /\ UNCHANGED <<clock, order, authz, chall, noted, ca, proved>>
\* InsertCert; its failure is answered, the order keeps its status.
Record(w) ==
    /\ pc[w] = "record"
    /\ \/ /\ recorded' = recorded \cup {<<job[w].order, job[w].serial>>}
          /\ Goto(w, "order_valid")
       \/ "db" \in Faults /\ Done(w) /\ UNCHANGED recorded
    /\ UNCHANGED <<clock, order, authz, chall, noted, ca, proved>>

OrderValid(w) ==
    /\ pc[w] = "order_valid"
    /\ order' \in Attempted(WithStatus(job[w].order, "valid", job[w].serial),
                            order)
    /\ Done(w)
    /\ UNCHANGED <<clock, authz, chall, recorded, noted, ca, proved>>

-----------------------------------------------------------------------------
(* revokeCert *)

\* A certificate of this frontend, without a local note of its revocation.
RevokeStart(w) ==
    /\ \E c \in recorded :
          /\ c[2] \notin noted
          /\ Begin(w, "revoke", [NoJob EXCEPT !.serial = c[2]])
    /\ UNCHANGED <<clock, tables, ca, proved>>

RevokeLock(w) ==
    /\ pc[w] = "revoke"
    /\ mutex = None
    /\ mutex' = w
    /\ Goto(w, "revoke_exec")
    /\ UNCHANGED <<clock, tables, signed, proved>>

\* yca revoke --serial, which may be killed after it committed.
RevokeExec(w) ==
    /\ pc[w] = "revoke_exec"
    /\ Valid(job[w].serial)
    /\ signed' = [signed EXCEPT ![job[w].serial].revoked = "frontend"]
    /\ Goto(w, "note") \/ (YcaFails /\ Done(w))
    /\ Unlock(w)
    /\ UNCHANGED <<clock, tables, proved>>

\* "no active" certificate, or any other error: nothing is recorded.
Mutant_NotedAnyway(w) ==
    /\ pc[w] = "revoke_exec"
    /\ ~Valid(job[w].serial) \/ YcaFails
    /\ Goto(w, "note")
    /\ Unlock(w)
    /\ UNCHANGED <<clock, tables, signed, proved>>
RevokeFails(w) ==
    /\ pc[w] = "revoke_exec"
    /\ ~Valid(job[w].serial) \/ YcaFails
    /\ Done(w)
    /\ Unlock(w)
    /\ UNCHANGED <<clock, tables, signed, proved>>

Note(w) ==
    /\ pc[w] = "note"
    /\ noted' \in Attempted(noted \cup {job[w].serial}, noted)
    /\ Done(w)
    /\ UNCHANGED <<clock, order, authz, chall, recorded, ca, proved>>

-----------------------------------------------------------------------------
(* The operator, the collector, a restart *)

OperatorIssue ==
    /\ "issue" \in Operator
    /\ \E cn \in Names : ~Blocked(cn) /\ signed' \in Signed(None, cn)
    /\ UNCHANGED <<clock, tables, mutex, workers, proved>>

OperatorRevoke ==
    /\ "revoke" \in Operator
    /\ \E s \in Serials :
          /\ Valid(s)
          /\ signed' = [signed EXCEPT ![s].revoked = "operator"]
    /\ UNCHANGED <<clock, tables, mutex, workers, proved>>

\* GC, with its three statements as one: what a handler reads or writes
\* between them belongs to an order that is already gone.
Collectable(o) == Live(o) /\ order[o].expires + GcGrace < clock
GC ==
    /\ \E o \in Orders : Collectable(o)
    /\ order' = [o \in Orders |-> IF Collectable(o) THEN Gone ELSE order[o]]
    /\ authz' = [a \in Authzs |->
                   IF Collectable(a[1]) THEN "absent" ELSE authz[a]]
    /\ chall' = [k \in Challenges |->
                   IF Collectable(k[1]) THEN "absent" ELSE chall[k]]
    /\ UNCHANGED <<clock, recorded, noted, ca, workers, proved>>

\* The daemon stops and systemd restarts it: every handler is gone.
Crash ==
    /\ "crash" \in Faults
    /\ \E w \in Workers : pc[w] # "idle"
    /\ pc' = [w \in Workers |-> "idle"]
    /\ job' = [w \in Workers |-> NoJob]
    /\ mutex' = None
    /\ UNCHANGED <<clock, tables, signed, proved>>

Tick ==
    /\ clock < MaxTime
    /\ clock' = clock + 1
    /\ UNCHANGED <<tables, ca, workers, proved>>

-----------------------------------------------------------------------------
Init ==
    /\ clock = 0
    /\ order = [o \in Orders |-> None]
    /\ authz = [a \in Authzs |-> "absent"]
    /\ chall = [k \in Challenges |-> "absent"]
    /\ recorded = {}
    /\ noted = {}
    /\ signed = [s \in Serials |-> None]
    /\ mutex = None
    /\ pc = [w \in Workers |-> "idle"]
    /\ job = [w \in Workers |-> NoJob]
    /\ proved = {}

Lock(w) == IssueLock(w) \/ RevokeLock(w)

\* What a handler does once it has started.
Step(w) ==
    \/ ChallengeClaim(w) \/ ChallengeTaken(w)
    \/ FinalizeClaim(w) \/ FinalizeTaken(w)
    \/ ValidateOk(w) \/ ValidateBad(w) \/ AuthzInvalid(w) \/ OrderInvalid(w)
    \/ AuthzValid(w) \/ Scan(w) \/ OrderReady(w)
    \/ Sign(w) \/ SignFails(w) \/ Chain(w) \/ ChainFails(w)
    \/ OrderFails(w) \/ Record(w) \/ OrderValid(w)
    \/ RevokeExec(w) \/ RevokeFails(w) \/ Note(w)

Start(w) == ChallengeStart(w) \/ FinalizeStart(w) \/ RevokeStart(w)

Next ==
    \/ Tick \/ GC \/ Crash \/ OperatorIssue \/ OperatorRevoke
    \/ \E o \in Orders : NewOrder(o)
    \/ \E w \in Workers : Start(w) \/ Lock(w) \/ Step(w)

Spec == Init /\ [][Next]_vars

\* The Go scheduler runs every goroutine, each exec has a timeout of 60 s and
\* each validation one of 10 s; sync.Mutex starves nobody.  Nothing makes
\* clients, the operator, the clock or the collector act.
LiveSpec ==
    /\ Spec
    /\ \A w \in Workers : WF_vars(Step(w)) /\ SF_vars(Lock(w))

-----------------------------------------------------------------------------
(* What holds *)

\* A certificate is signed for an order only once control of every
\* identifier of that order was validated, whichever requests crashed, failed
\* or ran together (handleChallenge, handleFinalize).
IssuedIsAuthorized ==
    \A s \in Serials : signed[s] # None /\ signed[s].order # None =>
        \A n \in Identifiers[signed[s].order] :
            <<signed[s].order, n>> \in proved

\* "One validation per authorization" (ClaimChallenge): two challenges of an
\* authorization are never both attempted.
OneValidation ==
    \A a \in Authzs : \A t, u \in TypesOf[a[2]] :
        /\ chall[<<a[1], a[2], t>>] \notin {"absent", "pending"}
        /\ chall[<<a[1], a[2], u>>] \notin {"absent", "pending"}
        => t = u

\* "A failed challenge invalidates its authorization" and with it the order:
\* an order with an invalid authorization is never ready again, though the
\* order's status is written last, by a handler others overtake.
FailureIsFinal ==
    \A a \in Authzs : authz[a] = "invalid" =>
        Status(a[1]) \in {"pending", "invalid"}

\* An order that links a certificate links one the certificate URL serves
\* (InsertCert comes before the status; orderJSON).
LinkedIsRecorded ==
    \A o \in Orders : Status(o) = "valid" => <<o, order[o].cert>> \in recorded

\* The local note of a revocation "is only ever trusted in the affirmative"
\* (MarkCertRevoked): a noted certificate is revoked at the CA.
NotedIsRevoked ==
    \A s \in noted : signed[s] # None /\ signed[s].revoked # "no"

\* "Of concurrent finalizes exactly one issues" (handleFinalize, ClaimOrder):
\* of an order for one name.
OneCertificatePerOrder ==
    \A s, r \in Serials :
        /\ signed[s] # None /\ signed[r] # None
        /\ signed[s].order = signed[r].order /\ signed[s].order # None
        => s = r

\* An order gets no more certificates than it asked for names, although a late
\* write of ready may take it back after a claim: each such write follows a
\* validation of its own, and there is one per name (handleChallenge,
\* ClaimOrder).
SignedFor(o) == {s \in Serials : signed[s] # None /\ signed[s].order = o}
CertificatesWithinNames ==
    \A o \in Orders : Cardinality(SignedFor(o)) <= Cardinality(Identifiers[o])

Rank(status) == CASE status = None -> 0
                  [] status = "pending" -> 1
                  [] status = "ready" -> 2
                  [] status = "processing" -> 3
                  [] status \in {"valid", "invalid"} -> 4
                  [] status = Gone -> 5

\* "pending -> ready -> processing -> valid | invalid" (Order.Status), whatever
\* claims, faults and the collector do.  It is kept by orders for one name: of
\* two names, the slower validation takes the order back to ready.
OrderOnlyAdvances ==
    [][\A o \in Orders : Status(o) # Status(o)' =>
                            Rank(Status(o)) < Rank(Status(o)')]_order

\* A claimed order does not stay in processing: as long as the frontend's own
\* statements succeed, each way out of the pipeline writes its end, and the
\* mutex is always released (handleFinalize).
ProcessingEnds ==
    \A o \in Orders : (Status(o) = "processing") ~> (Status(o) # "processing")

-----------------------------------------------------------------------------
(* What the repository states and the code does not keep *)

\* "An order past its expiry issues nothing" (handleFinalize).
NothingIssuedLate ==
    [][\A s \in Serials, o \in Orders :
          signed[s] = None /\ signed'[s] # None /\ signed'[s].order = o =>
             Live(o) /\ clock < order[o].expires]_signed

\* A recorded certificate is "one this frontend issued" (handleRevokeCert),
\* for the order it is recorded with.
RecordedIsOwn == \A c \in recorded : signed[c[2]].order = c[1]

\* "The frontend records the revocations it performs"
\* (docs/acme-operation.md), once its handler has answered.
PerformedIsNoted ==
    \A s \in Serials : signed[s] # None /\ signed[s].revoked = "frontend" =>
        s \in noted \/ \E w \in Workers : pc[w] = "note" /\ job[w].serial = s
=============================================================================
