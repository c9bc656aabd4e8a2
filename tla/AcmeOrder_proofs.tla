--------------------------- MODULE AcmeOrder_proofs ---------------------------
(***************************************************************************)
(* Proofs about AcmeOrder, for any number of requests, orders and          *)
(* identifiers: nothing is issued for an order without a validation of     *)
(* every identifier (PInv), each is validated once (CInv) and fails for    *)
(* good (FInv), a linked certificate and a noted revocation are true of    *)
(* the CA (LInv, NInv), an order with one identifier is passed once on its *)
(* way to one certificate (OInv), and one with several gets no more        *)
(* certificates than it has identifiers (BInv).                            *)
(***************************************************************************)
EXTENDS AcmeOrder, FiniteSetTheorems, TLAPS

\* The labels of the three handlers.
Challenging == {"validate", "authz_valid", "authz_invalid", "scan",
                "order_ready", "order_invalid"}
Finalizing == {"issue", "sign", "chain", "failed", "record", "order_valid"}
Revoking == {"revoke", "revoke_exec", "note"}
Claiming == {"claim_challenge", "claim_order"}

Fits(label, j) ==
    /\ label \in Claiming => j.order \in Orders /\ j.name \in Names
    /\ label = "claim_challenge" => <<j.order, j.name, j.type>> \in Challenges
    /\ label \in Challenging => <<j.order, j.name>> \in Authzs
    /\ label = "validate" => <<j.order, j.name, j.type>> \in Challenges
    /\ label \in Finalizing => j.order \in Orders /\ j.name \in Names
    /\ label \in Revoking \cup {"record", "order_valid"} =>
          j.serial \in Serials

JobsFit == \A w \in Workers : Fits(pc[w], job[w])

TInv == TypeOK /\ JobsFit

\* Control of every identifier of an order was validated.
AllProved(o) == \A n \in Identifiers[o] : <<o, n>> \in proved

\* The table says that the order's authorizations are valid.
Advanced(o) == Live(o) /\ order[o].status \in {"ready", "processing", "valid"}

\* What the tables say of an order is backed by validations.
RowsProved ==
    /\ \A a \in Authzs : authz[a] = "valid" => a \in proved
    /\ \A a \in Authzs : authz[a] = "absent" => ~Live(a[1])
    /\ \A o \in Orders : Advanced(o) => AllProved(o)

\* So is what a handler is about to write.  The scan of a collected order
\* finds nothing to object to, but its write finds no row.
WorkerProved(label, j) ==
    /\ label = "authz_valid" => <<j.order, j.name>> \in proved
    /\ label \in Claiming \cup Challenging \cup Finalizing => order[j.order] # None
    /\ label = "order_ready" => (Live(j.order) => AllProved(j.order))
    /\ label \in Finalizing => AllProved(j.order)

WorkersProved == \A w \in Workers : WorkerProved(pc[w], job[w])

PInv == TInv /\ RowsProved /\ WorkersProved /\ IssuedIsAuthorized

-----------------------------------------------------------------------------
(* Jobs *)

\* A handler that moves on changes its own label and job, nobody else's.
LEMMA MoveStep ==
    ASSUME NEW w \in Workers, NEW label \in Labels, NEW j \in Job,
           TypeOK, JobsFit, Fits(label, j),
           pc' = [pc EXCEPT ![w] = label], job' = [job EXCEPT ![w] = j]
    PROVE  /\ pc' \in [Workers -> Labels] /\ job' \in [Workers -> Job]
           /\ JobsFit'
<1>1. pc' \in [Workers -> Labels] /\ job' \in [Workers -> Job]
  BY DEF TypeOK
<1>2. ASSUME NEW v \in Workers PROVE Fits(pc'[v], job'[v])
  <2>1. CASE v = w
    BY <2>1 DEF TypeOK
  <2>2. CASE v # w
    <3>1. pc'[v] = pc[v] /\ job'[v] = job[v]
      BY <2>2 DEF TypeOK
    <3>. QED
      BY <3>1 DEF JobsFit
  <2>. QED
    BY <2>1, <2>2
<1>3. JobsFit'
  BY <1>2 DEF JobsFit, Fits
<1>. QED
  BY <1>1, <1>3

\* A handler that ends has nothing left to fit.
LEMMA DoneStep ==
    ASSUME NEW w \in Workers, TypeOK, JobsFit, Done(w)
    PROVE  /\ pc' \in [Workers -> Labels] /\ job' \in [Workers -> Job]
           /\ JobsFit'
<1>1. NoJob \in Job /\ "idle" \in Labels /\ Fits("idle", NoJob)
  BY DEF NoJob, Job, Labels, Fits, Claiming, Challenging, Finalizing, Revoking
<1>. QED
  BY <1>1, MoveStep DEF Done

\* A handler that goes on with the job it has, to a label the job fits.
LEMMA GotoStep ==
    ASSUME NEW w \in Workers, NEW label \in Labels, TypeOK, JobsFit,
           Fits(label, job[w]), Goto(w, label)
    PROVE  /\ pc' \in [Workers -> Labels] /\ job' \in [Workers -> Job]
           /\ JobsFit'
<1>1. job' = [job EXCEPT ![w] = job[w]] /\ job[w] \in Job
  BY DEF Goto, TypeOK
<1>. QED
  BY <1>1, MoveStep DEF Goto

\* A request that begins with a fitting job.
LEMMA BeginStep ==
    ASSUME NEW w \in Workers, NEW label \in Labels, NEW j \in Job,
           TypeOK, JobsFit, Fits(label, j), Begin(w, label, j)
    PROVE  /\ pc' \in [Workers -> Labels] /\ job' \in [Workers -> Job]
           /\ JobsFit'
BY MoveStep DEF Begin

-----------------------------------------------------------------------------
(* What a handler reads before it claims *)

\* Steps that only read the tables: up to a claim, or from one that is lost.
ReadsFirst(w) == \/ ChallengeStart(w) \/ ChallengeTaken(w)
                 \/ FinalizeStart(w) \/ FinalizeTaken(w)

LEMMA ReadsNothingElse ==
    ASSUME NEW w \in Workers, ReadsFirst(w)
    PROVE  /\ UNCHANGED <<clock, order, authz, chall, recorded, noted, signed, mutex,
                          proved>>
           /\ pc[w] \in {"idle"} \cup Claiming
BY DEF ReadsFirst, ChallengeStart, ChallengeTaken, FinalizeStart, FinalizeTaken, Begin,
   Claiming, tables, ca

\* The handler then carries what it read, or nothing.
LEMMA ReadsFit ==
    ASSUME TypeOK, NEW w \in Workers, ReadsFirst(w)
    PROVE  \E label \in {"idle"} \cup Claiming, j \in Job :
              /\ pc' = [pc EXCEPT ![w] = label]
              /\ job' = [job EXCEPT ![w] = j]
              /\ Fits(label, j)
              /\ label \in Claiming => order[j.order] # None
<1>1. CASE ChallengeStart(w)
  <2>1. PICK k \in Challenges :
          /\ Live(k[1])
          /\ Begin(w, "claim_challenge", [NoJob EXCEPT !.order = k[1], !.name = k[2],
                                                       !.type = k[3]])
    BY <1>1 DEF ChallengeStart
  <2>. DEFINE j == [NoJob EXCEPT !.order = k[1], !.name = k[2], !.type = k[3]]
  <2>2. j \in Job /\ j.order = k[1] /\ j.name = k[2] /\ j.type = k[3]
    BY DEF NoJob, Job, Challenges
  <2>3. k = <<k[1], k[2], k[3]>> /\ k[1] \in Orders /\ k[2] \in Names
    BY DEF Challenges
  <2>4. Fits("claim_challenge", j)
    BY <2>2, <2>3 DEF Fits, Claiming, Challenging, Finalizing, Revoking
  <2>. QED
    BY <2>1, <2>2, <2>4 DEF Begin, Claiming, Live
<1>2. CASE FinalizeStart(w)
  <2>1. PICK o \in Orders, cn \in Names :
          /\ Live(o)
          /\ Begin(w, "claim_order", [NoJob EXCEPT !.order = o, !.name = cn])
    BY <1>2 DEF FinalizeStart
  <2>. DEFINE j == [NoJob EXCEPT !.order = o, !.name = cn]
  <2>2. j \in Job /\ j.order = o /\ j.name = cn
    BY DEF NoJob, Job
  <2>3. Fits("claim_order", j)
    BY <2>2 DEF Fits, Claiming, Challenging, Finalizing, Revoking
  <2>. QED
    BY <2>1, <2>2, <2>3 DEF Begin, Claiming, Live
<1>3. CASE ChallengeTaken(w) \/ FinalizeTaken(w)
  <2>1. NoJob \in Job /\ Fits("idle", NoJob)
    BY DEF NoJob, Job, Fits, Claiming, Challenging, Finalizing, Revoking
  <2>. QED
    BY <1>3, <2>1 DEF ChallengeTaken, FinalizeTaken, Done, Claiming
<1>. QED
  BY <1>1, <1>2, <1>3 DEF ReadsFirst

\* What was read of a challenge says which one is claimed.
LEMMA ChallengeFits ==
    ASSUME NEW w \in Workers, Fits(pc[w], job[w]), pc[w] = "claim_challenge"
    PROVE  /\ ChallengeOf(w) \in Challenges /\ AuthzOf(w) \in Authzs
           /\ job[w].order \in Orders
           /\ Fits("validate", job[w])
<1>1. /\ ChallengeOf(w) \in Challenges
      /\ ChallengeOf(w) = <<job[w].order, job[w].name, job[w].type>>
  BY DEF Fits, ChallengeOf
<1>2. AuthzOf(w) \in Authzs /\ AuthzOf(w) = <<job[w].order, job[w].name>>
  BY <1>1 DEF Challenges, Authzs, AuthzOf
<1>. QED
  BY <1>1, <1>2 DEF Fits, Claiming, Challenging, Finalizing, Revoking, Authzs

-----------------------------------------------------------------------------
(* Types *)

\* The empty database, and nobody at work.
THEOREM TypeInit == Init => TInv
BY DEF Init, TInv, TypeOK, JobsFit, Fits, Labels, NoJob, Job, Claiming, Challenging,
       Finalizing, Revoking

\* Status writes keep the tables' types (SetOrderStatus, SetAuthzStatus,
\* SetChallengeStatus).
LEMMA WriteTypes ==
    ASSUME TypeOK
    PROVE  /\ \A o \in Orders, cert \in Serials \cup {None},
                 st \in {"ready", "valid", "invalid"} :
                 WithStatus(o, st, cert) \in [Orders -> OrderRow \cup {None, Gone}]
           /\ \A a \in Authzs, st \in {"valid", "invalid"} :
                 WithAuthz(a, st) \in [Authzs -> {"absent", "pending", "valid",
                                                  "invalid"}]
           /\ \A k \in Challenges, st \in {"valid", "invalid"} :
                 WithChallenge(k, st) \in [Challenges ->
                    {"absent", "pending", "processing", "valid", "invalid"}]
<1>1. ASSUME NEW o \in Orders, NEW cert \in Serials \cup {None},
             NEW st \in {"ready", "valid", "invalid"}
      PROVE  WithStatus(o, st, cert) \in [Orders -> OrderRow \cup {None, Gone}]
  <2>1. CASE Live(o)
    <3>1. order[o] \in OrderRow
      BY <2>1 DEF TypeOK, Live
    <3>2. [order[o] EXCEPT !.status = st, !.cert = cert] \in OrderRow
      BY <3>1 DEF OrderRow
    <3>3. WithStatus(o, st, cert) =
            [order EXCEPT ![o] = [order[o] EXCEPT !.status = st, !.cert = cert]]
      BY <2>1 DEF WithStatus, TypeOK
    <3>. QED
      BY <3>2, <3>3 DEF TypeOK
  <2>2. CASE ~Live(o)
    BY <2>2 DEF WithStatus, TypeOK
  <2>. QED
    BY <2>1, <2>2
<1>2. ASSUME NEW a \in Authzs, NEW st \in {"valid", "invalid"}
      PROVE  WithAuthz(a, st) \in [Authzs -> {"absent", "pending", "valid",
                                              "invalid"}]
  BY DEF WithAuthz, TypeOK
<1>3. ASSUME NEW k \in Challenges, NEW st \in {"valid", "invalid"}
      PROVE  WithChallenge(k, st) \in [Challenges ->
                {"absent", "pending", "processing", "valid", "invalid"}]
  BY DEF WithChallenge, TypeOK
<1>. QED
  BY <1>1, <1>2, <1>3

\* The steps of handleChallenge keep types and jobs.
LEMMA ChallengeTypes ==
    ASSUME TInv, NEW w \in Workers,
           \/ ChallengeClaim(w) \/ ValidateOk(w) \/ ValidateBad(w)
           \/ AuthzInvalid(w) \/ OrderInvalid(w) \/ AuthzValid(w)
           \/ Scan(w) \/ OrderReady(w)
    PROVE  TInv'
<1>. USE DEF TInv
<1>1. Fits(pc[w], job[w])
  BY DEF JobsFit
<1>2. pc[w] \in Challenging =>
        /\ AuthzOf(w) \in Authzs
        /\ job[w].order \in Orders
        /\ \A label \in Challenging \ {"validate"} : Fits(label, job[w])
  BY <1>1 DEF Fits, AuthzOf, Authzs, Challenging, Finalizing, Revoking
<1>3. pc[w] = "validate" => ChallengeOf(w) \in Challenges
  BY <1>1 DEF Fits, ChallengeOf
<1>4. Challenging \subseteq Labels
  BY DEF Challenging, Labels
<1>5. CASE ChallengeClaim(w)
  <2>1. ChallengeOf(w) \in Challenges /\ Fits("validate", job[w])
    BY <1>5, <1>1, ChallengeFits DEF ChallengeClaim
  <2>2. pc' \in [Workers -> Labels] /\ job' \in [Workers -> Job] /\ JobsFit'
    BY <1>5, <2>1, <1>4, GotoStep DEF ChallengeClaim, Challenging
  <2>. QED
    BY <1>5, <2>1, <2>2 DEF ChallengeClaim, TypeOK, ca
<1>6. CASE ValidateOk(w)
  <2>1. pc' \in [Workers -> Labels] /\ job' \in [Workers -> Job] /\ JobsFit'
    BY <1>6, <1>2, <1>4, GotoStep DEF ValidateOk, Challenging
  <2>2. chall' \in [Challenges -> {"absent", "pending", "processing", "valid",
                                   "invalid"}]
    BY <1>6, <1>3, WriteTypes DEF ValidateOk, Attempted, TypeOK
  <2>3. proved' \subseteq Authzs
    BY <1>6, <1>2 DEF ValidateOk, TypeOK, Challenging
  <2>. QED
    BY <1>6, <2>1, <2>2, <2>3 DEF ValidateOk, TypeOK, ca
<1>7. CASE ValidateBad(w)
  <2>1. pc' \in [Workers -> Labels] /\ job' \in [Workers -> Job] /\ JobsFit'
    BY <1>7, <1>2, <1>4, GotoStep DEF ValidateBad, Challenging
  <2>2. chall' \in [Challenges -> {"absent", "pending", "processing", "valid",
                                   "invalid"}]
    BY <1>7, <1>3, WriteTypes DEF ValidateBad, Attempted, TypeOK
  <2>. QED
    BY <1>7, <2>1, <2>2 DEF ValidateBad, TypeOK, ca
<1>8. CASE AuthzInvalid(w)
  <2>1. pc' \in [Workers -> Labels] /\ job' \in [Workers -> Job] /\ JobsFit'
    BY <1>8, <1>2, <1>4, GotoStep DEF AuthzInvalid, Challenging
  <2>2. authz' \in [Authzs -> {"absent", "pending", "valid", "invalid"}]
    BY <1>8, <1>2, WriteTypes DEF AuthzInvalid, Attempted, TypeOK, Challenging
  <2>. QED
    BY <1>8, <2>1, <2>2 DEF AuthzInvalid, TypeOK, ca
<1>9. CASE OrderInvalid(w)
  <2>1. order' \in [Orders -> OrderRow \cup {None, Gone}]
    BY <1>9, <1>2, WriteTypes DEF OrderInvalid, Attempted, TypeOK, Challenging
  <2>. QED
    BY <1>9, <2>1, DoneStep DEF OrderInvalid, TypeOK, ca
<1>10. CASE AuthzValid(w)
  <2>1. pc' \in [Workers -> Labels] /\ job' \in [Workers -> Job] /\ JobsFit'
    BY <1>10, <1>2, <1>4, GotoStep DEF AuthzValid, Challenging
  <2>2. authz' \in [Authzs -> {"absent", "pending", "valid", "invalid"}]
    BY <1>10, <1>2, WriteTypes DEF AuthzValid, Attempted, TypeOK, Challenging
  <2>. QED
    BY <1>10, <2>1, <2>2 DEF AuthzValid, TypeOK, ca
<1>11. CASE Scan(w)
  <2>1. pc' \in [Workers -> Labels] /\ job' \in [Workers -> Job] /\ JobsFit'
    <3>1. CASE AllValid(job[w].order)
      BY <3>1, <1>11, <1>2, <1>4, GotoStep DEF Scan, Challenging
    <3>2. CASE ~AllValid(job[w].order)
      BY <3>2, <1>11, DoneStep DEF Scan
    <3>. QED
      BY <3>1, <3>2
  <2>. QED
    BY <1>11, <2>1 DEF Scan, TypeOK, ca, tables
<1>12. CASE OrderReady(w)
  <2>1. order' \in [Orders -> OrderRow \cup {None, Gone}]
    BY <1>12, <1>2, WriteTypes DEF OrderReady, Attempted, TypeOK, Challenging
  <2>. QED
    BY <1>12, <2>1, DoneStep DEF OrderReady, TypeOK, ca
<1>. QED
  BY <1>5, <1>6, <1>7, <1>8, <1>9, <1>10, <1>11, <1>12

\* A certificate the CA signs is one more row of its store.
LEMMA SignedType ==
    ASSUME TypeOK, NEW o \in Orders \cup {None}, NEW cn \in Names,
           NEW new \in Signed(o, cn)
    PROVE  new \in [Serials -> Certificate \cup {None}]
<1>1. [order |-> o, cn |-> cn, at |-> clock, revoked |-> "no"] \in Certificate
  BY DEF TypeOK, Certificate
<1>2. PICK s \in Serials :
        new = [signed EXCEPT ![s] = [order |-> o, cn |-> cn, at |-> clock,
                                     revoked |-> "no"]]
  BY DEF Signed
<1>. QED
  BY <1>1, <1>2 DEF TypeOK

\* A revocation keeps the row a certificate.
LEMMA RevokedType ==
    ASSUME TypeOK, NEW s \in Serials, Valid(s),
           NEW who \in {"frontend", "operator"}
    PROVE  [signed EXCEPT ![s].revoked = who]
             \in [Serials -> Certificate \cup {None}]
<1>1. signed[s] \in Certificate
  BY DEF Valid, TypeOK
<1>2. [signed[s] EXCEPT !.revoked = who] \in Certificate
  BY <1>1 DEF Certificate
<1>. QED
  BY <1>2 DEF TypeOK

\* The steps of handleFinalize keep types and jobs.
LEMMA FinalizeTypes ==
    ASSUME TInv, NEW w \in Workers,
           \/ FinalizeClaim(w) \/ IssueLock(w) \/ Sign(w) \/ SignFails(w)
           \/ Chain(w) \/ ChainFails(w) \/ OrderFails(w) \/ Record(w)
           \/ OrderValid(w)
    PROVE  TInv'
<1>. USE DEF TInv
<1>1. Fits(pc[w], job[w])
  BY DEF JobsFit
<1>2. pc[w] \in Finalizing =>
        /\ job[w].order \in Orders /\ job[w].name \in Names
        /\ \A label \in {"sign", "chain", "failed"} : Fits(label, job[w])
  BY <1>1 DEF Fits, Claiming, Challenging, Finalizing, Revoking
<1>3. pc[w] \in {"record", "order_valid"} =>
        /\ job[w].order \in Orders /\ job[w].serial \in Serials
        /\ Fits("order_valid", job[w])
  BY <1>1 DEF Fits, Claiming, Challenging, Finalizing, Revoking
<1>4. Finalizing \subseteq Labels
  BY DEF Finalizing, Labels
<1>5. CASE FinalizeClaim(w)
  <2>1. job[w].order \in Orders /\ Fits("issue", job[w])
    BY <1>5, <1>1 DEF FinalizeClaim, Fits, Claiming, Challenging, Finalizing, Revoking
  <2>2. pc' \in [Workers -> Labels] /\ job' \in [Workers -> Job] /\ JobsFit'
    BY <1>5, <2>1, <1>4, GotoStep DEF FinalizeClaim, Finalizing
  <2>3. order' \in [Orders -> OrderRow \cup {None, Gone}]
    <3>1. order[job[w].order] \in OrderRow
      BY <1>5, <2>1 DEF FinalizeClaim, ClaimableOrder, Live, TypeOK
    <3>2. [order[job[w].order] EXCEPT !.status = "processing"] \in OrderRow
      BY <3>1 DEF OrderRow
    <3>. QED
      BY <1>5, <2>1, <3>2 DEF FinalizeClaim, TypeOK
  <2>. QED
    BY <1>5, <2>2, <2>3 DEF FinalizeClaim, TypeOK, ca
<1>6. CASE IssueLock(w)
  <2>1. pc' \in [Workers -> Labels] /\ job' \in [Workers -> Job] /\ JobsFit'
    BY <1>6, <1>2, <1>4, GotoStep DEF IssueLock, Finalizing
  <2>. QED
    BY <1>6, <2>1 DEF IssueLock, TypeOK, tables
<1>7. CASE Sign(w)
  <2>1. pc' \in [Workers -> Labels] /\ job' \in [Workers -> Job] /\ JobsFit'
    <3>1. Goto(w, "chain") \/ Goto(w, "failed")
      BY <1>7 DEF Sign
    <3>. QED
      BY <3>1, <1>7, <1>2, <1>4, GotoStep DEF Sign, Finalizing
  <2>2. signed' \in [Serials -> Certificate \cup {None}]
    BY <1>7, <1>2, SignedType DEF Sign, Finalizing
  <2>3. mutex' \in Workers \cup {None}
    BY <1>7 DEF Sign, Unlock, TypeOK
  <2>. QED
    BY <1>7, <2>1, <2>2, <2>3 DEF Sign, TypeOK, tables
<1>8. CASE SignFails(w)
  <2>1. pc' \in [Workers -> Labels] /\ job' \in [Workers -> Job] /\ JobsFit'
    BY <1>8, <1>2, <1>4, GotoStep DEF SignFails, Finalizing
  <2>. QED
    BY <1>8, <2>1 DEF SignFails, Unlock, TypeOK, tables
<1>9. CASE Chain(w)
  <2>1. PICK s \in Newest(job[w].name) :
          /\ pc' = [pc EXCEPT ![w] = "record"]
          /\ job' = [job EXCEPT ![w].serial = s]
    BY <1>9 DEF Chain
  <2>2. s \in Serials
    BY DEF Newest
  <2>. DEFINE j == [job[w] EXCEPT !.serial = s]
  <2>3. job[w] \in Job
    BY DEF TypeOK
  <2>4. j \in Job /\ j.order = job[w].order /\ j.name = job[w].name
          /\ j.serial = s
    BY <2>2, <2>3 DEF Job
  <2>5. job' = [job EXCEPT ![w] = j]
    BY <2>1
  <2>6. Fits("record", j)
    BY <2>2, <2>4, <1>9, <1>2 DEF Fits, Claiming, Challenging, Finalizing, Revoking, Chain
  <2>7. pc' \in [Workers -> Labels] /\ job' \in [Workers -> Job] /\ JobsFit'
    BY <2>1, <2>4, <2>5, <2>6, <1>4, MoveStep DEF Finalizing
  <2>. QED
    BY <1>9, <2>7 DEF Chain, Unlock, TypeOK, tables
<1>10. CASE ChainFails(w)
  <2>1. pc' \in [Workers -> Labels] /\ job' \in [Workers -> Job] /\ JobsFit'
    BY <1>10, <1>2, <1>4, GotoStep DEF ChainFails, Finalizing
  <2>. QED
    BY <1>10, <2>1 DEF ChainFails, Unlock, TypeOK, tables
<1>11. CASE OrderFails(w)
  <2>1. order' \in [Orders -> OrderRow \cup {None, Gone}]
    BY <1>11, <1>2, WriteTypes DEF OrderFails, Attempted, TypeOK, Finalizing
  <2>. QED
    BY <1>11, <2>1, DoneStep DEF OrderFails, TypeOK, ca
<1>12. CASE Record(w)
  <2>1. pc' \in [Workers -> Labels] /\ job' \in [Workers -> Job] /\ JobsFit'
    <3>1. Goto(w, "order_valid") \/ Done(w)
      BY <1>12 DEF Record
    <3>. QED
      BY <3>1, <1>12, <1>3, <1>4, GotoStep, DoneStep DEF Record, Finalizing
  <2>2. recorded' \subseteq Orders \X Serials
    BY <1>12, <1>3 DEF Record, TypeOK
  <2>. QED
    BY <1>12, <2>1, <2>2 DEF Record, TypeOK, ca
<1>13. CASE OrderValid(w)
  <2>1. order' \in [Orders -> OrderRow \cup {None, Gone}]
    BY <1>13, <1>3, WriteTypes DEF OrderValid, Attempted, TypeOK
  <2>. QED
    BY <1>13, <2>1, DoneStep DEF OrderValid, TypeOK, ca
<1>. QED
  BY <1>5, <1>6, <1>7, <1>8, <1>9, <1>10, <1>11, <1>12, <1>13

\* So do the reads before a claim.
LEMMA ReadTypes ==
    ASSUME TInv, NEW w \in Workers, ReadsFirst(w)
    PROVE  TInv'
<1>1. PICK label \in {"idle"} \cup Claiming, j \in Job :
         /\ pc' = [pc EXCEPT ![w] = label]
         /\ job' = [job EXCEPT ![w] = j]
         /\ Fits(label, j)
  BY ReadsFit DEF TInv
<1>2. label \in Labels
  BY DEF Claiming, Labels
<1>3. pc' \in [Workers -> Labels] /\ job' \in [Workers -> Job] /\ JobsFit'
  BY <1>1, <1>2, MoveStep DEF TInv
<1>. QED
  BY <1>3, ReadsNothingElse DEF TInv, TypeOK

\* The steps of handleRevokeCert keep types and jobs.
LEMMA RevokeTypes ==
    ASSUME TInv, NEW w \in Workers,
           \/ RevokeStart(w) \/ RevokeLock(w) \/ RevokeExec(w)
           \/ RevokeFails(w) \/ Note(w)
    PROVE  TInv'
<1>. USE DEF TInv
<1>1. Fits(pc[w], job[w])
  BY DEF JobsFit
<1>2. pc[w] \in Revoking =>
        /\ job[w].serial \in Serials
        /\ \A label \in Revoking : Fits(label, job[w])
  BY <1>1 DEF Fits, Claiming, Challenging, Finalizing, Revoking
<1>3. Revoking \subseteq Labels
  BY DEF Revoking, Labels
<1>4. CASE RevokeStart(w)
  <2>1. PICK c \in recorded :
          Begin(w, "revoke", [NoJob EXCEPT !.serial = c[2]])
    BY <1>4 DEF RevokeStart
  <2>2. c[2] \in Serials
    BY DEF TypeOK
  <2>. DEFINE j == [NoJob EXCEPT !.serial = c[2]]
  <2>3. j \in Job /\ Fits("revoke", j)
    BY <2>2 DEF NoJob, Job, Fits, Claiming, Challenging, Finalizing, Revoking
  <2>4. pc' \in [Workers -> Labels] /\ job' \in [Workers -> Job] /\ JobsFit'
    BY <2>1, <2>3, <1>3, BeginStep DEF Revoking
  <2>. QED
    BY <1>4, <2>4 DEF RevokeStart, TypeOK, ca, tables
<1>5. CASE RevokeLock(w)
  <2>1. pc' \in [Workers -> Labels] /\ job' \in [Workers -> Job] /\ JobsFit'
    BY <1>5, <1>2, <1>3, GotoStep DEF RevokeLock, Revoking
  <2>. QED
    BY <1>5, <2>1 DEF RevokeLock, TypeOK, tables
<1>6. CASE RevokeExec(w)
  <2>1. pc' \in [Workers -> Labels] /\ job' \in [Workers -> Job] /\ JobsFit'
    <3>1. Goto(w, "note") \/ Done(w)
      BY <1>6 DEF RevokeExec
    <3>. QED
      BY <3>1, <1>6, <1>2, <1>3, GotoStep, DoneStep DEF RevokeExec, Revoking
  <2>2. signed' \in [Serials -> Certificate \cup {None}]
    BY <1>6, <1>2, RevokedType DEF RevokeExec, Revoking
  <2>. QED
    BY <1>6, <2>1, <2>2 DEF RevokeExec, Unlock, TypeOK, tables
<1>7. CASE RevokeFails(w)
  BY <1>7, DoneStep DEF RevokeFails, Unlock, TypeOK, tables
<1>8. CASE Note(w)
  <2>1. noted' \subseteq Serials
    BY <1>8, <1>2 DEF Note, Attempted, TypeOK, Revoking
  <2>. QED
    BY <1>8, <2>1, DoneStep DEF Note, TypeOK, ca
<1>. QED
  BY <1>4, <1>5, <1>6, <1>7, <1>8

\* newOrder, the collector, the operator, a restart and the clock keep types
\* and jobs.
LEMMA OtherTypes ==
    ASSUME TInv,
           \/ Tick \/ GC \/ Crash \/ OperatorIssue \/ OperatorRevoke
           \/ \E o \in Orders : NewOrder(o)
    PROVE  TInv'
<1>. USE DEF TInv
<1>1. UNCHANGED workers => JobsFit'
  BY DEF JobsFit, Fits, workers
<1>2. CASE Tick
  BY <1>1, <1>2, TimeAssumption DEF Tick, TypeOK, ca, tables, workers
<1>3. CASE GC
  BY <1>1, <1>3 DEF GC, TypeOK, ca, workers
<1>4. CASE Crash
  <2>1. NoJob \in Job /\ "idle" \in Labels /\ Fits("idle", NoJob)
    BY DEF NoJob, Job, Labels, Fits, Claiming, Challenging, Finalizing, Revoking
  <2>2. \A w \in Workers : pc'[w] = "idle" /\ job'[w] = NoJob
    BY <1>4 DEF Crash
  <2>3. JobsFit'
    BY <2>1, <2>2 DEF JobsFit, Fits
  <2>. QED
    BY <1>4, <2>1, <2>3 DEF Crash, TypeOK, tables
<1>5. CASE OperatorIssue
  <2>1. signed' \in [Serials -> Certificate \cup {None}]
    BY <1>5, SignedType DEF OperatorIssue
  <2>. QED
    BY <1>1, <1>5, <2>1 DEF OperatorIssue, TypeOK, tables, workers
<1>6. CASE OperatorRevoke
  <2>1. signed' \in [Serials -> Certificate \cup {None}]
    BY <1>6, RevokedType DEF OperatorRevoke
  <2>. QED
    BY <1>1, <1>6, <2>1 DEF OperatorRevoke, TypeOK, tables, workers
<1>7. CASE \E o \in Orders : NewOrder(o)
  <2>1. PICK o \in Orders : NewOrder(o)
    BY <1>7
  <2>2. [status |-> "pending", cert |-> None, expires |-> clock + OrderTTL]
          \in OrderRow
    BY TimeAssumption DEF TypeOK, OrderRow
  <2>3. order' \in [Orders -> OrderRow \cup {None, Gone}]
    BY <2>1, <2>2 DEF NewOrder, TypeOK
  <2>. QED
    BY <1>1, <2>1, <2>3 DEF NewOrder, TypeOK, ca, workers
<1>. QED
  BY <1>2, <1>3, <1>4, <1>5, <1>6, <1>7

\* Every step of every handler keeps types and jobs.
THEOREM TypeStep == TInv /\ [Next]_vars => TInv'
<1>. SUFFICES ASSUME TInv, [Next]_vars PROVE TInv'
  OBVIOUS
<1>1. CASE UNCHANGED vars
  BY <1>1 DEF TInv, TypeOK, JobsFit, Fits, vars, tables, ca, workers
<1>2. CASE Next
  BY <1>2, ChallengeTypes, FinalizeTypes, ReadTypes, RevokeTypes, OtherTypes
  DEF Next, Start, Lock, Step, ReadsFirst
<1>. QED
  BY <1>1, <1>2

\* The tables keep their types, whatever fails or is restarted.
THEOREM TypeCorrect == Spec => []TypeOK
<1>1. Spec => []TInv
  BY TypeInit, TypeStep, PTL DEF Spec
<1>. QED
  BY <1>1, PTL DEF TInv

-----------------------------------------------------------------------------
(* Issuance and validation *)

\* Validations are not taken back, and an order is created once and
\* collected for good.
Grows ==
    /\ proved \subseteq proved'
    /\ \A o \in Orders : order[o] # None =>
          order'[o] # None /\ (order[o] = Gone => order'[o] = Gone)

\* What a handler holds stays backed while others run.
LEMMA WorkerStays ==
    ASSUME NEW label, NEW j, Fits(label, j), WorkerProved(label, j), Grows
    PROVE  WorkerProved(label, j)'
<1>1. label \in Claiming \cup Challenging \cup Finalizing => j.order \in Orders
  BY DEF Fits, Authzs
<1>2. AllProved(j.order) => AllProved(j.order)'
  BY DEF AllProved, Grows
<1>3. label = "order_ready" /\ Live(j.order)' => Live(j.order)
  BY <1>1 DEF Claiming, Challenging, WorkerProved, Grows, Live
<1>. QED
  BY <1>1, <1>2, <1>3 DEF WorkerProved, Grows, Claiming, Challenging

\* One handler moves to what is backed, the others stay.
LEMMA WorkersStep ==
    ASSUME NEW w \in Workers, NEW label, NEW j, TInv, WorkersProved, Grows,
           pc' = [pc EXCEPT ![w] = label], job' = [job EXCEPT ![w] = j],
           WorkerProved(label, j)'
    PROVE  WorkersProved'
<1>1. ASSUME NEW v \in Workers PROVE WorkerProved(pc[v], job[v])'
  <2>1. CASE v = w
    <3>1. pc'[v] = label /\ job'[v] = j
      BY <2>1 DEF TInv, TypeOK
    <3>. QED
      BY <3>1 DEF WorkerProved
  <2>2. CASE v # w
    <3>1. pc'[v] = pc[v] /\ job'[v] = job[v]
      BY <2>2 DEF TInv, TypeOK
    <3>2. /\ Fits(pc[v], job[v]) /\ WorkerProved(pc[v], job[v])
      BY DEF TInv, JobsFit, WorkersProved
    <3>3. PICK label0, j0 : label0 = pc[v] /\ j0 = job[v]
      OBVIOUS
    <3>4. Fits(label0, j0) /\ WorkerProved(label0, j0)
      BY <3>2, <3>3
    <3>5. WorkerProved(label0, j0)'
      BY <3>4, WorkerStays
    <3>6. pc'[v] = label0 /\ job'[v] = j0
      BY <3>1, <3>3
    <3>. QED
      BY <3>5, <3>6 DEF WorkerProved
  <2>. QED
    BY <2>1, <2>2
<1>. QED
  BY <1>1 DEF WorkersProved

\* A handler that ends holds nothing.
LEMMA WorkersDone ==
    ASSUME NEW w \in Workers, TInv, WorkersProved, Grows, Done(w)
    PROVE  WorkersProved'
<1>1. WorkerProved("idle", NoJob)'
  BY DEF WorkerProved, Claiming, Challenging, Finalizing
<1>. QED
  BY <1>1, WorkersStep DEF Done

\* A handler that goes on with its job.
LEMMA WorkersGoto ==
    ASSUME NEW w \in Workers, NEW label, TInv, WorkersProved, Grows,
           Goto(w, label), WorkerProved(label, job[w])'
    PROVE  WorkersProved'
<1>1. PICK j : j = job[w]
  OBVIOUS
<1>2. job' = [job EXCEPT ![w] = j] /\ job'[w] = j
  BY <1>1 DEF Goto, TInv, TypeOK
<1>3. WorkerProved(label, j)'
  BY <1>2 DEF WorkerProved
<1>. QED
  BY <1>2, <1>3, WorkersStep DEF Goto

\* Nothing is issued and no table of orders changes: all stays backed.
LEMMA TablesStay ==
    ASSUME PInv, TInv', UNCHANGED <<order, authz, signed>>,
           proved \subseteq proved'
    PROVE  RowsProved' /\ IssuedIsAuthorized' /\ Grows
<1>1. \A o \in Orders : AllProved(o) => AllProved(o)'
  BY DEF AllProved
<1>2. RowsProved'
  BY <1>1 DEF PInv, RowsProved, Live, Advanced
<1>3. IssuedIsAuthorized'
  BY DEF PInv, IssuedIsAuthorized
<1>. QED
  BY <1>2, <1>3 DEF Grows

\* A status write on an order is backed unless it announces progress nobody
\* proved (SetOrderStatus).
LEMMA StatusWritten ==
    ASSUME PInv, TInv', NEW o \in Orders, NEW st \in {"ready", "valid", "invalid"},
           NEW cert \in Serials \cup {None},
           order' \in Attempted(WithStatus(o, st, cert), order),
           st # "invalid" /\ Live(o) => AllProved(o),
           UNCHANGED <<authz, signed, proved>>
    PROVE  RowsProved' /\ IssuedIsAuthorized' /\ Grows
<1>1. IssuedIsAuthorized'
  BY DEF PInv, IssuedIsAuthorized
<1>2. CASE order' = order
  BY <1>2, TablesStay
<1>3. CASE order' # order
  <2>1. Live(o) /\ order' = [order EXCEPT ![o].status = st, ![o].cert = cert]
    BY <1>3 DEF Attempted, WithStatus
  <2>2. order[o] \in OrderRow
    BY <2>1 DEF Live, PInv, TInv, TypeOK
  <2>3. order'[o] \in OrderRow /\ order'[o].status = st
    BY <2>1, <2>2 DEF OrderRow, PInv, TInv, TypeOK
  <2>4. \A p \in Orders : p # o => order'[p] = order[p]
    BY <2>1 DEF PInv, TInv, TypeOK
  <2>5. Grows
    BY <2>1, <2>3, <2>4, RowAssumption DEF Grows, Live
  <2>6. \A p \in Orders : Live(p)' <=> Live(p)
    BY <2>1, <2>3, <2>4, RowAssumption DEF Live
  <2>7. \A p \in Orders : Advanced(p)' => AllProved(p)'
    <3>1. \A p \in Orders : AllProved(p)' <=> AllProved(p)
      BY DEF AllProved
    <3>2. Advanced(o)' => st # "invalid"
      BY <2>3 DEF Advanced
    <3>3. \A p \in Orders : p # o => (Advanced(p)' <=> Advanced(p))
      BY <2>4, <2>6 DEF Advanced
    <3>. QED
      BY <3>1, <3>2, <3>3, <2>1 DEF PInv, RowsProved
  <2>8. \A a \in Authzs : a[1] \in Orders
    BY DEF Authzs
  <2>. QED
    BY <1>1, <2>5, <2>6, <2>7, <2>8 DEF PInv, RowsProved
<1>. QED
  BY <1>2, <1>3

\* The steps of handleChallenge keep issuance backed.
LEMMA ChallengeProved ==
    ASSUME PInv, NEW w \in Workers,
           \/ ChallengeClaim(w) \/ ValidateOk(w) \/ ValidateBad(w)
           \/ AuthzInvalid(w) \/ OrderInvalid(w) \/ AuthzValid(w)
           \/ Scan(w) \/ OrderReady(w)
    PROVE  PInv'
<1>1. TInv /\ TInv'
  BY ChallengeTypes DEF PInv
<1>2. Fits(pc[w], job[w]) /\ WorkerProved(pc[w], job[w]) /\ WorkersProved
  BY DEF PInv, TInv, JobsFit, WorkersProved
<1>3. pc[w] \in Challenging =>
        /\ AuthzOf(w) \in Authzs
        /\ job[w].order \in Orders
        /\ order[job[w].order] # None
  BY <1>2 DEF Fits, AuthzOf, Authzs, WorkerProved
<1>4. CASE ChallengeClaim(w)
  <2>1. RowsProved' /\ IssuedIsAuthorized' /\ Grows
    BY <1>1, <1>4, TablesStay DEF ChallengeClaim, ca
  <2>2. WorkerProved("validate", job[w])'
    BY <1>2, <1>4 DEF ChallengeClaim, Goto, WorkerProved, Claiming, Challenging, Finalizing
  <2>. QED
    BY <1>1, <1>2, <1>4, <2>1, <2>2, WorkersGoto DEF ChallengeClaim, PInv
<1>5. CASE ValidateOk(w)
  <2>1. RowsProved' /\ IssuedIsAuthorized' /\ Grows
    BY <1>1, <1>5, TablesStay DEF ValidateOk, ca
  <2>2. WorkerProved("authz_valid", job[w])'
    BY <1>3, <1>5 DEF ValidateOk, Goto, AuthzOf, WorkerProved, Claiming, Challenging,
                      Finalizing
  <2>. QED
    BY <1>1, <1>2, <1>5, <2>1, <2>2, WorkersGoto DEF ValidateOk, PInv
<1>6. CASE ValidateBad(w)
  <2>1. RowsProved' /\ IssuedIsAuthorized' /\ Grows
    BY <1>1, <1>6, TablesStay DEF ValidateBad, ca
  <2>2. WorkerProved("authz_invalid", job[w])'
    BY <1>3, <1>6 DEF ValidateBad, Goto, WorkerProved, Claiming, Challenging, Finalizing
  <2>. QED
    BY <1>1, <1>2, <1>6, <2>1, <2>2, WorkersGoto DEF ValidateBad, PInv
<1>7. ASSUME NEW st \in {"valid", "invalid"}, pc[w] \in Challenging,
             authz' \in Attempted(WithAuthz(AuthzOf(w), st), authz),
             st = "valid" => AuthzOf(w) \in proved,
             UNCHANGED <<order, signed, proved>>
      PROVE  RowsProved' /\ IssuedIsAuthorized' /\ Grows
  <2>1. \A a \in Authzs : authz'[a] = authz[a]
          \/ (a = AuthzOf(w) /\ authz[a] # "absent" /\ authz'[a] = st)
    BY <1>1, <1>3, <1>7 DEF Attempted, WithAuthz, TInv, TypeOK
  <2>2. RowsProved'
    BY <1>7, <2>1 DEF PInv, RowsProved, Live, Advanced, AllProved
  <2>. QED
    BY <1>7, <2>2 DEF PInv, IssuedIsAuthorized, Grows
<1>8. CASE AuthzInvalid(w)
  <2>1. RowsProved' /\ IssuedIsAuthorized' /\ Grows
    BY <1>7, <1>8 DEF AuthzInvalid, Claiming, Challenging, ca
  <2>2. WorkerProved("order_invalid", job[w])'
    BY <1>3, <1>8 DEF AuthzInvalid, Goto, WorkerProved, Challenging, Finalizing
  <2>. QED
    BY <1>1, <1>2, <1>8, <2>1, <2>2, WorkersGoto DEF AuthzInvalid, PInv
<1>9. CASE OrderInvalid(w)
  <2>1. RowsProved' /\ IssuedIsAuthorized' /\ Grows
    BY <1>1, <1>3, <1>9, StatusWritten DEF OrderInvalid, Challenging, ca
  <2>. QED
    BY <1>1, <1>2, <1>9, <2>1, WorkersDone DEF OrderInvalid, PInv
<1>10. CASE AuthzValid(w)
  <2>1. AuthzOf(w) \in proved
    BY <1>2, <1>10 DEF AuthzValid, WorkerProved, AuthzOf
  <2>2. RowsProved' /\ IssuedIsAuthorized' /\ Grows
    BY <1>7, <1>10, <2>1 DEF AuthzValid, Claiming, Challenging, ca
  <2>3. WorkerProved("scan", job[w])'
    BY <1>3, <1>10 DEF AuthzValid, Goto, WorkerProved, Challenging, Finalizing
  <2>. QED
    BY <1>1, <1>2, <1>10, <2>2, <2>3, WorkersGoto DEF AuthzValid, PInv
<1>11. CASE Scan(w)
  <2>1. RowsProved' /\ IssuedIsAuthorized' /\ Grows
    BY <1>1, <1>11, TablesStay DEF Scan, ca, tables
  <2>2. CASE AllValid(job[w].order)
    <3>1. Live(job[w].order) => AllProved(job[w].order)
      <4>1. \A n \in Identifiers[job[w].order] :
              <<job[w].order, n>> \in Authzs
        BY <1>3, <1>11, OrderAssumption DEF Authzs, Scan, Claiming, Challenging
      <4>. QED
        BY <4>1, <2>2 DEF AllValid, AllProved, PInv, RowsProved
    <3>2. Goto(w, "order_ready")
      BY <1>11, <2>2 DEF Scan
    <3>3. WorkerProved("order_ready", job[w])'
      BY <1>3, <1>11, <3>1, <3>2 DEF Scan, Goto, WorkerProved, Challenging,
         Finalizing, tables, Live, AllProved
    <3>. QED
      BY <1>1, <1>2, <2>1, <3>2, <3>3, WorkersGoto DEF PInv
  <2>3. CASE ~AllValid(job[w].order)
    BY <1>1, <1>2, <1>11, <2>1, <2>3, WorkersDone DEF Scan, PInv
  <2>. QED
    BY <2>2, <2>3
<1>12. CASE OrderReady(w)
  <2>1. Live(job[w].order) => AllProved(job[w].order)
    BY <1>2, <1>12 DEF OrderReady, WorkerProved
  <2>2. RowsProved' /\ IssuedIsAuthorized' /\ Grows
    BY <1>1, <1>3, <1>12, <2>1, StatusWritten DEF OrderReady, Claiming, Challenging, ca
  <2>. QED
    BY <1>1, <1>2, <1>12, <2>2, WorkersDone DEF OrderReady, PInv
<1>. QED
  BY <1>4, <1>5, <1>6, <1>8, <1>9, <1>10, <1>11, <1>12

\* The reads before a claim change no table.
LEMMA ReadProved ==
    ASSUME PInv, NEW w \in Workers, ReadsFirst(w)
    PROVE  PInv'
<1>1. TInv /\ TInv' /\ WorkersProved
  BY ReadTypes DEF PInv
<1>2. RowsProved' /\ IssuedIsAuthorized' /\ Grows
  BY <1>1, TablesStay, ReadsNothingElse
<1>3. PICK label \in {"idle"} \cup Claiming, j \in Job :
         /\ pc' = [pc EXCEPT ![w] = label]
         /\ job' = [job EXCEPT ![w] = j]
         /\ label \in Claiming => order[j.order] # None
  BY <1>1, ReadsFit DEF TInv
<1>4. WorkerProved(label, j)'
  BY <1>3, ReadsNothingElse DEF WorkerProved, Claiming, Challenging, Finalizing
<1>. QED
  BY <1>1, <1>2, <1>3, <1>4, WorkersStep DEF PInv

\* A claim of a ready order is backed by the validations that made it ready
\* (ClaimOrder).
LEMMA ClaimProved ==
    ASSUME PInv, NEW w \in Workers, FinalizeClaim(w)
    PROVE  PInv'
<1>1. TInv /\ TInv' /\ WorkersProved
  BY FinalizeTypes DEF PInv
<1>2. PICK o \in Orders : /\ o = job[w].order
                          /\ ClaimableOrder(o)
                          /\ order' = [order EXCEPT ![o].status = "processing"]
                          /\ Goto(w, "issue")
  BY <1>1 DEF FinalizeClaim, TInv, JobsFit, Fits, Claiming
<1>3. Live(o) /\ order[o] \in OrderRow /\ AllProved(o)
  BY <1>1, <1>2 DEF ClaimableOrder, Live, Advanced, PInv, RowsProved, TInv,
     TypeOK
<1>4. order'[o] \in OrderRow /\ order'[o].status = "processing"
  BY <1>1, <1>2, <1>3 DEF TInv, TypeOK, OrderRow
<1>5. \A p \in Orders : p # o => order'[p] = order[p]
  BY <1>1, <1>2 DEF TInv, TypeOK
<1>6. authz' = authz /\ signed' = signed /\ proved' = proved
  BY DEF FinalizeClaim, ca
<1>7. Grows
  BY <1>3, <1>4, <1>5, <1>6, RowAssumption DEF Grows, Live
<1>8. \A p \in Orders : Live(p)' <=> Live(p)
  BY <1>3, <1>4, <1>5, RowAssumption DEF Live
<1>9. RowsProved'
  <2>1. \A p \in Orders : AllProved(p)' <=> AllProved(p)
    BY <1>6 DEF AllProved
  <2>2. \A p \in Orders : p # o => (Advanced(p)' <=> Advanced(p))
    BY <1>5, <1>8 DEF Advanced
  <2>3. \A a \in Authzs : a[1] \in Orders
    BY DEF Authzs
  <2>. QED
    BY <1>3, <1>6, <1>8, <2>1, <2>2, <2>3 DEF PInv, RowsProved
<1>10. WorkerProved("issue", job[w])'
  BY <1>2, <1>3, <1>4, <1>6, RowAssumption
  DEF Goto, WorkerProved, Claiming, Challenging, AllProved
<1>11. WorkersProved'
  BY <1>1, <1>2, <1>7, <1>10, WorkersGoto
<1>12. IssuedIsAuthorized'
  BY <1>6 DEF PInv, IssuedIsAuthorized
<1>. QED
  BY <1>1, <1>9, <1>11, <1>12 DEF PInv

\* The CA signs for an order whose identifiers were all validated, or for
\* the operator.
LEMMA SigningProved ==
    ASSUME PInv, TInv', NEW o \in Orders \cup {None}, NEW cn \in Names,
           signed' \in Signed(o, cn), o # None => AllProved(o),
           UNCHANGED <<order, authz, proved>>
    PROVE  RowsProved' /\ IssuedIsAuthorized' /\ Grows
<1>1. PICK s \in Serials :
        signed' = [signed EXCEPT ![s] = [order |-> o, cn |-> cn, at |-> clock,
                                         revoked |-> "no"]]
  BY DEF Signed
<1>2. signed'[s].order = o /\ \A r \in Serials : r # s => signed'[r] = signed[r]
  BY <1>1 DEF PInv, TInv, TypeOK
<1>3. IssuedIsAuthorized'
  BY <1>2 DEF PInv, IssuedIsAuthorized, AllProved
<1>4. RowsProved' /\ Grows
  BY DEF PInv, RowsProved, Live, Advanced, AllProved, Grows
<1>. QED
  BY <1>3, <1>4

\* The steps of handleFinalize keep issuance backed.
LEMMA FinalizeProved ==
    ASSUME PInv, NEW w \in Workers,
           \/ FinalizeClaim(w) \/ IssueLock(w) \/ Sign(w) \/ SignFails(w)
           \/ Chain(w) \/ ChainFails(w) \/ OrderFails(w) \/ Record(w)
           \/ OrderValid(w)
    PROVE  PInv'
<1>1. TInv /\ TInv' /\ WorkersProved
  BY FinalizeTypes DEF PInv
<1>2. pc[w] \in Finalizing =>
        /\ job[w].order \in Orders /\ job[w].name \in Names
        /\ AllProved(job[w].order) /\ order[job[w].order] # None
  BY <1>1 DEF TInv, JobsFit, Fits, WorkersProved, WorkerProved
<1>3. pc[w] = "order_valid" => job[w].serial \in Serials
  BY <1>1 DEF TInv, JobsFit, Fits
<1>4. ASSUME UNCHANGED <<order, authz, signed, proved>>,
             pc[w] \in Finalizing,
             NEW label \in Finalizing, Goto(w, label)
      PROVE  PInv'
  <2>1. RowsProved' /\ IssuedIsAuthorized' /\ Grows
    BY <1>1, <1>4, TablesStay
  <2>2. WorkerProved(label, job[w])'
    BY <1>2, <1>4 DEF WorkerProved, Goto, AllProved, Claiming, Challenging, Finalizing
  <2>. QED
    BY <1>1, <1>4, <2>1, <2>2, WorkersGoto DEF PInv
<1>5. CASE FinalizeClaim(w)
  BY <1>5, ClaimProved
<1>6. CASE IssueLock(w)
  BY <1>4, <1>6 DEF IssueLock, Finalizing, tables
<1>7. CASE Sign(w)
  <2>1. pc[w] \in Finalizing
    BY <1>7 DEF Sign, Finalizing
  <2>2. RowsProved' /\ IssuedIsAuthorized' /\ Grows
    BY <1>1, <1>2, <1>7, <2>1, SigningProved DEF Sign, tables
  <2>3. PICK label \in {"chain", "failed"} : Goto(w, label)
    BY <1>7 DEF Sign
  <2>4. WorkerProved(label, job[w])'
    BY <1>2, <1>7, <2>1, <2>3 DEF Sign, WorkerProved, Goto, AllProved,
       Claiming, Challenging, tables
  <2>. QED
    BY <1>1, <2>2, <2>3, <2>4, WorkersGoto DEF PInv
<1>8. CASE SignFails(w)
  BY <1>4, <1>8 DEF SignFails, Finalizing, tables
<1>9. CASE Chain(w)
  <2>1. PICK s \in Newest(job[w].name) :
          /\ pc' = [pc EXCEPT ![w] = "record"]
          /\ job' = [job EXCEPT ![w].serial = s]
    BY <1>9 DEF Chain
  <2>2. RowsProved' /\ IssuedIsAuthorized' /\ Grows
    BY <1>1, <1>9, TablesStay DEF Chain, tables
  <2>3. job[w] \in Job
    BY <1>1 DEF TInv, TypeOK
  <2>4. [job[w] EXCEPT !.serial = s].order = job[w].order
    BY <2>3 DEF Job
  <2>5. WorkersProved'
    <3>1. PICK j : j = [job[w] EXCEPT !.serial = s]
      OBVIOUS
    <3>2. AllProved(j.order) /\ order[j.order] # None
      BY <1>2, <1>9, <2>4, <3>1 DEF Chain, Finalizing
    <3>3. job' = [job EXCEPT ![w] = j]
      BY <2>1, <3>1
    <3>4. WorkerProved("record", j)'
      BY <1>9, <3>2 DEF Chain, WorkerProved, AllProved, Claiming, Challenging, tables
    <3>. QED
      BY <1>1, <2>1, <2>2, <3>3, <3>4, WorkersStep
  <2>. QED
    BY <1>1, <2>2, <2>5 DEF PInv
<1>10. CASE ChainFails(w)
  BY <1>4, <1>10 DEF ChainFails, Finalizing, tables
<1>11. CASE OrderFails(w)
  <2>1. RowsProved' /\ IssuedIsAuthorized' /\ Grows
    BY <1>1, <1>2, <1>11, StatusWritten DEF OrderFails, Finalizing, ca
  <2>. QED
    BY <1>1, <1>11, <2>1, WorkersDone DEF OrderFails, PInv
<1>12. CASE Record(w)
  <2>1. RowsProved' /\ IssuedIsAuthorized' /\ Grows
    BY <1>1, <1>12, TablesStay DEF Record, ca
  <2>2. CASE Goto(w, "order_valid")
    BY <1>4, <1>12, <2>2 DEF Record, Finalizing, ca
  <2>3. CASE Done(w)
    BY <1>1, <2>1, <2>3, WorkersDone DEF PInv
  <2>. QED
    BY <1>12, <2>2, <2>3 DEF Record
<1>13. CASE OrderValid(w)
  <2>1. RowsProved' /\ IssuedIsAuthorized' /\ Grows
    BY <1>1, <1>2, <1>3, <1>13, StatusWritten DEF OrderValid, Finalizing, ca
  <2>. QED
    BY <1>1, <1>13, <2>1, WorkersDone DEF OrderValid, PInv
<1>. QED
  BY <1>5, <1>6, <1>7, <1>8, <1>9, <1>10, <1>11, <1>12, <1>13

\* The steps of handleRevokeCert issue nothing.
LEMMA RevokeProved ==
    ASSUME PInv, NEW w \in Workers,
           \/ RevokeStart(w) \/ RevokeLock(w) \/ RevokeExec(w)
           \/ RevokeFails(w) \/ Note(w)
    PROVE  PInv'
<1>1. TInv /\ TInv' /\ WorkersProved
  BY RevokeTypes DEF PInv
<1>2. UNCHANGED <<order, authz, proved>>
  BY DEF RevokeStart, RevokeLock, RevokeExec, RevokeFails, Note, tables
<1>3. \A s \in Serials : signed'[s] # signed[s] =>
         signed[s] # None /\ signed'[s].order = signed[s].order
  <2>1. CASE RevokeExec(w)
    <3>1. signed[job[w].serial] # None /\ job[w].serial \in Serials
      BY <1>1, <2>1 DEF RevokeExec, Valid, TInv, JobsFit, Fits, Revoking
    <3>2. signed[job[w].serial] \in Certificate
      BY <1>1, <3>1 DEF TInv, TypeOK
    <3>. QED
      BY <1>1, <2>1, <3>1, <3>2 DEF RevokeExec, TInv, TypeOK, Certificate
  <2>2. CASE ~RevokeExec(w)
    BY <2>2 DEF RevokeStart, RevokeLock, RevokeFails, Note, ca
  <2>. QED
    BY <2>1, <2>2
<1>4. RowsProved' /\ Grows
  BY <1>2 DEF PInv, RowsProved, Live, Advanced, AllProved, Grows
<1>5. IssuedIsAuthorized'
  BY <1>2, <1>3 DEF PInv, IssuedIsAuthorized
<1>6. WorkersProved'
  <2>1. CASE Done(w)
    BY <1>1, <1>4, <2>1, WorkersDone
  <2>2. CASE \E label \in Revoking : Goto(w, label)
    <3>1. PICK label \in Revoking : Goto(w, label)
      BY <2>2
    <3>2. WorkerProved(label, job[w])'
      BY DEF WorkerProved, Claiming, Challenging, Finalizing, Revoking
    <3>. QED
      BY <1>1, <1>4, <3>1, <3>2, WorkersGoto
  <2>3. CASE RevokeStart(w)
    <3>1. PICK c \in recorded :
            Begin(w, "revoke", [NoJob EXCEPT !.serial = c[2]])
      BY <2>3 DEF RevokeStart
    <3>2. WorkerProved("revoke", [NoJob EXCEPT !.serial = c[2]])'
      BY DEF WorkerProved, Claiming, Challenging, Finalizing
    <3>. QED
      BY <1>1, <1>4, <3>1, <3>2, WorkersStep DEF Begin
  <2>. QED
    BY <2>1, <2>2, <2>3 DEF RevokeLock, RevokeExec, RevokeFails, Note, Revoking
<1>. QED
  BY <1>1, <1>4, <1>5, <1>6 DEF PInv

\* newOrder starts an order without validations, the collector removes an
\* order with its authorizations, a restart forgets the handlers.
LEMMA OtherProved ==
    ASSUME PInv,
           \/ Tick \/ GC \/ Crash \/ OperatorIssue \/ OperatorRevoke
           \/ \E o \in Orders : NewOrder(o)
    PROVE  PInv'
<1>1. TInv /\ TInv' /\ WorkersProved
  BY OtherTypes DEF PInv
<1>2. ASSUME Grows, UNCHANGED workers PROVE WorkersProved'
  <2>1. ASSUME NEW w \in Workers PROVE WorkerProved(pc[w], job[w])'
    <3>1. PICK label, j : label = pc[w] /\ j = job[w]
      OBVIOUS
    <3>2. Fits(label, j) /\ WorkerProved(label, j)
      BY <1>1, <3>1 DEF TInv, JobsFit, WorkersProved
    <3>3. WorkerProved(label, j)'
      BY <1>2, <3>2, WorkerStays
    <3>4. pc'[w] = label /\ job'[w] = j
      BY <1>2, <3>1 DEF workers
    <3>. QED
      BY <3>3, <3>4 DEF WorkerProved
  <2>. QED
    BY <2>1 DEF WorkersProved
<1>3. CASE Tick
  BY <1>1, <1>2, <1>3, TablesStay DEF Tick, tables, ca, PInv
<1>4. CASE GC
  <2>1. Grows
    BY <1>1, <1>4, RowAssumption DEF GC, Grows, Collectable, Live
  <2>2. IssuedIsAuthorized'
    BY <1>4 DEF GC, ca, PInv, IssuedIsAuthorized
  <2>3. \A o \in Orders : \/ order'[o] = order[o] /\ ~Collectable(o)
                          \/ order'[o] = Gone /\ Collectable(o)
    BY <1>4 DEF GC
  <2>4. \A a \in Authzs : a[1] \in Orders
    BY DEF Authzs
  <2>5. \A a \in Authzs : \/ authz'[a] = authz[a] /\ ~Collectable(a[1])
                          \/ authz'[a] = "absent" /\ Collectable(a[1])
    BY <1>4 DEF GC
  <2>6. \A o \in Orders : Collectable(o) => ~Live(o)'
    BY <2>3 DEF Live
  <2>7. \A o \in Orders : ~Collectable(o) =>
          (Advanced(o)' <=> Advanced(o)) /\ (Live(o)' <=> Live(o))
    BY <2>3 DEF Advanced, Live
  <2>8. \A o \in Orders : AllProved(o) => AllProved(o)'
    BY <1>4 DEF GC, AllProved
  <2>9. RowsProved'
    BY <1>4, <2>4, <2>5, <2>6, <2>7, <2>8 DEF PInv, RowsProved, Advanced, GC
  <2>. QED
    BY <1>1, <1>2, <1>4, <2>1, <2>2, <2>9 DEF PInv, GC
<1>5. CASE Crash
  <2>1. RowsProved' /\ IssuedIsAuthorized' /\ Grows
    BY <1>1, <1>5, TablesStay DEF Crash, tables
  <2>2. WorkersProved'
    BY <1>5 DEF Crash, WorkersProved, WorkerProved, Claiming, Challenging, Finalizing
  <2>. QED
    BY <1>1, <2>1, <2>2 DEF PInv
<1>6. CASE OperatorIssue
  <2>1. RowsProved' /\ IssuedIsAuthorized' /\ Grows
    BY <1>1, <1>6, SigningProved DEF OperatorIssue, tables
  <2>. QED
    BY <1>1, <1>2, <1>6, <2>1 DEF OperatorIssue, PInv
<1>7. CASE OperatorRevoke
  <2>1. PICK s \in Serials :
          Valid(s) /\ signed' = [signed EXCEPT ![s].revoked = "operator"]
    BY <1>7 DEF OperatorRevoke
  <2>2. signed[s] \in Certificate /\ signed[s] # None
    BY <1>1, <2>1 DEF Valid, TInv, TypeOK
  <2>3. \A r \in Serials : signed'[r] # signed[r] =>
          signed[r] # None /\ signed'[r].order = signed[r].order
    BY <1>1, <2>1, <2>2 DEF TInv, TypeOK, Certificate
  <2>4. UNCHANGED <<order, authz, proved>>
    BY <1>7 DEF OperatorRevoke, tables
  <2>5. RowsProved' /\ Grows
    BY <2>4 DEF PInv, RowsProved, Live, Advanced, AllProved, Grows
  <2>6. IssuedIsAuthorized'
    BY <2>3, <2>4 DEF PInv, IssuedIsAuthorized
  <2>. QED
    BY <1>1, <1>2, <1>7, <2>5, <2>6 DEF OperatorRevoke, PInv
<1>8. CASE \E o \in Orders : NewOrder(o)
  <2>1. PICK o \in Orders : NewOrder(o)
    BY <1>8
  <2>2. [status |-> "pending", cert |-> None, expires |-> clock + OrderTTL]
          \in OrderRow
    BY TimeAssumption, <1>1 DEF TInv, TypeOK, OrderRow
  <2>3. order'[o] = [status |-> "pending", cert |-> None,
                     expires |-> clock + OrderTTL]
    BY <1>1, <2>1 DEF NewOrder, TInv, TypeOK
  <2>4. \A p \in Orders : p # o => order'[p] = order[p]
    BY <1>1, <2>1 DEF NewOrder, TInv, TypeOK
  <2>5. Live(o)' /\ ~Advanced(o)'
    BY <2>2, <2>3, RowAssumption DEF Live, Advanced
  <2>6. \A p \in Orders : p # o => (Advanced(p)' <=> Advanced(p))
                                     /\ (Live(p)' <=> Live(p))
    BY <2>4 DEF Advanced, Live
  <2>7. Grows
    BY <2>1, <2>4 DEF Grows, NewOrder
  <2>8. \A a \in Authzs : authz'[a] =
          IF a[1] = o THEN "pending" ELSE authz[a]
    BY <2>1 DEF NewOrder
  <2>9. \A a \in Authzs : a[1] \in Orders
    BY DEF Authzs
  <2>10. RowsProved'
    BY <2>1, <2>5, <2>6, <2>8, <2>9 DEF PInv, RowsProved, AllProved, NewOrder
  <2>11. IssuedIsAuthorized'
    BY <2>1 DEF NewOrder, ca, PInv, IssuedIsAuthorized
  <2>. QED
    BY <1>1, <1>2, <2>1, <2>7, <2>10, <2>11 DEF NewOrder, PInv
<1>. QED
  BY <1>3, <1>4, <1>5, <1>6, <1>7, <1>8

\* Nothing is issued in an empty database.
THEOREM ProvedInit == Init => PInv
<1>. SUFFICES ASSUME Init PROVE PInv
  OBVIOUS
<1>1. TInv
  BY TypeInit
<1>2. \A o \in Orders : ~Live(o) /\ ~Advanced(o)
  BY DEF Init, Live, Advanced
<1>3. \A a \in Authzs : a[1] \in Orders
  BY DEF Authzs
<1>4. RowsProved
  BY <1>2, <1>3 DEF Init, RowsProved
<1>5. WorkersProved
  BY DEF Init, WorkersProved, WorkerProved, Claiming, Challenging, Finalizing
<1>. QED
  BY <1>1, <1>4, <1>5 DEF Init, PInv, IssuedIsAuthorized

\* Every step keeps issuance backed by validations.
THEOREM ProvedStep == PInv /\ [Next]_vars => PInv'
<1>. SUFFICES ASSUME PInv, [Next]_vars PROVE PInv'
  OBVIOUS
<1>1. CASE UNCHANGED vars
  <2>1. TInv'
    BY <1>1, TypeStep DEF PInv
  <2>. QED
    BY <1>1, <2>1 DEF PInv, RowsProved, WorkersProved, WorkerProved, Live,
       Advanced, AllProved, IssuedIsAuthorized, vars, tables, ca, workers
<1>2. CASE Next
  BY <1>2, ChallengeProved, FinalizeProved, ReadProved, RevokeProved, OtherProved
  DEF Next, Start, Lock, Step, ReadsFirst
<1>. QED
  BY <1>1, <1>2

\* No certificate is signed for an order before control of each of its
\* identifiers was validated, whatever requests run together and whatever
\* fails (handleChallenge, handleFinalize).
THEOREM IssuanceIsAuthorized == Spec => []IssuedIsAuthorized
<1>1. Spec => []PInv
  BY ProvedInit, ProvedStep, PTL DEF Spec
<1>. QED
  BY <1>1, PTL DEF PInv

-----------------------------------------------------------------------------
(* What one step of a handler may do, for the proofs that follow *)

\* The labels a handler goes on from and to, with the job it has.
Succession ==
    {<<"validate", "authz_valid">>, <<"validate", "authz_invalid">>,
     <<"authz_invalid", "order_invalid">>, <<"authz_valid", "scan">>,
     <<"scan", "order_ready">>, <<"issue", "sign">>, <<"sign", "chain">>,
     <<"sign", "failed">>, <<"chain", "record">>, <<"chain", "failed">>,
     <<"record", "order_valid">>, <<"revoke", "revoke_exec">>,
     <<"revoke_exec", "note">>}

Control(w) ==
    \/ pc'[w] \in {"idle"} \cup Claiming
    \/ ChallengeClaim(w) /\ pc'[w] = "validate" /\ job'[w] = job[w]
    \/ FinalizeClaim(w) /\ pc'[w] = "issue" /\ job'[w] = job[w]
    \/ RevokeStart(w) /\ pc'[w] = "revoke"
    \/ /\ <<pc[w], pc'[w]>> \in Succession
       /\ job'[w].order = job[w].order /\ job'[w].name = job[w].name
       /\ pc[w] = "scan" => AllValid(job[w].order)

\* An order's status is written by a claim or by a handler that ends.
OrderMove(w, o) ==
    \/ order'[o] = order[o]
    \/ /\ Live(o) /\ Live(o)'
       /\ \/ /\ FinalizeClaim(w) /\ pc'[w] = "issue" /\ job'[w].order = o
             /\ order[o].status = "ready" /\ order'[o].status = "processing"
          \/ /\ job[w].order = o /\ pc'[w] = "idle"
             /\ \/ pc[w] \in {"order_invalid", "failed"}
                      /\ order'[o].status = "invalid"
                \/ pc[w] = "order_ready" /\ order'[o].status = "ready"
                \/ /\ pc[w] = "order_valid" /\ order'[o].status = "valid"
                   /\ order'[o].cert = job[w].serial

AuthzMove(w, a) ==
    \/ authz'[a] = authz[a]
    \/ /\ a = AuthzOf(w) /\ authz[a] # "absent"
       /\ \/ pc[w] = "authz_valid" /\ authz'[a] = "valid"
          \/ pc[w] = "authz_invalid" /\ authz'[a] = "invalid"

\* A challenge is claimed at the start, and decided by who claimed it.
ChallengeMove(w, k) ==
    \/ chall'[k] = chall[k]
    \/ ChallengeClaim(w)
    \/ /\ pc[w] = "validate" /\ k = ChallengeOf(w)
       /\ chall[k] # "absent" /\ chall'[k] \in {"valid", "invalid"}

Does(w) ==
    /\ \A v \in Workers : v # w => pc'[v] = pc[v] /\ job'[v] = job[v]
    /\ Control(w)
    /\ \A o \in Orders : OrderMove(w, o)
    /\ \A a \in Authzs : AuthzMove(w, a)
    /\ \A k \in Challenges : ChallengeMove(w, k)

LEMMA StatusWrite ==
    ASSUME TypeOK, NEW o \in Orders, NEW st \in {"ready", "valid", "invalid"},
           NEW cert \in Serials \cup {None},
           order' \in Attempted(WithStatus(o, st, cert), order)
    PROVE  \A q \in Orders :
              \/ order'[q] = order[q]
              \/ /\ q = o /\ Live(q) /\ Live(q)' /\ order'[q].status = st
                 /\ order'[q].cert = cert
<1>1. CASE order' = order
  BY <1>1
<1>2. CASE order' # order
  <2>1. Live(o) /\ order' = [order EXCEPT ![o].status = st, ![o].cert = cert]
    BY <1>2 DEF Attempted, WithStatus
  <2>2. order[o] \in OrderRow
    BY <2>1 DEF TypeOK, Live
  <2>3. /\ \A q \in Orders : q # o => order'[q] = order[q]
        /\ order'[o] = [order[o] EXCEPT !.status = st, !.cert = cert]
    BY <2>1 DEF TypeOK
  <2>4. order'[o] \in OrderRow /\ order'[o].status = st /\ order'[o].cert = cert
    BY <2>2, <2>3 DEF OrderRow
  <2>5. Live(o)'
    BY <2>4, RowAssumption DEF Live
  <2>. QED
    BY <2>1, <2>3, <2>4, <2>5
<1>. QED
  BY <1>1, <1>2

LEMMA GoesOn ==
    ASSUME TypeOK, NEW w \in Workers, NEW label, Goto(w, label)
    PROVE  /\ \A v \in Workers : v # w => pc'[v] = pc[v] /\ job'[v] = job[v]
           /\ pc'[w] = label /\ job'[w] = job[w]
BY DEF TypeOK, Goto

LEMMA Ends ==
    ASSUME TypeOK, NEW w \in Workers, Done(w)
    PROVE  /\ \A v \in Workers : v # w => pc'[v] = pc[v] /\ job'[v] = job[v]
           /\ pc'[w] = "idle"
BY DEF TypeOK, Done

LEMMA Begins ==
    ASSUME TypeOK, NEW w \in Workers, NEW label, NEW j, Begin(w, label, j)
    PROVE  /\ \A v \in Workers : v # w => pc'[v] = pc[v] /\ job'[v] = job[v]
           /\ pc'[w] = label /\ job'[w] = j /\ pc[w] = "idle"
BY DEF TypeOK, Begin

\* A claim is of what the handler read before (ClaimChallenge).
LEMMA ChallengeClaimed ==
    ASSUME TInv, NEW w \in Workers, ChallengeClaim(w)
    PROVE  \E k \in Challenges :
              /\ k = ChallengeOf(w) /\ <<k[1], k[2]>> = AuthzOf(w)
              /\ k = <<k[1], k[2], k[3]>>
              /\ k[1] = job[w].order /\ k[2] = job[w].name /\ k[3] = job[w].type
              /\ ClaimableChallenge(k)
              /\ chall' = [chall EXCEPT ![k] = "processing"]
              /\ pc[w] = "claim_challenge" /\ pc'[w] = "validate" /\ job'[w] = job[w]
<1>1. ChallengeOf(w) \in Challenges /\ pc[w] = "claim_challenge"
  BY ChallengeFits DEF ChallengeClaim, TInv, JobsFit
<1>2. pc'[w] = "validate" /\ job'[w] = job[w]
  BY GoesOn DEF ChallengeClaim, TInv
<1>. QED
  BY <1>1, <1>2 DEF ChallengeClaim, ChallengeOf, AuthzOf

\* A claim is of the order the handler read before (ClaimOrder).
LEMMA OrderClaimed ==
    ASSUME TInv, NEW w \in Workers, FinalizeClaim(w)
    PROVE  \E o \in Orders :
              /\ o = job[w].order /\ ClaimableOrder(o)
              /\ order' = [order EXCEPT ![o].status = "processing"]
              /\ pc[w] = "claim_order" /\ pc'[w] = "issue" /\ job'[w] = job[w]
<1>1. job[w].order \in Orders /\ pc[w] = "claim_order"
  BY DEF FinalizeClaim, TInv, JobsFit, Fits, Claiming
<1>2. pc'[w] = "issue" /\ job'[w] = job[w]
  BY GoesOn DEF FinalizeClaim, TInv
<1>. QED
  BY <1>1, <1>2 DEF FinalizeClaim

\* The handler of challenges (handleChallenge).
LEMMA ChallengeDoes ==
    ASSUME TInv, TInv', NEW w \in Workers,
           \/ ChallengeClaim(w) \/ ValidateOk(w) \/ ValidateBad(w)
           \/ AuthzInvalid(w) \/ OrderInvalid(w) \/ AuthzValid(w)
           \/ Scan(w) \/ OrderReady(w)
    PROVE  Does(w)
<1>1. /\ TypeOK /\ TypeOK'
      /\ pc[w] \in Challenging => job[w].order \in Orders
  BY DEF TInv, JobsFit, Fits, Authzs
<1>2. CASE ChallengeClaim(w)
  <2>1. /\ \A v \in Workers : v # w => pc'[v] = pc[v] /\ job'[v] = job[v]
        /\ pc'[w] = "validate" /\ job'[w] = job[w]
    BY <1>1, <1>2, GoesOn DEF ChallengeClaim
  <2>. QED
    BY <1>2, <2>1 DEF Does, Control, OrderMove, AuthzMove, ChallengeMove,
                      ChallengeClaim
<1>3. CASE ValidateOk(w) \/ ValidateBad(w)
  <2>1. /\ \A v \in Workers : v # w => pc'[v] = pc[v] /\ job'[v] = job[v]
        /\ pc'[w] \in {"authz_valid", "authz_invalid"} /\ job'[w] = job[w]
    BY <1>1, <1>3, GoesOn DEF ValidateOk, ValidateBad
  <2>2. /\ pc[w] = "validate" /\ order' = order /\ authz' = authz
        /\ \/ chall' = chall
           \/ /\ chall[ChallengeOf(w)] # "absent"
              /\ \/ chall' = [chall EXCEPT ![ChallengeOf(w)] = "valid"]
                 \/ chall' = [chall EXCEPT ![ChallengeOf(w)] = "invalid"]
    BY <1>3 DEF ValidateOk, ValidateBad, Attempted, WithChallenge
  <2>3. \A k \in Challenges : ChallengeMove(w, k)
    BY <1>1, <2>2 DEF TypeOK, ChallengeMove
  <2>4. Control(w)
    BY <2>1, <2>2 DEF Control, Succession
  <2>. QED
    BY <2>1, <2>2, <2>3, <2>4 DEF Does, OrderMove, AuthzMove
<1>4. CASE AuthzInvalid(w) \/ AuthzValid(w)
  <2>1. /\ \A v \in Workers : v # w => pc'[v] = pc[v] /\ job'[v] = job[v]
        /\ <<pc[w], pc'[w]>> \in {<<"authz_invalid", "order_invalid">>,
                                   <<"authz_valid", "scan">>}
        /\ job'[w] = job[w] /\ pc[w] # "scan"
    BY <1>1, <1>4, GoesOn DEF AuthzInvalid, AuthzValid
  <2>2. /\ order' = order /\ chall' = chall
        /\ \/ authz' = authz
           \/ /\ authz[AuthzOf(w)] # "absent"
              /\ \/ /\ pc[w] = "authz_valid"
                    /\ authz' = [authz EXCEPT ![AuthzOf(w)] = "valid"]
                 \/ /\ pc[w] = "authz_invalid"
                    /\ authz' = [authz EXCEPT ![AuthzOf(w)] = "invalid"]
    BY <1>4 DEF AuthzInvalid, AuthzValid, Attempted, WithAuthz
  <2>3. \A a \in Authzs : AuthzMove(w, a)
    BY <1>1, <2>2 DEF TypeOK, AuthzMove
  <2>4. Control(w)
    BY <2>1 DEF Control, Succession
  <2>. QED
    BY <2>1, <2>2, <2>3, <2>4 DEF Does, OrderMove, ChallengeMove
<1>5. CASE Scan(w)
  <2>1. /\ \A v \in Workers : v # w => pc'[v] = pc[v] /\ job'[v] = job[v]
        /\ \/ pc'[w] = "idle"
           \/ pc'[w] = "order_ready" /\ job'[w] = job[w] /\ AllValid(job[w].order)
    BY <1>1, <1>5, GoesOn, Ends DEF Scan
  <2>2. pc[w] = "scan" /\ order' = order /\ authz' = authz /\ chall' = chall
    BY <1>5 DEF Scan, tables
  <2>3. Control(w)
    BY <2>1, <2>2 DEF Control, Succession
  <2>. QED
    BY <2>1, <2>2, <2>3 DEF Does, OrderMove, AuthzMove, ChallengeMove
<1>6. CASE OrderInvalid(w) \/ OrderReady(w)
  <2>1. /\ \A v \in Workers : v # w => pc'[v] = pc[v] /\ job'[v] = job[v]
        /\ pc'[w] = "idle"
    BY <1>1, <1>6, Ends DEF OrderInvalid, OrderReady
  <2>2. PICK st \in {"invalid", "ready"} :
          /\ order' \in Attempted(WithStatus(job[w].order, st, None), order)
          /\ pc[w] = IF st = "invalid" THEN "order_invalid" ELSE "order_ready"
          /\ authz' = authz /\ chall' = chall
    BY <1>6 DEF OrderInvalid, OrderReady
  <2>3. job[w].order \in Orders
    BY <1>1, <2>2 DEF Challenging
  <2>4. \A q \in Orders : order'[q] = order[q] \/ (/\ q = job[w].order /\ Live(q) /\ Live(q)'
                                                  /\ order'[q].status = st)
    BY <1>1, <2>2, <2>3, StatusWrite
  <2>5. \A q \in Orders : OrderMove(w, q)
    BY <2>1, <2>2, <2>4 DEF OrderMove
  <2>. QED
    BY <2>1, <2>2, <2>5 DEF Does, Control, AuthzMove, ChallengeMove
<1>. QED
  BY <1>2, <1>3, <1>4, <1>5, <1>6

\* The handler of finalize (handleFinalize).
LEMMA FinalizeDoes ==
    ASSUME TInv, TInv', NEW w \in Workers,
           \/ FinalizeClaim(w) \/ IssueLock(w) \/ Sign(w) \/ SignFails(w)
           \/ Chain(w) \/ ChainFails(w) \/ OrderFails(w) \/ Record(w)
           \/ OrderValid(w)
    PROVE  Does(w)
<1>1. /\ TypeOK /\ TypeOK'
      /\ pc[w] \in Finalizing => job[w].order \in Orders
      /\ pc[w] = "order_valid" => job[w].serial \in Serials
  BY DEF TInv, JobsFit, Fits
<1>2. authz' = authz /\ chall' = chall
  BY DEF FinalizeClaim, IssueLock, Sign, SignFails, Chain, ChainFails, OrderFails,
         Record, OrderValid, tables
<1>3. CASE FinalizeClaim(w)
  <2>1. PICK o \in Orders :
          /\ o = job[w].order /\ ClaimableOrder(o)
          /\ order' = [order EXCEPT ![o].status = "processing"]
          /\ Goto(w, "issue")
    BY <1>3 DEF FinalizeClaim, TInv, JobsFit, Fits, Claiming
  <2>2. /\ \A v \in Workers : v # w => pc'[v] = pc[v] /\ job'[v] = job[v]
        /\ pc'[w] = "issue" /\ job'[w] = job[w] /\ job'[w].order = o
    BY <1>1, <2>1, GoesOn
  <2>3. /\ Live(o) /\ order[o].status = "ready" /\ order[o] \in OrderRow
        /\ order'[o] = [order[o] EXCEPT !.status = "processing"]
        /\ \A q \in Orders : q # o => order'[q] = order[q]
    BY <1>1, <2>1 DEF ClaimableOrder, Live, TypeOK
  <2>4. order'[o].status = "processing" /\ Live(o)'
    <3>1. order'[o].status = "processing" /\ order'[o] \in OrderRow
      BY <2>3 DEF OrderRow
    <3>. QED
      BY <3>1, RowAssumption DEF Live
  <2>. QED
    BY <1>2, <1>3, <2>2, <2>3, <2>4
    DEF Does, Control, OrderMove, AuthzMove, ChallengeMove
<1>4. CASE IssueLock(w) \/ Sign(w) \/ SignFails(w) \/ ChainFails(w)
  <2>1. /\ \A v \in Workers : v # w => pc'[v] = pc[v] /\ job'[v] = job[v]
        /\ <<pc[w], pc'[w]>> \in {<<"issue", "sign">>, <<"sign", "chain">>,
                                   <<"sign", "failed">>, <<"chain", "failed">>}
        /\ job'[w] = job[w] /\ pc[w] # "scan"
    BY <1>1, <1>4, GoesOn DEF IssueLock, Sign, SignFails, ChainFails
  <2>2. order' = order
    BY <1>4 DEF IssueLock, Sign, SignFails, ChainFails, tables
  <2>3. Control(w)
    BY <2>1 DEF Control, Succession
  <2>. QED
    BY <1>2, <2>1, <2>2, <2>3 DEF Does, OrderMove, AuthzMove, ChallengeMove
<1>5. CASE Chain(w)
  <2>1. PICK s \in Serials : /\ pc' = [pc EXCEPT ![w] = "record"]
                            /\ job' = [job EXCEPT ![w].serial = s]
    BY <1>5 DEF Chain, Newest
  <2>2. /\ \A v \in Workers : v # w => pc'[v] = pc[v] /\ job'[v] = job[v]
        /\ pc'[w] = "record" /\ job[w] \in Job
        /\ job'[w] = [job[w] EXCEPT !.serial = s]
    BY <1>1, <2>1 DEF TypeOK
  <2>3. pc[w] = "chain" /\ order' = order
    BY <1>5 DEF Chain, tables
  <2>4. Control(w)
    BY <2>2, <2>3 DEF Control, Succession, Job
  <2>. QED
    BY <1>2, <2>2, <2>3, <2>4 DEF Does, OrderMove, AuthzMove, ChallengeMove
<1>6. CASE Record(w)
  <2>1. /\ \A v \in Workers : v # w => pc'[v] = pc[v] /\ job'[v] = job[v]
        /\ pc'[w] = "idle" \/ (pc'[w] = "order_valid" /\ job'[w] = job[w])
    BY <1>1, <1>6, GoesOn, Ends DEF Record
  <2>2. pc[w] = "record" /\ order' = order
    BY <1>6 DEF Record
  <2>3. Control(w)
    BY <2>1, <2>2 DEF Control, Succession
  <2>. QED
    BY <1>2, <2>1, <2>2, <2>3 DEF Does, OrderMove, AuthzMove, ChallengeMove
<1>7. CASE OrderFails(w) \/ OrderValid(w)
  <2>1. /\ \A v \in Workers : v # w => pc'[v] = pc[v] /\ job'[v] = job[v]
        /\ pc'[w] = "idle"
    BY <1>1, <1>7, Ends DEF OrderFails, OrderValid
  <2>2. \A q \in Orders : OrderMove(w, q)
    <3>1. CASE OrderFails(w)
      <4>1. /\ pc[w] = "failed" /\ job[w].order \in Orders
            /\ order' \in Attempted(WithStatus(job[w].order, "invalid", None), order)
        BY <1>1, <3>1 DEF OrderFails, Finalizing
      <4>2. \A q \in Orders :
              order'[q] = order[q] \/ (/\ q = job[w].order /\ Live(q) /\ Live(q)'
                                       /\ order'[q].status = "invalid")
        BY <1>1, <4>1, StatusWrite
      <4>. QED
        BY <2>1, <4>1, <4>2 DEF OrderMove
    <3>2. CASE OrderValid(w)
      <4>1. /\ pc[w] = "order_valid" /\ job[w].order \in Orders
            /\ job[w].serial \in Serials
            /\ order' \in Attempted(WithStatus(job[w].order, "valid", job[w].serial),
                                    order)
        BY <1>1, <3>2 DEF OrderValid, Finalizing
      <4>2. \A q \in Orders :
              order'[q] = order[q] \/ (/\ q = job[w].order /\ Live(q) /\ Live(q)'
                                       /\ order'[q].status = "valid"
                                       /\ order'[q].cert = job[w].serial)
        BY <1>1, <4>1, StatusWrite
      <4>. QED
        BY <2>1, <4>1, <4>2 DEF OrderMove
    <3>. QED
      BY <1>7, <3>1, <3>2
  <2>. QED
    BY <1>2, <2>1, <2>2 DEF Does, Control, AuthzMove, ChallengeMove
<1>. QED
  BY <1>3, <1>4, <1>5, <1>6, <1>7

\* The handler of revokeCert (handleRevokeCert).
LEMMA RevokeDoes ==
    ASSUME TInv, TInv', NEW w \in Workers,
           \/ RevokeStart(w) \/ RevokeLock(w) \/ RevokeExec(w)
           \/ RevokeFails(w) \/ Note(w)
    PROVE  Does(w)
<1>1. TypeOK
  BY DEF TInv
<1>2. order' = order /\ authz' = authz /\ chall' = chall
  BY DEF RevokeStart, RevokeLock, RevokeExec, RevokeFails, Note, tables
<1>3. CASE RevokeStart(w)
  <2>1. /\ \A v \in Workers : v # w => pc'[v] = pc[v] /\ job'[v] = job[v]
        /\ pc'[w] = "revoke"
    BY <1>1, <1>3, Begins DEF RevokeStart
  <2>. QED
    BY <1>2, <1>3, <2>1 DEF Does, Control, OrderMove, AuthzMove, ChallengeMove
<1>4. CASE RevokeLock(w) \/ RevokeExec(w) \/ RevokeFails(w) \/ Note(w)
  <2>1. /\ \A v \in Workers : v # w => pc'[v] = pc[v] /\ job'[v] = job[v]
        /\ \/ pc'[w] = "idle"
           \/ /\ <<pc[w], pc'[w]>> \in {<<"revoke", "revoke_exec">>,
                                         <<"revoke_exec", "note">>}
              /\ job'[w] = job[w] /\ pc[w] # "scan"
    BY <1>1, <1>4, GoesOn, Ends DEF RevokeLock, RevokeExec, RevokeFails, Note
  <2>2. Control(w)
    BY <2>1 DEF Control, Succession
  <2>. QED
    BY <1>2, <2>1, <2>2 DEF Does, OrderMove, AuthzMove, ChallengeMove
<1>. QED
  BY <1>3, <1>4

\* The reads before a claim (handleChallenge, handleFinalize).
LEMMA ReadDoes ==
    ASSUME TInv, NEW w \in Workers, ReadsFirst(w)
    PROVE  Does(w)
<1>1. PICK label \in {"idle"} \cup Claiming, j \in Job :
         /\ pc' = [pc EXCEPT ![w] = label]
         /\ job' = [job EXCEPT ![w] = j]
  BY ReadsFit DEF TInv
<1>2. /\ \A v \in Workers : v # w => pc'[v] = pc[v] /\ job'[v] = job[v]
      /\ pc'[w] \in {"idle"} \cup Claiming
  BY <1>1 DEF TInv, TypeOK
<1>. QED
  BY <1>2, ReadsNothingElse DEF Does, Control, OrderMove, AuthzMove, ChallengeMove

LEMMA HandlerDoes ==
    ASSUME TInv, TInv', NEW w \in Workers, Start(w) \/ Lock(w) \/ Step(w)
    PROVE  Does(w)
BY ChallengeDoes, FinalizeDoes, ReadDoes, RevokeDoes DEF Start, Lock, Step, ReadsFirst

-----------------------------------------------------------------------------
(* One validation per authorization *)

\* A challenge of the authorization has been attempted.
Claimed(a) == \E t \in TypesOf[a[2]] : chall[<<a[1], a[2], t>>] # "pending"

\* Who validates has claimed the challenge, nobody else is at the same
\* authorization, and an order moves on through a claim alone.
ClaimHeld == \A w \in Workers : pc[w] = "validate" => chall[ChallengeOf(w)] # "pending"
ClaimLasts == \A w \in Workers : pc[w] \in Challenging => Claimed(AuthzOf(w))
Apart ==
    \A v, w \in Workers :
        v # w /\ pc[v] \in Challenging /\ pc[w] \in Challenging
        => AuthzOf(v) # AuthzOf(w)
Begun(o) == \E n \in Identifiers[o] : Claimed(<<o, n>>)
Touched ==
    /\ \A o \in Orders : Live(o) /\ order[o].status # "pending" => Begun(o)
    /\ \A w \in Workers : pc[w] \in Finalizing => Begun(job[w].order)

Claims == ClaimHeld /\ ClaimLasts /\ Apart /\ Touched /\ OneValidation

\* The challenges of an authorization are rows of the table.
LEMMA Rows ==
    ASSUME NEW a \in Authzs, NEW t \in TypesOf[a[2]]
    PROVE  <<a[1], a[2], t>> \in Challenges
<1>1. a[1] \in Orders /\ a[2] \in Names /\ a[2] \in Identifiers[a[1]]
  BY DEF Authzs
<1>2. t \in Types
  BY <1>1, OrderAssumption
<1>. QED
  BY <1>1, <1>2 DEF Challenges

\* When no challenge becomes pending again or is attempted anew, and every
\* handler of challenges was one before, the claims stay.
LEMMA ClaimsStay ==
    ASSUME TInv, TInv', Claims,
           \A k \in Challenges :
              /\ chall[k] # "pending" => chall'[k] # "pending"
              /\ chall[k] \in {"absent", "pending"} => chall'[k] \in {"absent", "pending"},
           \A v \in Workers : pc'[v] \in Challenging =>
              /\ pc[v] \in Challenging
              /\ job'[v].order = job[v].order /\ job'[v].name = job[v].name
              /\ pc'[v] = "validate" => pc[v] = "validate" /\ job'[v] = job[v],
           \A o \in Orders : Live(o)' /\ order'[o].status # "pending" =>
              \/ Live(o) /\ order[o].status # "pending"
              \/ \E v \in Workers : /\ pc[v] \in Challenging \cup Finalizing
                                    /\ job[v].order = o,
           \A v \in Workers : pc'[v] \in Finalizing =>
              \/ pc[v] \in Finalizing /\ job'[v].order = job[v].order
              \/ Live(job'[v].order) /\ order[job'[v].order].status # "pending"
    PROVE  Claims'
<1>1. \A a \in Authzs : Claimed(a) => Claimed(a)'
  BY Rows DEF Claimed
<1>2. \A v \in Workers :
        /\ pc[v] \in Challenging => AuthzOf(v) \in Authzs
        /\ pc[v] = "validate" => ChallengeOf(v) \in Challenges
  BY DEF TInv, JobsFit, Fits, AuthzOf, ChallengeOf
<1>3. \A v \in Workers : pc'[v] \in Challenging =>
        pc[v] \in Challenging /\ AuthzOf(v)' = AuthzOf(v)
  BY DEF AuthzOf
<1>4. ClaimHeld'
  <2>. SUFFICES ASSUME NEW v \in Workers, pc'[v] = "validate"
                PROVE  chall'[ChallengeOf(v)'] # "pending"
    BY DEF ClaimHeld
  <2>1. pc[v] = "validate" /\ ChallengeOf(v)' = ChallengeOf(v)
    BY DEF Challenging, ChallengeOf
  <2>. QED
    BY <1>2, <2>1 DEF Claims, ClaimHeld
<1>5. ClaimLasts'
  <2>. SUFFICES ASSUME NEW v \in Workers, pc'[v] \in Challenging
                PROVE  Claimed(AuthzOf(v))'
    BY DEF ClaimLasts
  <2>1. PICK a \in Authzs : a = AuthzOf(v) /\ a = AuthzOf(v)'
    BY <1>2, <1>3
  <2>2. Claimed(a)
    BY <1>3, <2>1 DEF Claims, ClaimLasts
  <2>3. Claimed(a)'
    BY <1>1, <2>2
  <2>. QED
    BY <2>1, <2>3 DEF Claimed
<1>6. Apart'
  BY <1>3 DEF Claims, Apart
<1>7. Touched'
  <2>1. ASSUME NEW o \in Orders, Begun(o) PROVE Begun(o)'
    <3>1. \A n \in Identifiers[o] : <<o, n>> \in Authzs
      BY OrderAssumption DEF Authzs
    <3>. QED
      BY <1>1, <2>1, <3>1 DEF Begun
  <2>2. ASSUME NEW v \in Workers, pc[v] \in Challenging
        PROVE  job[v].order \in Orders /\ Begun(job[v].order)
    <3>1. AuthzOf(v) \in Authzs /\ Claimed(AuthzOf(v))
      BY <1>2, <2>2 DEF Claims, ClaimLasts
    <3>. QED
      BY <3>1 DEF AuthzOf, Authzs, Begun
  <2>3. ASSUME NEW v \in Workers, pc[v] \in Finalizing
        PROVE  job[v].order \in Orders /\ Begun(job[v].order)
    BY <2>3 DEF TInv, JobsFit, Fits, Claims, Touched
  <2>4. ASSUME NEW o \in Orders, Live(o)', order'[o].status # "pending" PROVE Begun(o)'
    <3>1. CASE Live(o) /\ order[o].status # "pending"
      BY <2>1, <3>1 DEF Claims, Touched
    <3>2. ASSUME NEW v \in Workers, pc[v] \in Challenging \cup Finalizing, job[v].order = o
          PROVE  Begun(o)'
      BY <2>1, <2>2, <2>3, <3>2
    <3>. QED
      BY <2>4, <3>1, <3>2
  <2>5. ASSUME NEW v \in Workers, pc'[v] \in Finalizing PROVE Begun(job[v].order)'
    <3>1. PICK o \in Orders : o = job'[v].order
      BY <2>5 DEF TInv, JobsFit, Fits
    <3>2. Begun(o)
      BY <2>3, <2>5, <3>1 DEF Claims, Touched
    <3>3. Begun(o)'
      BY <2>1, <3>2
    <3>. QED
      BY <3>1, <3>3 DEF Begun, Claimed
  <2>. QED
    BY <2>4, <2>5 DEF Touched
<1>8. OneValidation'
  BY Rows DEF Claims, OneValidation
<1>. QED
  BY <1>4, <1>5, <1>6, <1>7, <1>8 DEF Claims

\* A request that claims a challenge (ClaimChallenge).
LEMMA ClaimMakesClaims ==
    ASSUME TInv, TInv', Claims, NEW w \in Workers, ChallengeClaim(w), Does(w)
    PROVE  Claims'
<1>1. PICK k \in Challenges :
        /\ k = ChallengeOf(w) /\ <<k[1], k[2]>> = AuthzOf(w)
        /\ k = <<k[1], k[2], k[3]>>
        /\ ClaimableChallenge(k)
        /\ chall' = [chall EXCEPT ![k] = "processing"]
        /\ pc'[w] = "validate" /\ job'[w] = job[w]
  BY ChallengeClaimed
<1>2. /\ k = <<k[1], k[2], k[3]>> /\ k[1] \in Orders /\ k[2] \in Identifiers[k[1]]
      /\ k[3] \in TypesOf[k[2]] /\ <<k[1], k[2]>> \in Authzs
  BY DEF Challenges, Authzs
<1>. DEFINE a0 == <<k[1], k[2]>>
<1>3. /\ \A v \in Workers : v # w => pc'[v] = pc[v] /\ job'[v] = job[v]
      /\ pc'[w] = "validate" /\ AuthzOf(w)' = a0 /\ ChallengeOf(w)' = k
  BY <1>1 DEF Does, AuthzOf, ChallengeOf
<1>4. /\ order' = order /\ chall'[k] = "processing"
      /\ \A c \in Challenges : c # k => chall'[c] = chall[c]
  BY <1>1 DEF ChallengeClaim, TInv, TypeOK
<1>5. \A t \in TypesOf[k[2]] : chall[<<k[1], k[2], t>>] = "pending"
  BY <1>1 DEF ClaimableChallenge
<1>6. ~Claimed(a0)
  BY <1>5 DEF Claimed
<1>7. \A a \in Authzs : Claimed(a) => Claimed(a)'
  BY <1>4, Rows DEF Claimed
<1>8. \A v \in Workers : v # w =>
        AuthzOf(v)' = AuthzOf(v) /\ ChallengeOf(v)' = ChallengeOf(v)
  BY <1>3 DEF AuthzOf, ChallengeOf
<1>9. \A v \in Workers :
        /\ pc[v] \in Challenging => AuthzOf(v) \in Authzs
        /\ pc[v] = "validate" => ChallengeOf(v) \in Challenges
  BY DEF TInv, JobsFit, Fits, AuthzOf, ChallengeOf
<1>10. ClaimHeld'
  <2>. SUFFICES ASSUME NEW v \in Workers, pc'[v] = "validate"
                PROVE  chall'[ChallengeOf(v)'] # "pending"
    BY DEF ClaimHeld
  <2>1. CASE v = w
    BY <1>3, <1>4, <2>1
  <2>2. CASE v # w
    BY <1>3, <1>4, <1>8, <1>9, <2>2 DEF Claims, ClaimHeld
  <2>. QED
    BY <2>1, <2>2
<1>11. ClaimLasts'
  <2>. SUFFICES ASSUME NEW v \in Workers, pc'[v] \in Challenging
                PROVE  Claimed(AuthzOf(v))'
    BY DEF ClaimLasts
  <2>1. CASE v = w
    <3>1. Claimed(a0)'
      BY <1>2, <1>4 DEF Claimed
    <3>. QED
      BY <1>3, <2>1, <3>1 DEF Claimed
  <2>2. CASE v # w
    <3>1. PICK a \in Authzs : a = AuthzOf(v) /\ a = AuthzOf(v)'
      BY <1>3, <1>8, <1>9, <2>2
    <3>2. Claimed(a)
      BY <1>3, <2>2, <3>1 DEF Claims, ClaimLasts
    <3>3. Claimed(a)'
      BY <1>7, <3>2
    <3>. QED
      BY <3>1, <3>3 DEF Claimed
  <2>. QED
    BY <2>1, <2>2
<1>12. Apart'
  <2>1. ASSUME NEW v \in Workers, v # w, pc'[v] \in Challenging
        PROVE  AuthzOf(v)' # a0
    <3>1. Claimed(AuthzOf(v))
      BY <1>3, <2>1 DEF Claims, ClaimLasts
    <3>. QED
      BY <1>6, <1>8, <2>1, <3>1
  <2>2. ASSUME NEW u \in Workers, NEW v \in Workers, u # v, pc'[u] \in Challenging,
               pc'[v] \in Challenging
        PROVE  AuthzOf(u)' # AuthzOf(v)'
    <3>1. CASE u # w /\ v # w
      BY <1>3, <1>8, <2>2, <3>1 DEF Claims, Apart
    <3>2. CASE u = w
      BY <1>3, <2>1, <2>2, <3>2
    <3>3. CASE v = w
      BY <1>3, <2>1, <2>2, <3>3
    <3>. QED
      BY <3>1, <3>2, <3>3
  <2>. QED
    BY <2>2 DEF Apart
<1>13. Touched'
  <2>1. \A o \in Orders : \A n \in Identifiers[o] : <<o, n>> \in Authzs
    BY OrderAssumption DEF Authzs
  <2>2. \A o \in Orders : Begun(o) => Begun(o)'
    BY <1>7, <2>1 DEF Begun
  <2>3. \A o \in Orders : Live(o)' /\ order'[o].status # "pending" => Begun(o)'
    BY <1>4, <2>2 DEF Claims, Touched, Live
  <2>4. ASSUME NEW v \in Workers, pc'[v] \in Finalizing PROVE Begun(job[v].order)'
    <3>1. pc[v] \in Finalizing /\ job'[v] = job[v]
      BY <1>3, <2>4 DEF Finalizing
    <3>2. PICK o \in Orders : o = job[v].order
      BY <3>1 DEF TInv, JobsFit, Fits
    <3>3. Begun(o)'
      BY <2>2, <3>1, <3>2 DEF Claims, Touched
    <3>. QED
      BY <3>1, <3>2, <3>3 DEF Begun, Claimed
  <2>. QED
    BY <2>3, <2>4 DEF Touched
<1>14. OneValidation'
  <2>. SUFFICES ASSUME NEW a \in Authzs, NEW t \in TypesOf[a[2]], NEW u \in TypesOf[a[2]],
                       chall'[<<a[1], a[2], t>>] \notin {"absent", "pending"},
                       chall'[<<a[1], a[2], u>>] \notin {"absent", "pending"}
                PROVE  t = u
    BY DEF OneValidation
  <2>1. <<a[1], a[2], t>> \in Challenges /\ <<a[1], a[2], u>> \in Challenges
    BY Rows
  <2>2. CASE a[1] = k[1] /\ a[2] = k[2]
    BY <1>2, <1>4, <1>5, <2>1, <2>2
  <2>3. CASE ~(a[1] = k[1] /\ a[2] = k[2])
    BY <1>2, <1>4, <2>1, <2>3 DEF Claims, OneValidation
  <2>. QED
    BY <2>2, <2>3
<1>. QED
  BY <1>10, <1>11, <1>12, <1>13, <1>14 DEF Claims

\* A handler's other steps.
LEMMA HandlerKeepsClaims ==
    ASSUME TInv, TInv', Claims, NEW w \in Workers, ~ChallengeClaim(w), Does(w)
    PROVE  Claims'
<1>1. \A k \in Challenges :
        /\ chall[k] # "pending" => chall'[k] # "pending"
        /\ chall[k] \in {"absent", "pending"} => chall'[k] \in {"absent", "pending"}
  BY DEF Does, ChallengeMove, Claims, ClaimHeld
<1>2. ASSUME NEW v \in Workers, pc'[v] \in Challenging
      PROVE  /\ pc[v] \in Challenging
             /\ job'[v].order = job[v].order /\ job'[v].name = job[v].name
             /\ pc'[v] = "validate" => pc[v] = "validate" /\ job'[v] = job[v]
  <2>1. CASE v # w
    BY <1>2, <2>1 DEF Does
  <2>2. CASE v = w
    <3>1. /\ <<pc[w], pc'[w]>> \in Succession
          /\ job'[w].order = job[w].order /\ job'[w].name = job[w].name
      BY <1>2, <2>2 DEF Does, Control, Claiming, Challenging
    <3>2. pc[w] \in Challenging /\ pc'[w] # "validate"
      BY <1>2, <2>2, <3>1 DEF Succession, Challenging
    <3>. QED
      BY <2>2, <3>1, <3>2
  <2>. QED
    BY <2>1, <2>2
<1>3. ASSUME NEW o \in Orders, Live(o)', order'[o].status # "pending"
      PROVE  \/ Live(o) /\ order[o].status # "pending"
             \/ \E v \in Workers : /\ pc[v] \in Challenging \cup Finalizing
                                   /\ job[v].order = o
  <2>1. CASE order'[o] = order[o]
    BY <1>3, <2>1 DEF Live
  <2>2. CASE order'[o] # order[o]
    <3>1. /\ Live(o)
          /\ \/ order[o].status = "ready"
             \/ /\ job[w].order = o
                /\ pc[w] \in {"order_invalid", "order_ready", "failed", "order_valid"}
      BY <2>2 DEF Does, OrderMove
    <3>. QED
      BY <3>1 DEF Challenging, Finalizing
  <2>. QED
    BY <2>1, <2>2
<1>4. ASSUME NEW v \in Workers, pc'[v] \in Finalizing
      PROVE  \/ pc[v] \in Finalizing /\ job'[v].order = job[v].order
             \/ Live(job'[v].order) /\ order[job'[v].order].status # "pending"
  <2>1. CASE v # w
    BY <1>4, <2>1 DEF Does
  <2>2. CASE v = w /\ FinalizeClaim(w)
    <3>1. PICK o \in Orders : o = job'[w].order /\ ClaimableOrder(o)
      BY <2>2, OrderClaimed
    <3>. QED
      BY <2>2, <3>1 DEF ClaimableOrder
  <2>3. CASE v = w /\ ~FinalizeClaim(w)
    <3>1. <<pc[w], pc'[w]>> \in Succession /\ job'[w].order = job[w].order
      BY <1>4, <2>3 DEF Does, Control, Claiming, Finalizing
    <3>. QED
      BY <1>4, <2>3, <3>1 DEF Succession, Finalizing
  <2>. QED
    BY <2>1, <2>2, <2>3
<1>. QED
  BY <1>1, <1>2, <1>3, <1>4, ClaimsStay

\* newOrder, the collector and a restart claim nothing.
LEMMA OthersKeepClaims ==
    ASSUME PInv, TInv', Claims,
           \/ Tick \/ GC \/ Crash \/ OperatorIssue \/ OperatorRevoke
           \/ \E o \in Orders : NewOrder(o)
    PROVE  Claims'
<1>1. TInv
  BY DEF PInv
<1>2. CASE Tick \/ OperatorIssue \/ OperatorRevoke \/ Crash
  <2>1. order' = order /\ chall' = chall
    BY <1>2 DEF Tick, OperatorIssue, OperatorRevoke, Crash, tables
  <2>2. \A v \in Workers : pc'[v] = "idle" \/ (pc'[v] = pc[v] /\ job'[v] = job[v])
    BY <1>2 DEF Tick, OperatorIssue, OperatorRevoke, Crash, workers
  <2>. QED
    BY <1>1, <2>1, <2>2, ClaimsStay DEF Live, Challenging, Finalizing
<1>3. CASE GC
  <2>1. \A k \in Challenges : chall'[k] \in {"absent", chall[k]}
    BY <1>3 DEF GC
  <2>2. \A o \in Orders : order'[o] \in {Gone, order[o]}
    BY <1>3 DEF GC
  <2>3. pc' = pc /\ job' = job
    BY <1>3 DEF GC, workers
  <2>. QED
    BY <1>1, <2>1, <2>2, <2>3, ClaimsStay DEF Live
<1>4. CASE \E o \in Orders : NewOrder(o)
  <2>1. PICK o \in Orders : NewOrder(o)
    BY <1>4
  <2>2. /\ order[o] = None /\ pc' = pc /\ job' = job
        /\ order'[o].status = "pending"
        /\ \A q \in Orders : q # o => order'[q] = order[q]
        /\ \A k \in Challenges : chall'[k] = IF k[1] = o THEN "pending" ELSE chall[k]
    BY <1>1, <2>1 DEF NewOrder, workers, TInv, TypeOK
  <2>3. \A v \in Workers : pc[v] \in Challenging \cup Finalizing => job[v].order # o
    BY <2>2 DEF PInv, WorkersProved, WorkerProved
  <2>4. \A a \in Authzs : a[1] # o => (Claimed(a) => Claimed(a)')
    BY <2>2, Rows DEF Claimed
  <2>5. \A v \in Workers : /\ AuthzOf(v)' = AuthzOf(v)
                          /\ ChallengeOf(v)' = ChallengeOf(v)
    BY <2>2 DEF AuthzOf, ChallengeOf
  <2>6. \A v \in Workers :
          /\ pc[v] \in Challenging => AuthzOf(v) \in Authzs /\ AuthzOf(v)[1] # o
          /\ pc[v] = "validate" => ChallengeOf(v) \in Challenges /\ ChallengeOf(v)[1] # o
    BY <1>1, <2>3 DEF TInv, JobsFit, Fits, AuthzOf, ChallengeOf, Challenging
  <2>7. ClaimHeld' /\ Apart'
    BY <2>2, <2>5, <2>6 DEF Claims, ClaimHeld, Apart
  <2>8. ClaimLasts'
    <3>. SUFFICES ASSUME NEW v \in Workers, pc'[v] \in Challenging
                  PROVE  Claimed(AuthzOf(v))'
      BY DEF ClaimLasts
    <3>1. PICK a \in Authzs : a = AuthzOf(v) /\ a = AuthzOf(v)' /\ a[1] # o
      BY <2>2, <2>5, <2>6
    <3>2. Claimed(a)'
      BY <2>2, <2>4, <3>1 DEF Claims, ClaimLasts
    <3>. QED
      BY <3>1, <3>2 DEF Claimed
  <2>9. Touched'
    <3>1. \A q \in Orders : \A n \in Identifiers[q] : <<q, n>> \in Authzs
      BY OrderAssumption DEF Authzs
    <3>2. \A q \in Orders : q # o /\ Begun(q) => Begun(q)'
      BY <2>4, <3>1 DEF Begun
    <3>3. \A q \in Orders : Live(q)' /\ order'[q].status # "pending" => Begun(q)'
      BY <2>2, <3>2 DEF Claims, Touched, Live
    <3>4. ASSUME NEW v \in Workers, pc'[v] \in Finalizing PROVE Begun(job[v].order)'
      <4>1. PICK q \in Orders : q = job[v].order /\ q # o
        BY <1>1, <2>2, <2>3, <3>4 DEF TInv, JobsFit, Fits
      <4>2. Begun(q)'
        BY <2>2, <3>2, <3>4, <4>1 DEF Claims, Touched
      <4>. QED
        BY <2>2, <4>1, <4>2 DEF Begun, Claimed
    <3>. QED
      BY <3>3, <3>4 DEF Touched
  <2>10. OneValidation'
    BY <2>2, Rows DEF Claims, OneValidation
  <2>. QED
    BY <2>7, <2>8, <2>9, <2>10 DEF Claims
<1>. QED
  BY <1>2, <1>3, <1>4

CInv == PInv /\ Claims

LEMMA ClaimsInit == Init => CInv
<1>. SUFFICES ASSUME Init PROVE CInv
  OBVIOUS
<1>1. PInv
  BY ProvedInit
<1>2. \A o \in Orders : ~Live(o)
  BY DEF Init, Live
<1>3. \A w \in Workers : pc[w] \notin Challenging \cup Finalizing
  BY DEF Init, Challenging, Finalizing
<1>4. OneValidation
  BY Rows DEF Init, OneValidation
<1>. QED
  BY <1>1, <1>2, <1>3, <1>4
  DEF CInv, Claims, ClaimHeld, ClaimLasts, Apart, Touched, Challenging

LEMMA ClaimsStep == CInv /\ [Next]_vars => CInv'
<1>. SUFFICES ASSUME CInv, [Next]_vars PROVE CInv'
  OBVIOUS
<1>1. PInv /\ PInv' /\ TInv /\ TInv' /\ Claims
  BY ProvedStep DEF CInv, PInv
<1>2. CASE UNCHANGED vars
  <2>1. order' = order /\ chall' = chall /\ pc' = pc /\ job' = job
    BY <1>2 DEF vars, tables, workers
  <2>. QED
    BY <1>1, <2>1, ClaimsStay DEF CInv, Live
<1>3. ASSUME NEW w \in Workers, Start(w) \/ Lock(w) \/ Step(w) PROVE CInv'
  BY <1>1, <1>3, HandlerDoes, ClaimMakesClaims, HandlerKeepsClaims DEF CInv
<1>4. CASE \/ Tick \/ GC \/ Crash \/ OperatorIssue \/ OperatorRevoke
           \/ \E o \in Orders : NewOrder(o)
  BY <1>1, <1>4, OthersKeepClaims DEF CInv
<1>. QED
  BY <1>2, <1>3, <1>4 DEF Next

\* "One validation per authorization": of the challenges of one authorization
\* at most one is ever attempted, for any number of concurrent requests
\* (ClaimChallenge).
THEOREM ValidationsAreSingle == Spec => []OneValidation
<1>1. CInv => OneValidation
  BY DEF CInv, Claims
<1>. QED
  BY <1>1, ClaimsInit, ClaimsStep, PTL DEF Spec

-----------------------------------------------------------------------------
(* A failed challenge is final *)

\* The authorizations of an order are all valid: they stay so as long as the
\* order is kept, since nobody is left to write them.
Settled(o) == \A n \in Identifiers[o] : authz[<<o, n>>] = "valid"

Collected == \A a \in Authzs : ~Live(a[1]) => authz[a] = "absent"
Earned ==
    /\ \A o \in Orders : Advanced(o) => Settled(o)
    /\ \A w \in Workers : pc[w] \in Finalizing \cup {"order_ready"}
                          /\ Live(job[w].order) => Settled(job[w].order)
Undecided ==
    \A w \in Workers : pc[w] \in {"validate", "authz_valid", "authz_invalid"} =>
        authz[AuthzOf(w)] \in {"pending", "absent"}

FInv == CInv /\ Collected /\ Earned /\ Undecided

LEMMA AuthzRows == ASSUME NEW o \in Orders, NEW n \in Identifiers[o]
                   PROVE  <<o, n>> \in Authzs
BY OrderAssumption DEF Authzs

LEMMA LiveKept ==
    ASSUME NEW w, Does(w), NEW o \in Orders PROVE Live(o)' <=> Live(o)
BY DEF Does, OrderMove, Live

\* No handler takes back a valid authorization.
LEMMA ValidKept ==
    ASSUME FInv, NEW w \in Workers, Does(w), NEW o \in Orders, Settled(o)
    PROVE  Settled(o)'
<1>. SUFFICES ASSUME NEW n \in Identifiers[o] PROVE authz'[<<o, n>>] = "valid"
  BY DEF Settled
<1>1. <<o, n>> \in Authzs /\ authz[<<o, n>>] = "valid"
  BY AuthzRows DEF Settled
<1>. QED
  BY <1>1 DEF Does, AuthzMove, FInv, Undecided

LEMMA HandlerKeepsDecisions ==
    ASSUME FInv, CInv', NEW w \in Workers, Start(w) \/ Lock(w) \/ Step(w)
    PROVE  FInv'
<1>1. /\ PInv /\ Claims /\ TInv /\ TInv' /\ TypeOK /\ Does(w)
  BY HandlerDoes DEF FInv, CInv, PInv, TInv
<1>2. \A o \in Orders : Live(o)' <=> Live(o)
  BY <1>1, LiveKept
<1>3. \A o \in Orders : Settled(o) => Settled(o)'
  BY <1>1, ValidKept
<1>4. \A v \in Workers :
        /\ pc[v] \in Finalizing \cup {"order_ready"} => job[v].order \in Orders
        /\ pc'[v] \in Finalizing \cup {"order_ready"} => job'[v].order \in Orders
  BY <1>1 DEF TInv, JobsFit, Fits, Challenging, Authzs
<1>5. Collected'
  <2>1. \A a \in Authzs : a[1] \in Orders
    BY DEF Authzs
  <2>2. \A a \in Authzs : authz[a] = "absent" => authz'[a] = "absent"
    BY <1>1 DEF Does, AuthzMove
  <2>. QED
    BY <1>2, <2>1, <2>2 DEF FInv, Collected
\* The scan of the authorizations of an order that is still there.
<1>6. ASSUME pc[w] = "scan", AllValid(job[w].order), Live(job[w].order)
      PROVE  Settled(job[w].order)
  <2>1. job[w].order \in Orders
    BY <1>1, <1>6 DEF TInv, JobsFit, Fits, Challenging, Authzs
  <2>. SUFFICES ASSUME NEW n \in Identifiers[job[w].order]
                PROVE  authz[<<job[w].order, n>>] = "valid"
    BY DEF Settled
  <2>2. <<job[w].order, n>> \in Authzs
    BY <2>1, AuthzRows
  <2>3. authz[<<job[w].order, n>>] # "absent"
    BY <1>1, <1>6, <2>2 DEF PInv, RowsProved
  <2>. QED
    BY <1>6, <2>3 DEF AllValid
<1>7. ASSUME NEW o \in Orders, Advanced(o)' PROVE Settled(o)'
  <2>1. CASE order'[o] = order[o]
    BY <1>2, <1>3, <1>7, <2>1 DEF Advanced, FInv, Earned
  <2>2. CASE order'[o] # order[o]
    <3>1. \/ Advanced(o)
          \/ /\ job[w].order = o /\ Live(o)
             /\ pc[w] \in {"order_ready", "order_valid"}
      BY <1>1, <1>7, <2>2 DEF Does, OrderMove, Advanced
    <3>. QED
      BY <1>3, <3>1 DEF FInv, Earned, Finalizing
  <2>. QED
    BY <2>1, <2>2
<1>8. ASSUME NEW v \in Workers, pc'[v] \in Finalizing \cup {"order_ready"},
             Live(job[v].order)'
      PROVE  Settled(job[v].order)'
  <2>1. PICK o \in Orders : o = job'[v].order
    BY <1>4, <1>8
  <2>2. Live(o)
    BY <1>2, <1>8, <2>1 DEF Live
  <2>3. Settled(o)
    <3>1. CASE v # w
      <4>1. pc'[v] = pc[v] /\ job'[v] = job[v]
        BY <1>1, <3>1 DEF Does
      <4>. QED
        BY <1>8, <2>1, <2>2, <4>1 DEF FInv, Earned
    <3>2. CASE v = w /\ FinalizeClaim(w)
      <4>1. PICK q \in Orders : q = job'[w].order /\ ClaimableOrder(q)
        BY <1>1, <3>2, OrderClaimed
      <4>. QED
        BY <2>1, <3>2, <4>1 DEF ClaimableOrder, Advanced, FInv, Earned
    <3>3. CASE v = w /\ ~FinalizeClaim(w)
      <4>1. /\ <<pc[w], pc'[w]>> \in Succession /\ job[w].order = o
            /\ pc[w] = "scan" => AllValid(o)
        BY <1>1, <1>8, <2>1, <3>3 DEF Does, Control, Claiming, Finalizing
      <4>2. pc[w] \in Finalizing \/ pc[w] = "scan"
        BY <1>8, <3>3, <4>1 DEF Succession, Finalizing
      <4>. QED
        BY <1>6, <2>2, <4>1, <4>2 DEF FInv, Earned
    <3>. QED
      BY <3>1, <3>2, <3>3
  <2>4. Settled(o)'
    BY <1>3, <2>3
  <2>. QED
    BY <2>1, <2>4 DEF Settled
<1>9. ASSUME NEW v \in Workers, pc'[v] \in {"validate", "authz_valid", "authz_invalid"}
      PROVE  authz'[AuthzOf(v)'] \in {"pending", "absent"}
  <2>1. CASE ChallengeClaim(w) /\ v = w
    <3>1. PICK k \in Challenges : /\ <<k[1], k[2]>> = AuthzOf(w)
                                  /\ ClaimableChallenge(k) /\ job'[w] = job[w]
      BY <1>1, <2>1, ChallengeClaimed
    <3>. QED
      BY <2>1, <3>1 DEF ClaimableChallenge, ChallengeClaim, AuthzOf
  <2>2. CASE ~(ChallengeClaim(w) /\ v = w)
    <3>1. /\ pc[v] \in {"validate", "authz_valid", "authz_invalid"}
          /\ AuthzOf(v)' = AuthzOf(v)
          /\ v = w => pc[w] = "validate"
      <4>1. CASE v # w
        BY <1>1, <1>9, <4>1 DEF Does, AuthzOf
      <4>2. CASE v = w
        <5>1. /\ <<pc[w], pc'[w]>> \in Succession
              /\ job'[w].order = job[w].order /\ job'[w].name = job[w].name
          BY <1>1, <1>9, <2>2, <4>2 DEF Does, Control, Claiming
        <5>. QED
          BY <1>9, <4>2, <5>1 DEF Succession, AuthzOf
      <4>. QED
        BY <4>1, <4>2
    <3>2. AuthzOf(v) \in Authzs
      BY <1>1, <3>1 DEF TInv, JobsFit, Fits, AuthzOf, Challenging
    <3>3. v # w /\ pc[w] \in {"authz_valid", "authz_invalid"} => AuthzOf(v) # AuthzOf(w)
      BY <1>1, <3>1 DEF Claims, Apart, Challenging
    <3>4. authz'[AuthzOf(v)] = authz[AuthzOf(v)]
      BY <1>1, <3>1, <3>2, <3>3 DEF Does, AuthzMove
    <3>. QED
      BY <3>1, <3>4 DEF FInv, Undecided
  <2>. QED
    BY <2>1, <2>2
<1>. QED
  BY <1>5, <1>7, <1>8, <1>9 DEF FInv, Earned, Undecided

LEMMA OthersKeepDecisions ==
    ASSUME FInv, CInv',
           \/ Tick \/ GC \/ Crash \/ OperatorIssue \/ OperatorRevoke
           \/ \E o \in Orders : NewOrder(o)
    PROVE  FInv'
<1>1. PInv /\ TInv /\ TypeOK /\ WorkersProved
  BY DEF FInv, CInv, PInv, TInv
<1>2. /\ \A v \in Workers : pc[v] \in Challenging \cup Finalizing =>
              job[v].order \in Orders /\ order[job[v].order] # None
      /\ \A v \in Workers : pc[v] \in Challenging => AuthzOf(v) \in Authzs
      /\ \A a \in Authzs : a[1] \in Orders
  BY <1>1 DEF TInv, JobsFit, Fits, AuthzOf, Authzs, WorkersProved, WorkerProved
<1>3. CASE Tick \/ OperatorIssue \/ OperatorRevoke \/ Crash
  <2>1. order' = order /\ authz' = authz
    BY <1>3 DEF Tick, OperatorIssue, OperatorRevoke, Crash, tables
  <2>2. \A v \in Workers : pc'[v] = "idle" \/ (pc'[v] = pc[v] /\ job'[v] = job[v])
    BY <1>3 DEF Tick, OperatorIssue, OperatorRevoke, Crash, workers
  <2>3. Collected'
    BY <2>1 DEF FInv, Collected, Live
  <2>4. Earned'
    BY <2>1, <2>2 DEF FInv, Earned, Advanced, Live, Settled, Finalizing
  <2>5. Undecided'
    BY <2>1, <2>2 DEF FInv, Undecided, AuthzOf
  <2>. QED
    BY <2>3, <2>4, <2>5 DEF FInv
<1>4. CASE GC
  <2>1. /\ \A o \in Orders : order'[o] = IF Collectable(o) THEN Gone ELSE order[o]
        /\ \A a \in Authzs : authz'[a] = IF Collectable(a[1]) THEN "absent" ELSE authz[a]
        /\ pc' = pc /\ job' = job
    BY <1>4 DEF GC, workers
  <2>2. Collected'
    BY <1>2, <2>1 DEF FInv, Collected, Live
  <2>3. \A o \in Orders : Live(o)' => Live(o) /\ order'[o] = order[o] /\ ~Collectable(o)
    BY <2>1 DEF Live
  <2>4. \A o \in Orders : Live(o)' /\ Settled(o) => Settled(o)'
    <3>1. ASSUME NEW o \in Orders, Live(o)', Settled(o), NEW n \in Identifiers[o]
          PROVE  authz'[<<o, n>>] = "valid"
      BY <2>1, <2>3, <3>1, AuthzRows DEF Settled
    <3>. QED
      BY <3>1 DEF Settled
  <2>5. \A o \in Orders : Advanced(o)' => Settled(o)'
    BY <2>3, <2>4 DEF Advanced, FInv, Earned
  <2>6. ASSUME NEW v \in Workers, pc'[v] \in Finalizing \cup {"order_ready"},
               Live(job[v].order)'
        PROVE  Settled(job[v].order)'
    <3>1. PICK o \in Orders : o = job[v].order /\ o = job'[v].order
      BY <1>2, <2>1, <2>6 DEF Challenging
    <3>2. Live(o)'
      BY <2>6, <3>1 DEF Live
    <3>3. Settled(o)
      BY <2>1, <2>3, <2>6, <3>1, <3>2 DEF FInv, Earned
    <3>4. Settled(o)'
      BY <2>4, <3>2, <3>3
    <3>. QED
      BY <3>1, <3>4 DEF Settled
  <2>7. Undecided'
    BY <1>2, <2>1 DEF FInv, Undecided, AuthzOf, Challenging
  <2>. QED
    BY <2>2, <2>5, <2>6, <2>7 DEF FInv, Earned
<1>5. CASE \E o \in Orders : NewOrder(o)
  <2>1. PICK o \in Orders : NewOrder(o)
    BY <1>5
  <2>2. /\ order[o] = None /\ pc' = pc /\ job' = job
        /\ order'[o].status = "pending"
        /\ \A q \in Orders : q # o => order'[q] = order[q]
        /\ \A a \in Authzs : authz'[a] = IF a[1] = o THEN "pending" ELSE authz[a]
    BY <1>1, <2>1 DEF NewOrder, workers, TypeOK
  <2>3. Live(o)'
    <3>1. order'[o] \in OrderRow
      BY <2>1, <1>1, TimeAssumption DEF NewOrder, TypeOK, OrderRow
    <3>. QED
      BY <3>1, RowAssumption DEF Live
  <2>4. Collected'
    BY <1>2, <2>2, <2>3 DEF FInv, Collected, Live
  <2>5. \A q \in Orders : q # o /\ Settled(q) => Settled(q)'
    BY <2>2, AuthzRows DEF Settled
  <2>6. \A q \in Orders : Advanced(q)' => Settled(q)'
    BY <2>2, <2>5 DEF Advanced, Live, FInv, Earned
  <2>7. ASSUME NEW v \in Workers, pc'[v] \in Finalizing \cup {"order_ready"},
               Live(job[v].order)'
        PROVE  Settled(job[v].order)'
    <3>1. PICK q \in Orders : q = job[v].order /\ q = job'[v].order /\ q # o
      BY <1>2, <2>2, <2>7 DEF Challenging
    <3>2. Live(q)
      BY <2>2, <2>7, <3>1 DEF Live
    <3>3. Settled(q)
      BY <2>2, <2>7, <3>1, <3>2 DEF FInv, Earned
    <3>4. Settled(q)'
      BY <2>5, <3>1, <3>3
    <3>. QED
      BY <3>1, <3>4 DEF Settled
  <2>8. Undecided'
    BY <1>2, <2>2 DEF FInv, Undecided, AuthzOf, Challenging
  <2>. QED
    BY <2>4, <2>6, <2>7, <2>8 DEF FInv, Earned
<1>. QED
  BY <1>3, <1>4, <1>5

LEMMA DecisionsInit == Init => FInv
<1>. SUFFICES ASSUME Init PROVE FInv
  OBVIOUS
<1>1. \A o \in Orders : ~Live(o)
  BY DEF Init, Live
<1>2. \A w \in Workers : pc[w] = "idle"
  BY DEF Init
<1>3. \A a \in Authzs : authz[a] = "absent"
  BY DEF Init
<1>. QED
  BY <1>1, <1>2, <1>3, ClaimsInit
  DEF FInv, Collected, Earned, Undecided, Advanced, Finalizing

LEMMA DecisionsStep == FInv /\ [Next]_vars => FInv'
<1>. SUFFICES ASSUME FInv, [Next]_vars PROVE FInv'
  OBVIOUS
<1>1. CInv'
  BY ClaimsStep DEF FInv
<1>2. CASE UNCHANGED vars
  BY <1>1, <1>2 DEF vars, tables, workers, FInv, Collected, Earned, Undecided, Live,
     Advanced, Settled, AuthzOf
<1>. QED
  BY <1>1, <1>2, HandlerKeepsDecisions, OthersKeepDecisions DEF Next

\* "A failed challenge invalidates its authorization" and the order with it:
\* no order with a failed authorization is ever ready, processing or valid,
\* whichever handlers overtake each other and whichever writes are lost
\* (handleChallenge).
THEOREM FailuresAreFinal == Spec => []FailureIsFinal
<1>1. FInv => FailureIsFinal
  <2>. SUFFICES ASSUME FInv, NEW a \in Authzs, authz[a] = "invalid"
                PROVE  Status(a[1]) \in {"pending", "invalid"}
    BY DEF FailureIsFinal
  <2>1. a = <<a[1], a[2]>> /\ a[1] \in Orders /\ a[2] \in Identifiers[a[1]]
    BY DEF Authzs
  <2>2. Live(a[1]) /\ order[a[1]] \in OrderRow
    BY <2>1 DEF FInv, Collected, CInv, PInv, TInv, TypeOK, Live
  <2>3. ~Settled(a[1])
    BY <2>1 DEF Settled
  <2>4. order[a[1]].status \notin {"ready", "processing", "valid"}
    BY <2>1, <2>2, <2>3 DEF FInv, Earned, Advanced
  <2>. QED
    BY <2>2, <2>4 DEF Status, OrderRow
<1>. QED
  BY <1>1, DecisionsInit, DecisionsStep, PTL DEF Spec

-----------------------------------------------------------------------------
(* What the tables say of the CA's certificates *)

\* Who is about to link a certificate has recorded it; who is about to note a
\* revocation has performed it.
RecordedFirst ==
    \A w \in Workers : pc[w] = "order_valid" =>
        <<job[w].order, job[w].serial>> \in recorded
RevokedFirst ==
    \A w \in Workers : pc[w] = "note" =>
        signed[job[w].serial] # None /\ signed[job[w].serial].revoked # "no"

LInv == TInv /\ RecordedFirst /\ LinkedIsRecorded
NInv == TInv /\ RevokedFirst /\ NotedIsRevoked

LEMMA LinkedStep == LInv /\ [Next]_vars => LInv'
<1>. SUFFICES ASSUME LInv, [Next]_vars PROVE LInv'
  OBVIOUS
<1>1. TInv /\ TInv' /\ TypeOK /\ TypeOK'
  BY TypeStep DEF LInv, TInv
<1>2. recorded \subseteq recorded'
  BY DEF Next, Start, Lock, Step, Tick, GC, Crash, OperatorIssue,
     OperatorRevoke, NewOrder, ChallengeStart, ChallengeTaken, FinalizeStart,
     FinalizeTaken, ChallengeClaim, ValidateOk, ValidateBad, AuthzInvalid,
     OrderInvalid, AuthzValid, Scan, OrderReady, FinalizeClaim, IssueLock,
     Sign, SignFails, Chain, ChainFails, OrderFails, Record, OrderValid,
     RevokeStart, RevokeLock, RevokeExec, RevokeFails, Note, tables, vars
\* Nobody comes to order_valid but from InsertCert.
<1>3. ASSUME NEW w \in Workers, Start(w) \/ Lock(w) \/ Step(w) PROVE LInv'
  <2>1. Does(w)
    BY <1>1, <1>3, HandlerDoes
  <2>2. ASSUME NEW v \in Workers, pc'[v] = "order_valid"
        PROVE  <<job'[v].order, job'[v].serial>> \in recorded'
    <3>1. CASE v # w
      BY <1>2, <2>1, <2>2, <3>1 DEF Does, LInv, RecordedFirst
    <3>2. CASE v = w
      <4>1. pc[w] = "record"
        BY <2>1, <2>2, <3>2 DEF Does, Control, Claiming, Succession
      <4>2. Record(w)
        BY <1>3, <4>1 DEF Start, Lock, Step, ChallengeStart, ChallengeTaken,
           FinalizeStart, FinalizeTaken, ChallengeClaim, Begin, ValidateOk,
           ValidateBad, AuthzInvalid, OrderInvalid, AuthzValid, Scan,
           OrderReady, FinalizeClaim, IssueLock, Sign, SignFails, Chain,
           ChainFails, OrderFails, OrderValid, RevokeStart, RevokeLock,
           RevokeExec, RevokeFails, Note
      <4>3. /\ recorded' = recorded \cup {<<job[w].order, job[w].serial>>}
            /\ Goto(w, "order_valid")
        BY <1>1, <2>2, <3>2, <4>2, Ends DEF Record
      <4>4. job'[w] = job[w]
        BY <4>3 DEF Goto
      <4>. QED
        BY <3>2, <4>3, <4>4
    <3>. QED
      BY <3>1, <3>2
  <2>3. ASSUME NEW o \in Orders, Status(o)' = "valid"
        PROVE  <<o, order'[o].cert>> \in recorded'
    <3>1. Live(o)' /\ order'[o].status = "valid"
      BY <2>3, RowAssumption DEF Status, Live
    <3>2. CASE order'[o] = order[o]
      BY <1>2, <2>3, <3>2 DEF LInv, LinkedIsRecorded, Status, Live
    <3>3. CASE order'[o] # order[o]
      <4>1. /\ pc[w] = "order_valid" /\ job[w].order = o
            /\ order'[o].cert = job[w].serial
        BY <2>1, <3>1, <3>3 DEF Does, OrderMove
      <4>. QED
        BY <1>2, <4>1 DEF LInv, RecordedFirst
    <3>. QED
      BY <3>2, <3>3
  <2>. QED
    BY <1>1, <2>2, <2>3 DEF LInv, RecordedFirst, LinkedIsRecorded
<1>4. ASSUME \A v \in Workers : pc'[v] = "idle" \/ (pc'[v] = pc[v] /\ job'[v] = job[v]),
             \A o \in Orders : order'[o] = order[o] \/ Status(o)' # "valid"
      PROVE  LInv'
  <2>1. RecordedFirst'
    BY <1>2, <1>4 DEF LInv, RecordedFirst
  <2>2. LinkedIsRecorded'
    BY <1>2, <1>4 DEF LInv, LinkedIsRecorded, Status, Live
  <2>. QED
    BY <1>1, <2>1, <2>2 DEF LInv
<1>5. CASE Tick \/ OperatorIssue \/ OperatorRevoke \/ Crash \/ UNCHANGED vars
  BY <1>4, <1>5 DEF Tick, OperatorIssue, OperatorRevoke, Crash, tables, workers, vars
<1>6. CASE GC
  <2>1. \A o \in Orders : order'[o] = order[o] \/ order'[o] = Gone
    BY <1>6 DEF GC
  <2>. QED
    BY <1>4, <1>6, <2>1, RowAssumption DEF GC, workers, Status, Live
<1>7. CASE \E o \in Orders : NewOrder(o)
  <2>1. PICK o \in Orders : NewOrder(o)
    BY <1>7
  <2>2. /\ order'[o].status = "pending" /\ order'[o] \in OrderRow
        /\ \A q \in Orders : q # o => order'[q] = order[q]
    BY <1>1, <2>1, TimeAssumption DEF NewOrder, TypeOK, OrderRow
  <2>. QED
    BY <1>4, <2>1, <2>2, RowAssumption DEF NewOrder, workers, Status, Live
<1>. QED
  BY <1>3, <1>5, <1>6, <1>7 DEF Next

\* An order that links a certificate links one the certificate URL serves:
\* InsertCert comes before the status (handleFinalize).
THEOREM LinkedCertificatesAreRecorded == Spec => []LinkedIsRecorded
<1>1. Init => LInv
  BY TypeInit, RowAssumption
  DEF Init, LInv, RecordedFirst, LinkedIsRecorded, Status, Live
<1>2. LInv => LinkedIsRecorded
  BY DEF LInv
<1>. QED
  BY <1>1, <1>2, LinkedStep, PTL DEF Spec

\* The CA forgets no certificate and no revocation.
LEMMA RevocationsLast ==
    ASSUME TInv, TInv', [Next]_vars, NEW s \in Serials,
           signed[s] # None, signed[s].revoked # "no"
    PROVE  signed'[s] # None /\ signed'[s].revoked # "no"
<1>1. \/ signed' = signed
      \/ \E r \in Serials : \E c : signed[r] = None /\ signed' = [signed EXCEPT ![r] = c]
      \/ \E r \in Serials : signed' = [signed EXCEPT ![r].revoked = "operator"]
      \/ \E w \in Workers : /\ pc[w] = "revoke_exec"
                            /\ signed' = [signed EXCEPT ![job[w].serial].revoked = "frontend"]
  <2>1. CASE OperatorIssue \/ \E w \in Workers : Sign(w)
    BY <2>1 DEF OperatorIssue, Sign, Signed
  <2>2. CASE OperatorRevoke \/ \E w \in Workers : RevokeExec(w)
    BY <2>2 DEF OperatorRevoke, RevokeExec
  <2>. QED
    BY <2>1, <2>2
    DEF Next, Start, Lock, Step, Tick, GC, Crash, NewOrder, ChallengeStart,
       ChallengeTaken, FinalizeStart, FinalizeTaken, ChallengeClaim,
       ValidateOk, ValidateBad, AuthzInvalid, OrderInvalid, AuthzValid, Scan,
       OrderReady, FinalizeClaim, IssueLock, SignFails, Chain, ChainFails,
       OrderFails, Record, OrderValid, RevokeStart, RevokeLock, RevokeFails,
       Note, ca, vars
<1>2. CASE \E r \in Serials : \E c : signed[r] = None /\ signed' = [signed EXCEPT ![r] = c]
  BY <1>2 DEF TInv, TypeOK
<1>3. ASSUME NEW r \in Serials, NEW how \in {"operator", "frontend"},
             signed' = [signed EXCEPT ![r].revoked = how]
      PROVE  signed'[s] # None /\ signed'[s].revoked # "no"
  <2>1. CASE r # s
    BY <1>3, <2>1 DEF TInv, TypeOK
  <2>2. CASE r = s
    <3>1. signed[s] \in Certificate
      BY DEF TInv, TypeOK
    <3>2. signed'[s] = [signed[s] EXCEPT !.revoked = how]
      BY <1>3, <2>2 DEF TInv, TypeOK
    <3>3. signed'[s] \in Certificate /\ signed'[s].revoked = how
      BY <3>1, <3>2 DEF Certificate
    <3>. QED
      BY <3>3, RowAssumption
  <2>. QED
    BY <2>1, <2>2
<1>4. \A w \in Workers : pc[w] = "revoke_exec" => job[w].serial \in Serials
  BY DEF TInv, JobsFit, Fits, Revoking
<1>. QED
  BY <1>1, <1>2, <1>3, <1>4

LEMMA NotedStep == NInv /\ [Next]_vars => NInv'
<1>. SUFFICES ASSUME NInv, [Next]_vars PROVE NInv'
  OBVIOUS
<1>1. TInv /\ TInv' /\ TypeOK
  BY TypeStep DEF NInv, TInv
<1>2. \A s \in Serials : signed[s] # None /\ signed[s].revoked # "no" =>
          signed'[s] # None /\ signed'[s].revoked # "no"
  BY <1>1, RevocationsLast
<1>3. \A v \in Workers : pc[v] \in {"note", "revoke_exec"} => job[v].serial \in Serials
  BY <1>1 DEF TInv, JobsFit, Fits, Revoking
<1>4. \A s \in noted : s \in Serials
  BY <1>1 DEF TypeOK
<1>5. RevokedFirst'
  <2>. SUFFICES ASSUME NEW v \in Workers, pc'[v] = "note"
                PROVE  /\ signed'[job'[v].serial] # None
                       /\ signed'[job'[v].serial].revoked # "no"
    BY DEF RevokedFirst
  <2>1. CASE pc[v] = "note" /\ job'[v] = job[v]
    BY <1>2, <1>3, <2>1 DEF NInv, RevokedFirst
  <2>2. ASSUME NEW w \in Workers, Start(w) \/ Lock(w) \/ Step(w),
               ~(pc[v] = "note" /\ job'[v] = job[v])
        PROVE  /\ signed'[job'[v].serial] # None
               /\ signed'[job'[v].serial].revoked # "no"
    <3>1. Does(w)
      BY <1>1, <2>2, HandlerDoes
    <3>2. v = w /\ pc[w] = "revoke_exec"
      BY <2>2, <3>1 DEF Does, Control, Claiming, Succession
    <3>3. RevokeExec(w) \/ RevokeFails(w)
      BY <2>2, <3>2 DEF Start, Lock, Step, ChallengeStart, ChallengeTaken,
         FinalizeStart, FinalizeTaken, ChallengeClaim, Begin, ValidateOk,
         ValidateBad, AuthzInvalid, OrderInvalid, AuthzValid, Scan,
         OrderReady, FinalizeClaim, IssueLock, Sign, SignFails, Chain,
         ChainFails, OrderFails, Record, OrderValid, RevokeStart, RevokeLock,
         Note
    <3>4. /\ Valid(job[w].serial) /\ job'[w] = job[w]
          /\ signed' = [signed EXCEPT ![job[w].serial].revoked = "frontend"]
      BY <1>1, <3>2, <3>3, Ends DEF RevokeExec, RevokeFails, Goto
    <3>. DEFINE s == job[w].serial
    <3>5. s \in Serials /\ signed[s] \in Certificate
      BY <1>1, <1>3, <3>2, <3>4 DEF Valid, TypeOK
    <3>6. signed'[s] = [signed[s] EXCEPT !.revoked = "frontend"]
      BY <1>1, <3>4, <3>5 DEF TypeOK
    <3>. HIDE DEF s
    <3>7. signed'[s] \in Certificate /\ signed'[s].revoked = "frontend"
      BY <3>5, <3>6 DEF Certificate
    <3>. QED
      BY <3>2, <3>4, <3>7, RowAssumption DEF s
  <2>3. CASE \/ Tick \/ GC \/ Crash \/ OperatorIssue \/ OperatorRevoke
             \/ \E o \in Orders : NewOrder(o)
             \/ UNCHANGED vars
    <3>1. pc'[v] = pc[v] /\ job'[v] = job[v]
      BY <2>3 DEF Tick, GC, Crash, OperatorIssue, OperatorRevoke, NewOrder, workers, vars
    <3>. QED
      BY <2>1, <3>1
  <2>. QED
    BY <2>1, <2>2, <2>3 DEF Next
<1>6. NotedIsRevoked'
  <2>1. noted' = noted \/ \E w \in Workers : pc[w] = "note"
                                          /\ noted' = noted \cup {job[w].serial}
    BY DEF Next, Start, Lock, Step, Tick, GC, Crash, OperatorIssue,
       OperatorRevoke, NewOrder, ChallengeStart, ChallengeTaken,
       FinalizeStart, FinalizeTaken, ChallengeClaim, ValidateOk, ValidateBad,
       AuthzInvalid, OrderInvalid, AuthzValid, Scan, OrderReady,
       FinalizeClaim, IssueLock, Sign, SignFails, Chain, ChainFails,
       OrderFails, Record, OrderValid, RevokeStart, RevokeLock, RevokeExec,
       RevokeFails, Note, Attempted, tables, vars
  <2>. QED
    BY <1>2, <1>3, <1>4, <2>1 DEF NInv, NotedIsRevoked, RevokedFirst
<1>. QED
  BY <1>1, <1>5, <1>6 DEF NInv

\* The local note of a revocation "is only ever trusted in the affirmative":
\* a noted certificate is revoked at the CA, though the two are separate
\* programs and either may fail between the two writes (MarkCertRevoked).
THEOREM NotedRevocationsAreTrue == Spec => []NotedIsRevoked
<1>1. Init => NInv
  BY TypeInit DEF Init, NInv, RevokedFirst, NotedIsRevoked
<1>2. NInv => NotedIsRevoked
  BY DEF NInv
<1>. QED
  BY <1>1, <1>2, NotedStep, PTL DEF Spec

-----------------------------------------------------------------------------
(* Orders for one name: one pass, one certificate *)

\* The orders a client gets by asking for one name at a time.  With several
\* names, two handlers may both find every authorization valid, and the second
\* write takes an order that was claimed meanwhile back to ready.
OneNameEach == \A o \in Orders : \E n \in Identifiers[o] : Identifiers[o] = {n}

ChallengedPending ==
    \A w \in Workers : pc[w] \in Challenging =>
        Status(job[w].order) \in {"pending", Gone}
FinalizedProcessing ==
    \A w \in Workers : pc[w] \in Finalizing =>
        Status(job[w].order) \in {"processing", Gone}
FinalizedOnce ==
    \A v, w \in Workers :
        v # w /\ pc[v] \in Finalizing /\ pc[w] \in Finalizing
        => job[v].order # job[w].order
SignedLate ==
    \A s \in Serials : signed[s] # None /\ signed[s].order # None =>
        /\ Status(signed[s].order) \notin {None, "pending", "ready"}
        /\ \A w \in Workers : pc[w] \in {"issue", "sign"} =>
              job[w].order # signed[s].order

OInv == /\ FInv /\ ChallengedPending /\ FinalizedProcessing /\ FinalizedOnce
        /\ SignedLate /\ OneCertificatePerOrder

LEMMA StatusOfLive ==
    ASSUME TypeOK, NEW o \in Orders
    PROVE  /\ Live(o) => Status(o) = order[o].status /\ Status(o) \notin {None, Gone}
           /\ ~Live(o) => Status(o) \in {None, Gone}
BY RowAssumption DEF TypeOK, Status, Live, OrderRow

LEMMA ClaimedOrder ==
    ASSUME TInv, NEW w \in Workers, FinalizeClaim(w)
    PROVE  \E o \in Orders : /\ Status(o) = "ready" /\ Status(o)' = "processing"
                            /\ pc'[w] = "issue" /\ job'[w].order = o
<1>1. PICK o \in Orders :
        /\ ClaimableOrder(o)
        /\ order' = [order EXCEPT ![o].status = "processing"]
        /\ pc'[w] = "issue" /\ job'[w].order = o
  BY OrderClaimed
<1>2. order[o] \in OrderRow /\ order'[o] = [order[o] EXCEPT !.status = "processing"]
  BY <1>1 DEF ClaimableOrder, Live, TInv, TypeOK
<1>3. order'[o] \in OrderRow /\ order'[o].status = "processing"
  BY <1>2 DEF OrderRow
<1>. QED
  BY <1>1, <1>3, RowAssumption DEF ClaimableOrder, Status, Live

\* A challenge can be claimed only while its order is pending.
LEMMA ClaimedPending ==
    ASSUME OneNameEach, OInv, NEW w \in Workers, ChallengeClaim(w)
    PROVE  \E o \in Orders : /\ Status(o) = "pending" /\ order' = order
                            /\ pc'[w] = "validate" /\ job'[w].order = o
<1>1. TInv /\ TypeOK /\ Touched /\ Collected
  BY DEF OInv, FInv, CInv, PInv, TInv, Claims
<1>2. PICK k \in Challenges :
        /\ ClaimableChallenge(k)
        /\ pc'[w] = "validate" /\ job'[w].order = k[1]
  BY <1>1, ChallengeClaimed
<1>3. <<k[1], k[2]>> \in Authzs /\ authz[<<k[1], k[2]>>] = "pending"
  BY <1>2 DEF Challenges, Authzs, ClaimableChallenge
<1>4. Live(k[1])
  BY <1>1, <1>3 DEF Collected
<1>5. k[1] \in Orders /\ Identifiers[k[1]] = {k[2]}
  BY DEF Challenges, OneNameEach
<1>6. ~Begun(k[1])
  BY <1>2, <1>5 DEF ClaimableChallenge, Begun, Claimed
<1>7. Status(k[1]) = "pending"
  BY <1>1, <1>4, <1>5, <1>6, StatusOfLive DEF Touched
<1>. QED
  BY <1>2, <1>5, <1>7 DEF ChallengeClaim

\* What a handler does to the status of an order it or another is about.
Pass(w, o) ==
    \/ Status(o)' = Status(o)
    \/ /\ FinalizeClaim(w) /\ pc'[w] = "issue" /\ job'[w].order = o
       /\ Status(o) = "ready" /\ Status(o)' = "processing"
    \/ /\ pc'[w] = "idle" /\ job[w].order = o
       /\ \/ /\ pc[w] \in Challenging /\ Status(o) = "pending"
             /\ Status(o)' \in {"ready", "invalid"}
          \/ /\ pc[w] \in Finalizing /\ Status(o) = "processing"
             /\ Status(o)' \in {"valid", "invalid"}

LEMMA PassStep ==
    ASSUME OInv, TypeOK', NEW w \in Workers, Does(w), NEW o \in Orders
    PROVE  Pass(w, o)
<1>1. TypeOK
  BY DEF OInv, FInv, CInv, PInv, TInv
<1>2. CASE order'[o] = order[o]
  BY <1>2 DEF Pass, Status, Live
<1>3. CASE order'[o] # order[o]
  <2>1. /\ Live(o) /\ Status(o) = order[o].status /\ Status(o) \notin {None, Gone}
        /\ Status(o)' = order'[o].status
    BY <1>1, <1>3, StatusOfLive DEF Does, OrderMove, Status
  <2>2. CASE FinalizeClaim(w) /\ pc'[w] = "issue" /\ job'[w].order = o
             /\ order[o].status = "ready" /\ order'[o].status = "processing"
    BY <2>1, <2>2 DEF Pass
  <2>3. CASE /\ pc[w] \in {"order_invalid", "order_ready"} /\ job[w].order = o
             /\ pc'[w] = "idle" /\ order'[o].status \in {"ready", "invalid"}
    BY <2>1, <2>3 DEF Pass, OInv, ChallengedPending, Challenging
  <2>4. CASE /\ pc[w] \in {"failed", "order_valid"} /\ job[w].order = o
             /\ pc'[w] = "idle" /\ order'[o].status \in {"valid", "invalid"}
    BY <2>1, <2>4 DEF Pass, OInv, FinalizedProcessing, Finalizing
  <2>. QED
    BY <1>3, <2>2, <2>3, <2>4 DEF Does, OrderMove
<1>. QED
  BY <1>2, <1>3

\* What a handler has signed: nothing, or one certificate more, for its own
\* order.
SignsNothing ==
    \A s \in Serials : signed'[s] # None =>
        signed[s] # None /\ signed'[s].order = signed[s].order
SignsOne(w, r) ==
    /\ pc[w] = "sign" /\ pc'[w] \in {"chain", "failed"} /\ order' = order
    /\ signed[r] = None /\ signed'[r].order = job[w].order
    /\ \A s \in Serials : s # r => signed'[s] = signed[s]

LEMMA SignedMove ==
    ASSUME TInv, NEW w \in Workers, Start(w) \/ Lock(w) \/ Step(w)
    PROVE  SignsNothing \/ \E r \in Serials : SignsOne(w, r)
<1>1. TypeOK
  BY DEF TInv
<1>2. CASE Sign(w)
  <2>1. pc[w] = "sign" /\ pc'[w] \in {"chain", "failed"} /\ order' = order
    BY <1>1, <1>2, GoesOn DEF Sign, tables
  <2>2. PICK r \in Serials :
          /\ signed[r] = None
          /\ signed' = [signed EXCEPT ![r] = [order |-> job[w].order, cn |-> job[w].name,
                                             at |-> clock, revoked |-> "no"]]
    BY <1>2 DEF Sign, Signed
  <2>. QED
    BY <1>1, <2>1, <2>2 DEF TypeOK, SignsOne
<1>3. CASE RevokeExec(w)
  <2>. DEFINE r == job[w].serial
  <2>1. r \in Serials /\ signed[r] \in Certificate
    BY <1>1, <1>3 DEF TInv, JobsFit, Fits, Revoking, RevokeExec, Valid, TypeOK
  <2>2. /\ signed'[r] = [signed[r] EXCEPT !.revoked = "frontend"]
        /\ \A s \in Serials : s # r => signed'[s] = signed[s]
    BY <1>1, <1>3, <2>1 DEF RevokeExec, TypeOK
  <2>. HIDE DEF r
  <2>. QED
    BY <2>1, <2>2, RowAssumption DEF Certificate, SignsNothing
<1>4. CASE signed' = signed
  BY <1>4 DEF SignsNothing
<1>. QED
  BY <1>2, <1>3, <1>4
  DEF Start, Lock, Step, ChallengeStart, ChallengeTaken, FinalizeStart,
     FinalizeTaken, ChallengeClaim, ValidateOk, ValidateBad, AuthzInvalid,
     OrderInvalid, AuthzValid, Scan, OrderReady, FinalizeClaim, IssueLock,
     SignFails, Chain, ChainFails, OrderFails, Record, OrderValid,
     RevokeStart, RevokeLock, RevokeFails, Note, ca

LEMMA HandlerPasses ==
    ASSUME OneNameEach, OInv, FInv', NEW w \in Workers, Start(w) \/ Lock(w) \/ Step(w)
    PROVE  OInv'
<1>1. TInv /\ TInv' /\ TypeOK /\ TypeOK' /\ Claims /\ Does(w)
  BY HandlerDoes DEF OInv, FInv, CInv, PInv, TInv
<1>2. \A o \in Orders : Pass(w, o)
  BY <1>1, PassStep
<1>3. \A v \in Workers : v # w => pc'[v] = pc[v] /\ job'[v] = job[v]
  BY <1>1 DEF Does
<1>4. /\ \A v \in Workers : pc[v] \in Challenging \cup Finalizing => job[v].order \in Orders
      /\ \A v \in Workers : pc'[v] \in Challenging \cup Finalizing => job'[v].order \in Orders
  BY <1>1 DEF TInv, JobsFit, Fits, Authzs
<1>5. \A l \in Challenging : l \notin Finalizing /\ l # "idle"
  BY DEF Challenging, Finalizing
\* Orders for one name are challenged by one handler at a time.
<1>6. ASSUME NEW v \in Workers, v # w, pc[v] \in Challenging, pc[w] \in Challenging
      PROVE  job[v].order # job[w].order
  <2>1. AuthzOf(v) \in Authzs /\ AuthzOf(w) \in Authzs /\ AuthzOf(v) # AuthzOf(w)
    BY <1>1, <1>6 DEF TInv, JobsFit, Fits, AuthzOf, Claims, Apart
  <2>. QED
    BY <2>1 DEF AuthzOf, Authzs, OneNameEach
<1>7. ASSUME NEW v \in Workers, pc'[v] \in Challenging
      PROVE  Status(job[v].order)' \in {"pending", Gone}
  <2>1. PICK o \in Orders : o = job'[v].order
    BY <1>4, <1>7
  <2>2. Status(o)' \in {"pending", Gone}
    <3>1. CASE v # w
      <4>1. pc[v] \in Challenging /\ job[v].order = o /\ Status(o) \in {"pending", Gone}
        BY <1>3, <1>7, <2>1, <3>1 DEF OInv, ChallengedPending
      <4>. QED
        BY <1>2, <1>6, <3>1, <4>1, RowAssumption DEF Pass
    <3>2. CASE v = w /\ ChallengeClaim(w)
      BY <2>1, <3>2, ClaimedPending DEF Status, Live
    <3>3. CASE v = w /\ ~ChallengeClaim(w)
      <4>1. <<pc[w], pc'[w]>> \in Succession /\ job[w].order = o
        BY <1>1, <1>7, <2>1, <3>3 DEF Does, Control, Claiming, Challenging
      <4>2. pc[w] \in Challenging /\ pc'[w] # "idle" /\ pc'[w] # "issue"
        BY <1>7, <3>3, <4>1 DEF Succession, Challenging
      <4>. QED
        BY <1>2, <4>1, <4>2 DEF Pass, OInv, ChallengedPending
    <3>. QED
      BY <3>1, <3>2, <3>3
  <2>. QED
    BY <2>1, <2>2 DEF Status, Live
<1>8. ASSUME NEW v \in Workers, pc'[v] \in Finalizing
      PROVE  Status(job[v].order)' \in {"processing", Gone}
  <2>1. PICK o \in Orders : o = job'[v].order
    BY <1>4, <1>8
  <2>2. Status(o)' \in {"processing", Gone}
    <3>1. CASE v # w
      <4>1. pc[v] \in Finalizing /\ job[v].order = o /\ Status(o) \in {"processing", Gone}
        BY <1>3, <1>8, <2>1, <3>1 DEF OInv, FinalizedProcessing
      <4>2. pc[w] \in Finalizing => job[w].order # o
        BY <3>1, <4>1 DEF OInv, FinalizedOnce
      <4>. QED
        BY <1>1, <1>2, <1>5, <4>1, <4>2, RowAssumption DEF Pass
    <3>2. CASE v = w /\ FinalizeClaim(w)
      BY <1>1, <2>1, <3>2, ClaimedOrder DEF Status, Live
    <3>3. CASE v = w /\ ~FinalizeClaim(w)
      <4>1. <<pc[w], pc'[w]>> \in Succession /\ job[w].order = o
        BY <1>1, <1>8, <2>1, <3>3 DEF Does, Control, Claiming, Finalizing
      <4>2. pc[w] \in Finalizing /\ pc'[w] # "idle" /\ pc'[w] # "issue"
        BY <1>8, <3>3, <4>1 DEF Succession, Finalizing
      <4>. QED
        BY <1>2, <4>1, <4>2 DEF Pass, OInv, FinalizedProcessing
    <3>. QED
      BY <3>1, <3>2, <3>3
  <2>. QED
    BY <2>1, <2>2 DEF Status, Live
\* Nobody is at work on an order that is ready to be claimed.
<1>9. ASSUME NEW v \in Workers, v # w, pc'[v] \in Finalizing, pc'[w] \in Finalizing
      PROVE  job'[v].order # job'[w].order
  <2>1. pc[v] \in Finalizing /\ job'[v] = job[v]
    BY <1>3, <1>9
  <2>2. CASE FinalizeClaim(w)
    BY <1>1, <2>1, <2>2, ClaimedOrder, RowAssumption DEF OInv, FinalizedProcessing
  <2>3. CASE ~FinalizeClaim(w)
    <3>1. <<pc[w], pc'[w]>> \in Succession /\ job'[w].order = job[w].order
      BY <1>1, <1>9, <2>3 DEF Does, Control, Claiming, Finalizing
    <3>2. pc[w] \in Finalizing
      BY <1>9, <3>1 DEF Succession, Finalizing
    <3>. QED
      BY <1>9, <2>1, <3>1, <3>2 DEF OInv, FinalizedOnce
  <2>. QED
    BY <2>2, <2>3
<1>10. FinalizedOnce'
  <2>. SUFFICES ASSUME NEW u \in Workers, NEW v \in Workers, u # v,
                       pc'[u] \in Finalizing, pc'[v] \in Finalizing
                PROVE  job'[u].order # job'[v].order
    BY DEF FinalizedOnce
  <2>1. CASE u # w /\ v # w
    BY <1>3, <2>1 DEF OInv, FinalizedOnce
  <2>. QED
    BY <1>9, <2>1
\* A status that has left pending and ready does not come back to them, and
\* nobody comes to issue or sign for such an order.
<1>11. ASSUME NEW o \in Orders, Status(o) \notin {None, "pending", "ready"}
       PROVE  Status(o)' \notin {None, "pending", "ready"}
  BY <1>2, <1>11, RowAssumption DEF Pass
<1>12. ASSUME NEW o \in Orders, Status(o) \notin {None, "pending", "ready"},
              \A v \in Workers : pc[v] \in {"issue", "sign"} => job[v].order # o,
              NEW v \in Workers, pc'[v] \in {"issue", "sign"}
       PROVE  job'[v].order # o
  <2>1. CASE v # w
    BY <1>3, <1>12, <2>1
  <2>2. CASE v = w /\ FinalizeClaim(w)
    BY <1>1, <1>12, <2>2, ClaimedOrder
  <2>3. CASE v = w /\ ~FinalizeClaim(w)
    <3>1. <<pc[w], pc'[w]>> \in Succession /\ job'[w].order = job[w].order
      BY <1>1, <1>12, <2>3 DEF Does, Control, Claiming
    <3>2. pc[w] = "issue"
      BY <1>12, <2>3, <3>1 DEF Succession
    <3>. QED
      BY <1>12, <2>3, <3>1, <3>2
  <2>. QED
    BY <2>1, <2>2, <2>3
<1>13. \A s \in Serials : signed[s] # None => signed[s].order \in Orders \cup {None}
  BY <1>1 DEF TypeOK, Certificate
<1>14. CASE SignsNothing
  <2>1. SignedLate'
    <3>. SUFFICES ASSUME NEW s \in Serials, signed'[s] # None, signed'[s].order # None
                  PROVE  /\ Status(signed[s].order)' \notin {None, "pending", "ready"}
                         /\ \A v \in Workers : pc'[v] \in {"issue", "sign"} =>
                               job'[v].order # signed'[s].order
      BY DEF SignedLate
    <3>1. PICK o \in Orders : o = signed[s].order /\ o = signed'[s].order
      BY <1>13, <1>14 DEF SignsNothing
    <3>2. /\ Status(o) \notin {None, "pending", "ready"}
          /\ \A v \in Workers : pc[v] \in {"issue", "sign"} => job[v].order # o
      BY <1>14, <3>1, OrderAssumption DEF OInv, SignedLate, SignsNothing
    <3>3. Status(o)' \notin {None, "pending", "ready"}
      BY <1>11, <3>2
    <3>4. Status(signed[s].order)' = Status(o)'
      BY <3>1 DEF Status, Live
    <3>. QED
      BY <1>12, <3>1, <3>2, <3>3, <3>4
  <2>2. OneCertificatePerOrder'
    BY <1>14 DEF OInv, OneCertificatePerOrder, SignsNothing
  <2>. QED
    BY <1>7, <1>8, <1>10, <2>1, <2>2 DEF OInv, ChallengedPending, FinalizedProcessing
<1>15. ASSUME NEW r \in Serials, SignsOne(w, r) PROVE OInv'
  <2>1. /\ pc[w] = "sign" /\ pc'[w] \in {"chain", "failed"} /\ order' = order
        /\ signed[r] = None /\ signed'[r].order = job[w].order
        /\ \A s \in Serials : s # r => signed'[s] = signed[s]
    BY <1>15 DEF SignsOne
  <2>2. PICK o \in Orders : o = job[w].order
    BY <1>4, <2>1 DEF Finalizing
  <2>3. pc[w] \in Finalizing /\ Status(o) \in {"processing", Gone} /\ Status(o)' = Status(o)
    BY <2>1, <2>2 DEF OInv, FinalizedProcessing, Finalizing, Status, Live
  <2>4. \A v \in Workers : pc'[v] \in {"issue", "sign"} => job'[v].order # o
    <3>1. \A v \in Workers : v # w /\ pc[v] \in {"issue", "sign"} => job[v].order # o
      BY <2>2, <2>3 DEF OInv, FinalizedOnce, Finalizing
    <3>. QED
      BY <1>3, <2>1, <3>1
  <2>5. \A s \in Serials : signed[s] # None => signed[s].order # o
    BY <2>1, <2>2, OrderAssumption DEF OInv, SignedLate
  <2>6. SignedLate'
    <3>. SUFFICES ASSUME NEW s \in Serials, signed'[s] # None, signed'[s].order # None
                  PROVE  /\ Status(signed[s].order)' \notin {None, "pending", "ready"}
                         /\ \A v \in Workers : pc'[v] \in {"issue", "sign"} =>
                               job'[v].order # signed'[s].order
      BY DEF SignedLate
    <3>1. CASE s = r
      <4>1. Status(signed[s].order)' = Status(o)'
        BY <2>1, <2>2, <3>1 DEF Status, Live
      <4>2. Status(o)' \notin {None, "pending", "ready"}
        BY <2>3, RowAssumption
      <4>. QED
        BY <2>1, <2>2, <2>4, <3>1, <4>1, <4>2
    <3>2. CASE s # r
      <4>1. PICK q \in Orders : q = signed[s].order /\ q = signed'[s].order
        BY <1>13, <2>1, <3>2
      <4>2. /\ Status(q) \notin {None, "pending", "ready"}
            /\ \A v \in Workers : pc[v] \in {"issue", "sign"} => job[v].order # q
        BY <2>1, <3>2, <4>1 DEF OInv, SignedLate
      <4>3. Status(signed[s].order)' = Status(q)' /\ Status(q)' = Status(q)
        BY <2>1, <4>1 DEF Status, Live
      <4>. QED
        BY <1>12, <4>1, <4>2, <4>3
    <3>. QED
      BY <3>1, <3>2
  <2>7. OneCertificatePerOrder'
    BY <2>1, <2>2, <2>5 DEF OInv, OneCertificatePerOrder
  <2>. QED
    BY <1>7, <1>8, <1>10, <2>6, <2>7 DEF OInv, ChallengedPending, FinalizedProcessing
<1>. QED
  BY <1>1, <1>14, <1>15, SignedMove

\* What a step that is not a handler's does to the orders, the workers and the
\* CA: an order keeps its status, is created or is collected; who is at work
\* goes on or is gone; and the CA signs for no order.
OrdersKept ==
    \A o \in Orders :
        \/ Status(o)' = Status(o)
        \/ Status(o)' = Gone
        \/ order[o] = None /\ Status(o)' = "pending"
WorkersKept ==
    \A v \in Workers : pc'[v] = "idle" \/ (pc'[v] = pc[v] /\ job'[v] = job[v])
SignedKept ==
    \A s \in Serials :
        signed'[s] # None /\ signed'[s].order # None =>
            signed[s] # None /\ signed'[s].order = signed[s].order

LEMMA KeptPasses ==
    ASSUME OInv, FInv', OrdersKept, WorkersKept, SignedKept
    PROVE  OInv'
<1>1. TInv /\ TypeOK /\ WorkersProved
  BY DEF OInv, FInv, CInv, PInv, TInv
<1>2. \A v \in Workers : pc[v] \in Challenging \cup Finalizing =>
        job[v].order \in Orders /\ order[job[v].order] # None
  BY <1>1 DEF TInv, JobsFit, Fits, Authzs, WorkersProved, WorkerProved
<1>3. \A s \in Serials : signed[s] # None => signed[s].order \in Orders \cup {None}
  BY <1>1 DEF TypeOK, Certificate
<1>4. ASSUME NEW v \in Workers, pc'[v] \in Challenging \cup Finalizing
      PROVE  /\ pc[v] = pc'[v] /\ job'[v] = job[v]
             /\ job[v].order \in Orders /\ order[job[v].order] # None
  BY <1>2, <1>4 DEF Challenging, Finalizing, WorkersKept
<1>5. ASSUME NEW v \in Workers, pc'[v] \in Challenging
      PROVE  Status(job[v].order)' \in {"pending", Gone}
  <2>1. PICK o \in Orders : o = job[v].order /\ o = job'[v].order
    BY <1>4, <1>5
  <2>2. Status(o) \in {"pending", Gone}
    BY <1>4, <1>5, <2>1 DEF OInv, ChallengedPending
  <2>3. Status(o)' \in {"pending", Gone}
    BY <2>2 DEF OrdersKept
  <2>. QED
    BY <2>1, <2>3 DEF Status, Live
<1>6. ASSUME NEW v \in Workers, pc'[v] \in Finalizing
      PROVE  Status(job[v].order)' \in {"processing", Gone}
  <2>1. PICK o \in Orders : o = job[v].order /\ o = job'[v].order /\ order[o] # None
    BY <1>4, <1>6
  <2>2. Status(o) \in {"processing", Gone}
    BY <1>4, <1>6, <2>1 DEF OInv, FinalizedProcessing
  <2>3. Status(o)' \in {"processing", Gone}
    BY <2>1, <2>2 DEF OrdersKept
  <2>. QED
    BY <2>1, <2>3 DEF Status, Live
<1>7. FinalizedOnce'
  BY <1>4 DEF OInv, FinalizedOnce
<1>8. SignedLate'
  <2>. SUFFICES ASSUME NEW s \in Serials, signed'[s] # None, signed'[s].order # None
                PROVE  /\ Status(signed[s].order)' \notin {None, "pending", "ready"}
                       /\ \A v \in Workers : pc'[v] \in {"issue", "sign"} =>
                             job'[v].order # signed'[s].order
    BY DEF SignedLate
  <2>1. PICK o \in Orders :
          signed[s] # None /\ o = signed[s].order /\ o = signed'[s].order
    BY <1>3 DEF SignedKept
  <2>2. /\ Status(o) \notin {None, "pending", "ready"}
        /\ \A v \in Workers : pc[v] \in {"issue", "sign"} => job[v].order # o
    BY <2>1 DEF OInv, SignedLate
  <2>3. Status(o)' \notin {None, "pending", "ready"}
    <3>1. order[o] # None
      BY <2>2 DEF Status, Live
    <3>. QED
      BY <2>2, <3>1, RowAssumption DEF OrdersKept
  <2>4. Status(signed[s].order)' = Status(o)'
    BY <2>1 DEF Status, Live
  <2>. QED
    BY <2>1, <2>2, <2>3, <2>4 DEF WorkersKept
<1>9. OneCertificatePerOrder'
  BY DEF SignedKept, OInv, OneCertificatePerOrder
<1>. QED
  BY <1>5, <1>6, <1>7, <1>8, <1>9 DEF OInv, ChallengedPending, FinalizedProcessing

\* The operator's certificates are for no order, and a revocation keeps whom a
\* certificate was signed for.
LEMMA OthersKeepSigned ==
    ASSUME TypeOK,
           \/ Tick \/ GC \/ Crash \/ OperatorIssue \/ OperatorRevoke
           \/ \E o \in Orders : NewOrder(o)
    PROVE  SignedKept
<1>1. CASE OperatorIssue
  <2>1. PICK r \in Serials :
          \E c : c.order = None /\ signed' = [signed EXCEPT ![r] = c]
    BY <1>1 DEF OperatorIssue, Signed
  <2>2. /\ signed'[r].order = None
        /\ \A s \in Serials : s # r => signed'[s] = signed[s]
    BY <2>1 DEF TypeOK
  <2>. QED
    BY <2>2 DEF SignedKept
<1>2. CASE OperatorRevoke
  <2>1. PICK r \in Serials :
          Valid(r) /\ signed' = [signed EXCEPT ![r].revoked = "operator"]
    BY <1>2 DEF OperatorRevoke
  <2>2. signed[r] \in Certificate /\ signed[r] # None
    BY <2>1 DEF Valid, TypeOK
  <2>3. /\ signed'[r] = [signed[r] EXCEPT !.revoked = "operator"]
        /\ \A s \in Serials : s # r => signed'[s] = signed[s]
    BY <2>1 DEF TypeOK
  <2>4. signed'[r].order = signed[r].order
    BY <2>2, <2>3 DEF Certificate
  <2>. QED
    BY <2>2, <2>3, <2>4 DEF SignedKept
<1>3. CASE signed' = signed
  BY <1>3 DEF SignedKept
<1>. QED
  BY <1>1, <1>2, <1>3 DEF Tick, GC, Crash, NewOrder, ca

LEMMA OthersPass ==
    ASSUME OInv, FInv',
           \/ Tick \/ GC \/ Crash \/ OperatorIssue \/ OperatorRevoke
           \/ \E o \in Orders : NewOrder(o)
    PROVE  OInv'
<1>1. TypeOK
  BY DEF OInv, FInv, CInv, PInv, TInv
<1>2. SignedKept
  BY <1>1, OthersKeepSigned
<1>3. CASE Tick \/ Crash \/ OperatorIssue \/ OperatorRevoke
  <2>1. OrdersKept
    BY <1>3 DEF Tick, Crash, OperatorIssue, OperatorRevoke, tables, OrdersKept,
                Status, Live
  <2>2. WorkersKept
    BY <1>3 DEF Tick, Crash, OperatorIssue, OperatorRevoke, workers, WorkersKept
  <2>. QED
    BY <1>2, <2>1, <2>2, KeptPasses
<1>4. CASE GC
  <2>1. \A o \in Orders : order'[o] = order[o] \/ order'[o] = Gone
    BY <1>4 DEF GC
  <2>2. OrdersKept
    BY <2>1 DEF OrdersKept, Status, Live
  <2>3. WorkersKept
    BY <1>4 DEF GC, workers, WorkersKept
  <2>. QED
    BY <1>2, <2>2, <2>3, KeptPasses
<1>5. CASE \E o \in Orders : NewOrder(o)
  <2>1. PICK o \in Orders : NewOrder(o)
    BY <1>5
  <2>2. /\ order[o] = None /\ order'[o].status = "pending" /\ order'[o] \in OrderRow
        /\ \A q \in Orders : q # o => order'[q] = order[q]
    BY <1>1, <2>1, TimeAssumption DEF NewOrder, TypeOK, OrderRow
  <2>3. /\ Status(o)' = "pending"
        /\ \A q \in Orders : q # o => Status(q)' = Status(q)
    BY <2>2, RowAssumption DEF Status, Live
  <2>4. OrdersKept
    BY <2>2, <2>3 DEF OrdersKept
  <2>5. WorkersKept
    BY <2>1 DEF NewOrder, workers, WorkersKept
  <2>. QED
    BY <1>2, <2>4, <2>5, KeptPasses
<1>. QED
  BY <1>3, <1>4, <1>5

LEMMA OnePassInit == Init => OInv
<1>. SUFFICES ASSUME Init PROVE OInv
  OBVIOUS
<1>1. \A w \in Workers : pc[w] = "idle"
  BY DEF Init
<1>2. \A s \in Serials : signed[s] = None
  BY DEF Init
<1>. QED
  BY <1>1, <1>2, DecisionsInit
  DEF OInv, ChallengedPending, FinalizedProcessing, FinalizedOnce, SignedLate,
     OneCertificatePerOrder, Challenging, Finalizing

LEMMA OnePassStep == OneNameEach /\ OInv /\ [Next]_vars => OInv'
<1>. SUFFICES ASSUME OneNameEach, OInv, [Next]_vars PROVE OInv'
  OBVIOUS
<1>1. FInv'
  BY DecisionsStep DEF OInv
<1>2. CASE UNCHANGED vars
  BY <1>1, <1>2 DEF vars, tables, ca, workers, OInv, ChallengedPending,
     FinalizedProcessing, FinalizedOnce, SignedLate, OneCertificatePerOrder, Status, Live
<1>. QED
  BY <1>1, <1>2, HandlerPasses, OthersPass DEF Next

\* "Of concurrent finalizes exactly one issues": an order for one name gets
\* one certificate at most, whatever fails (handleFinalize, ClaimOrder).
THEOREM OrdersGetOneCertificate ==
    ASSUME OneNameEach PROVE Spec => []OneCertificatePerOrder
<1>1. OInv /\ [Next]_vars => OInv'
  BY OnePassStep
<1>2. OInv => OneCertificatePerOrder
  BY DEF OInv
<1>. QED
  BY <1>1, <1>2, OnePassInit, PTL DEF Spec

\* A status that changes moves on.
Advancing == \A o \in Orders : Status(o) # Status(o)' =>
                Rank(Status(o)) < Rank(Status(o)')

LEMMA Ranks ==
    /\ Rank(None) = 0 /\ Rank("pending") = 1 /\ Rank("ready") = 2
    /\ Rank("processing") = 3 /\ Rank("valid") = 4 /\ Rank("invalid") = 4
    /\ Rank(Gone) = 5
BY RowAssumption DEF Rank

LEMMA AdvancingStep ==
    ASSUME OneNameEach, OInv, OInv', [Next]_vars PROVE Advancing
<1>. SUFFICES ASSUME NEW o \in Orders, Status(o) # Status(o)'
              PROVE  Rank(Status(o)) < Rank(Status(o)')
  BY DEF Advancing
<1>1. TInv /\ TInv' /\ TypeOK /\ TypeOK'
  BY DEF OInv, FInv, CInv, PInv, TInv
<1>2. ASSUME NEW w \in Workers, Start(w) \/ Lock(w) \/ Step(w)
      PROVE  Rank(Status(o)) < Rank(Status(o)')
  <2>1. Pass(w, o)
    BY <1>1, <1>2, HandlerDoes, PassStep
  <2>. QED
    BY <2>1, Ranks DEF Pass
<1>3. CASE GC
  <2>1. order'[o] = Gone /\ Live(o)
    BY <1>3 DEF GC, Status, Live, Collectable
  <2>2. Status(o)' = Gone /\ Status(o) \in {"pending", "ready", "processing", "valid",
                                           "invalid"}
    BY <1>1, <2>1 DEF Status, Live, TypeOK, OrderRow
  <2>. QED
    BY <2>2, Ranks
<1>4. CASE \E q \in Orders : NewOrder(q)
  <2>1. PICK q \in Orders : NewOrder(q)
    BY <1>4
  <2>2. /\ order[q] = None /\ order'[q].status = "pending" /\ order'[q] \in OrderRow
        /\ \A p \in Orders : p # q => order'[p] = order[p]
    BY <1>1, <2>1, TimeAssumption DEF NewOrder, TypeOK, OrderRow
  <2>3. o = q /\ Status(o) = None /\ Status(o)' = "pending"
    BY <2>2, RowAssumption DEF Status, Live
  <2>. QED
    BY <2>3, Ranks
<1>5. CASE Tick \/ Crash \/ OperatorIssue \/ OperatorRevoke \/ UNCHANGED vars
  BY <1>5 DEF Tick, Crash, OperatorIssue, OperatorRevoke, tables, vars, Status, Live
<1>. QED
  BY <1>2, <1>3, <1>4, <1>5 DEF Next

\* "pending -> ready -> processing -> valid | invalid": the status of an order
\* for one name never goes back (Order.Status).
THEOREM OrdersOnlyAdvance == ASSUME OneNameEach PROVE Spec => OrderOnlyAdvances
<1>1. OInv /\ [Next]_vars => OInv'
  BY OnePassStep
<1>2. Spec => []OInv
  BY <1>1, OnePassInit, PTL DEF Spec
<1>3. OInv /\ OInv' /\ [Next]_vars => [Advancing]_order
  BY AdvancingStep
<1>4. Spec => [][Advancing]_order
  BY <1>2, <1>3, PTL DEF Spec
<1>. QED
  BY <1>4 DEF OrderOnlyAdvances, Advancing

-----------------------------------------------------------------------------
(* Orders for several names: as many certificates as names *)

\* A claim needs an order that is ready, and whoever writes ready has a
\* validation of its own behind it.  So each name pays once: it is unspent
\* until the handler that validates it has written ready or given up, then the
\* order is ready, then a request is about to sign, then there is a
\* certificate.  What is overwritten on the way is lost, never gained.
Readying == {"validate", "authz_valid", "scan", "order_ready"}
Unspent(o) ==
    {n \in Identifiers[o] :
        \/ ~Claimed(<<o, n>>)
        \/ \E w \in Workers : pc[w] \in Readying /\ AuthzOf(w) = <<o, n>>}
Issuers(o) == {w \in Workers : pc[w] \in {"issue", "sign"} /\ job[w].order = o}
Readied(o) == IF Status(o) = "ready" THEN 1 ELSE 0

Funded(o) ==
    /\ IsFiniteSet(SignedFor(o)) /\ IsFiniteSet(Issuers(o))
    /\ Cardinality(SignedFor(o)) + Cardinality(Issuers(o)) + Readied(o)
          + Cardinality(Unspent(o)) <= Cardinality(Identifiers[o])
Untouched(o) == order[o] = None => SignedFor(o) = {}

BInv == CInv /\ \A o \in Orders : Funded(o) /\ Untouched(o)

\* A set that gains or loses an element, at most or at least.
LEMMA OneMore ==
    ASSUME NEW S, NEW T, NEW x, IsFiniteSet(S), T \ {x} \subseteq S
    PROVE  IsFiniteSet(T) /\ Cardinality(T) <= Cardinality(S) + 1
<1>. DEFINE U == T \ {x}
<1>1. PICK V : V = U \cup {x}
  OBVIOUS
<1>2. IsFiniteSet(U) /\ Cardinality(U) <= Cardinality(S)
  BY FS_Subset
<1>3. T \subseteq V
  BY <1>1
<1>. HIDE DEF U
<1>4. IsFiniteSet(V) /\ Cardinality(V) = IF x \in U THEN Cardinality(U)
                                                     ELSE Cardinality(U) + 1
  BY <1>1, <1>2, FS_AddElement
<1>5. /\ IsFiniteSet(T) /\ Cardinality(T) <= Cardinality(V)
      /\ Cardinality(T) \in Nat /\ Cardinality(U) \in Nat /\ Cardinality(V) \in Nat
      /\ Cardinality(S) \in Nat
  BY <1>2, <1>3, <1>4, FS_Subset, FS_CardinalityType
<1>. QED
  BY <1>2, <1>4, <1>5

LEMMA OneLess ==
    ASSUME NEW S, NEW T, NEW x \in S, IsFiniteSet(S), T \subseteq S \ {x}
    PROVE  IsFiniteSet(T) /\ Cardinality(T) <= Cardinality(S) - 1
<1>1. IsFiniteSet(S \ {x}) /\ Cardinality(S \ {x}) = Cardinality(S) - 1
  BY FS_RemoveElement
<1>2. IsFiniteSet(T) /\ Cardinality(T) <= Cardinality(S \ {x})
  BY <1>1, FS_Subset
<1>. QED
  BY <1>1, <1>2

\* The four sums: what a name pays for, moved on by one step.
LEMMA Counts ==
    ASSUME NEW o \in Orders, Funded(o)
    PROVE  /\ IsFiniteSet(Unspent(o)) /\ IsFiniteSet(Identifiers[o])
           /\ Cardinality(SignedFor(o)) \in Nat /\ Cardinality(Issuers(o)) \in Nat
           /\ Cardinality(Unspent(o)) \in Nat /\ Cardinality(Identifiers[o]) \in Nat
           /\ Readied(o) \in 0 .. 1
<1>1. IsFiniteSet(Identifiers[o]) /\ Unspent(o) \subseteq Identifiers[o]
  BY FiniteAssumption DEF Unspent
<1>2. IsFiniteSet(Unspent(o))
  BY <1>1, FS_Subset
<1>. QED
  BY <1>1, <1>2, FS_CardinalityType DEF Funded, Readied

\* Nothing is gained, or something is lost.
LEMMA NothingGained ==
    ASSUME NEW o \in Orders, Funded(o), SignedFor(o)' \subseteq SignedFor(o),
           Issuers(o)' \subseteq Issuers(o), Unspent(o)' \subseteq Unspent(o),
           Readied(o)' <= Readied(o)
    PROVE  Funded(o)'
<1>1. /\ IsFiniteSet(SignedFor(o)') /\ Cardinality(SignedFor(o)') <= Cardinality(SignedFor(o))
      /\ IsFiniteSet(Issuers(o)') /\ Cardinality(Issuers(o)') <= Cardinality(Issuers(o))
      /\ IsFiniteSet(Unspent(o)') /\ Cardinality(Unspent(o)') <= Cardinality(Unspent(o))
  BY Counts, FS_Subset DEF Funded
<1>2. /\ Cardinality(SignedFor(o)') \in Nat /\ Cardinality(Issuers(o)') \in Nat
      /\ Cardinality(Unspent(o)') \in Nat /\ Readied(o)' \in 0 .. 1
  BY <1>1, FS_CardinalityType DEF Readied
<1>. QED
  BY <1>1, <1>2, Counts DEF Funded

\* A handler that writes ready spends the name it validated.
LEMMA NameReadies ==
    ASSUME NEW o \in Orders, Funded(o), SignedFor(o)' \subseteq SignedFor(o),
           Issuers(o)' \subseteq Issuers(o),
           NEW n \in Unspent(o), Unspent(o)' \subseteq Unspent(o) \ {n}
    PROVE  Funded(o)'
<1>1. /\ IsFiniteSet(SignedFor(o)') /\ Cardinality(SignedFor(o)') <= Cardinality(SignedFor(o))
      /\ IsFiniteSet(Issuers(o)') /\ Cardinality(Issuers(o)') <= Cardinality(Issuers(o))
  BY FS_Subset DEF Funded
<1>2. IsFiniteSet(Unspent(o)') /\ Cardinality(Unspent(o)') <= Cardinality(Unspent(o)) - 1
  BY Counts, OneLess
<1>3. /\ Cardinality(SignedFor(o)') \in Nat /\ Cardinality(Issuers(o)') \in Nat
      /\ Cardinality(Unspent(o)') \in Nat /\ Readied(o)' \in 0 .. 1
  BY <1>1, <1>2, FS_CardinalityType DEF Readied
<1>. QED
  BY <1>1, <1>2, <1>3, Counts DEF Funded

\* A claim spends that the order was ready.
LEMMA ReadyIssues ==
    ASSUME NEW o \in Orders, Funded(o), SignedFor(o)' \subseteq SignedFor(o),
           NEW w, Issuers(o)' \ {w} \subseteq Issuers(o),
           Unspent(o)' \subseteq Unspent(o), Readied(o) = 1, Readied(o)' = 0
    PROVE  Funded(o)'
<1>1. /\ IsFiniteSet(SignedFor(o)') /\ Cardinality(SignedFor(o)') <= Cardinality(SignedFor(o))
      /\ IsFiniteSet(Unspent(o)') /\ Cardinality(Unspent(o)') <= Cardinality(Unspent(o))
  BY Counts, FS_Subset DEF Funded
<1>2. IsFiniteSet(Issuers(o)') /\ Cardinality(Issuers(o)') <= Cardinality(Issuers(o)) + 1
  BY OneMore DEF Funded
<1>3. /\ Cardinality(SignedFor(o)') \in Nat /\ Cardinality(Issuers(o)') \in Nat
      /\ Cardinality(Unspent(o)') \in Nat
  BY <1>1, <1>2, FS_CardinalityType
<1>. QED
  BY <1>1, <1>2, <1>3, Counts DEF Funded

\* A signature spends the claim.
LEMMA IssuerSigns ==
    ASSUME NEW o \in Orders, Funded(o), NEW r, NEW w \in Issuers(o),
           SignedFor(o)' \ {r} \subseteq SignedFor(o),
           Issuers(o)' \subseteq Issuers(o) \ {w},
           Unspent(o)' \subseteq Unspent(o), Readied(o)' = Readied(o)
    PROVE  Funded(o)'
<1>1. /\ IsFiniteSet(Unspent(o)') /\ Cardinality(Unspent(o)') <= Cardinality(Unspent(o))
  BY Counts, FS_Subset
<1>2. IsFiniteSet(SignedFor(o)') /\ Cardinality(SignedFor(o)') <= Cardinality(SignedFor(o)) + 1
  BY OneMore DEF Funded
<1>3. IsFiniteSet(Issuers(o)') /\ Cardinality(Issuers(o)') <= Cardinality(Issuers(o)) - 1
  BY OneLess DEF Funded
<1>4. /\ Cardinality(SignedFor(o)') \in Nat /\ Cardinality(Issuers(o)') \in Nat
      /\ Cardinality(Unspent(o)') \in Nat
  BY <1>1, <1>2, <1>3, FS_CardinalityType
<1>. QED
  BY <1>1, <1>2, <1>3, <1>4, Counts DEF Funded

\* A challenge is claimed for an authorization that nobody attempted.
LEMMA ClaimsUnclaimed ==
    ASSUME TInv, NEW w \in Workers, ChallengeClaim(w)
    PROVE  \E k \in Challenges :
              /\ chall' = [chall EXCEPT ![k] = "processing"]
              /\ AuthzOf(w)' = <<k[1], k[2]>> /\ ~Claimed(<<k[1], k[2]>>)
<1>1. PICK k \in Challenges :
        /\ <<k[1], k[2]>> = AuthzOf(w) /\ ClaimableChallenge(k)
        /\ chall' = [chall EXCEPT ![k] = "processing"] /\ job'[w] = job[w]
  BY ChallengeClaimed
<1>2. AuthzOf(w)' = <<k[1], k[2]>>
  BY <1>1 DEF AuthzOf
<1>3. ~Claimed(<<k[1], k[2]>>)
  BY <1>1 DEF ClaimableChallenge, Claimed
<1>. QED
  BY <1>1, <1>2, <1>3

\* No handler makes a claimed authorization unclaimed.
LEMMA StaysClaimed ==
    ASSUME TInv, Claims, NEW w \in Workers, Does(w), NEW a \in Authzs, Claimed(a)
    PROVE  Claimed(a)'
<1>1. \A k \in Challenges : chall[k] # "pending" => chall'[k] # "pending"
  <2>1. CASE ChallengeClaim(w)
    <3>1. PICK k \in Challenges : chall' = [chall EXCEPT ![k] = "processing"]
      BY <2>1, ClaimsUnclaimed
    <3>. QED
      BY <3>1 DEF TInv, TypeOK
  <2>2. CASE ~ChallengeClaim(w)
    BY <2>2 DEF Does, ChallengeMove
  <2>. QED
    BY <2>1, <2>2
<1>. QED
  BY <1>1, Rows DEF Claimed

\* Names get spent, and who writes ready spends the name it is about: nobody
\* else has it, and its challenges are not claimed again.
LEMMA NamesGetSpent ==
    ASSUME CInv, NEW w \in Workers, Does(w), NEW o \in Orders
    PROVE  /\ Unspent(o)' \subseteq Unspent(o)
           /\ pc[w] = "order_ready" /\ job[w].order = o =>
                 /\ job[w].name \in Unspent(o) /\ job[w].name \notin Unspent(o)'
<1>1. TInv /\ Claims
  BY DEF CInv, PInv
<1>2. \A n \in Identifiers[o] : <<o, n>> \in Authzs
  BY OrderAssumption DEF Authzs
<1>3. \A v \in Workers : v # w => pc'[v] = pc[v] /\ AuthzOf(v)' = AuthzOf(v)
  BY DEF Does, AuthzOf
<1>4. ASSUME NEW n \in Identifiers[o], pc'[w] \in Readying, AuthzOf(w)' = <<o, n>>
      PROVE  n \in Unspent(o)
  <2>1. CASE ChallengeClaim(w)
    <3>1. ~Claimed(<<o, n>>)
      BY <1>1, <1>4, <2>1, ClaimsUnclaimed
    <3>. QED
      BY <3>1 DEF Unspent
  <2>2. CASE ~ChallengeClaim(w)
    <3>1. /\ <<pc[w], pc'[w]>> \in Succession
          /\ job'[w].order = job[w].order /\ job'[w].name = job[w].name
      BY <1>4, <2>2 DEF Does, Control, Claiming, Readying
    <3>2. pc[w] \in Readying
      BY <1>4, <3>1 DEF Succession, Readying
    <3>3. AuthzOf(w) = <<o, n>>
      BY <1>4, <3>1 DEF AuthzOf
    <3>. QED
      BY <3>2, <3>3 DEF Unspent
  <2>. QED
    BY <2>1, <2>2
<1>5. ASSUME NEW n \in Unspent(o)' PROVE n \in Unspent(o)
  <2>1. n \in Identifiers[o]
    BY <1>5 DEF Unspent
  <2>2. CASE ~Claimed(<<o, n>>)'
    <3>1. ~Claimed(<<o, n>>)
      BY <1>1, <1>2, <2>1, <2>2, StaysClaimed
    <3>. QED
      BY <2>1, <3>1 DEF Unspent
  <2>3. CASE Claimed(<<o, n>>)'
    <3>1. PICK v \in Workers : pc'[v] \in Readying /\ AuthzOf(v)' = <<o, n>>
      BY <1>5, <2>3 DEF Unspent
    <3>2. CASE v = w
      BY <1>4, <2>1, <3>1, <3>2
    <3>3. CASE v # w
      BY <1>3, <2>1, <3>1, <3>3 DEF Unspent
    <3>. QED
      BY <3>2, <3>3
  <2>. QED
    BY <2>2, <2>3
<1>6. ASSUME pc[w] = "order_ready", job[w].order = o
      PROVE  job[w].name \in Unspent(o) /\ job[w].name \notin Unspent(o)'
  <2>0. PICK n : n = job[w].name
    OBVIOUS
  <2>1. AuthzOf(w) = <<o, n>> /\ <<o, n>> \in Authzs /\ n \in Identifiers[o]
    BY <1>1, <1>6, <2>0 DEF TInv, JobsFit, Fits, Challenging, Authzs, AuthzOf
  <2>2. n \in Unspent(o)
    BY <1>6, <2>1 DEF Unspent, Readying
  <2>3. Claimed(<<o, n>>)'
    <3>1. Claimed(<<o, n>>)
      BY <1>1, <1>6, <2>1 DEF Claims, ClaimLasts, Challenging
    <3>. QED
      BY <1>1, <2>1, <3>1, StaysClaimed
  <2>4. pc'[w] \notin Readying
    <3>1. ~ChallengeClaim(w) /\ <<pc[w], pc'[w]>> \notin Succession
      BY <1>6 DEF ChallengeClaim, Succession
    <3>. QED
      BY <3>1 DEF Does, Control, Claiming, Readying
  <2>5. ASSUME NEW v \in Workers, pc'[v] \in Readying, AuthzOf(v)' = <<o, n>>
        PROVE  FALSE
    <3>1. v # w /\ pc[v] \in Challenging /\ AuthzOf(v) = AuthzOf(w)
      BY <1>3, <2>1, <2>4, <2>5 DEF Readying, Challenging
    <3>. QED
      BY <1>1, <1>6, <3>1 DEF Claims, Apart, Challenging
  <2>6. n \notin Unspent(o)'
    BY <2>3, <2>5 DEF Unspent
  <2>. QED
    BY <2>0, <2>2, <2>6
<1>. QED
  BY <1>5, <1>6

\* Whom a handler's step makes about to sign, and when.
LEMMA IssuersMove ==
    ASSUME NEW w \in Workers, Does(w), ~FinalizeClaim(w), NEW o \in Orders
    PROVE  Issuers(o)' \subseteq Issuers(o)
<1>. SUFFICES ASSUME NEW v \in Workers, pc'[v] \in {"issue", "sign"}, job'[v].order = o
              PROVE  pc[v] \in {"issue", "sign"} /\ job[v].order = o
  BY DEF Issuers
<1>1. CASE v # w
  BY <1>1 DEF Does
<1>2. CASE v = w
  <2>1. <<pc[w], pc'[w]>> \in Succession /\ job'[w].order = job[w].order
    BY <1>2 DEF Does, Control, Claiming
  <2>. QED
    BY <1>2, <2>1 DEF Succession
<1>. QED
  BY <1>1, <1>2

\* A handler's step is paid for (handleChallenge, handleFinalize).
LEMMA HandlerPays ==
    ASSUME BInv, TInv', NEW w \in Workers, Start(w) \/ Lock(w) \/ Step(w),
           NEW o \in Orders
    PROVE  Funded(o)'
<1>1. TInv /\ TypeOK /\ TypeOK' /\ CInv /\ Does(w) /\ Funded(o)
  BY HandlerDoes DEF BInv, CInv, PInv, TInv
<1>2. /\ Unspent(o)' \subseteq Unspent(o)
      /\ pc[w] = "order_ready" /\ job[w].order = o =>
            /\ job[w].name \in Unspent(o) /\ job[w].name \notin Unspent(o)'
  BY <1>1, NamesGetSpent
<1>3. CASE FinalizeClaim(w)
  <2>1. PICK q \in Orders : /\ Status(q) = "ready" /\ Status(q)' = "processing"
                           /\ pc'[w] = "issue" /\ job'[w].order = q
    BY <1>1, <1>3, ClaimedOrder
  <2>2. SignedFor(o)' = SignedFor(o)
    BY <1>3 DEF FinalizeClaim, ca, SignedFor
  <2>3. Issuers(o)' \ {w} \subseteq Issuers(o) /\ (o # q => w \notin Issuers(o)')
    BY <1>1, <2>1 DEF Does, Issuers
  <2>4. CASE o = q
    <3>1. Readied(o) = 1 /\ Readied(o)' = 0
      BY <2>1, <2>4 DEF Readied
    <3>. QED
      BY <1>1, <1>2, <2>2, <2>3, <3>1, ReadyIssues
  <2>5. CASE o # q
    <3>1. order'[o] = order[o]
      BY <1>1, <2>1, <2>5 DEF Does, OrderMove
    <3>2. Readied(o)' <= Readied(o)
      BY <3>1 DEF Readied, Status, Live
    <3>3. Issuers(o)' \subseteq Issuers(o)
      BY <2>3, <2>5
    <3>. QED
      BY <1>1, <1>2, <2>2, <3>2, <3>3, NothingGained
  <2>. QED
    BY <2>4, <2>5
<1>4. ASSUME NEW r \in Serials, SignsOne(w, r), ~FinalizeClaim(w) PROVE Funded(o)'
  <2>1. Issuers(o)' \subseteq Issuers(o) /\ w \notin Issuers(o)'
    BY <1>1, <1>4, IssuersMove DEF SignsOne, Issuers
  <2>2. Readied(o)' = Readied(o) /\ Readied(o)' <= Readied(o)
    BY <1>4 DEF SignsOne, Readied, Status, Live
  <2>3. SignedFor(o)' \ {r} \subseteq SignedFor(o)
    BY <1>4 DEF SignsOne, SignedFor
  <2>4. CASE job[w].order = o
    <3>1. w \in Issuers(o)
      BY <1>4, <2>4 DEF SignsOne, Issuers
    <3>2. Issuers(o)' \subseteq Issuers(o) \ {w}
      BY <2>1
    <3>. QED
      BY <1>1, <1>2, <2>2, <2>3, <3>1, <3>2, IssuerSigns
  <2>5. CASE job[w].order # o
    <3>1. r \notin SignedFor(o)'
      BY <1>4, <2>5 DEF SignsOne, SignedFor
    <3>2. SignedFor(o)' \subseteq SignedFor(o)
      BY <2>3, <3>1
    <3>. QED
      BY <1>1, <1>2, <2>1, <2>2, <3>2, NothingGained
  <2>. QED
    BY <2>4, <2>5
<1>5. CASE SignsNothing /\ ~FinalizeClaim(w)
  <2>1. SignedFor(o)' \subseteq SignedFor(o)
    BY <1>5 DEF SignsNothing, SignedFor
  <2>2. Issuers(o)' \subseteq Issuers(o)
    BY <1>1, <1>5, IssuersMove
  <2>3. CASE pc[w] = "order_ready" /\ job[w].order = o
    <3>1. PICK n \in Unspent(o) : n \notin Unspent(o)'
      BY <1>2, <2>3
    <3>2. Unspent(o)' \subseteq Unspent(o) \ {n}
      BY <1>2, <3>1
    <3>. QED
      BY <1>1, <2>1, <2>2, <3>2, NameReadies
  <2>4. CASE ~(pc[w] = "order_ready" /\ job[w].order = o)
    <3>1. order'[o] = order[o] \/ (Live(o)' /\ order'[o].status # "ready")
      BY <1>1, <1>5, <2>4 DEF Does, OrderMove
    <3>2. Readied(o)' <= Readied(o)
      BY <3>1 DEF Readied, Status, Live
    <3>. QED
      BY <1>1, <1>2, <2>1, <2>2, <3>2, NothingGained
  <2>. QED
    BY <2>3, <2>4
<1>. QED
  BY <1>1, <1>3, <1>4, <1>5, SignedMove

LEMMA HandlerTouches ==
    ASSUME BInv, TInv', NEW w \in Workers, Start(w) \/ Lock(w) \/ Step(w),
           NEW o \in Orders
    PROVE  Untouched(o)'
<1>. SUFFICES ASSUME order'[o] = None PROVE SignedFor(o)' = {}
  BY DEF Untouched
<1>1. TInv /\ Does(w) /\ Untouched(o) /\ WorkersProved
  BY HandlerDoes DEF BInv, CInv, PInv
<1>2. order[o] = None
  BY <1>1 DEF Does, OrderMove, Live
<1>3. \A s \in Serials : signed[s] # None => signed[s].order # o
  BY <1>1, <1>2 DEF Untouched, SignedFor
<1>4. CASE SignsNothing
  BY <1>3, <1>4 DEF SignsNothing, SignedFor
<1>5. ASSUME NEW r \in Serials, SignsOne(w, r) PROVE SignedFor(o)' = {}
  <2>1. job[w].order # o
    BY <1>1, <1>2, <1>5 DEF WorkersProved, WorkerProved, SignsOne, Finalizing
  <2>. QED
    BY <1>3, <1>5, <2>1 DEF SignsOne, SignedFor
<1>. QED
  BY <1>1, <1>4, <1>5, SignedMove

\* A restart, the collector, the clock and the operator pay for nothing; a new
\* order has what its names are good for.
LEMMA OthersPay ==
    ASSUME BInv, TInv', NEW o \in Orders,
           \/ Tick \/ GC \/ Crash \/ OperatorIssue \/ OperatorRevoke
           \/ \E q \in Orders : NewOrder(q)
    PROVE  Funded(o)' /\ Untouched(o)'
<1>1. TypeOK /\ Funded(o) /\ Untouched(o) /\ WorkersProved
  BY DEF BInv, CInv, PInv, TInv
<1>2. SignedFor(o)' \subseteq SignedFor(o)
  <2>1. SignedKept
    BY <1>1, OthersKeepSigned
  <2>2. None # o
    BY OrderAssumption
  <2>. QED
    BY <2>1, <2>2 DEF SignedKept, SignedFor
<1>3. Issuers(o)' \subseteq Issuers(o)
  BY DEF Tick, GC, Crash, OperatorIssue, OperatorRevoke, NewOrder, workers, Issuers
<1>4. CASE Tick \/ GC \/ Crash \/ OperatorIssue \/ OperatorRevoke
  <2>1. order'[o] \in {order[o], Gone}
    BY <1>4 DEF Tick, GC, Crash, OperatorIssue, OperatorRevoke, tables
  <2>2. Readied(o)' <= Readied(o)
    <3>1. CASE order'[o] = order[o]
      BY <3>1 DEF Readied, Status, Live
    <3>2. CASE order'[o] = Gone
      <4>1. Status(o)' # "ready"
        BY <3>2, RowAssumption DEF Status, Live
      <4>2. Readied(o)' = 0 /\ Readied(o) \in 0..1
        BY <4>1 DEF Readied
      <4>. QED
        BY <4>2
    <3>. QED
      BY <2>1, <3>1, <3>2
  <2>3. \A k \in Challenges : chall'[k] = "pending" => chall[k] = "pending"
    BY <1>4 DEF Tick, GC, Crash, OperatorIssue, OperatorRevoke, tables
  <2>4. \A n \in Identifiers[o] : Claimed(<<o, n>>) => Claimed(<<o, n>>)'
    <3>1. \A n \in Identifiers[o] : <<o, n>> \in Authzs
      BY OrderAssumption DEF Authzs
    <3>. QED
      BY <2>3, <3>1, Rows DEF Claimed
  <2>5. \A v \in Workers : pc'[v] = "idle"
                           \/ (pc'[v] = pc[v] /\ AuthzOf(v)' = AuthzOf(v))
    BY <1>4 DEF Tick, GC, Crash, OperatorIssue, OperatorRevoke, workers, AuthzOf
  <2>6. Unspent(o)' \subseteq Unspent(o)
    BY <2>4, <2>5 DEF Unspent, Readying
  <2>7. order'[o] = None => order[o] = None
    BY <2>1, RowAssumption
  <2>. QED
    BY <1>1, <1>2, <1>3, <2>2, <2>6, <2>7, NothingGained DEF Untouched
<1>5. ASSUME NEW q \in Orders, NewOrder(q) PROVE Funded(o)' /\ Untouched(o)'
  <2>1. /\ order[q] = None /\ order'[q].status = "pending" /\ order'[q] \in OrderRow
        /\ \A p \in Orders : p # q => order'[p] = order[p]
        /\ pc' = pc /\ job' = job
        /\ \A k \in Challenges : k[1] # q => chall'[k] = chall[k]
    BY <1>1, <1>5, TimeAssumption DEF NewOrder, TypeOK, OrderRow, workers
  <2>2. Readied(o)' <= Readied(o)
    <3>1. CASE o = q
      BY <2>1, <3>1, RowAssumption DEF Readied, Status, Live
    <3>2. CASE o # q
      BY <2>1, <3>2 DEF Readied, Status, Live
    <3>. QED
      BY <3>1, <3>2
  <2>3. Untouched(o)'
    BY <1>1, <1>2, <2>1, RowAssumption DEF Untouched
  <2>4. CASE o # q
    <3>1. \A n \in Identifiers[o] : Claimed(<<o, n>>) => Claimed(<<o, n>>)'
      <4>1. \A n \in Identifiers[o] : <<o, n>> \in Authzs
        BY OrderAssumption DEF Authzs
      <4>. QED
        BY <2>1, <2>4, <4>1, Rows DEF Claimed
    <3>2. \A v \in Workers : pc'[v] = pc[v] /\ AuthzOf(v)' = AuthzOf(v)
      BY <2>1 DEF AuthzOf
    <3>3. Unspent(o)' \subseteq Unspent(o)
      BY <3>1, <3>2 DEF Unspent
    <3>. QED
      BY <1>1, <1>2, <1>3, <2>2, <2>3, <3>3, NothingGained
  <2>5. CASE o = q
    <3>1. SignedFor(o)' = {}
      BY <1>1, <1>2, <2>1, <2>5 DEF Untouched
    <3>2. Issuers(o) = {}
      BY <1>1, <2>1, <2>5 DEF Issuers, WorkersProved, WorkerProved, Finalizing
    <3>3. Issuers(o)' = {} /\ Readied(o)' = 0
      <4>1. Status(o)' = "pending"
        BY <2>1, <2>5, RowAssumption DEF Status, Live
      <4>. QED
        BY <1>3, <3>2, <4>1 DEF Readied
    <3>4. /\ IsFiniteSet(Identifiers[o]) /\ Unspent(o)' \subseteq Identifiers[o]
          /\ Cardinality(Identifiers[o]) \in Nat
      BY FiniteAssumption, FS_CardinalityType DEF Unspent
    <3>5. /\ Cardinality(Unspent(o)') <= Cardinality(Identifiers[o])
          /\ Cardinality(Unspent(o)') \in Nat
      BY <3>4, FS_Subset, FS_CardinalityType
    <3>. QED
      BY <2>3, <3>1, <3>3, <3>4, <3>5, FS_EmptySet DEF Funded
  <2>. QED
    BY <2>4, <2>5
<1>. QED
  BY <1>4, <1>5

LEMMA BudgetInit == Init => BInv
<1>. SUFFICES ASSUME Init, NEW o \in Orders PROVE Funded(o) /\ Untouched(o)
  BY ClaimsInit DEF BInv
<1>1. SignedFor(o) = {} /\ Issuers(o) = {} /\ Readied(o) = 0
  BY RowAssumption DEF Init, SignedFor, Issuers, Readied, Status, Live
<1>2. IsFiniteSet(Unspent(o)) /\ Cardinality(Unspent(o)) <= Cardinality(Identifiers[o])
  BY FiniteAssumption, FS_Subset DEF Unspent
<1>3. Cardinality(Unspent(o)) \in Nat /\ Cardinality(Identifiers[o]) \in Nat
  BY <1>2, FiniteAssumption, FS_CardinalityType
<1>. QED
  BY <1>1, <1>2, <1>3, FS_EmptySet DEF Funded, Untouched

LEMMA BudgetStep == BInv /\ [Next]_vars => BInv'
<1>. SUFFICES ASSUME BInv, [Next]_vars PROVE BInv'
  OBVIOUS
<1>1. CInv' /\ TInv'
  BY ClaimsStep DEF BInv, CInv, PInv
<1>2. CASE UNCHANGED vars
  <2>. SUFFICES ASSUME NEW o \in Orders PROVE Funded(o)' /\ Untouched(o)'
    BY <1>1 DEF BInv
  <2>1. Funded(o) /\ Untouched(o) /\ order' = order
    BY <1>2 DEF BInv, vars, tables
  <2>2. SignedFor(o)' = SignedFor(o)
    BY <1>2 DEF vars, ca, SignedFor
  <2>3. Issuers(o)' = Issuers(o)
    BY <1>2 DEF vars, workers, Issuers
  <2>4. Readied(o)' = Readied(o)
    BY <2>1 DEF Readied, Status, Live
  <2>5. \A n \in Identifiers[o] : Claimed(<<o, n>>)' = Claimed(<<o, n>>)
    BY <1>2 DEF vars, tables, Claimed
  <2>6. \A v \in Workers : pc'[v] = pc[v] /\ AuthzOf(v)' = AuthzOf(v)
    BY <1>2 DEF vars, workers, AuthzOf
  <2>7. Unspent(o)' = Unspent(o)
    BY <2>5, <2>6 DEF Unspent
  <2>. QED
    BY <2>1, <2>2, <2>3, <2>4, <2>7 DEF Funded, Untouched
<1>. QED
  BY <1>1, <1>2, HandlerPays, HandlerTouches, OthersPay DEF Next, BInv

\* An order gets at most as many certificates as it asked for names, whatever
\* requests run together, crash or fail (handleChallenge, ClaimOrder): the bound
\* for orders that OneCertificatePerOrder does not hold of.
THEOREM OrdersGetWhatNamesPay == Spec => []CertificatesWithinNames
<1>1. BInv => CertificatesWithinNames
  <2>. SUFFICES ASSUME BInv, NEW o \in Orders
                PROVE  Cardinality(SignedFor(o)) <= Cardinality(Identifiers[o])
    BY DEF CertificatesWithinNames
  <2>. QED
    BY Counts DEF BInv, Funded
<1>. QED
  BY <1>1, BudgetInit, BudgetStep, PTL DEF Spec
=============================================================================
