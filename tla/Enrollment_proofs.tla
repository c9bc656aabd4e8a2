------------------------- MODULE Enrollment_proofs -------------------------
(***************************************************************************)
(* A nonce backs at most one certificate, for its own identity and in its  *)
(* lifetime, for any number of processes, identities and nonces.           *)
(*                                                                         *)
(* The inductive invariant ties the tables to the history of draws: a row  *)
(* holds a nonce drawn for its identity, and a nonce still pending has no  *)
(* certificate.  Two certificates of one subject are a renewal window      *)
(* apart: no certificate is from the future, and the one being signed      *)
(* finds every other one of its subject past its window.                   *)
(***************************************************************************)
EXTENDS Enrollment, FiniteSetTheorems, TLAPS

\* A sign process past its first checks carries an identity, a nonce and a
\* subject.
Carries == \A p \in Procs : pc[p] = "sign" =>
              job[p].id \in Ids /\ job[p].nonce \in Nonces /\ job[p].cn \in Cns

RowsDrawn ==
    \A id \in Ids : row[id] # None /\ row[id].nonce # None =>
        drawn[row[id].nonce] = [id |-> id, at |-> row[id].issued]
                /\ row[id].issued <= clock

PendingUnspent ==
    \A id \in Ids, s \in Serials :
        row[id] # None /\ ~row[id].consumed /\ cert[s] # None
        => cert[s].nonce # row[id].nonce

NInv == /\ TypeOK /\ Carries /\ RowsDrawn /\ PendingUnspent
        /\ SpentInTime /\ NonceSpentOnce

(***************************************************************************)
(* Before anything is enrolled the invariant holds vacuously.              *)
(***************************************************************************)
LEMMA NonceInit == Init => NInv
BY NumberAssumption, NoneAssumption
   DEF Init, NInv, TypeOK, Carries, RowsDrawn, PendingUnspent, SpentInTime,
       NonceSpentOnce, Row, Draw, Certificate, Job, NoJob

(***************************************************************************)
(* Steps of the enrollment commands keep the types (enroll, get_nonce,     *)
(* sign_csr).                                                              *)
(***************************************************************************)
LEMMA TypeStep == TypeOK /\ Carries /\ [Next]_vars => TypeOK' /\ Carries'
<1> SUFFICES ASSUME TypeOK, Carries, [Next]_vars PROVE TypeOK' /\ Carries'
  OBVIOUS
<1> USE NumberAssumption, NoneAssumption, AbsentAssumption
<1>1. CASE Tick
  BY <1>1 DEF Tick, TypeOK, Carries
<1>2. ASSUME NEW id \in Ids, Enroll(id) PROVE TypeOK' /\ Carries'
  BY <1>2 DEF Enroll, TypeOK, Carries, Row
<1>3. ASSUME NEW id \in Ids, GetNonce(id) PROVE TypeOK' /\ Carries'
  BY <1>3 DEF GetNonce, TypeOK, Carries, Row, Draw
<1>4. ASSUME NEW p \in Procs, SignStart(p) PROVE TypeOK' /\ Carries'
  BY <1>4 DEF SignStart, TypeOK, Carries, Job
<1>5. ASSUME NEW p \in Procs, SignFails(p) PROVE TypeOK' /\ Carries'
  BY <1>5 DEF SignFails, Done, TypeOK, Carries, Job, NoJob
<1>6. ASSUME NEW p \in Procs, SignCommit(p) PROVE TypeOK' /\ Carries'
  <2>1. PICK s \in Serials :
          cert' = [cert EXCEPT ![s] =
                     [cn |-> job[p].cn, nonce |-> job[p].nonce,
                      id |-> job[p].id, at |-> clock]]
    BY <1>6 DEF SignCommit
  <2>2. cert' \in [Serials -> Certificate \cup {None}]
    BY <1>6, <2>1 DEF SignCommit, TypeOK, Carries, Certificate
  <2>3. row' \in [Ids -> Row \cup {None}]
    <3>1. row[job[p].id] \in Row /\ job[p].id \in Ids
      BY <1>6 DEF SignCommit, StillGood, Accepted, TypeOK, Carries
    <3>2. [row[job[p].id] EXCEPT !.consumed = TRUE] \in Row
      BY <3>1 DEF Row
    <3> QED BY <1>6, <3>1, <3>2 DEF SignCommit, TypeOK
  <2> QED BY <1>6, <2>2, <2>3 DEF SignCommit, Done, TypeOK, Carries, Job, NoJob
<1>7. CASE UNCHANGED vars
  BY <1>7 DEF vars, TypeOK, Carries
<1> QED BY <1>1, <1>2, <1>3, <1>4, <1>5, <1>6, <1>7 DEF Next

(***************************************************************************)
(* Steps keep the invariant: a fresh draw is on no certificate, and the    *)
(* nonce a certificate spends was pending for one identity only.           *)
(***************************************************************************)
LEMMA NonceStep == NInv /\ [Next]_vars => NInv'
<1> SUFFICES ASSUME NInv, [Next]_vars PROVE NInv'
  OBVIOUS
<1> USE NumberAssumption, NoneAssumption, AbsentAssumption
<1>0. TypeOK' /\ Carries'
  BY TypeStep DEF NInv
<1> DEFINE Rest == /\ RowsDrawn' /\ PendingUnspent' /\ SpentInTime'
                   /\ NonceSpentOnce'
<1>1. ASSUME Tick PROVE Rest
  BY <1>1 DEF Tick, NInv, TypeOK, Row, RowsDrawn, PendingUnspent, SpentInTime,
              NonceSpentOnce
<1>2. ASSUME NEW id \in Ids, Enroll(id) PROVE Rest
  <2>1. row'[id].nonce = None /\ row'[id].consumed
        /\ \A i \in Ids : i # id => row'[i] = row[i]
    BY <1>2 DEF Enroll, NInv, TypeOK
  <2>2. drawn' = drawn /\ cert' = cert /\ clock' = clock
    BY <1>2 DEF Enroll
  <2>3. RowsDrawn'
    BY <2>1, <2>2 DEF NInv, RowsDrawn
  <2>4. PendingUnspent'
    BY <2>1, <2>2 DEF NInv, PendingUnspent
  <2>5. SpentInTime' /\ NonceSpentOnce'
    BY <2>2 DEF NInv, SpentInTime, NonceSpentOnce
  <2> QED BY <2>3, <2>4, <2>5
<1>3. ASSUME NEW id \in Ids, GetNonce(id) PROVE Rest
  <2>1. PICK n \in Nonces :
          /\ drawn[n] = None
          /\ drawn' = [drawn EXCEPT ![n] = [id |-> id, at |-> clock]]
          /\ row' = [row EXCEPT ![id] = [nonce |-> n, issued |-> clock,
                                         consumed |-> FALSE]]
    BY <1>3 DEF GetNonce
  <2>2. /\ row'[id] = [nonce |-> n, issued |-> clock, consumed |-> FALSE]
        /\ \A i \in Ids : i # id => row'[i] = row[i]
        /\ drawn'[n] = [id |-> id, at |-> clock]
        /\ \A m \in Nonces : m # n => drawn'[m] = drawn[m]
        /\ cert' = cert /\ clock' = clock
    <3>1. row \in [Ids -> Row \cup {None}] /\ drawn \in [Nonces -> Draw \cup {None}]
      BY DEF NInv, TypeOK
    <3>2. /\ row'[id] = [nonce |-> n, issued |-> clock, consumed |-> FALSE]
          /\ \A i \in Ids : i # id => row'[i] = row[i]
      BY <2>1, <3>1
    <3>3. /\ drawn'[n] = [id |-> id, at |-> clock]
          /\ \A m \in Nonces : m # n => drawn'[m] = drawn[m]
      BY <2>1, <3>1
    <3>4. cert' = cert /\ clock' = clock
      BY <1>3 DEF GetNonce
    <3> QED BY <3>2, <3>3, <3>4
  <2>3. \A s \in Serials : cert[s] # None =>
            cert[s].nonce \in Nonces /\ cert[s].nonce # n
    BY <2>1 DEF NInv, SpentInTime, TypeOK, Certificate
  <2>4. \A i \in Ids : row[i] # None /\ row[i].nonce # None =>
            row[i].nonce \in Nonces /\ row[i].nonce # n
    <3> SUFFICES ASSUME NEW i \in Ids, row[i] # None, row[i].nonce # None
                 PROVE  row[i].nonce \in Nonces /\ row[i].nonce # n
      OBVIOUS
    <3>1. row[i] \in Row
      BY DEF NInv, TypeOK
    <3>2. row[i].nonce \in Nonces /\ row[i].issued \in Nat
      BY <3>1 DEF Row
    <3>3. drawn[row[i].nonce] = [id |-> i, at |-> row[i].issued]
      BY DEF NInv, RowsDrawn
    <3>4. drawn[row[i].nonce] \in Draw
      BY <3>2, <3>3 DEF Draw
    <3> QED BY <2>1, <3>2, <3>4
  <2>5. RowsDrawn'
    BY <2>2, <2>4 DEF NInv, RowsDrawn, TypeOK
  <2>6. PendingUnspent'
    BY <2>2, <2>3 DEF NInv, PendingUnspent
  <2>7. SpentInTime'
    BY <2>2, <2>3 DEF NInv, SpentInTime
  <2> QED BY <2>2, <2>5, <2>6, <2>7 DEF NInv, NonceSpentOnce
<1>4. ASSUME NEW p \in Procs, SignStart(p) PROVE Rest
  BY <1>4 DEF SignStart, NInv, RowsDrawn, PendingUnspent, SpentInTime,
              NonceSpentOnce
<1>5. ASSUME NEW p \in Procs, SignFails(p) PROVE Rest
  BY <1>5 DEF SignFails, NInv, RowsDrawn, PendingUnspent, SpentInTime,
              NonceSpentOnce
<1>6. ASSUME NEW p \in Procs, SignCommit(p) PROVE Rest
  <2> DEFINE i == job[p].id
             n == job[p].nonce
  <2>1. PICK s \in Serials :
          /\ cert[s] = None
          /\ cert' = [cert EXCEPT ![s] = [cn |-> job[p].cn, nonce |-> n,
                                          id |-> i, at |-> clock]]
    BY <1>6 DEF SignCommit
  <2>2. /\ i \in Ids /\ n \in Nonces /\ row[i] # None
        /\ row[i].nonce = n /\ ~row[i].consumed
        /\ clock < row[i].issued + Validity
    BY <1>6 DEF SignCommit, StillGood, Accepted, NInv, Carries
  <2>3. /\ cert'[s] = [cn |-> job[p].cn, nonce |-> n, id |-> i, at |-> clock]
        /\ \A t \in Serials : t # s => cert'[t] = cert[t]
        /\ drawn' = drawn /\ clock' = clock
    BY <1>6, <2>1 DEF SignCommit, NInv, TypeOK
  <2>4. /\ \A j \in Ids : j # i => row'[j] = row[j]
        /\ row'[i].consumed /\ row'[i].nonce = n
        /\ row'[i].issued = row[i].issued
    <3>1. row[i] \in Row
      BY <2>2 DEF NInv, TypeOK
    <3>2. row' = [row EXCEPT ![i] = [row[i] EXCEPT !.consumed = TRUE]]
      BY <1>6 DEF SignCommit
    <3> QED BY <2>2, <3>1, <3>2 DEF NInv, TypeOK, Row
  <2>5. /\ drawn[n] = [id |-> i, at |-> row[i].issued]
        /\ row[i].issued <= clock /\ row[i].issued \in Nat /\ clock \in Nat
    BY <2>2 DEF NInv, RowsDrawn, TypeOK, Row
  <2>6. \A j \in Ids : j # i /\ row[j] # None => row[j].nonce # n
    <3> SUFFICES ASSUME NEW j \in Ids, row[j] # None, row[j].nonce = n
                 PROVE  j = i
      OBVIOUS
    <3>1. drawn[n] = [id |-> j, at |-> row[j].issued]
      BY <2>2 DEF NInv, RowsDrawn
    <3> QED BY <2>5, <3>1
  <2>7. RowsDrawn'
    BY <2>2, <2>3, <2>4, <2>5 DEF NInv, RowsDrawn
  <2>8. PendingUnspent'
    BY <2>3, <2>4, <2>6 DEF NInv, PendingUnspent
  <2>9. SpentInTime'
    <3>1. drawn[n] \in Draw
      BY <2>2, <2>5 DEF Draw
    <3>2. drawn[n] # None
      BY <3>1
    <3>3. clock \in row[i].issued .. (row[i].issued + Validity - 1)
      BY <2>2, <2>5
    <3> QED BY <2>3, <2>5, <3>2, <3>3 DEF NInv, SpentInTime
  <2>10. \A t \in Serials : cert[t] # None => cert[t].nonce # n
    BY <2>2 DEF NInv, PendingUnspent
  <2>11. NonceSpentOnce'
    BY <2>3, <2>10 DEF NInv, NonceSpentOnce
  <2> QED BY <2>7, <2>8, <2>9, <2>11
<1>7. ASSUME UNCHANGED vars PROVE Rest
  BY <1>7 DEF vars, NInv, RowsDrawn, PendingUnspent, SpentInTime,
              NonceSpentOnce
<1> QED BY <1>0, <1>1, <1>2, <1>3, <1>4, <1>5, <1>6, <1>7 DEF Next, NInv

(***************************************************************************)
(* At most one certificate is ever signed with a nonce, however many sign  *)
(* processes race with it ("a nonce cannot be double-spent", sign_csr).    *)
(***************************************************************************)
THEOREM NeverDoubleSpent == Spec => []NonceSpentOnce
<1>1. NInv => NonceSpentOnce
  BY DEF NInv
<1> QED BY <1>1, NonceInit, NonceStep, PTL DEF Spec

(***************************************************************************)
(* Every certificate signed from a CSR was signed for the identity its     *)
(* nonce was drawn for, before the nonce expired (sign_csr, get_nonce).    *)
(***************************************************************************)
THEOREM SpentByItsOwner == Spec => []SpentInTime
<1>1. NInv => SpentInTime
  BY DEF NInv
<1> QED BY <1>1, NonceInit, NonceStep, PTL DEF Spec

\* No certificate is from the future.
Past == \A s \in Serials : cert[s] # None => cert[s].at <= clock

WInv == TypeOK /\ Carries /\ Past /\ RenewedInWindow

(***************************************************************************)
(* Only a signature adds a certificate; every other step leaves them, and  *)
(* the clock does not go back.                                             *)
(***************************************************************************)
LEMMA OthersSignNothing ==
    ASSUME TypeOK, [Next]_vars, \A p \in Procs : ~SignCommit(p)
    PROVE  cert' = cert /\ clock <= clock'
BY DEF TypeOK, Next, Tick, Enroll, GetNonce, SignStart, SignFails, vars

(***************************************************************************)
(* Under the write lock the subject is not blocked, so every certificate   *)
(* it has is past its renewal window (blocking_duplicate, sign_csr).       *)
(***************************************************************************)
LEMMA CommitInWindow ==
    ASSUME WInv, NEW p \in Procs, SignCommit(p)
    PROVE  Past' /\ RenewedInWindow'
<1>1. PICK r \in Serials :
        /\ cert[r] = None
        /\ cert' = [cert EXCEPT ![r] = [cn |-> job[p].cn, nonce |-> job[p].nonce,
                                        id |-> job[p].id, at |-> clock]]
  BY DEF SignCommit
<1>2. /\ cert'[r] = [cn |-> job[p].cn, nonce |-> job[p].nonce,
                     id |-> job[p].id, at |-> clock]
      /\ \A s \in Serials : s # r => cert'[s] = cert[s]
      /\ clock' = clock
  BY <1>1 DEF SignCommit, WInv, TypeOK
<1>3. \A s \in Serials : cert[s] # None => cert[s].at \in Nat /\ cert[s].at <= clock
  BY DEF WInv, Past, TypeOK, Certificate
<1>4. \A s \in Serials : cert[s] # None /\ cert[s].cn = job[p].cn
                            => ~(clock < cert[s].at + RenewAfter)
  BY DEF SignCommit, StillGood, Blocked
<1>5. clock \in Nat /\ RenewAfter \in Nat
  BY NumberAssumption DEF WInv, TypeOK
<1>6. Past'
  BY <1>2, <1>3, <1>5 DEF Past
<1>7. RenewedInWindow'
  <2>. SUFFICES ASSUME NEW s \in Serials, NEW t \in Serials, s # t,
                       cert'[s] # None, cert'[t] # None, cert'[s].cn = cert'[t].cn,
                       cert'[s].at <= cert'[t].at
                PROVE  cert'[s].at + RenewAfter <= cert'[t].at
    BY DEF RenewedInWindow
  <2>1. CASE t = r
    BY <1>2, <1>3, <1>4, <1>5, <2>1
  <2>2. CASE s = r
    BY <1>2, <1>3, <1>4, <1>5, <2>2
  <2>3. CASE s # r /\ t # r
    BY <1>2, <2>3 DEF WInv, RenewedInWindow
  <2>. QED
    BY <2>1, <2>2, <2>3
<1>. QED
  BY <1>6, <1>7

LEMMA WindowStep == WInv /\ [Next]_vars => WInv'
<1>. SUFFICES ASSUME WInv, [Next]_vars PROVE WInv'
  OBVIOUS
<1>1. TypeOK' /\ Carries'
  BY TypeStep DEF WInv
<1>2. CASE \E p \in Procs : SignCommit(p)
  BY <1>1, <1>2, CommitInWindow DEF WInv
<1>3. CASE \A p \in Procs : ~SignCommit(p)
  <2>1. cert' = cert /\ clock <= clock'
    BY <1>3, OthersSignNothing DEF WInv
  <2>2. Past'
    <3>. SUFFICES ASSUME NEW s \in Serials, cert[s] # None PROVE cert[s].at <= clock'
      BY <2>1 DEF Past
    <3>1. cert[s].at \in Nat /\ cert[s].at <= clock /\ clock \in Nat /\ clock' \in Nat
      BY <1>1 DEF WInv, Past, TypeOK, Certificate
    <3>. QED
      BY <2>1, <3>1
  <2>. QED
    BY <1>1, <2>1, <2>2 DEF WInv, RenewedInWindow
<1>. QED
  BY <1>2, <1>3

(***************************************************************************)
(* Identities that race for one subject get certificates a renewal window  *)
(* apart, whatever the processes read before they got the lock             *)
(* (blocking_duplicate, sign_csr).                                         *)
(***************************************************************************)
THEOREM SubjectsRenewInWindow == Spec => []RenewedInWindow
<1>1. Init => WInv
  BY NonceInit DEF Init, NInv, WInv, Past, RenewedInWindow
<1>2. WInv => RenewedInWindow
  BY DEF WInv
<1> QED BY <1>1, <1>2, WindowStep, PTL DEF Spec

-----------------------------------------------------------------------------
(* The ledger of the nonces *)

(***************************************************************************)
(* A step that signs and draws nothing, and leaves no identity with more   *)
(* than it had, is a lapse.                                                *)
(***************************************************************************)
LEMMA NothingPendingLapses ==
    ASSUME \A id \in Ids, n \in Nonces : Pending(id, n)' => Pending(id, n),
           drawn' = drawn, cert' = cert
    PROVE  Ledger!Lapse
<1>1. Live' \subseteq Live
  BY DEF Live
<1>2. Drawn' = Drawn /\ Uses' = Uses
  BY DEF Drawn, Uses, SignedWith
<1> QED BY <1>1, <1>2 DEF Ledger!Lapse

LEMMA GetNonceDraws ==
    ASSUME NInv, NEW id \in Ids, GetNonce(id) PROVE Ledger!Next
<1>1. PICK n \in Nonces :
        /\ drawn[n] = None
        /\ drawn' = [drawn EXCEPT ![n] = [id |-> id, at |-> clock]]
        /\ row' = [row EXCEPT ![id] = [nonce |-> n, issued |-> clock,
                                       consumed |-> FALSE]]
  BY DEF GetNonce
<1>2. drawn'[n] # None /\ \A m \in Nonces : m # n => drawn'[m] = drawn[m]
  <2>1. [id |-> id, at |-> clock] \in Draw
    BY DEF NInv, TypeOK, Draw
  <2>2. [id |-> id, at |-> clock] # None
    BY <2>1, AbsentAssumption
  <2> QED BY <1>1, <2>2 DEF NInv, TypeOK
<1>3. n \notin Drawn /\ Drawn' = Drawn \cup {n}
  BY <1>1, <1>2 DEF Drawn
<1>4. /\ row'[id].nonce = n
      /\ \A i \in Ids : i # id => row'[i] = row[i]
  BY <1>1 DEF NInv, TypeOK
<1>5. clock' = clock /\ cert' = cert
  BY DEF GetNonce
<1>6. \A i \in Ids, m \in Nonces : Pending(i, m)' => Pending(i, m) \/ m = n
  BY <1>4, <1>5 DEF Pending
<1>7. Live' \subseteq Live \cup {n}
  BY <1>6 DEF Live
<1>8. Uses' = Uses
  BY <1>5 DEF Uses, SignedWith
<1> QED BY <1>3, <1>7, <1>8 DEF Ledger!Next, Ledger!Draw

(***************************************************************************)
(* The certificate is the first one for its nonce, and nobody else had the *)
(* nonce pending.                                                          *)
(***************************************************************************)
LEMMA CommitSpends ==
    ASSUME NInv, NEW p \in Procs, SignCommit(p) PROVE Ledger!Next
<1>1. PICK i \in Ids, n \in Nonces : i = job[p].id /\ n = job[p].nonce
  BY DEF SignCommit, NInv, Carries
<1>2. /\ Pending(i, n) /\ row' = [row EXCEPT ![i].consumed = TRUE]
      /\ clock' = clock /\ drawn' = drawn
  BY <1>1 DEF SignCommit, StillGood, Accepted, Pending
<1>3. PICK s \in Serials :
        /\ cert[s] = None
        /\ cert' = [cert EXCEPT ![s] = [cn |-> job[p].cn, nonce |-> n,
                                        id |-> i, at |-> clock]]
  BY <1>1 DEF SignCommit
<1>4. /\ cert'[s].nonce = n /\ cert'[s] # None
      /\ \A t \in Serials : t # s => cert'[t] = cert[t]
  <2>1. cert'[s] = [cn |-> job[p].cn, nonce |-> n, id |-> i, at |-> clock]
        /\ \A t \in Serials : t # s => cert'[t] = cert[t]
    BY <1>3 DEF NInv, TypeOK
  <2>2. cert'[s] \in Certificate
    BY <1>1, <2>1 DEF SignCommit, NInv, TypeOK, Carries, Certificate
  <2> QED BY <2>1, <2>2, AbsentAssumption
<1>5. /\ row'[i].consumed
      /\ \A j \in Ids : j # i => row'[j] = row[j]
  <2>1. row[i] \in Row
    BY <1>2 DEF Pending, NInv, TypeOK
  <2>2. row' = [row EXCEPT ![i] = [row[i] EXCEPT !.consumed = TRUE]]
    BY <1>2
  <2> QED BY <2>1, <2>2 DEF NInv, TypeOK, Row
<1>6. \A j \in Ids : Pending(j, n) => j = i
  <2>1. ASSUME NEW j \in Ids, Pending(j, n) PROVE drawn[n].id = j
    <3>1. n # None
      BY NoneAssumption
    <3>2. drawn[n] = [id |-> j, at |-> row[j].issued]
      BY <2>1, <3>1 DEF Pending, NInv, RowsDrawn
    <3> QED BY <3>2
  <2> QED BY <1>2, <2>1
<1>7. /\ \A j \in Ids : ~Pending(j, n)'
      /\ \A j \in Ids, m \in Nonces : m # n => (Pending(j, m)' <=> Pending(j, m))
  <2>1. ~Pending(i, n)' /\ \A m \in Nonces : m # n => ~Pending(i, m)' /\ ~Pending(i, m)
    BY <1>2, <1>5 DEF Pending
  <2>2. \A j \in Ids, m \in Nonces : j # i => (Pending(j, m)' <=> Pending(j, m))
    BY <1>2, <1>5 DEF Pending
  <2> QED BY <1>6, <2>1, <2>2
<1>8. n \in Live /\ Live' = Live \ {n}
  BY <1>2, <1>7 DEF Live
<1>9. SignedWith(n) = {} /\ SignedWith(n)' = {s}
      /\ \A m \in Nonces : m # n => SignedWith(m)' = SignedWith(m)
  <2>1. SignedWith(n) = {}
    BY <1>2 DEF NInv, PendingUnspent, Pending, SignedWith
  <2>2. \A m \in Nonces : m # n => SignedWith(m)' = SignedWith(m)
    BY <1>3, <1>4 DEF SignedWith
  <2> QED BY <1>4, <2>1, <2>2 DEF SignedWith
<1>10. Uses' = [Uses EXCEPT ![n] = @ + 1]
  <2>1. Uses[n] = 0 /\ Uses'[n] = 1
    BY <1>9, FS_EmptySet, FS_Singleton DEF Uses
  <2>2. \A m \in Nonces : m # n => Uses'[m] = Uses[m]
    BY <1>9 DEF Uses
  <2>3. /\ Uses = [m \in Nonces |-> Uses[m]]
        /\ Uses' = [m \in Nonces |-> Uses'[m]]
    BY DEF Uses
  <2> QED BY <2>1, <2>2, <2>3
<1>11. Drawn' = Drawn
  BY <1>2 DEF Drawn
<1> QED BY <1>8, <1>10, <1>11 DEF Ledger!Next, Ledger!Spend

LEMMA LedgerStep == NInv /\ [Next]_vars => [Ledger!Next]_(Ledger!vars)
<1> SUFFICES ASSUME NInv, [Next]_vars PROVE Ledger!Next
  OBVIOUS
<1>1. CASE Tick
  <2>1. \A id \in Ids, n \in Nonces : Pending(id, n)' => Pending(id, n)
    <3> SUFFICES ASSUME NEW id \in Ids, NEW n \in Nonces, Pending(id, n)'
                 PROVE  Pending(id, n)
      OBVIOUS
    <3>1. row' = row /\ clock' = clock + 1 /\ clock \in Nat
      BY <1>1 DEF Tick, NInv, TypeOK
    <3>2. row[id] # None /\ row[id] \in Row
      BY <3>1 DEF Pending, NInv, TypeOK
    <3>3. row[id].issued \in Nat
      BY <3>2 DEF Row
    <3> QED BY <3>1, <3>3, NumberAssumption DEF Pending
  <2> QED BY <1>1, <2>1, NothingPendingLapses DEF Tick, Ledger!Next
<1>2. ASSUME NEW i \in Ids, Enroll(i) PROVE Ledger!Next
  <2>1. /\ row'[i].consumed /\ clock' = clock
        /\ \A j \in Ids : j # i => row'[j] = row[j]
    BY <1>2 DEF Enroll, NInv, TypeOK
  <2>2. \A id \in Ids, n \in Nonces : Pending(id, n)' => Pending(id, n)
    BY <2>1 DEF Pending
  <2> QED BY <1>2, <2>2, NothingPendingLapses DEF Enroll, Ledger!Next
<1>3. ASSUME UNCHANGED <<clock, row, drawn, cert>> PROVE Ledger!Next
  <2>1. \A id \in Ids, n \in Nonces : Pending(id, n)' => Pending(id, n)
    BY <1>3 DEF Pending
  <2> QED BY <1>3, <2>1, NothingPendingLapses DEF Ledger!Next
<1>4. ASSUME NEW p \in Procs, SignStart(p) \/ SignFails(p) PROVE Ledger!Next
  BY <1>3, <1>4 DEF SignStart, SignFails
<1>5. CASE UNCHANGED vars
  BY <1>3, <1>5 DEF vars
<1> QED BY <1>1, <1>2, <1>4, <1>5, GetNonceDraws, CommitSpends DEF Next

(***************************************************************************)
(* enroll, get_nonce and sign_csr keep the ledger: a certificate spends a  *)
(* nonce that is pending at its commit, and a nonce once spent, expired or *)
(* replaced is never accepted again.                                       *)
(***************************************************************************)
THEOREM SigningKeepsLedger == Spec => NoncesKeepLedger
<1>1. Init => Ledger!Init
  <2> SUFFICES ASSUME Init PROVE Ledger!Init
    OBVIOUS
  <2>1. Drawn = {} /\ Live = {}
    BY DEF Init, Drawn, Live, Pending
  <2>2. \A n \in Nonces : SignedWith(n) = {}
    BY DEF Init, SignedWith
  <2> QED BY <2>1, <2>2, FS_EmptySet DEF Ledger!Init, Uses
<1>2. NInv /\ [Next]_vars => [Ledger!Next]_(Ledger!vars)
  BY LedgerStep
<1> QED BY <1>1, <1>2, NonceInit, NonceStep, PTL
        DEF Spec, NoncesKeepLedger, Ledger!Spec
=============================================================================
