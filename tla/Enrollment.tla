----------------------------- MODULE Enrollment -----------------------------
(***************************************************************************)
(* Enrolled identities, their nonces, and the CSR signing the nonces gate  *)
(* (enroll, get_nonce and sign_csr of src/src/ca.cpp).                     *)
(*                                                                         *)
(* enroll and get_nonce are one write transaction each.  sign checks the   *)
(* nonce and the subject without a lock, loads its key, and checks both    *)
(* again in the transaction that inserts the certificate and consumes the  *)
(* nonce: two steps, with other processes and the clock in between.        *)
(***************************************************************************)
EXTENDS Integers, FiniteSets

CONSTANTS
    Procs,      \* yca sign processes
    Ids,        \* identities that may be enrolled
    Nonces,     \* bound: nonces ever drawn; 256 random bits never repeat
    Cns,        \* subjects of the CSRs, one profile
    Serials,    \* bound: certificates ever signed
    Validity,   \* app::max_nonce_validity
    Floor,      \* app::nonce_rotate_floor_secs
    RotatePct,  \* app::nonce_rotate_pct
    RenewAfter, \* age of a certificate when its renewal window opens
    MaxTime,    \* bound: the clock
    None

ASSUME NumberAssumption ==
    /\ Validity \in Nat /\ Floor \in Nat /\ RotatePct \in 0 .. 100
    /\ RenewAfter \in Nat /\ MaxTime \in Nat
ASSUME NoneAssumption == None \notin Nonces \cup Ids \cup Cns

VARIABLES
    clock,      \* now_epoch()
    row,        \* the enrollment table
    drawn,      \* history: for whom and when each nonce was drawn
    cert,       \* the certificates signed from CSRs, and with which nonce
    pc, job     \* each sign process: where it is, and its arguments

vars == <<clock, row, drawn, cert, pc, job>>

Row == [nonce : Nonces \cup {None}, issued : Nat, consumed : BOOLEAN]
Draw == [id : Ids, at : Nat]
Certificate == [cn : Cns, nonce : Nonces, id : Ids, at : Nat]
Job == [id : Ids \cup {None}, nonce : Nonces \cup {None}, cn : Cns \cup {None}]
NoJob == [id |-> None, nonce |-> None, cn |-> None]

\* No row is none of the rows there are, likewise for the other tables.
ASSUME AbsentAssumption == None \notin Row \cup Draw \cup Certificate

TypeOK ==
    /\ clock \in Nat
    /\ row \in [Ids -> Row \cup {None}]
    /\ drawn \in [Nonces -> Draw \cup {None}]
    /\ cert \in [Serials -> Certificate \cup {None}]
    /\ pc \in [Procs -> {"idle", "sign"}]
    /\ job \in [Procs -> Job]

-----------------------------------------------------------------------------
\* nonce_rejected, negated: the identity's pending nonce, in its lifetime.
Mutant_UnexpiredOnly(id, n) ==
    row[id] # None /\ row[id].nonce = n /\ clock < row[id].issued + Validity
Mutant_UnconsumedOnly(id, n) ==
    row[id] # None /\ row[id].nonce = n /\ ~row[id].consumed
Accepted(id, n) ==
    /\ row[id] # None
    /\ row[id].nonce = n
    /\ ~row[id].consumed
    /\ clock < row[id].issued + Validity

\* blocking_duplicate: a certificate of the subject before its window.
Blocked(cn) ==
    \E s \in Serials : /\ cert[s] # None
                       /\ cert[s].cn = cn
                       /\ clock < cert[s].at + RenewAfter

\* What is left to a pending nonce for get nonce to hand it out again.
MinLeft == IF Floor * 100 > Validity * RotatePct
           THEN Floor ELSE (Validity * RotatePct) \div 100
Reusable(r) == /\ r.nonce # None
               /\ ~r.consumed
               /\ clock < r.issued + Validity
               /\ r.issued + Validity - clock >= MinLeft

-----------------------------------------------------------------------------
Enroll(id) ==
    /\ row[id] = None
    /\ row' = [row EXCEPT ![id] = [nonce |-> None, issued |-> 0,
                                   consumed |-> TRUE]]
    /\ UNCHANGED <<clock, drawn, cert, pc, job>>

\* get nonce that draws a nonce; handing the pending one out again writes
\* nothing.
GetNonce(id) ==
    /\ row[id] # None
    /\ ~Reusable(row[id])
    /\ \E n \in Nonces :
          /\ drawn[n] = None
          /\ drawn' = [drawn EXCEPT ![n] = [id |-> id, at |-> clock]]
          /\ row' = [row EXCEPT ![id] = [nonce |-> n, issued |-> clock,
                                         consumed |-> FALSE]]
    /\ UNCHANGED <<clock, cert, pc, job>>

\* The checks that fail fast, before the key is loaded.
SignStart(p) ==
    /\ pc[p] = "idle"
    /\ \E id \in Ids, n \in Nonces, cn \in Cns :
          /\ Accepted(id, n)
          /\ ~Blocked(cn)
          /\ job' = [job EXCEPT ![p] = [id |-> id, nonce |-> n, cn |-> cn]]
    /\ pc' = [pc EXCEPT ![p] = "sign"]
    /\ UNCHANGED <<clock, row, drawn, cert>>

Done(p) == pc' = [pc EXCEPT ![p] = "idle"] /\ job' = [job EXCEPT ![p] = NoJob]

\* The same checks under the write lock.
Mutant_NonceOnly(p) == Accepted(job[p].id, job[p].nonce)
Mutant_SubjectOnly(p) == ~Blocked(job[p].cn)
StillGood(p) == Accepted(job[p].id, job[p].nonce) /\ ~Blocked(job[p].cn)

SignCommit(p) ==
    /\ pc[p] = "sign"
    /\ StillGood(p)
    /\ \E s \in Serials :
          /\ cert[s] = None
          /\ cert' = [cert EXCEPT ![s] =
                        [cn |-> job[p].cn, nonce |-> job[p].nonce,
                         id |-> job[p].id, at |-> clock]]
    /\ row' = [row EXCEPT ![job[p].id].consumed = TRUE]
    /\ Done(p)
    /\ UNCHANGED <<clock, drawn>>

\* Refused under the lock, or the process fails: the transaction rolls back
\* and the nonce is not spent.
SignFails(p) ==
    /\ pc[p] = "sign"
    /\ Done(p)
    /\ UNCHANGED <<clock, row, drawn, cert>>

Tick ==
    /\ clock < MaxTime
    /\ clock' = clock + 1
    /\ UNCHANGED <<row, drawn, cert, pc, job>>

Init ==
    /\ clock = 0
    /\ row = [id \in Ids |-> None]
    /\ drawn = [n \in Nonces |-> None]
    /\ cert = [s \in Serials |-> None]
    /\ pc = [p \in Procs |-> "idle"]
    /\ job = [p \in Procs |-> NoJob]

Next ==
    \/ Tick
    \/ \E id \in Ids : Enroll(id) \/ GetNonce(id)
    \/ \E p \in Procs : SignStart(p) \/ SignCommit(p) \/ SignFails(p)

Spec == Init /\ [][Next]_vars

-----------------------------------------------------------------------------
SignedWith(n) == {s \in Serials : cert[s] # None /\ cert[s].nonce = n}
Drawn == {n \in Nonces : drawn[n] # None}
Pending(id, n) == /\ row[id] # None /\ row[id].nonce = n /\ ~row[id].consumed
                  /\ clock < row[id].issued + Validity
Live == {n \in Nonces : \E id \in Ids : Pending(id, n)}
Uses == [n \in Nonces |-> Cardinality(SignedWith(n))]

\* The enrollment table keeps the ledger of its nonces: a certificate spends
\* one that is pending at the commit, though it was checked before the wait
\* for the lock, and a nonce that was spent, has expired or was replaced by a
\* rotation is never good again (get_nonce, sign_csr).
Ledger == INSTANCE NonceLedger WITH drawn <- Drawn, live <- Live, uses <- Uses
NoncesKeepLedger == Ledger!Spec

\* However many processes present one nonce, at most one certificate is
\* signed with it ("a nonce cannot be double-spent", sign_csr).
NonceSpentOnce ==
    \A s, t \in Serials :
        cert[s] # None /\ cert[t] # None /\ cert[s].nonce = cert[t].nonce
        => s = t

\* A certificate is signed for the identity its nonce was drawn for, within
\* the nonce's lifetime, however long the process waited for the lock.
SpentInTime ==
    \A s \in Serials : cert[s] # None =>
        /\ drawn[cert[s].nonce] # None
        /\ cert[s].id = drawn[cert[s].nonce].id
        /\ cert[s].at \in drawn[cert[s].nonce].at ..
                              (drawn[cert[s].nonce].at + Validity - 1)

\* Two identities that race for one subject do not both get a certificate:
\* two of them are a renewal window apart (blocking_duplicate under sign's
\* lock).
RenewedInWindow ==
    \A s, t \in Serials :
        /\ s # t /\ cert[s] # None /\ cert[t] # None
        /\ cert[s].cn = cert[t].cn
        /\ cert[s].at <= cert[t].at
        => cert[s].at + RenewAfter <= cert[t].at

\* A sign in flight with an unspent nonce in its lifetime keeps its nonce:
\* "nothing references the old nonce" that a rotation replaces (get_nonce).
InFlightKeepsNonce ==
    \A p \in Procs :
        /\ pc[p] = "sign"
        /\ \A s \in Serials : cert[s] # None => cert[s].nonce # job[p].nonce
        /\ clock < drawn[job[p].nonce].at + Validity
        => row[job[p].id].nonce = job[p].nonce
=============================================================================
