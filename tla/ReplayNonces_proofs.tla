------------------------ MODULE ReplayNonces_proofs ------------------------
(***************************************************************************)
(* A nonce is accepted at most once, the table stays within its cap and    *)
(* rowids stay in the order of the insertions, for any number of requests, *)
(* nonces and any cap.                                                     *)
(*                                                                         *)
(* The invariant of the values says that a nonce in the table was drawn,   *)
(* has not been accepted and is in one row; that of the rowids carries an  *)
(* upper bound, because MAX(rowid) of what a consumption leaves must exist *)
(* again; that of the size counts the requests about to insert.            *)
(***************************************************************************)
EXTENDS ReplayNonces, FiniteSetTheorems, TLAPS

\* A nonce in the table was drawn, not yet accepted, and is there once.
LiveOnce ==
    /\ \A r \in table : accepted[r.value] = 0 /\ born[r.value] > 0
    /\ \A n \in Nonces : born[n] = 0 => accepted[n] = 0
    /\ \A r, s \in table : r.value = s.value => r = s

\* Rowids end somewhere, and so do the numbers of the insertions.
RowidsEnd == \E n \in Nat : \A r \in table : r.rowid <= n
BornBefore == \A n \in Nonces : born[n] <= inserts

VInv == TypeOK /\ LiveOnce /\ AcceptedOnce
OInv == TypeOK /\ RowidsEnd /\ BornBefore /\ RowidsAreOrdered

\* Requests between their second and their third statement.
Inserting == {w \in Workers : pc[w] \in {"stamp", "insert"}}
\* Each of them will add a row to what the last cap left.
RoomLeft ==
    /\ IsFiniteSet(table)
    /\ Cardinality(table) + Cardinality(Inserting)
         <= MaxNonces - 1 + Cardinality(Workers)

-----------------------------------------------------------------------------
(* MAX(rowid) *)

(***************************************************************************)
(* A set of naturals with an upper bound has a largest element.            *)
(***************************************************************************)
LEMMA BoundedHasMax ==
    ASSUME NEW S \in SUBSET Nat, S # {}, NEW n \in Nat, \A x \in S : x <= n
    PROVE  \E m \in S : \A x \in S : x <= m
<1> DEFINE Less == OpToRel(<, Nat)
           T == {k \in Nat : k <= n /\ n - k \in S}
<1>1. IsWellFoundedOn(Less, Nat)
  BY NatLessThanWellFounded
<1>2. \A i, j \in Nat : i < j => <<i, j>> \in Less
  BY DEF OpToRel
<1>3. T \subseteq Nat /\ T # {}
  <2>1. PICK x \in S : TRUE
    OBVIOUS
  <2>2. n - x \in Nat /\ n - x <= n /\ n - (n - x) = x
    BY <2>1
  <2> QED BY <2>1, <2>2
<1> HIDE DEF Less, T
<1>4. PICK k \in T : \A j \in T : <<j, k>> \notin Less
  BY <1>1, <1>3, WFMin
<1>5. ASSUME NEW j \in T PROVE k <= j
  <2>1. j \in Nat /\ k \in Nat
    BY <1>3, <1>4
  <2>2. ~(j < k)
    BY <1>2, <1>4, <2>1
  <2> QED BY <2>1, <2>2
<1> USE DEF T
<1>6. n - k \in S
  BY <1>4
<1>7. ASSUME NEW x \in S PROVE x <= n - k
  <2>1. n - x \in Nat /\ n - x <= n /\ n - (n - x) = x
    OBVIOUS
  <2>2. n - x \in T
    BY <2>1
  <2> QED BY <1>4, <1>5, <2>1, <2>2
<1> QED BY <1>6, <1>7

(***************************************************************************)
(* MAX(rowid) of a table with rows is the rowid of one of them.            *)
(***************************************************************************)
LEMMA NewestIsMax ==
    ASSUME OInv, table # {}
    PROVE  /\ Newest \in {r.rowid : r \in table}
           /\ Newest \in Nat
           /\ \A r \in table : r.rowid <= Newest
<1> DEFINE Ids == {r.rowid : r \in table}
<1>1. Ids \in SUBSET Nat /\ Ids # {}
  BY DEF OInv, TypeOK, Row
<1>2. PICK n \in Nat : \A r \in table : r.rowid <= n
  BY DEF OInv, RowidsEnd
<1>3. \E m \in Ids : \A x \in Ids : x <= m
  <2>1. \A x \in Ids : x <= n
    BY <1>2
  <2> HIDE DEF Ids
  <2> QED BY <1>1, <2>1, BoundedHasMax
<1>4. \E m \in Ids : \A r \in table : r.rowid <= m
  BY <1>3
<1>5. Newest \in Ids /\ \A r \in table : r.rowid <= Newest
  BY <1>4 DEF Newest
<1> QED BY <1>1, <1>5

-----------------------------------------------------------------------------
(* Types, and what a nonce may do *)

LEMMA ValuesInit == Init => VInv
BY DEF Init, VInv, TypeOK, LiveOnce, AcceptedOnce

(***************************************************************************)
(* A step that only drops rows keeps all that is said of rows.             *)
(***************************************************************************)
LEMMA Dropped ==
    ASSUME VInv, table' \subseteq table, UNCHANGED <<clock, history>>,
           NEW w \in Workers,
           NEW l \in {"idle", "expire", "cap", "stamp", "insert"},
           pc' = [pc EXCEPT ![w] = l],
           NEW t \in Nat, now' = now \/ now' = [now EXCEPT ![w] = t]
    PROVE  VInv'
<1>1. TypeOK'
  BY DEF VInv, TypeOK, history
<1> QED BY <1>1 DEF VInv, LiveOnce, AcceptedOnce, history

LEMMA ValuesStep == OInv /\ VInv /\ [Next]_vars => VInv'
<1> SUFFICES ASSUME OInv, VInv, [Next]_vars PROVE VInv'
  OBVIOUS
<1>1. CASE Tick
  BY <1>1, NumberAssumption
     DEF Tick, history, VInv, TypeOK, LiveOnce, AcceptedOnce
<1>2. ASSUME NEW w \in Workers, Start(w) \/ Stamp(w) PROVE VInv'
  <2>1. clock \in Nat
    BY DEF VInv, TypeOK
  <2> QED BY <1>2, <2>1, Dropped DEF Start, Stamp, ReadClock, Goto
<1>3. ASSUME NEW w \in Workers, DropExpired(w) \/ DropOldest(w) PROVE VInv'
  BY <1>3, Dropped DEF DropExpired, DropOldest, Goto
<1>4. ASSUME NEW w \in Workers, Dies(w) PROVE VInv'
  BY <1>4, Dropped DEF Dies
<1>5. ASSUME NEW w \in Workers, Insert(w) PROVE VInv'
  <2>1. PICK n \in Nonces : /\ born[n] = 0
                            /\ born' = [born EXCEPT ![n] = inserts + 1]
                            /\ Inserted(n, now[w])
    BY <1>5 DEF Insert
  <2> DEFINE row == [value |-> n, created |-> now[w],
                     rowid |-> IF table = {} THEN 1 ELSE Newest + 1]
  <2>2. row \in Row /\ row.value = n /\ table' = table \cup {row}
    BY <2>1, NewestIsMax DEF Inserted, Row, VInv, TypeOK
  <2>3. \A r \in table : r.value \in Nonces /\ r.value # n
    BY <2>1 DEF VInv, TypeOK, LiveOnce, Row
  <2> HIDE DEF row
  <2>4. TypeOK'
    BY <1>5, <2>1, <2>2 DEF Insert, Goto, VInv, TypeOK
  <2>5. /\ accepted[n] = 0 /\ accepted' = accepted /\ born'[n] > 0
        /\ \A m \in Nonces : m # n => born'[m] = born[m]
    BY <1>5, <2>1 DEF Insert, VInv, TypeOK, LiveOnce
  <2>6. LiveOnce' /\ AcceptedOnce'
    BY <2>2, <2>3, <2>5 DEF VInv, LiveOnce, AcceptedOnce
  <2> QED BY <2>4, <2>6 DEF VInv
<1>6. ASSUME NEW n \in Nonces, ConsumeNonce(n) PROVE VInv'
  <2>1. PICK r \in table : r.value = n /\ table' = table \ {r}
    BY <1>6 DEF ConsumeNonce
  <2>2. /\ accepted[n] = 0 /\ accepted'[n] = 1
        /\ \A m \in Nonces : m # n => accepted'[m] = accepted[m]
        /\ accepted' \in [Nonces -> Nat] /\ born[n] > 0
    BY <1>6, <2>1 DEF ConsumeNonce, VInv, TypeOK, LiveOnce
  <2>3. \A s \in table' : s.value \in Nonces /\ s.value # n
    BY <2>1 DEF VInv, TypeOK, LiveOnce, Row
  <2> QED BY <1>6, <2>1, <2>2, <2>3
          DEF ConsumeNonce, VInv, TypeOK, LiveOnce, AcceptedOnce
<1>7. CASE UNCHANGED vars
  BY <1>7 DEF vars, history, VInv, TypeOK, LiveOnce, AcceptedOnce
<1> QED BY <1>1, <1>2, <1>3, <1>4, <1>5, <1>6, <1>7 DEF Next

-----------------------------------------------------------------------------
(* Rowids *)

LEMMA OrderInit == Init => OInv
<1> SUFFICES ASSUME Init PROVE OInv
  OBVIOUS
<1>1. TypeOK /\ BornBefore /\ RowidsAreOrdered
  BY DEF Init, TypeOK, BornBefore, RowidsAreOrdered
<1>2. RowidsEnd
  <2>1. 0 \in Nat /\ \A r \in table : r.rowid <= 0
    BY DEF Init
  <2> QED BY <2>1 DEF RowidsEnd
<1> QED BY <1>1, <1>2 DEF OInv

(***************************************************************************)
(* Dropping rows, or none, disturbs neither order nor bound.               *)
(***************************************************************************)
LEMMA OrderKept ==
    ASSUME OInv, TypeOK', table' \subseteq table, UNCHANGED <<inserts, born>>
    PROVE  OInv'
<1>1. RowidsEnd'
  BY DEF OInv, RowidsEnd
<1>2. BornBefore' /\ RowidsAreOrdered'
  BY DEF OInv, BornBefore, RowidsAreOrdered
<1> QED BY <1>1, <1>2 DEF OInv

(***************************************************************************)
(* An insertion takes a rowid past every one there is, now.                *)
(***************************************************************************)
LEMMA InsertKeepsOrder ==
    ASSUME OInv, VInv, TypeOK', NEW w \in Workers, Insert(w)
    PROVE  OInv'
<1>1. PICK n \in Nonces : /\ born[n] = 0
                          /\ born' = [born EXCEPT ![n] = inserts + 1]
                          /\ Inserted(n, now[w])
  BY DEF Insert
<1> DEFINE id == IF table = {} THEN 1 ELSE Newest + 1
           row == [value |-> n, created |-> now[w], rowid |-> id]
<1>2. id \in Nat /\ \A r \in table : r.rowid < id
  <2>1. \A r \in table : r.rowid \in Nat
    BY DEF OInv, TypeOK, Row
  <2> QED BY <2>1, NewestIsMax
<1>3. table' = table \cup {row} /\ row.rowid = id /\ row.value = n
  BY <1>1 DEF Inserted
<1>4. /\ inserts \in Nat /\ inserts' = inserts + 1 /\ born'[n] = inserts + 1
      /\ \A m \in Nonces : /\ born[m] \in Nat /\ born[m] <= inserts
                           /\ m # n => born'[m] = born[m]
  BY <1>1 DEF Insert, OInv, TypeOK, BornBefore
<1>5. \A r \in table : r.rowid \in Nat /\ r.value \in Nonces /\ r.value # n
  BY <1>1 DEF OInv, TypeOK, Row, VInv, LiveOnce
<1> HIDE DEF row, id
<1>6. RowidsEnd'
  <2>1. \A r \in table' : r.rowid <= id
    BY <1>2, <1>3, <1>5
  <2> QED BY <1>2, <2>1 DEF RowidsEnd
<1>7. BornBefore'
  BY <1>4 DEF BornBefore
<1>8. RowidsAreOrdered'
  BY <1>2, <1>3, <1>4, <1>5 DEF OInv, RowidsAreOrdered
<1> QED BY <1>6, <1>7, <1>8 DEF OInv

LEMMA OrderStep == OInv /\ VInv /\ [Next]_vars => OInv'
<1> SUFFICES ASSUME OInv, VInv, [Next]_vars PROVE OInv'
  OBVIOUS
<1>0. TypeOK'
  BY ValuesStep DEF VInv
<1>1. CASE Tick
  BY <1>0, <1>1, OrderKept DEF Tick, history
<1>2. ASSUME NEW w \in Workers, Start(w) \/ Stamp(w) PROVE OInv'
  BY <1>0, <1>2, OrderKept DEF Start, Stamp, ReadClock, history
<1>3. ASSUME NEW w \in Workers, DropExpired(w) \/ DropOldest(w) PROVE OInv'
  BY <1>0, <1>3, OrderKept DEF DropExpired, DropOldest, history
<1>4. ASSUME NEW w \in Workers, Insert(w) PROVE OInv'
  BY <1>0, <1>4, InsertKeepsOrder
<1>5. ASSUME NEW w \in Workers, Dies(w) PROVE OInv'
  BY <1>0, <1>5, OrderKept DEF Dies, history
<1>6. ASSUME NEW n \in Nonces, ConsumeNonce(n) PROVE OInv'
  BY <1>0, <1>6, OrderKept DEF ConsumeNonce
<1>7. CASE UNCHANGED vars
  BY <1>0, <1>7, OrderKept DEF vars, history
<1> QED BY <1>1, <1>2, <1>3, <1>4, <1>5, <1>6, <1>7 DEF Next

-----------------------------------------------------------------------------
(* The cap *)

(***************************************************************************)
(* What the cap leaves fits in a window of MaxNonces - 1 rowids.           *)
(***************************************************************************)
LEMMA CapLeaves ==
    ASSUME OInv, IsFiniteSet(table)
    PROVE  Cardinality({r \in table : WithinCap(r)}) <= MaxNonces - 1
<1> DEFINE kept == {r \in table : WithinCap(r)}
<1>1. CASE table = {}
  <2>1. kept = {}
    BY <1>1
  <2> QED BY <2>1, FS_EmptySet, NumberAssumption
<1>2. CASE table # {}
  <2> DEFINE low == Newest - (MaxNonces - 1) + 1
             f == [r \in kept |-> r.rowid]
  <2>1. Newest \in Nat /\ \A r \in table : r.rowid \in Nat /\ r.rowid <= Newest
    BY <1>2, NewestIsMax DEF OInv, TypeOK, Row
  <2>2. low \in Int /\ Newest \in Int
    BY <2>1, NumberAssumption
  <2>3. \A r \in kept : r.rowid \in low .. Newest
    BY <2>1, NumberAssumption DEF WithinCap
  <2>4. \A r, s \in kept : r.rowid = s.rowid => r = s
    BY DEF OInv, RowidsAreOrdered
  <2> HIDE DEF low, kept
  <2>5. f \in Injection(kept, low .. Newest)
    BY <2>3, <2>4 DEF Injection, IsInjective
  <2>6. /\ IsFiniteSet(low .. Newest)
        /\ Cardinality(low .. Newest) = IF low > Newest THEN 0 ELSE Newest - low + 1
    BY <2>2, FS_Interval
  <2>7. Cardinality(kept) <= Cardinality(low .. Newest)
    BY <2>5, <2>6, FS_Injection
  <2>8. IsFiniteSet(kept)
    BY <2>5, <2>6, FS_Injection
  <2>9. Cardinality(kept) \in Nat
    BY <2>8, FS_CardinalityType
  <2>10. (IF low > Newest THEN 0 ELSE Newest - low + 1) <= MaxNonces - 1
    BY <2>1, NumberAssumption DEF low
  <2>11. Cardinality(low .. Newest) \in Nat
    BY <2>6, FS_CardinalityType
  <2> QED BY <2>6, <2>7, <2>9, <2>10, <2>11, NumberAssumption DEF kept
<1> QED BY <1>1, <1>2

(***************************************************************************)
(* The counts are numbers.                                                 *)
(***************************************************************************)
LEMMA Counts ==
    /\ Cardinality(Workers) \in Nat
    /\ IsFiniteSet(Inserting) /\ Cardinality(Inserting) \in Nat
    /\ Cardinality(Inserting) <= Cardinality(Workers)
<1>1. Inserting \in SUBSET Workers
  BY DEF Inserting
<1> QED BY <1>1, FiniteAssumption, FS_Subset, FS_CardinalityType

LEMMA CountInit == Init => RoomLeft
<1> SUFFICES ASSUME Init PROVE RoomLeft
  OBVIOUS
<1>1. Inserting = {}
  BY DEF Init, Inserting
<1>2. table = {}
  BY DEF Init
<1> QED BY <1>1, <1>2, Counts, FS_EmptySet, NumberAssumption DEF RoomLeft

(***************************************************************************)
(* A step that adds no row and brings no request to its third statement.   *)
(***************************************************************************)
LEMMA RoomKept ==
    ASSUME RoomLeft, table' \subseteq table, Inserting' \subseteq Inserting
    PROVE  RoomLeft'
<1>1. /\ IsFiniteSet(table') /\ Cardinality(table') <= Cardinality(table)
      /\ Cardinality(table) \in Nat /\ Cardinality(table') \in Nat
  BY FS_Subset, FS_CardinalityType DEF RoomLeft
<1>2. /\ Cardinality(Inserting') <= Cardinality(Inserting)
      /\ Cardinality(Inserting) \in Nat /\ Cardinality(Inserting') \in Nat
  BY Counts, FS_Subset, FS_CardinalityType
<1> QED BY <1>1, <1>2, Counts, NumberAssumption DEF RoomLeft

LEMMA CountStep == OInv /\ RoomLeft /\ [Next]_vars => RoomLeft'
<1> SUFFICES ASSUME OInv, RoomLeft, [Next]_vars PROVE RoomLeft'
  OBVIOUS
<1>0. pc \in [Workers -> {"idle", "expire", "cap", "stamp", "insert"}]
  BY DEF OInv, TypeOK
<1>1. CASE Tick
  BY <1>1, RoomKept DEF Tick, Inserting
<1>2. ASSUME NEW w \in Workers, Start(w) \/ DropExpired(w) \/ Stamp(w)
      PROVE  RoomLeft'
  BY <1>0, <1>2, RoomKept DEF Start, Stamp, ReadClock, DropExpired, Goto, Inserting
<1>3. ASSUME NEW w \in Workers, DropOldest(w) PROVE RoomLeft'
  <2>1. table' = {r \in table : WithinCap(r)}
    BY <1>3 DEF DropOldest
  <2>2. Cardinality(table') <= MaxNonces - 1
    BY <2>1, CapLeaves DEF RoomLeft
  <2>3. IsFiniteSet(table') /\ Cardinality(table') \in Nat
    BY <2>1, FS_Subset, FS_CardinalityType DEF RoomLeft
  <2>4. /\ Cardinality(Inserting') \in Nat
        /\ Cardinality(Inserting') <= Cardinality(Workers)
    <3>1. Inserting' \in SUBSET Workers
      BY DEF Inserting
    <3> QED BY <3>1, FiniteAssumption, FS_Subset, FS_CardinalityType
  <2> QED BY <2>2, <2>3, <2>4, Counts, NumberAssumption DEF RoomLeft
<1>4. ASSUME NEW w \in Workers, Insert(w) PROVE RoomLeft'
  <2>1. PICK row : table' = table \cup {row}
    BY <1>4 DEF Insert, Inserted
  <2>2. w \in Inserting /\ Inserting' = Inserting \ {w}
    BY <1>0, <1>4 DEF Insert, Goto, Inserting
  <2>3. /\ IsFiniteSet(table') /\ Cardinality(table) \in Nat
        /\ Cardinality(table') <= Cardinality(table) + 1
        /\ Cardinality(table') \in Nat
    <3>1. IsFiniteSet(table) /\ Cardinality(table) \in Nat
      BY FS_CardinalityType DEF RoomLeft
    <3>2. /\ IsFiniteSet(table')
          /\ Cardinality(table') = IF row \in table THEN Cardinality(table)
                                                   ELSE Cardinality(table) + 1
      BY <2>1, <3>1, FS_AddElement
    <3> QED BY <3>1, <3>2
  <2>4. Cardinality(Inserting') = Cardinality(Inserting) - 1
    BY <2>2, Counts, FS_RemoveElement
  <2> QED BY <2>3, <2>4, Counts, NumberAssumption DEF RoomLeft
<1>5. ASSUME NEW w \in Workers, Dies(w) PROVE RoomLeft'
  BY <1>0, <1>5, RoomKept DEF Dies, Inserting
<1>6. ASSUME NEW n \in Nonces, ConsumeNonce(n) PROVE RoomLeft'
  BY <1>6, RoomKept DEF ConsumeNonce, Inserting
<1>7. CASE UNCHANGED vars
  BY <1>7, RoomKept DEF vars, Inserting
<1> QED BY <1>1, <1>2, <1>3, <1>4, <1>5, <1>6, <1>7 DEF Next

-----------------------------------------------------------------------------
(***************************************************************************)
(* The three invariants together are inductive.                            *)
(***************************************************************************)
LEMMA NoncesInvariant == Spec => [](VInv /\ OInv /\ RoomLeft)
<1>1. Init => VInv /\ OInv /\ RoomLeft
  BY ValuesInit, OrderInit, CountInit
<1>2. VInv /\ OInv /\ RoomLeft /\ [Next]_vars => (VInv /\ OInv /\ RoomLeft)'
  BY ValuesStep, OrderStep, CountStep
<1> QED BY <1>1, <1>2, PTL DEF Spec

(***************************************************************************)
(* Every reachable state of the nonce table has the declared types.        *)
(***************************************************************************)
THEOREM TypeCorrect == Spec => []TypeOK
<1>1. VInv => TypeOK
  BY DEF VInv
<1> QED BY <1>1, NoncesInvariant, PTL

(***************************************************************************)
(* However many requests present it, a nonce is accepted at most once (the *)
(* DELETE of ConsumeNonce, verifyJWS).                                     *)
(***************************************************************************)
THEOREM NoNonceTwice == Spec => []AcceptedOnce
<1>1. VInv => AcceptedOnce
  BY DEF VInv
<1> QED BY <1>1, NoncesInvariant, PTL

(***************************************************************************)
(* However the statements of IssueNonce interleave, the table exceeds its  *)
(* cap by less than the number of requests (maxNonces).                    *)
(***************************************************************************)
THEOREM TableStaysBounded == Spec => []TableBounded
<1>1. RoomLeft => TableBounded
  <2> SUFFICES ASSUME RoomLeft PROVE TableBounded
    OBVIOUS
  <2>1. Cardinality(table) \in Nat
    BY FS_CardinalityType DEF RoomLeft
  <2> QED BY <2>1, Counts, NumberAssumption DEF RoomLeft, TableBounded
<1> QED BY <1>1, NoncesInvariant, PTL

(***************************************************************************)
(* A rowid that is used again is still past that of every row inserted     *)
(* before, whatever the times in the rows say, so the cap drops what was   *)
(* inserted first ("newest by rowid (insertion order)", IssueNonce).       *)
(***************************************************************************)
THEOREM RowidsFollowInsertion == Spec => []RowidsAreOrdered
<1>1. OInv => RowidsAreOrdered
  BY DEF OInv
<1> QED BY <1>1, NoncesInvariant, PTL

-----------------------------------------------------------------------------
(* The ledger of the nonces *)

(***************************************************************************)
(* Dropping rows, like a step that touches no row, is a lapse.             *)
(***************************************************************************)
LEMMA DropsLapse ==
    ASSUME table' \subseteq table, UNCHANGED <<accepted, born>>
    PROVE  Ledger!Lapse
BY DEF Ledger!Lapse, Drawn, Live

LEMMA InsertDraws ==
    ASSUME VInv, OInv, NEW w \in Workers, Insert(w) PROVE Ledger!Next
<1>1. PICK n \in Nonces : /\ born[n] = 0
                          /\ born' = [born EXCEPT ![n] = inserts + 1]
                          /\ Inserted(n, now[w])
  BY DEF Insert
<1>2. born'[n] > 0 /\ \A m \in Nonces : m # n => born'[m] = born[m]
  BY <1>1 DEF VInv, TypeOK
<1>3. n \notin Drawn /\ Drawn' = Drawn \cup {n}
  BY <1>1, <1>2 DEF Drawn
<1>4. \A r \in table' : r \in table \/ r.value = n
  BY <1>1 DEF Inserted
<1>5. Live' \subseteq Live \cup {n}
  BY <1>4 DEF Live
<1>6. accepted' = accepted
  BY DEF Insert
<1> QED BY <1>3, <1>5, <1>6 DEF Ledger!Next, Ledger!Draw

LEMMA ConsumeSpends ==
    ASSUME VInv, NEW n \in Nonces, ConsumeNonce(n) PROVE Ledger!Next
<1>1. PICK r \in table : r.value = n /\ table' = table \ {r}
  BY DEF ConsumeNonce
<1>2. n \in Live /\ Live' = Live \ {n}
  BY <1>1 DEF Live, VInv, LiveOnce
<1>3. Drawn' = Drawn
  BY DEF ConsumeNonce, Drawn
<1> QED BY <1>2, <1>3 DEF ConsumeNonce, Ledger!Next, Ledger!Spend

LEMMA LedgerStep ==
    VInv /\ OInv /\ [Next]_vars => [Ledger!Next]_(Ledger!vars)
<1> SUFFICES ASSUME VInv, OInv, [Next]_vars PROVE Ledger!Next
  OBVIOUS
<1>1. ASSUME NEW w \in Workers,
             \/ Start(w) \/ DropExpired(w) \/ DropOldest(w)
             \/ Stamp(w) \/ Dies(w)
      PROVE  Ledger!Next
  BY <1>1, DropsLapse
     DEF Start, Stamp, ReadClock, DropExpired, DropOldest, Dies, history,
         Ledger!Next
<1>2. CASE Tick \/ UNCHANGED vars
  BY <1>2, DropsLapse DEF Tick, vars, history, Ledger!Next
<1> QED BY <1>1, <1>2, InsertDraws, ConsumeSpends DEF Next

(***************************************************************************)
(* IssueNonce and ConsumeNonce keep the ledger: whatever interleaves, what *)
(* is accepted was live, once, and a value that has left the table does    *)
(* not come back to it.                                                    *)
(***************************************************************************)
THEOREM TableKeepsLedger == Spec => NoncesKeepLedger
<1>1. Init => Ledger!Init
  BY DEF Init, Ledger!Init, Drawn, Live
<1>2. VInv /\ OInv /\ RoomLeft /\ [Next]_vars => [Ledger!Next]_(Ledger!vars)
  BY LedgerStep
<1> QED BY <1>1, <1>2, NoncesInvariant, PTL DEF Spec, NoncesKeepLedger, Ledger!Spec
=============================================================================
