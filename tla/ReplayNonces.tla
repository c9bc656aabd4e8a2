---------------------------- MODULE ReplayNonces ----------------------------
(***************************************************************************)
(* The ACME frontend's replay nonces (IssueNonce and ConsumeNonce of       *)
(* db.go, verifyJWS of jws.go).                                            *)
(*                                                                         *)
(* Issuing is three statements: drop the expired, drop the oldest past the *)
(* cap, insert.  Requests interleave between them, and wait for the one    *)
(* connection there is with the time they have read for the first or the   *)
(* third.  A row's rowid is one more than the largest in the table, so     *)
(* that of a consumed newest row is used again.                            *)
(***************************************************************************)
EXTENDS Integers, FiniteSets

CONSTANTS
    Workers,    \* concurrent requests that issue a nonce
    Nonces,     \* bound: nonces ever drawn; newID never repeats
    MaxNonces,  \* maxNonces
    NonceTTL,   \* nonceTTL
    MaxTime     \* bound: the clock

ASSUME NumberAssumption ==
    /\ MaxNonces \in Nat \ {0}
    /\ NonceTTL \in Nat
    /\ MaxTime \in Nat
ASSUME FiniteAssumption == IsFiniteSet(Workers)

VARIABLES
    clock,      \* time.Now()
    table,      \* nonces: value, creation time and rowid of each row
    pc,         \* each worker: the statement of IssueNonce it is at
    now,        \* each worker: the time it read for that statement, else 0
    accepted,   \* history: how often each nonce was accepted
    inserts,    \* history: the insertions so far
    born        \* history: which of them inserted each nonce; 0 if none has

history == <<accepted, inserts, born>>
vars == <<clock, table, pc, now, history>>

Row == [value : Nonces, created : Nat, rowid : Nat]

TypeOK ==
    /\ clock \in Nat
    /\ table \subseteq Row
    /\ pc \in [Workers -> {"idle", "expire", "cap", "stamp", "insert"}]
    /\ now \in [Workers -> Nat]
    /\ accepted \in [Nonces -> Nat]
    /\ inserts \in Nat
    /\ born \in [Nonces -> Nat]

-----------------------------------------------------------------------------
\* SELECT MAX(rowid); NULL of an empty table compares with nothing.
Newest == CHOOSE n \in {r.rowid : r \in table} :
              \A r \in table : r.rowid <= n

Mutant_NewestBack(r) == r.rowid > Newest - MaxNonces
WithinCap(r) == r.rowid > Newest - (MaxNonces - 1)
Unexpired(r, time) == r.created >= time - NonceTTL

Goto(w, from, to) == pc[w] = from /\ pc' = [pc EXCEPT ![w] = to]

\* The arguments of a statement are evaluated, time.Now() among them, before
\* Exec waits for the connection.
ReadClock(w, from, to) ==
    /\ Goto(w, from, to)
    /\ now' = [now EXCEPT ![w] = clock]
    /\ UNCHANGED <<clock, table, history>>

Start(w) == ReadClock(w, "idle", "expire")
Stamp(w) == ReadClock(w, "stamp", "insert")

\* DELETE ... WHERE created < now - nonceTTL
DropExpired(w) ==
    /\ Goto(w, "expire", "cap")
    /\ table' = {r \in table : Unexpired(r, now[w])}
    /\ now' = [now EXCEPT ![w] = 0]
    /\ UNCHANGED <<clock, history>>

\* DELETE ... WHERE rowid <= MAX(rowid) - (maxNonces - 1)
DropOldest(w) ==
    /\ Goto(w, "cap", "stamp")
    /\ table' = {r \in table : WithinCap(r)}
    /\ UNCHANGED <<clock, now, history>>

Mutant_CountPlusOne(n, time) ==
    table' = table \cup {[value |-> n, created |-> time,
                          rowid |-> Cardinality(table) + 1]}
Inserted(n, time) ==
    table' = table \cup
        {[value |-> n, created |-> time,
          rowid |-> IF table = {} THEN 1 ELSE Newest + 1]}
Insert(w) ==
    /\ Goto(w, "insert", "idle")
    /\ \E n \in Nonces :
          /\ born[n] = 0
          /\ born' = [born EXCEPT ![n] = inserts + 1]
          /\ Inserted(n, now[w])
    /\ inserts' = inserts + 1
    /\ now' = [now EXCEPT ![w] = 0]
    /\ UNCHANGED <<clock, accepted>>

\* verifyJWS: the DELETE finds the nonce, and it is gone.
Mutant_LookedUp(n) ==
    /\ \E r \in table : r.value = n
    /\ accepted' = [accepted EXCEPT ![n] = @ + 1]
    /\ accepted[n] < 2
    /\ UNCHANGED <<clock, table, pc, now, inserts, born>>
ConsumeNonce(n) ==
    /\ \E r \in table : r.value = n /\ table' = table \ {r}
    /\ accepted' = [accepted EXCEPT ![n] = @ + 1]
    /\ UNCHANGED <<clock, pc, now, inserts, born>>

\* A statement fails or the daemon stops between two of them.
Dies(w) ==
    /\ pc[w] # "idle"
    /\ pc' = [pc EXCEPT ![w] = "idle"]
    /\ now' = [now EXCEPT ![w] = 0]
    /\ UNCHANGED <<clock, table, history>>

Tick ==
    /\ clock < MaxTime
    /\ clock' = clock + 1
    /\ UNCHANGED <<table, pc, now, history>>

Init ==
    /\ clock = 0
    /\ table = {}
    /\ pc = [w \in Workers |-> "idle"]
    /\ now = [w \in Workers |-> 0]
    /\ accepted = [n \in Nonces |-> 0]
    /\ inserts = 0
    /\ born = [n \in Nonces |-> 0]

Next ==
    \/ Tick
    \/ \E w \in Workers :
          \/ Start(w) \/ DropExpired(w) \/ DropOldest(w)
          \/ Stamp(w) \/ Insert(w) \/ Dies(w)
    \/ \E n \in Nonces : ConsumeNonce(n)

Spec == Init /\ [][Next]_vars

-----------------------------------------------------------------------------
Drawn == {n \in Nonces : born[n] > 0}
Live == {r.value : r \in table}

\* The table keeps the ledger of its nonces: what verifyJWS accepts was drawn
\* and is in the table, the acceptance takes it out, and neither the cap, the
\* expiry nor a rowid used again brings a value back (IssueNonce,
\* ConsumeNonce).
Ledger == INSTANCE NonceLedger WITH drawn <- Drawn, live <- Live, uses <- accepted
NoncesKeepLedger == Ledger!Spec

\* A nonce is accepted at most once, however many requests present it ("dies
\* on use", verifyJWS).
AcceptedOnce == \A n \in Nonces : accepted[n] <= 1

\* The table stays within the cap, give or take the requests between their
\* second and third statement (IssueNonce, maxNonces).
TableBounded == Cardinality(table) < MaxNonces + Cardinality(Workers)

\* A larger rowid was inserted later, although rowids are used again and the
\* times of creation, read before the wait for the connection, need not be in
\* that order: what the cap drops was inserted first ("newest by rowid
\* (insertion order)", IssueNonce).
RowidsAreOrdered ==
    \A r, s \in table :
        /\ r.rowid = s.rowid => r = s
        /\ r.rowid < s.rowid => born[r.value] < born[s.value]

-----------------------------------------------------------------------------
(* What the repository states and the code does not keep *)

\* "Past" maxNonces live nonces "the oldest are dropped", not before
\* (maxNonces): the rowid window counts the consumed ones too.
DroppedPastCap ==
    [][\A r \in table \ table' :
          \/ accepted'[r.value] > accepted[r.value]
          \/ ~Unexpired(r, clock)
          \/ Cardinality(table) >= MaxNonces]_table
=============================================================================
