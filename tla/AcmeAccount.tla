---------------------------- MODULE AcmeAccount ----------------------------
(***************************************************************************)
(* The ACME frontend's accounts and the EAB credentials that admit them    *)
(* (account.go, keychange.go, the accounts and eab_creds tables of db.go). *)
(*                                                                         *)
(* A request is authenticated by verifyJWS from the account row as it is   *)
(* then; its handler writes later, with other requests and the operator's  *)
(* eab subcommand in between.  A worker is a request: a Start action for   *)
(* the reads, another action for the write.                                *)
(***************************************************************************)
EXTENDS Integers

CONSTANTS
    Workers,    \* concurrent requests
    Accounts,   \* bound: accounts ever registered, by id
    Keys,       \* account keys, by thumbprint
    Creds,      \* bound: EAB credentials ever provisioned, by kid
    Reusable,   \* those provisioned with --reusable
    Expires,    \* [Creds -> Nat]: their --expires (past MaxTime: never)
    Orders,     \* bound: orders ever created, by id
    MaxTime,    \* bound: the clock
    None, Gone

ASSUME CredAssumption ==
    /\ Reusable \subseteq Creds
    /\ Expires \in [Creds -> Nat]
    /\ MaxTime \in Nat
ASSUME NoneAssumption ==
    /\ None \notin Accounts \cup Keys \cup Creds \cup Orders
    /\ Gone \notin Accounts /\ None # Gone
    /\ "absent" \notin Accounts \cup {None, Gone}

VARIABLES
    clock,      \* time.Now()
    cred,       \* eab_creds.account_id: None while unbound; "absent" before
                \* eab new, Gone after eab delete
    account,    \* accounts
    order,      \* orders: the account of each, and whether it was finalized
    pc, job     \* each worker: where its handler is, and what it read

vars == <<clock, cred, account, order, pc, job>>

Account == [key : Keys, cred : Creds, status : {"valid", "deactivated"}]
Order == [account : Accounts, status : {"open", "finalized"}]
Job == [account : Accounts \cup {None}, old : Keys \cup {None},
        new : Keys \cup {None}, cred : Creds \cup {None}]
NoJob == [account |-> None, old |-> None, new |-> None, cred |-> None]

ASSUME AbsentAssumption == None \notin Account \cup Order

Labels == {"idle", "register", "rekey", "deactivate", "order"}

TypeOK ==
    /\ clock \in Nat
    /\ cred \in [Creds -> Accounts \cup {"absent", None, Gone}]
    /\ account \in [Accounts -> Account \cup {None}]
    /\ order \in [Orders -> Order \cup {None}]
    /\ pc \in [Workers -> Labels]
    /\ job \in [Workers -> Job]

-----------------------------------------------------------------------------
Provisioned(c) == cred[c] \notin {"absent", Gone}

\* AccountByThumbprint finds nothing; also the table's UNIQUE constraint.
Mutant_AnyKey(k) == TRUE
KeyFree(k) == \A a \in Accounts : account[a] # None => account[a].key # k

\* The condition of InsertAccountEAB's UPDATE.
Mutant_NotExpired(c) == Provisioned(c) /\ clock < Expires[c]
Admits(c) == /\ Provisioned(c)
             /\ c \in Reusable \/ cred[c] = None
             /\ clock < Expires[c]

\* verifyJWS with a kid: the account exists and is valid.
Authenticated(a) == account[a] # None /\ account[a].status = "valid"

Begin(w, label, j) ==
    /\ pc[w] = "idle"
    /\ pc' = [pc EXCEPT ![w] = label]
    /\ job' = [job EXCEPT ![w] = j]
Done(w) == pc' = [pc EXCEPT ![w] = "idle"] /\ job' = [job EXCEPT ![w] = NoJob]

-----------------------------------------------------------------------------
(* eab new, eab delete: the operator, beside the running daemon *)

EabNew(c) ==
    /\ cred[c] = "absent"
    /\ cred' = [cred EXCEPT ![c] = None]
    /\ UNCHANGED <<clock, account, order, pc, job>>

EabDelete(c) ==
    /\ Provisioned(c)
    /\ cred' = [cred EXCEPT ![c] = Gone]
    /\ UNCHANGED <<clock, account, order, pc, job>>

-----------------------------------------------------------------------------
(* newAccount *)

\* A key without an account, and an EAB signed with a provisioned credential:
\* verifyEAB looks neither at its use nor at its expiry.
NewAccountStart(w) ==
    /\ \E k \in Keys, c \in Creds :
          /\ KeyFree(k)
          /\ Provisioned(c)
          /\ Begin(w, "register", [NoJob EXCEPT !.new = k, !.cred = c])
    /\ UNCHANGED <<clock, cred, account, order>>

\* InsertAccountEAB: one transaction binds the credential and inserts.
Registered(a, k, c) ==
    account' = [account EXCEPT ![a] = [key |-> k, cred |-> c, status |-> "valid"]]
Bound(c, a) == IF c \in Reusable THEN cred ELSE [cred EXCEPT ![c] = a]

Register(w) ==
    /\ pc[w] = "register"
    /\ Admits(job[w].cred)
    /\ KeyFree(job[w].new)
    /\ \E a \in Accounts :
          /\ account[a] = None
          /\ Registered(a, job[w].new, job[w].cred)
          /\ cred' = Bound(job[w].cred, a)
    /\ Done(w)
    /\ UNCHANGED <<clock, order>>

\* The credential admits nobody any more, or the key was registered
\* meanwhile and the INSERT fails: all of it rolls back.
Mutant_BindsAnyway(w) ==
    /\ pc[w] = "register"
    /\ Admits(job[w].cred)
    /\ ~KeyFree(job[w].new)
    /\ \E a \in Accounts : account[a] = None /\ cred' = Bound(job[w].cred, a)
    /\ Done(w)
    /\ UNCHANGED <<clock, account, order>>
RegisterRefused(w) ==
    /\ pc[w] = "register"
    /\ ~(Admits(job[w].cred) /\ KeyFree(job[w].new))
    /\ Done(w)
    /\ UNCHANGED <<clock, cred, account, order>>

-----------------------------------------------------------------------------
(* keyChange, deactivation *)

\* Both keys signed: the account's current one, also named as oldKey, and a
\* new one that no account holds.
KeyChangeStart(w) ==
    /\ \E a \in Accounts, k \in Keys :
          /\ Authenticated(a)
          /\ KeyFree(k)
          /\ Begin(w, "rekey", [NoJob EXCEPT !.account = a, !.new = k,
                                             !.old = account[a].key])
    /\ UNCHANGED <<clock, cred, account, order>>

\* SetAccountKey: the two columns, whatever the row holds by now.
Mutant_WholeRow(w) ==
    /\ pc[w] = "rekey"
    /\ KeyFree(job[w].new)
    /\ account' = [account EXCEPT ![job[w].account].key = job[w].new,
                                  ![job[w].account].status = "valid"]
    /\ Done(w)
    /\ UNCHANGED <<clock, cred, order>>
Rekey(w) ==
    /\ pc[w] = "rekey"
    /\ KeyFree(job[w].new)
    /\ account' = [account EXCEPT ![job[w].account].key = job[w].new]
    /\ Done(w)
    /\ UNCHANGED <<clock, cred, order>>

\* The UNIQUE constraint: another account took the key; if this one did, the
\* row stays as it is.
RekeyRefused(w) ==
    /\ pc[w] = "rekey"
    /\ ~KeyFree(job[w].new)
    /\ Done(w)
    /\ UNCHANGED <<clock, cred, account, order>>

DeactivateStart(w) ==
    /\ \E a \in Accounts :
          /\ Authenticated(a)
          /\ Begin(w, "deactivate", [NoJob EXCEPT !.account = a])
    /\ UNCHANGED <<clock, cred, account, order>>

Deactivate(w) ==
    /\ pc[w] = "deactivate"
    /\ account' = [account EXCEPT ![job[w].account].status = "deactivated"]
    /\ Done(w)
    /\ UNCHANGED <<clock, cred, order>>

-----------------------------------------------------------------------------
(* newOrder and finalize, as far as accounts gate them *)

\* allowed: a missing credential denies.
NewOrderStart(w) ==
    /\ \E a \in Accounts :
          /\ Authenticated(a)
          /\ Provisioned(account[a].cred)
          /\ Begin(w, "order", [NoJob EXCEPT !.account = a])
    /\ UNCHANGED <<clock, cred, account, order>>

NewOrder(w) ==
    /\ pc[w] = "order"
    /\ \E o \in Orders :
          /\ order[o] = None
          /\ order' = [order EXCEPT ![o] = [account |-> job[w].account,
                                            status |-> "open"]]
    /\ Done(w)
    /\ UNCHANGED <<clock, cred, account>>

\* The account is authenticated and owns the order; AcmeOrder has the rest.
Finalize(o) ==
    /\ order[o] # None
    /\ order[o].status = "open"
    /\ Authenticated(order[o].account)
    /\ order' = [order EXCEPT ![o].status = "finalized"]
    /\ UNCHANGED <<clock, cred, account, pc, job>>

-----------------------------------------------------------------------------
\* A handler dies: the daemon crashes, or the statement fails.
Dies(w) ==
    /\ pc[w] # "idle"
    /\ Done(w)
    /\ UNCHANGED <<clock, cred, account, order>>

Tick ==
    /\ clock < MaxTime
    /\ clock' = clock + 1
    /\ UNCHANGED <<cred, account, order, pc, job>>

Init ==
    /\ clock = 0
    /\ cred = [c \in Creds |-> "absent"]
    /\ account = [a \in Accounts |-> None]
    /\ order = [o \in Orders |-> None]
    /\ pc = [w \in Workers |-> "idle"]
    /\ job = [w \in Workers |-> NoJob]

Handler(w) ==
    \/ NewAccountStart(w) \/ Register(w) \/ RegisterRefused(w)
    \/ KeyChangeStart(w) \/ Rekey(w) \/ RekeyRefused(w)
    \/ DeactivateStart(w) \/ Deactivate(w)
    \/ NewOrderStart(w) \/ NewOrder(w) \/ Dies(w)

Next ==
    \/ Tick
    \/ \E c \in Creds : EabNew(c) \/ EabDelete(c)
    \/ \E w \in Workers : Handler(w)
    \/ \E o \in Orders : Finalize(o)

Spec == Init /\ [][Next]_vars

-----------------------------------------------------------------------------
\* A single-use credential admits one account, however many registrations
\* race with it: it "binds the first and no other" (InsertAccountEAB).
SingleUseBindsOne ==
    \A a, b \in Accounts :
        /\ account[a] # None /\ account[b] # None
        /\ account[a].cred = account[b].cred
        /\ account[a].cred \notin Reusable
        => a = b

\* A credential is spent on an account that exists: a registration that
\* loses its key to another one does not use the credential up
\* (InsertAccountEAB, "on refusal nothing is written").
BoundIsRegistered ==
    \A c \in Creds : cred[c] \in Accounts =>
        account[cred[c]] # None /\ account[cred[c]].cred = c

\* A key signs for one account only, though newAccount and keyChange look it
\* up before they write (AccountByThumbprint, accounts.thumbprint UNIQUE).
OneAccountPerKey ==
    \A a, b \in Accounts :
        account[a] # None /\ account[b] # None
            /\ account[a].key = account[b].key => a = b

\* Deactivation is irreversible, also for a key change that was authenticated
\* before it (handleAccount, SetAccountKey).
DeactivationIsFinal ==
    [][\A a \in Accounts :
          account[a] # None /\ account[a].status = "deactivated"
          => account'[a].status = "deactivated"]_account

-----------------------------------------------------------------------------
(* What the repository states and the code does not keep *)

\* After a rollover "the account is now controlled by (and only by) the new
\* key" (SetAccountKey): a key is replaced on its own authority.
KeyChangesItself ==
    [][\A a \in Accounts :
          account[a] # None /\ account'[a].key # account[a].key
          => \E w \in Workers : /\ job[w].account = a
                                /\ job[w].old = account[a].key
                                /\ job[w].new = account'[a].key]_account

\* Once its credential is deleted an account "can no longer order anything"
\* (docs/acme-operation.md, Account compromise).
DeletedOrdersNothing ==
    [][\A o \in Orders : order[o] # None /\ order'[o] # order[o] =>
          Provisioned(account[order[o].account].cred)]_order
=============================================================================
