------------------------- MODULE AcmeAccount_proofs -------------------------
(***************************************************************************)
(* A single-use credential admits one account, a key belongs to one, and a *)
(* deactivated account stays so, for any number of requests, accounts and  *)
(* credentials.                                                            *)
(*                                                                         *)
(* The inductive invariant ties the two tables that InsertAccountEAB       *)
(* writes in one transaction: the row of a used single-use credential      *)
(* names the account that used it, or is deleted for good.                 *)
(***************************************************************************)
EXTENDS AcmeAccount, TLAPS

\* What a request carries to its write: accounts are never deleted, so the
\* one it was authenticated for is there.
Carries ==
    \A w \in Workers :
        /\ pc[w] = "register" => job[w].new \in Keys /\ job[w].cred \in Creds
        /\ pc[w] = "rekey" => job[w].new \in Keys
        /\ pc[w] \in {"rekey", "deactivate", "order"} =>
              job[w].account \in Accounts /\ account[job[w].account] # None

\* Orders are those of accounts that exist.
OrdersOwned ==
    \A o \in Orders : order[o] # None => account[order[o].account] # None

\* What a single-use credential says of the account it admitted.
UsedIsBound ==
    \A a \in Accounts : account[a] # None /\ account[a].cred \notin Reusable =>
        cred[account[a].cred] \in {a, Gone}

RInv == /\ TypeOK /\ Carries /\ OrdersOwned
        /\ UsedIsBound /\ SingleUseBindsOne
        /\ BoundIsRegistered /\ OneAccountPerKey

-----------------------------------------------------------------------------
(***************************************************************************)
(* With every table empty the invariant holds.                             *)
(***************************************************************************)
LEMMA RegistryInit == Init => RInv
BY CredAssumption, NoneAssumption
   DEF Init, RInv, TypeOK, Carries, OrdersOwned, UsedIsBound,
       SingleUseBindsOne, BoundIsRegistered, OneAccountPerKey, Job, NoJob, Labels

(***************************************************************************)
(* A request that starts changes its own place only.                       *)
(***************************************************************************)
LEMMA Begun ==
    ASSUME RInv, NEW w \in Workers, NEW l \in Labels, NEW j \in Job,
           Begin(w, l, j), UNCHANGED <<clock, cred, account, order>>,
           l = "register" => j.new \in Keys /\ j.cred \in Creds,
           l = "rekey" => j.new \in Keys,
           l \in {"rekey", "deactivate", "order"} =>
              j.account \in Accounts /\ account[j.account] # None
    PROVE  RInv'
<1>1. /\ pc' = [pc EXCEPT ![w] = l] /\ job' = [job EXCEPT ![w] = j]
      /\ pc'[w] = l /\ job'[w] = j
      /\ \A v \in Workers : v # w => pc'[v] = pc[v] /\ job'[v] = job[v]
  BY DEF Begin, RInv, TypeOK
<1>2. TypeOK'
  BY <1>1 DEF RInv, TypeOK
<1>3. Carries'
  <2> SUFFICES ASSUME NEW v \in Workers
               PROVE  /\ pc'[v] = "register" => job'[v].new \in Keys /\ job'[v].cred \in Creds
                      /\ pc'[v] = "rekey" => job'[v].new \in Keys
                      /\ pc'[v] \in {"rekey", "deactivate", "order"} =>
                            /\ job'[v].account \in Accounts
                            /\ account[job'[v].account] # None
    BY DEF Carries
  <2>1. CASE v = w
    BY <1>1, <2>1
  <2>2. CASE v # w
    BY <1>1, <2>2 DEF RInv, Carries
  <2> QED BY <2>1, <2>2
<1> QED BY <1>2, <1>3
        DEF RInv, OrdersOwned, UsedIsBound, SingleUseBindsOne, BoundIsRegistered, OneAccountPerKey

(***************************************************************************)
(* A request that ends has written rows that stay rows: nothing else of    *)
(* the requests' invariant depends on what it wrote.                       *)
(***************************************************************************)
LEMMA Ended ==
    ASSUME RInv, NEW w \in Workers, Done(w),
           account' \in [Accounts -> Account \cup {None}],
           \A a \in Accounts : account[a] # None => account'[a] # None
    PROVE  pc' \in [Workers -> Labels] /\ job' \in [Workers -> Job] /\ Carries'
<1> USE NoneAssumption
<1>1. /\ pc' = [pc EXCEPT ![w] = "idle"] /\ job' = [job EXCEPT ![w] = NoJob]
      /\ pc'[w] = "idle"
      /\ \A v \in Workers : v # w => pc'[v] = pc[v] /\ job'[v] = job[v]
  BY DEF Done, RInv, TypeOK
<1>2. NoJob \in Job
  BY DEF NoJob, Job
<1>3. Carries'
  BY <1>1 DEF Carries, RInv
<1> QED BY <1>1, <1>2, <1>3 DEF RInv, TypeOK, Labels

(***************************************************************************)
(* A registration binds a free credential, or a reusable one, to a row     *)
(* with a free key (InsertAccountEAB).                                     *)
(***************************************************************************)
LEMMA RegisterKeeps == ASSUME RInv, NEW w \in Workers, Register(w) PROVE RInv'
<1> USE CredAssumption, NoneAssumption, AbsentAssumption
<1> DEFINE c == job[w].cred
           k == job[w].new
<1>1. PICK a \in Accounts : /\ account[a] = None
                            /\ Registered(a, k, c)
                            /\ cred' = Bound(c, a)
  BY DEF Register
<1>2. /\ c \in Creds /\ k \in Keys
      /\ Admits(c) /\ KeyFree(k) /\ Done(w)
      /\ UNCHANGED <<clock, order>>
  BY DEF Register, RInv, Carries
<1>3. /\ account'[a] = [key |-> k, cred |-> c, status |-> "valid"]
      /\ \A b \in Accounts : b # a => account'[b] = account[b]
      /\ account' \in [Accounts -> Account \cup {None}]
      /\ account'[a] # None
  BY <1>1, <1>2 DEF Registered, RInv, TypeOK, Account
<1>4. /\ cred' \in [Creds -> Accounts \cup {"absent", None, Gone}]
      /\ \A d \in Creds : d # c \/ c \in Reusable => cred'[d] = cred[d]
      /\ c \notin Reusable => cred'[c] = a /\ cred[c] = None
  BY <1>1, <1>2 DEF Bound, Admits, RInv, TypeOK
<1>5. TypeOK' /\ Carries'
  BY <1>1, <1>2, <1>3, <1>4, Ended DEF RInv, TypeOK
<1>6. OrdersOwned'
  BY <1>1, <1>2, <1>3 DEF RInv, OrdersOwned, TypeOK, Order
<1>7. UsedIsBound'
  <2> SUFFICES ASSUME NEW b \in Accounts, account'[b] # None,
                      account'[b].cred \notin Reusable
               PROVE  cred'[account'[b].cred] \in {b, Gone}
    BY DEF UsedIsBound
  <2>1. CASE b = a
    BY <1>3, <1>4, <2>1
  <2>2. CASE b # a
    <3>1. account[b] # None /\ account[b] \in Account /\ account'[b] = account[b]
      BY <1>3, <2>2 DEF RInv, TypeOK
    <3>2. cred[account[b].cred] \in {b, Gone} /\ account[b].cred \in Creds
      BY <3>1 DEF RInv, UsedIsBound, Account
    <3>3. account[b].cred # c
      BY <1>4, <3>1, <3>2
    <3> QED BY <1>4, <3>1, <3>2, <3>3
  <2> QED BY <2>1, <2>2
<1>8. BoundIsRegistered'
  <2> SUFFICES ASSUME NEW d \in Creds, cred'[d] \in Accounts
               PROVE  account'[cred'[d]] # None /\ account'[cred'[d]].cred = d
    BY DEF BoundIsRegistered
  <2>1. CASE d = c /\ c \notin Reusable
    BY <1>3, <1>4, <2>1
  <2>2. CASE ~(d = c /\ c \notin Reusable)
    <3>1. cred'[d] = cred[d]
      BY <1>4, <2>2
    <3>2. account[cred[d]] # None /\ account[cred[d]].cred = d
      BY <3>1 DEF RInv, BoundIsRegistered
    <3> QED BY <1>1, <1>3, <3>1, <3>2
  <2> QED BY <2>1, <2>2
<1>9. OneAccountPerKey'
  BY <1>2, <1>3 DEF RInv, OneAccountPerKey, KeyFree
<1>10. SingleUseBindsOne'
  <2>1. \A b \in Accounts :
           account[b] # None /\ account[b].cred = c /\ c \notin Reusable => FALSE
    BY <1>4 DEF RInv, UsedIsBound
  <2> QED BY <1>1, <1>3, <2>1 DEF RInv, SingleUseBindsOne
<1> QED BY <1>5, <1>6, <1>7, <1>8, <1>9, <1>10 DEF RInv

(***************************************************************************)
(* A write to a row that is there changes its key to a free one, or its    *)
(* status (SetAccountKey, deactivation).                                   *)
(***************************************************************************)
LEMMA RewriteKeeps ==
    ASSUME RInv, NEW w \in Workers, NEW a \in Accounts, account[a] # None,
           NEW row \in Account, row.cred = account[a].cred,
           row.key = account[a].key \/ KeyFree(row.key),
           account' = [account EXCEPT ![a] = row],
           Done(w), UNCHANGED <<clock, cred, order>>
    PROVE  RInv'
<1> USE AbsentAssumption
<1>1. /\ account'[a] = row /\ row # None
      /\ \A b \in Accounts : b # a => account'[b] = account[b]
      /\ account' \in [Accounts -> Account \cup {None}]
  BY DEF RInv, TypeOK
<1>2. TypeOK' /\ Carries'
  BY <1>1, Ended DEF RInv, TypeOK
<1>3. /\ OrdersOwned' /\ UsedIsBound' /\ SingleUseBindsOne'
      /\ BoundIsRegistered'
  BY <1>1 DEF RInv, OrdersOwned, UsedIsBound, SingleUseBindsOne, BoundIsRegistered, TypeOK, Order
<1>4. OneAccountPerKey'
  BY <1>1 DEF RInv, OneAccountPerKey, KeyFree
<1> QED BY <1>2, <1>3, <1>4 DEF RInv

(***************************************************************************)
(* The two requests that rewrite a row.                                    *)
(***************************************************************************)
LEMMA RekeyKeeps == ASSUME RInv, NEW w \in Workers, Rekey(w) PROVE RInv'
<1> DEFINE a == job[w].account
           row == [account[a] EXCEPT !.key = job[w].new]
<1>1. /\ a \in Accounts /\ account[a] # None /\ job[w].new \in Keys
      /\ account[a] \in Account
  BY DEF Rekey, RInv, Carries, TypeOK
<1>2. /\ row \in Account /\ row.cred = account[a].cred
      /\ row.key = job[w].new
  BY <1>1 DEF Account
<1>3. account' = [account EXCEPT ![a] = row]
  BY DEF Rekey
<1> HIDE DEF a, row
<1> QED BY <1>1, <1>2, <1>3, RewriteKeeps DEF Rekey

LEMMA DeactivateKeeps == ASSUME RInv, NEW w \in Workers, Deactivate(w) PROVE RInv'
<1> DEFINE a == job[w].account
           row == [account[a] EXCEPT !.status = "deactivated"]
<1>1. a \in Accounts /\ account[a] # None /\ account[a] \in Account
  BY DEF Deactivate, RInv, Carries, TypeOK
<1>2. /\ row \in Account /\ row.cred = account[a].cred
      /\ row.key = account[a].key
  BY <1>1 DEF Account
<1>3. account' = [account EXCEPT ![a] = row]
  BY DEF Deactivate
<1> HIDE DEF a, row
<1> QED BY <1>1, <1>2, <1>3, RewriteKeeps DEF Deactivate

(***************************************************************************)
(* A step of a request keeps the invariant.                                *)
(***************************************************************************)
LEMMA HandlerKeeps == ASSUME RInv, NEW w \in Workers, Handler(w) PROVE RInv'
<1> USE CredAssumption, NoneAssumption, AbsentAssumption
<1>1. CASE NewAccountStart(w)
  <2>1. PICK k \in Keys, c \in Creds :
           Begin(w, "register", [NoJob EXCEPT !.new = k, !.cred = c])
    BY <1>1 DEF NewAccountStart
  <2>2. [NoJob EXCEPT !.new = k, !.cred = c] \in Job
    BY DEF NoJob, Job
  <2> QED BY <1>1, <2>1, <2>2, Begun DEF NewAccountStart, Labels, NoJob
<1>2. CASE Register(w)
  BY <1>2, RegisterKeeps
<1>3. CASE KeyChangeStart(w)
  <2>1. PICK a \in Accounts, k \in Keys :
           /\ Authenticated(a)
           /\ Begin(w, "rekey", [NoJob EXCEPT !.account = a, !.new = k,
                                              !.old = account[a].key])
    BY <1>3 DEF KeyChangeStart
  <2>2. account[a] # None /\ account[a].key \in Keys
    BY <2>1 DEF Authenticated, RInv, TypeOK, Account
  <2>3. [NoJob EXCEPT !.account = a, !.new = k, !.old = account[a].key] \in Job
    BY <2>2 DEF NoJob, Job
  <2> QED BY <1>3, <2>1, <2>2, <2>3, Begun DEF KeyChangeStart, Labels, NoJob
<1>4. CASE Rekey(w)
  BY <1>4, RekeyKeeps
<1>5. CASE DeactivateStart(w)
  <2>1. PICK a \in Accounts :
           /\ Authenticated(a)
           /\ Begin(w, "deactivate", [NoJob EXCEPT !.account = a])
    BY <1>5 DEF DeactivateStart
  <2>2. [NoJob EXCEPT !.account = a] \in Job /\ account[a] # None
    BY <2>1 DEF NoJob, Job, Authenticated
  <2> QED BY <1>5, <2>1, <2>2, Begun DEF DeactivateStart, Labels, NoJob
<1>6. CASE Deactivate(w)
  BY <1>6, DeactivateKeeps
<1>7. CASE NewOrderStart(w)
  <2>1. PICK a \in Accounts :
           /\ Authenticated(a)
           /\ Begin(w, "order", [NoJob EXCEPT !.account = a])
    BY <1>7 DEF NewOrderStart
  <2>2. [NoJob EXCEPT !.account = a] \in Job /\ account[a] # None
    BY <2>1 DEF NoJob, Job, Authenticated
  <2> QED BY <1>7, <2>1, <2>2, Begun DEF NewOrderStart, Labels, NoJob
<1>8. CASE NewOrder(w)
  <2>1. PICK o \in Orders :
           order' = [order EXCEPT ![o] = [account |-> job[w].account, status |-> "open"]]
    BY <1>8 DEF NewOrder
  <2>2. job[w].account \in Accounts /\ account[job[w].account] # None
    BY <1>8 DEF NewOrder, RInv, Carries
  <2>3. order' \in [Orders -> Order \cup {None}] /\ OrdersOwned'
    BY <1>8, <2>1, <2>2 DEF NewOrder, RInv, TypeOK, Order, OrdersOwned
  <2> QED BY <1>8, <2>3, Ended
          DEF NewOrder, RInv, TypeOK, UsedIsBound, SingleUseBindsOne, BoundIsRegistered, OneAccountPerKey
<1>9. CASE RegisterRefused(w) \/ RekeyRefused(w) \/ Dies(w)
  BY <1>9, Ended
     DEF RegisterRefused, RekeyRefused, Dies, RInv, TypeOK, OrdersOwned,
         UsedIsBound, SingleUseBindsOne, BoundIsRegistered, OneAccountPerKey
<1> QED BY <1>1, <1>2, <1>3, <1>4, <1>5, <1>6, <1>7, <1>8, <1>9 DEF Handler

(***************************************************************************)
(* Every step keeps the invariant: eab new and eab delete leave what a     *)
(* used credential says, or make it deleted.                               *)
(***************************************************************************)
LEMMA RegistryStep == RInv /\ [Next]_vars => RInv'
<1> SUFFICES ASSUME RInv, [Next]_vars PROVE RInv'
  OBVIOUS
<1> USE CredAssumption, NoneAssumption, AbsentAssumption
<1>1. CASE Tick
  BY <1>1 DEF Tick, RInv, TypeOK, Carries, OrdersOwned, UsedIsBound,
              SingleUseBindsOne, BoundIsRegistered, OneAccountPerKey
<1>2. ASSUME NEW c \in Creds, EabNew(c) \/ EabDelete(c) PROVE RInv'
  <2>1. /\ cred' \in [Creds -> Accounts \cup {"absent", None, Gone}]
        /\ \A d \in Creds : d # c => cred'[d] = cred[d]
        /\ cred'[c] \in {None, Gone}
        /\ cred[c] # "absent" => cred'[c] = Gone
        /\ UNCHANGED <<clock, account, order, pc, job>>
    BY <1>2 DEF EabNew, EabDelete, Provisioned, RInv, TypeOK
  <2>2. UsedIsBound'
    <3> SUFFICES ASSUME NEW a \in Accounts, account[a] # None,
                        account[a].cred \notin Reusable
                 PROVE  cred'[account[a].cred] \in {a, Gone}
      BY <2>1 DEF UsedIsBound
    <3>1. cred[account[a].cred] \in {a, Gone} /\ account[a].cred \in Creds
      BY DEF RInv, UsedIsBound, TypeOK, Account
    <3> QED BY <2>1, <3>1
  <2>3. BoundIsRegistered'
    BY <2>1 DEF RInv, BoundIsRegistered
  <2> QED BY <2>1, <2>2, <2>3
          DEF RInv, TypeOK, Carries, OrdersOwned, SingleUseBindsOne,
              OneAccountPerKey
<1>3. ASSUME NEW w \in Workers, Handler(w) PROVE RInv'
  BY <1>3, HandlerKeeps
<1>4. ASSUME NEW o \in Orders, Finalize(o) PROVE RInv'
  <2>1. /\ order[o] \in Order
        /\ order' = [order EXCEPT ![o] = [order[o] EXCEPT !.status = "finalized"]]
    BY <1>4 DEF Finalize, RInv, TypeOK
  <2>2. order' \in [Orders -> Order \cup {None}]
    BY <2>1 DEF RInv, TypeOK, Order
  <2>3. OrdersOwned'
    BY <1>4, <2>1 DEF Finalize, RInv, OrdersOwned, TypeOK, Order
  <2> QED BY <1>4, <2>2, <2>3
          DEF Finalize, RInv, TypeOK, Carries, UsedIsBound, SingleUseBindsOne, BoundIsRegistered,
              OneAccountPerKey
<1>5. CASE UNCHANGED vars
  BY <1>5 DEF vars, RInv, TypeOK, Carries, OrdersOwned, UsedIsBound,
              SingleUseBindsOne, BoundIsRegistered, OneAccountPerKey
<1> QED BY <1>1, <1>2, <1>3, <1>4, <1>5 DEF Next

(***************************************************************************)
(* Every reachable state of the account tables and requests has the        *)
(* declared types.                                                         *)
(***************************************************************************)
THEOREM TypeCorrect == Spec => []TypeOK
<1>1. RInv => TypeOK
  BY DEF RInv
<1> QED BY <1>1, RegistryInit, RegistryStep, PTL DEF Spec

(***************************************************************************)
(* However many registrations race with one single-use credential, it      *)
(* admits one account (InsertAccountEAB).                                  *)
(***************************************************************************)
THEOREM SingleUseAdmitsOne == Spec => []SingleUseBindsOne
<1>1. RInv => SingleUseBindsOne
  BY DEF RInv
<1> QED BY <1>1, RegistryInit, RegistryStep, PTL DEF Spec

(***************************************************************************)
(* A credential is bound to an account that is registered with it:         *)
(* refusing a registration writes nothing (InsertAccountEAB).              *)
(***************************************************************************)
THEOREM BoundCredentialsAreUsed == Spec => []BoundIsRegistered
<1>1. RInv => BoundIsRegistered
  BY DEF RInv
<1> QED BY <1>1, RegistryInit, RegistryStep, PTL DEF Spec

(***************************************************************************)
(* However registrations and key changes race, a key signs for one account *)
(* (AccountByThumbprint, the UNIQUE thumbprint).                           *)
(***************************************************************************)
THEOREM KeysHaveOneAccount == Spec => []OneAccountPerKey
<1>1. RInv => OneAccountPerKey
  BY DEF RInv
<1> QED BY <1>1, RegistryInit, RegistryStep, PTL DEF Spec

DeactivatedStay ==
    \A a \in Accounts :
        account[a] # None /\ account[a].status = "deactivated"
        => account'[a].status = "deactivated"

(***************************************************************************)
(* No write brings a deactivated account back, however long ago its        *)
(* request was authenticated (handleAccount, SetAccountKey).               *)
(***************************************************************************)
THEOREM DeactivationIsForGood == Spec => DeactivationIsFinal
<1>1. RInv /\ [Next]_vars => [DeactivatedStay]_account
  <2> SUFFICES ASSUME RInv, Next, account' # account, NEW a \in Accounts,
                      account[a] # None, account[a].status = "deactivated"
               PROVE  account'[a].status = "deactivated"
    BY DEF DeactivatedStay, vars
  <2>1. PICK w \in Workers : Register(w) \/ Rekey(w) \/ Deactivate(w)
    BY DEF Next, Handler, Tick, EabNew, EabDelete, Finalize, NewAccountStart,
           RegisterRefused, KeyChangeStart, RekeyRefused, DeactivateStart,
           NewOrderStart, NewOrder, Dies
  <2>2. CASE Register(w)
    BY <2>2 DEF Register, Registered, RInv, TypeOK
  <2>3. account[a] \in Account
    BY DEF RInv, TypeOK
  <2>4. CASE Rekey(w)
    BY <2>3, <2>4 DEF Rekey, RInv, TypeOK, Carries, Account
  <2>5. CASE Deactivate(w)
    BY <2>3, <2>5 DEF Deactivate, RInv, TypeOK, Carries, Account
  <2> QED BY <2>1, <2>2, <2>4, <2>5
<1>2. Spec => []RInv
  BY RegistryInit, RegistryStep, PTL DEF Spec
<1>3. Spec => [][DeactivatedStay]_account
  BY <1>1, <1>2, PTL DEF Spec
<1> QED BY <1>3 DEF DeactivationIsFinal, DeactivatedStay
=============================================================================
