------------------------ MODULE Initialization_proofs ------------------------
(***************************************************************************)
(* What an initialized store has locked is final, and consistent: whatever *)
(* inits race, die or are run again, however the configuration file is     *)
(* edited, for any number of CAs, files, processes and ceremonies.         *)
(*                                                                         *)
(* The insertion of the globals admits one init at a time; the root's row  *)
(* comes after every section is locked (Writers).  From then on only add   *)
(* adds a section, and unless it warned, the file it ran on had the locked *)
(* globals and every locked section: some accepted file always declares    *)
(* all that is InOrder (OneFile), and what load checked of that file holds *)
(* of the store.                                                           *)
(*                                                                         *)
(* When ceremonies that need a token take turns, a label on it never gets  *)
(* a second keypair, and the key an init or a ceremony goes on with is     *)
(* where it was made or found (TInv); so the certificates it records have  *)
(* their keys, and are signed with that of the one root (RInv).            *)
(***************************************************************************)
EXTENDS Initialization, ConfigRules_proofs

Writing == {"sections", "index"}

Shapes ==
    /\ file \in Files
    /\ DOMAIN section = Lineages \ {"root"}
    /\ DOMAIN row = Gens
    /\ DOMAIN pc = Inits /\ DOMAIN job = Inits
    /\ \A p \in Inits : {"conf", "todo"} \subseteq DOMAIN job[p]

Jobs == \A p \in Inits : pc[p] # "idle" =>
            job[p].conf \in Files /\ Accepted(job[p].conf)

Alone == \A p, q \in Inits : pc[p] \in Writing /\ pc[q] \in Writing => p = q

Writers ==
    \A p \in Inits :
        /\ pc[p] \in Writing => globals = Globals(job[p].conf) /\ job[p].todo # {}
        /\ pc[p] = "sections" =>
              /\ row[First("root")] = {}
              /\ job[p].todo \subseteq Purposes(job[p].conf)
              /\ \A pu \in Locked : /\ pu \in Purposes(job[p].conf)
                                    /\ section[pu] = Loaded(job[p].conf, pu)
        /\ pc[p] = "index" =>
              /\ job[p].todo \subseteq DOMAIN job[p].conf.ca
              /\ "root" \in job[p].todo => row[First("root")] = {}

Unlocked == globals = None => /\ Locked = {}
                              /\ \A g \in Gens : row[g] = {}

Under == \A g \in Gens : \A c \in row[g] : c.under = globals \/ c.warned

Declares(f) ==
    /\ Accepted(f) /\ Globals(f) = globals
    /\ \A pu \in InOrder : pu \in Purposes(f) /\ section[pu] = Loaded(f, pu)
OneFile == globals # None => \E f \in Files : Declares(f)

IInv == Shapes /\ Jobs /\ Alone /\ Writers /\ Unlocked /\ Under /\ OneFile

-----------------------------------------------------------------------------
LEMMA FirstGens == \A x \in Lineages : First(x) \in Gens
BY FilesAssumption DEF First, Gens

LEMMA InitInv == Init => IInv
BY FirstGens
   DEF Init, IInv, Shapes, Jobs, Alone, Writers, Unlocked, Under, OneFile,
       Writing, Locked, NoJob, First, Gens

\* The head of a loop is one of what is left of it.
LEMMA CaIsLeft ==
    ASSUME NEW p \in Inits, job[p].todo # {}
    PROVE  /\ Ca(p) \in job[p].todo
           /\ "root" \notin job[p].todo => Ca(p) # "root"
BY DEF Ca

\* An accepted file has a root and an issuing CA.
LEMMA AcceptedHas ==
    ASSUME NEW f, Accepted(f)
    PROVE  /\ "root" \in DOMAIN f.ca /\ Purposes(f) # {}
           /\ Purposes(f) = DOMAIN f.ca \ {"root"}
BY DEF Accepted, Purposes

LEMMA LockedSame ==
    ASSUME UNCHANGED <<globals, section, row>>
    PROVE  /\ Locked' = Locked /\ InOrder' = InOrder
           /\ Unlocked => Unlocked'
           /\ Under => Under'
           /\ OneFile => OneFile'
BY DEF Locked, InOrder, Unlocked, Under, OneFile, Declares

\* A step of p that leaves what is locked alone, and p outside the loops that
\* lock.
LEMMA Quiet ==
    ASSUME IInv, NEW p \in Inits,
           UNCHANGED <<globals, section, row>>, file' \in Files,
           DOMAIN pc' = Inits, DOMAIN job' = Inits,
           \A q \in Inits \ {p} : pc'[q] = pc[q] /\ job'[q] = job[q],
           pc'[p] \notin Writing,
           {"conf", "todo"} \subseteq DOMAIN job'[p],
           pc'[p] # "idle" => job'[p].conf \in Files /\ Accepted(job'[p].conf)
    PROVE  IInv'
<1>1. Shapes' /\ Jobs' /\ Alone'
  BY DEF IInv, Shapes, Jobs, Alone
<1>2. Writers'
  BY LockedSame DEF IInv, Writers, Writing
<1> QED BY <1>1, <1>2, LockedSame DEF IInv

LEMMA Becomes ==
    ASSUME IInv, NEW p \in Inits, NEW l, NEW j, Become(p, l, j)
    PROVE  /\ DOMAIN pc' = Inits /\ DOMAIN job' = Inits
           /\ pc'[p] = l /\ job'[p] = j
           /\ \A q \in Inits \ {p} : pc'[q] = pc[q] /\ job'[q] = job[q]
BY DEF Become, IInv, Shapes

\* Where Onward leads: the same file, less to do, or the next phase.
LEMMA Onwards ==
    ASSUME IInv, NEW p \in Inits, NEW j, {"conf", "todo"} \subseteq DOMAIN j,
           j.todo = job[p].todo, job[p].todo # {},
           NEW l, NEW n, NEW all, Onward(p, j, l, n, all)
    PROVE  /\ DOMAIN pc' = Inits /\ DOMAIN job' = Inits
           /\ \A q \in Inits \ {p} : pc'[q] = pc[q] /\ job'[q] = job[q]
           /\ {"conf", "todo"} \subseteq DOMAIN job'[p]
           /\ job'[p].conf = j.conf
           /\ \/ /\ pc'[p] = l /\ job'[p].todo # {}
                 /\ job'[p].todo = job[p].todo \ {Ca(p)}
              \/ pc'[p] = n /\ job'[p].todo = all
<1>1. CASE j.todo # {Ca(p)}
  <2>1. Become(p, l, [j EXCEPT !.todo = @ \ {Ca(p)}])
    BY <1>1 DEF Onward
  <2>2. Ca(p) \in job[p].todo
    BY CaIsLeft
  <2>3. job[p].todo \ {Ca(p)} # {}
    BY <1>1, <2>2
  <2> QED BY <2>1, <2>3, Becomes
<1>2. CASE j.todo = {Ca(p)}
  <2>1. Become(p, n, [j EXCEPT !.todo = all])
    BY <1>2 DEF Onward
  <2> QED BY <2>1, Becomes
<1> QED BY <1>1, <1>2

LEMMA StopsQuietly ==
    ASSUME IInv, NEW p \in Inits, Stop(p),
           UNCHANGED <<globals, section, row>>, file' \in Files
    PROVE  IInv'
<1>1. Become(p, "idle", NoJob)
  BY DEF Stop
<1>2. {"conf", "todo"} \subseteq DOMAIN NoJob
  BY DEF NoJob
<1> QED BY <1>1, <1>2, Becomes, Quiet DEF Writing

LEMMA PassesQuietly ==
    ASSUME IInv, NEW p \in Inits, pc[p] # "idle",
           NEW j, {"conf", "todo"} \subseteq DOMAIN j, j.conf = job[p].conf,
           NEW l, l \notin Writing, NEW n, n \notin Writing,
           NEW all, Onward(p, j, l, n, all),
           UNCHANGED <<globals, section, row>>, file' \in Files
    PROVE  IInv'
<1>1. job[p].conf \in Files /\ Accepted(job[p].conf)
  BY DEF IInv, Jobs
<1>2. CASE j.todo # {Ca(p)}
  <2>1. Become(p, l, [j EXCEPT !.todo = @ \ {Ca(p)}])
    BY <1>2 DEF Onward
  <2> QED BY <1>1, <2>1, Becomes, Quiet
<1>3. CASE j.todo = {Ca(p)}
  <2>1. Become(p, n, [j EXCEPT !.todo = all])
    BY <1>3 DEF Onward
  <2> QED BY <1>1, <2>1, Becomes, Quiet
<1> QED BY <1>2, <1>3

LEMMA HasKeyQuiet ==
    ASSUME IInv, NEW p \in Inits, pc[p] # "idle", NEW k, HasKey(p, k),
           UNCHANGED <<globals, section, row>>, file' \in Files
    PROVE  IInv'
<1> DEFINE keys == [x \in DOMAIN job[p].key \cup {Ca(p)} |->
                      IF x = Ca(p) THEN k ELSE job[p].key[x]]
           j == [job[p] EXCEPT !.key = keys]
<1>1. Onward(p, j, "keys", "store", {})
  BY DEF HasKey
<1>2. {"conf", "todo"} \subseteq DOMAIN j /\ j.conf = job[p].conf
  BY DEF IInv, Shapes
<1> HIDE DEF j
<1> QED BY <1>1, <1>2, PassesQuietly DEF Writing

-----------------------------------------------------------------------------
(* The steps of init that lock nothing *)

LEMMA BeginInv == ASSUME IInv, NEW p \in Inits, Begin(p) PROVE IInv'
<1> DEFINE j == [conf |-> file, run |-> runs + 1, key |-> <<>>, todo |-> DOMAIN file.ca]
<1>1. Become(p, "keys", j) /\ {"conf", "todo"} \subseteq DOMAIN j /\ j.conf = file
  BY DEF Begin
<1>2. file \in Files /\ Accepted(file) /\ UNCHANGED <<file, globals, section, row>>
  BY DEF Begin, Materializes, IInv, Shapes
<1> HIDE DEF j
<1> QED BY <1>1, <1>2, Becomes, Quiet DEF Writing

LEMMA FindKeyInv == ASSUME IInv, NEW p \in Inits, FindKey(p) PROVE IInv'
<1>1. /\ UNCHANGED <<globals, section, row>> /\ file' \in Files /\ pc[p] = "keys"
      /\ job[p].conf \in Files /\ Accepted(job[p].conf)
  BY DEF FindKey, store, IInv, Shapes, Jobs
<1>2. ASSUME NEW k, HasKey(p, k) PROVE IInv'
  BY <1>1, <1>2, HasKeyQuiet
<1>3. CASE Become(p, "generate", job[p])
  BY <1>1, <1>3, Becomes, Quiet DEF Writing, IInv, Shapes
<1>4. CASE Stop(p)
  BY <1>1, <1>4, StopsQuietly
<1> QED BY <1>2, <1>3, <1>4 DEF FindKey

LEMMA GenerateKeyInv == ASSUME IInv, NEW p \in Inits, GenerateKey(p) PROVE IInv'
<1>1. /\ UNCHANGED <<globals, section, row>> /\ file' \in Files
      /\ pc[p] # "idle" /\ HasKey(p, job[p].run)
  BY DEF GenerateKey, store, IInv, Shapes
<1> QED BY <1>1, HasKeyQuiet

LEMMA StoreKeysInv == ASSUME IInv, NEW p \in Inits, StoreKeys(p) PROVE IInv'
<1>1. /\ UNCHANGED <<globals, section, row>> /\ file' \in Files
      /\ job[p].conf \in Files /\ Accepted(job[p].conf)
      /\ Become(p, "globals", job[p])
  BY DEF StoreKeys, IInv, Shapes, Jobs
<1> QED BY <1>1, Becomes, Quiet DEF Writing, IInv, Shapes

LEMMA GlobalsTakenInv == ASSUME IInv, NEW p \in Inits, GlobalsTaken(p) PROVE IInv'
BY StopsQuietly DEF GlobalsTaken, store, IInv, Shapes

LEMMA CrashInv == ASSUME IInv, NEW p \in Inits, Crash(p) PROVE IInv'
BY StopsQuietly DEF Crash, store, IInv, Shapes

LEMMA IndexGensInv == ASSUME IInv, NEW p \in Inits, IndexGens(p) PROVE IInv'
<1> DEFINE j == [job[p] EXCEPT !.todo = DOMAIN job[p].conf.ca]
<1>1. /\ UNCHANGED <<globals, section, row>> /\ file' \in Files
      /\ job[p].conf \in Files /\ Accepted(job[p].conf)
      /\ Become(p, "publish", j)
  BY DEF IndexGens, IInv, Shapes, Jobs
<1>2. {"conf", "todo"} \subseteq DOMAIN j /\ j.conf = job[p].conf
  BY DEF IInv, Shapes
<1> HIDE DEF j
<1> QED BY <1>1, <1>2, Becomes, Quiet DEF Writing

LEMMA PublishInv == ASSUME IInv, NEW p \in Inits, Publish(p) PROVE IInv'
<1>1. /\ UNCHANGED <<globals, section, row>> /\ file' \in Files
      /\ pc[p] # "idle" /\ {"conf", "todo"} \subseteq DOMAIN job[p]
  BY DEF Publish, IInv, Shapes
<1>2. CASE Onward(p, job[p], "publish", "idle", {})
  BY <1>1, <1>2, PassesQuietly DEF Writing
<1>3. CASE Stop(p)
  BY <1>1, <1>3, StopsQuietly
<1> QED BY <1>2, <1>3 DEF Publish

-----------------------------------------------------------------------------
(* The steps of init that lock *)

LEMMA LockGlobalsInv == ASSUME IInv, NEW p \in Inits, LockGlobals(p) PROVE IInv'
<1> DEFINE f == job[p].conf
           j == [job[p] EXCEPT !.todo = Purposes(f)]
<1>1. /\ globals = None /\ globals' = Globals(f) /\ UNCHANGED <<file, section, row>>
      /\ Become(p, "sections", j) /\ pc[p] = "globals"
  BY DEF LockGlobals
<1>2. f \in Files /\ Accepted(f) /\ Globals(f) # None
  BY <1>1, FilesAssumption DEF IInv, Jobs
<1>3. {"conf", "todo"} \subseteq DOMAIN j /\ j.conf = f /\ j.todo = Purposes(f)
  BY DEF IInv, Shapes
<1> HIDE DEF f, j
<1>4. /\ DOMAIN pc' = Inits /\ DOMAIN job' = Inits
      /\ pc'[p] = "sections" /\ job'[p] = j
      /\ \A q \in Inits \ {p} : pc'[q] = pc[q] /\ job'[q] = job[q]
  BY <1>1, Becomes
<1>5. Locked = {} /\ Locked' = {} /\ \A g \in Gens : row[g] = {}
  BY <1>1 DEF IInv, Unlocked, Locked
<1>6. \A q \in Inits : pc[q] \notin Writing
  BY <1>1, FilesAssumption DEF IInv, Writers, Jobs, Writing
<1>7. Shapes' /\ Jobs' /\ Alone'
  BY <1>1, <1>2, <1>3, <1>4, <1>6 DEF IInv, Shapes, Jobs, Alone
<1>8. Writers'
  <2>1. row'[First("root")] = {}
    BY <1>1, <1>5, FirstGens, ProfileAssumption
  <2>2. Purposes(f) # {}
    BY <1>2, AcceptedHas
  <2>3. ASSUME NEW q \in Inits, q # p PROVE pc'[q] \notin Writing
    BY <1>4, <1>6, <2>3
  <2> QED BY <1>1, <1>3, <1>4, <1>5, <2>1, <2>2, <2>3 DEF Writers, Writing
<1>9. Unlocked' /\ Under'
  BY <1>1, <1>2, <1>5 DEF Unlocked, Under
<1>10. OneFile'
  BY <1>1, <1>2, <1>5 DEF OneFile, Declares, InOrder
<1> QED BY <1>7, <1>8, <1>9, <1>10 DEF IInv

LEMMA LockSectionInv == ASSUME IInv, NEW p \in Inits, LockSection(p) PROVE IInv'
<1> DEFINE f == job[p].conf
<1>1. /\ pc[p] = "sections" /\ UNCHANGED <<file, globals, row>>
      /\ section' = [section EXCEPT ![Ca(p)] = Loaded(f, Ca(p))]
      /\ Onward(p, job[p], "sections", "index", DOMAIN f.ca)
  BY DEF LockSection, Spec1
<1>2. /\ f \in Files /\ Accepted(f) /\ globals = Globals(f) /\ globals # None
      /\ job[p].todo # {} /\ job[p].todo \subseteq Purposes(f)
      /\ row[First("root")] = {}
      /\ \A pu \in Locked : pu \in Purposes(f) /\ section[pu] = Loaded(f, pu)
  BY <1>1, FilesAssumption DEF IInv, Jobs, Writers, Writing
<1>3. {"conf", "todo"} \subseteq DOMAIN job[p]
  BY DEF IInv, Shapes
<1>4. Ca(p) \in Purposes(f)
  BY <1>2, CaIsLeft
<1>5. /\ DOMAIN pc' = Inits /\ DOMAIN job' = Inits
      /\ \A q \in Inits \ {p} : pc'[q] = pc[q] /\ job'[q] = job[q]
      /\ {"conf", "todo"} \subseteq DOMAIN job'[p]
      /\ job'[p].conf = f
      /\ \/ /\ pc'[p] = "sections" /\ job'[p].todo # {}
            /\ job'[p].todo = job[p].todo \ {Ca(p)}
         \/ pc'[p] = "index" /\ job'[p].todo = DOMAIN f.ca
  <2> HIDE DEF f
  <2>1. job[p].todo = job[p].todo
    OBVIOUS
  <2> QED BY <1>1, <1>2, <1>3, <2>1, Onwards DEF f
<1>6. \A q \in Inits : q # p => pc[q] \notin Writing
  BY <1>1 DEF IInv, Alone, Writing
<1> HIDE DEF f
<1>7. \A pu \in Locked' : pu \in Purposes(f) /\ section'[pu] = Loaded(f, pu)
  BY <1>1, <1>2, <1>4 DEF Locked, IInv, Shapes
<1>8. Shapes' /\ Jobs' /\ Alone'
  BY <1>1, <1>2, <1>5, <1>6 DEF IInv, Shapes, Jobs, Alone
<1>9. Writers'
  <2>1. DOMAIN f.ca # {}
    BY <1>2, AcceptedHas
  <2> QED BY <1>1, <1>2, <1>5, <1>6, <1>7, <2>1 DEF Writers, Writing
<1>10. Unlocked' /\ Under'
  BY <1>1, <1>2 DEF IInv, Unlocked, Under
<1>11. OneFile'
  BY <1>1, <1>2, <1>7 DEF OneFile, Declares, InOrder
<1> QED BY <1>8, <1>9, <1>10, <1>11 DEF IInv

\* A row more in the same sections leaves fewer in order.
LEMMA MoreRows ==
    ASSUME UNCHANGED <<globals, section>>,
           \A pu \in Locked : row[First(pu)] \subseteq row'[First(pu)],
           OneFile
    PROVE  Locked' = Locked /\ OneFile'
BY DEF Locked, InOrder, OneFile, Declares

LEMMA IndexCertInv == ASSUME IInv, NEW p \in Inits, IndexCert(p) PROVE IInv'
<1> DEFINE f == job[p].conf
           c == CertOf(job[p], Ca(p))
<1>1. /\ pc[p] = "index" /\ UNCHANGED <<file, globals, section>>
      /\ row' = [row EXCEPT ![First(Ca(p))] = @ \cup {c}]
      /\ Onward(p, job[p], "index", "gens", {})
  BY DEF IndexCert
<1>2. /\ f \in Files /\ Accepted(f) /\ globals = Globals(f) /\ globals # None
      /\ job[p].todo # {} /\ job[p].todo \subseteq DOMAIN f.ca
  BY <1>1, FilesAssumption DEF IInv, Jobs, Writers, Writing
<1>3. {"conf", "todo"} \subseteq DOMAIN job[p]
  BY DEF IInv, Shapes
<1>4. c.under = globals
  BY <1>2 DEF CertOf, Certificate
<1>5. Ca(p) \in job[p].todo /\ ("root" \notin job[p].todo => Ca(p) # "root")
  BY <1>2, CaIsLeft
<1> HIDE DEF f, c
<1>6. /\ DOMAIN pc' = Inits /\ DOMAIN job' = Inits
      /\ \A q \in Inits \ {p} : pc'[q] = pc[q] /\ job'[q] = job[q]
      /\ {"conf", "todo"} \subseteq DOMAIN job'[p]
      /\ job'[p].conf = f
      /\ \/ /\ pc'[p] = "index" /\ job'[p].todo # {}
            /\ job'[p].todo = job[p].todo \ {Ca(p)}
         \/ pc'[p] = "gens"
  BY <1>1, <1>2, <1>3, Onwards DEF f
<1>7. \A q \in Inits : q # p => pc[q] \notin Writing
  BY <1>1 DEF IInv, Alone, Writing
<1>8. Shapes' /\ Jobs' /\ Alone'
  BY <1>1, <1>2, <1>6, <1>7 DEF IInv, Shapes, Jobs, Alone
<1>9. Writers'
  <2>1. "root" \notin job[p].todo \ {Ca(p)}
    BY <1>5 DEF Ca
  <2> QED BY <1>1, <1>2, <1>6, <1>7, <2>1 DEF Writers, Writing
<1>10. Unlocked'
  BY <1>1, <1>2 DEF Unlocked
<1>11. Under'
  BY <1>1, <1>4 DEF IInv, Shapes, Under
<1>12. OneFile'
  BY <1>1, MoreRows DEF IInv, Shapes
<1> QED BY <1>8, <1>9, <1>10, <1>11, <1>12 DEF IInv

-----------------------------------------------------------------------------
(* The operator and the ceremonies of an initialized store *)

LEMMA MoveAwayInv == ASSUME IInv, MoveAway PROVE IInv'
<1>1. /\ globals' = None /\ UNCHANGED <<file, pc, job>>
      /\ section' = [pu \in DOMAIN section |-> None]
      /\ row' = [g \in Gens |-> {}]
      /\ \A p \in Inits : pc[p] = "idle"
  BY DEF MoveAway, procs
<1>2. Shapes' /\ Jobs' /\ Alone' /\ Writers'
  BY <1>1 DEF IInv, Shapes, Jobs, Alone, Writers, Writing
<1>3. Unlocked' /\ Under' /\ OneFile'
  BY <1>1 DEF Unlocked, Under, OneFile, Locked
<1> QED BY <1>2, <1>3 DEF IInv

LEMMA EditFileInv == ASSUME IInv, EditFile PROVE IInv'
<1>1. file' \in Files /\ UNCHANGED <<globals, section, row, pc, job>>
  BY DEF EditFile, store, procs
<1>2. Shapes' /\ Jobs' /\ Alone' /\ Writers'
  BY <1>1, LockedSame DEF IInv, Shapes, Jobs, Alone, Writers
<1> QED BY <1>1, <1>2, LockedSame DEF IInv

\* Nobody is in the loop that locks once a store is initialized, and the root
\* is behind whoever is in the one that indexes.
LEMMA InitializedLocks ==
    ASSUME IInv, Initialized
    PROVE  /\ globals # None
           /\ \A p \in Inits : /\ pc[p] # "sections"
                               /\ pc[p] = "index" => "root" \notin job[p].todo
BY DEF IInv, Writers, Initialized

\* What a ceremony does to the store: one certificate of one generation.
LEMMA MintsOne ==
    ASSUME NEW terms, NEW s, NEW g, NEW w, Mint(terms, s, g, w)
    PROVE  \E c : /\ row' = [row EXCEPT ![g] = {c}]
                  /\ c.under = terms /\ c.warned = w
<1>1. PICK n, k, r : row' = [row EXCEPT ![g] = {Certificate(n, k, r, terms, w)}]
  BY DEF Mint
<1>2. /\ Certificate(n, k, r, terms, w).under = terms
      /\ Certificate(n, k, r, terms, w).warned = w
  BY DEF Certificate
<1> QED BY <1>1, <1>2

\* A ceremony for an issuing CA keeps the processes' side of the invariant.
LEMMA CeremonyKeeps ==
    ASSUME IInv, Initialized, NEW pu \in DOMAIN section, NEW n, NEW c,
           row' = [row EXCEPT ![<<pu, n>>] = {c}],
           DOMAIN section' = DOMAIN section, UNCHANGED <<file, globals, pc, job>>
    PROVE  Shapes' /\ Jobs' /\ Alone' /\ Writers' /\ Unlocked'
           /\ row'[First("root")] = row[First("root")]
<1>1. pu # "root" /\ globals # None
  BY InitializedLocks DEF IInv, Shapes
<1>2. row'[First("root")] = row[First("root")]
  BY <1>1 DEF First, IInv, Shapes
<1>3. Shapes' /\ Jobs' /\ Alone' /\ Unlocked'
  BY <1>1 DEF IInv, Shapes, Jobs, Alone, Unlocked
<1>4. Writers'
  BY <1>2, InitializedLocks DEF IInv, Writers, Writing
<1> QED BY <1>2, <1>3, <1>4

\* Without a warning, the file declares what the store has locked.
LEMMA UnwarnedAgrees ==
    ASSUME NEW f, ~Warned(f), "root" \notin Purposes(f)
    PROVE  /\ Globals(f) = globals
           /\ \A pu \in Locked : pu \in Purposes(f) /\ section[pu] = Loaded(f, pu)
<1>1. \A r \in Remarks(f) : r[1] = "not created"
  BY DEF Warned
<1>2. Globals(f) = globals
  <2>1. SUFFICES ASSUME Globals(f) # globals PROVE FALSE
    OBVIOUS
  <2>2. <<"changed", "root">> \in Remarks(f)
    BY <2>1, ProfileAssumption DEF Remarks
  <2> QED BY <1>1, <2>2
<1>3. ASSUME NEW pu \in Locked, pu \notin Purposes(f) PROVE FALSE
  <2>1. <<"missing", pu>> \in Remarks(f)
    BY <1>3 DEF Remarks, Locked
  <2> QED BY <1>1, <2>1
<1>4. ASSUME NEW pu \in Locked, pu \in Purposes(f), section[pu] # Loaded(f, pu)
      PROVE  FALSE
  <2>1. <<"changed", pu>> \in Remarks(f)
    BY <1>4 DEF Remarks, Locked
  <2> QED BY <1>1, <2>1
<1> QED BY <1>2, <1>3, <1>4

LEMMA AddInv == ASSUME IInv, NEW pu \in DOMAIN section, Add(pu) PROVE IInv'
<1> DEFINE s == Loaded(file, pu)
<1>1. /\ Initialized /\ Accepted(file) /\ pu \in Purposes(file) /\ section[pu] = None
      /\ Mint(Globals(file), s, First(pu), Warned(file))
      /\ section' = [section EXCEPT ![pu] = s]
      /\ UNCHANGED <<file, globals, pc, job>>
  BY DEF Add, Materializes, procs
<1>2. PICK c : /\ row' = [row EXCEPT ![First(pu)] = {c}]
               /\ c.under = Globals(file) /\ c.warned = Warned(file)
  BY <1>1, MintsOne
<1>3. file \in Files /\ globals # None /\ pu \in Lineages
  BY <1>1, InitializedLocks DEF IInv, Shapes
<1>4. Shapes' /\ Jobs' /\ Alone' /\ Writers' /\ Unlocked'
  BY <1>1, <1>2, CeremonyKeeps DEF First
<1>5. "root" \notin Purposes(file)
  BY DEF Purposes
<1>6. First(pu) \in Gens /\ \A x \in Lineages : First(x) \in Gens
  BY <1>3, FirstGens
<1> HIDE DEF s
<1>7. Under'
  <2>1. c.under = globals \/ c.warned
    BY <1>2, <1>5, UnwarnedAgrees
  <2> QED BY <1>1, <1>2, <2>1 DEF IInv, Under, Shapes
<1>8. /\ Locked' \subseteq Locked \cup {pu}
      /\ \A x \in Locked : x # pu /\ section'[x] = section[x]
                           /\ row'[First(x)] = row[First(x)]
      /\ row'[First(pu)] = {c} /\ section'[pu] = s
  BY <1>1, <1>2, <1>6 DEF Locked, IInv, Shapes, First
<1>9. OneFile'
  <2>1. CASE Warned(file)
    <3>1. InOrder' \subseteq InOrder
      BY <1>2, <1>8, <2>1 DEF InOrder
    <3>2. PICK f \in Files : Declares(f)
      BY <1>3 DEF IInv, OneFile
    <3>3. \A x \in InOrder' : x \in Purposes(f) /\ section'[x] = Loaded(f, x)
      BY <1>8, <3>1, <3>2 DEF Declares, InOrder
    <3> QED BY <1>1, <3>2, <3>3 DEF OneFile, Declares
  <2>2. CASE ~Warned(file)
    <3>1. \A x \in Locked' : x \in Purposes(file) /\ section'[x] = Loaded(file, x)
      BY <1>1, <1>5, <1>8, <2>2, UnwarnedAgrees DEF s
    <3> QED BY <1>1, <1>3, <1>5, <2>2, <3>1, UnwarnedAgrees
            DEF OneFile, Declares, InOrder
  <2> QED BY <2>1, <2>2
<1> QED BY <1>4, <1>7, <1>9 DEF IInv

LEMMA RenewInv ==
    ASSUME IInv, NEW pu \in DOMAIN section, NEW g \in 1 .. MaxGen, Renew(pu, g)
    PROVE  IInv'
<1>1. /\ Initialized /\ UNCHANGED <<file, globals, section, pc, job>>
  BY DEF Renew, procs
<1>2. PICK c : row' = [row EXCEPT ![<<pu, g + 1>>] = {c}] /\ c.under = globals
  <2>1. PICK n, k, r :
           row' = [row EXCEPT ![<<pu, g + 1>>] = {Certificate(n, k, r, globals, FALSE)}]
    BY DEF Renew, Mint
  <2>2. Certificate(n, k, r, globals, FALSE).under = globals
    BY DEF Certificate
  <2> QED BY <2>1, <2>2
<1>3. Shapes' /\ Jobs' /\ Alone' /\ Writers' /\ Unlocked'
  BY <1>1, <1>2, CeremonyKeeps
<1>4. Under'
  BY <1>1, <1>2 DEF IInv, Shapes, Under
<1>5. \A x \in Locked : row'[First(x)] = row[First(x)]
  BY <1>2, FilesAssumption DEF First, Locked, IInv, Shapes
<1>6. OneFile'
  BY <1>1, <1>5, MoreRows DEF IInv
<1> QED BY <1>3, <1>4, <1>6 DEF IInv

-----------------------------------------------------------------------------
LEMMA NextInv == IInv /\ [Next]_vars => IInv'
<1> SUFFICES ASSUME IInv, [Next]_vars PROVE IInv'
  OBVIOUS
<1>1. CASE UNCHANGED vars
  <2>1. /\ UNCHANGED <<file, globals, section, row, pc, job>>
    BY <1>1 DEF vars, store, procs
  <2>2. Shapes' /\ Jobs' /\ Alone' /\ Writers'
    BY <2>1, LockedSame DEF IInv, Shapes, Jobs, Alone, Writers
  <2> QED BY <2>1, <2>2, LockedSame DEF IInv
<1>2. ASSUME NEW p \in Inits, Begin(p) \/ Step(p) \/ Crash(p) PROVE IInv'
  BY <1>2, BeginInv, FindKeyInv, GenerateKeyInv, StoreKeysInv, LockGlobalsInv,
     GlobalsTakenInv, LockSectionInv, IndexCertInv, IndexGensInv, PublishInv,
     CrashInv
     DEF Step
<1> QED BY <1>1, <1>2, MoveAwayInv, EditFileInv, AddInv, RenewInv DEF Next

\* Inits race and die, files are edited, CAs come and renew (init, create, add,
\* renew): the facts above hold in every state.
THEOREM Invariance == Spec => []IInv
<1>1. Init => IInv
  BY InitInv
<1>2. IInv /\ [Next]_vars => IInv'
  BY NextInv
<1> QED BY <1>1, <1>2, PTL DEF Spec

\* No certificate of a CA was made under globals other than the locked ones,
\* unless add warned (reconcile), whatever else happened to file and store.
THEOREM MadeUnderLockedHolds == Spec => []MadeUnderLocked
<1>1. IInv => MadeUnderLocked
  BY DEF IInv, Under, MadeUnderLocked
<1> QED BY <1>1, Invariance, PTL

\* What load checks of one file, "each profile belongs to exactly one CA",
\* holds of the store's CAs that were made without a warning, though adds fill
\* it from one file after the other.
THEOREM ProfileHasOneIssuerHolds == Spec => []ProfileHasOneIssuer
<1>1. IInv => ProfileHasOneIssuer
  <2> SUFFICES ASSUME IInv, NEW a \in InOrder, NEW b \in InOrder, a # b
               PROVE  Listed(section[a].profiles) \cap Listed(section[b].profiles) = {}
    BY DEF ProfileHasOneIssuer
  <2>1. globals # None
    BY DEF IInv, Unlocked, InOrder
  <2>2. PICK f \in Files : Declares(f)
    BY <2>1 DEF IInv, OneFile
  <2>3. /\ a \in Purposes(f) /\ section[a].profiles = f.ca[a].profiles
        /\ b \in Purposes(f) /\ section[b].profiles = f.ca[b].profiles
    <3>1. ASSUME NEW x \in Purposes(f)
          PROVE  Loaded(f, x).profiles = f.ca[x].profiles
      BY DEF Loaded
    <3> QED BY <2>2, <3>1 DEF Declares
  <2> QED BY <2>2, <2>3 DEF Declares, Accepted, ProfilesOwned
<1> QED BY <1>1, Invariance, PTL

\* No two CAs that are in order ever share a slug, at any two generations.
LEMMA SlugsDiffer ==
    ASSUME IInv, Initialized, NEW g \in Nat, NEW h \in Nat,
           NEW s \in {globals.root} \cup {section[pu] : pu \in InOrder},
           NEW t \in {globals.root} \cup {section[pu] : pu \in InOrder}, s # t
    PROVE  SlugText(s, g) # SlugText(t, h)
<1>1. PICK f \in Files : Declares(f)
  BY InitializedLocks DEF IInv, OneFile
<1>2. ASSUME NEW u \in {globals.root} \cup {section[pu] : pu \in InOrder}
      PROVE  \E x \in DOMAIN f.ca : u = Loaded(f, x)
  <2>1. globals.root = Loaded(f, "root") /\ "root" \in DOMAIN f.ca
    BY <1>1, AcceptedHas DEF Declares, Globals
  <2>2. ASSUME NEW pu \in InOrder
        PROVE  pu \in DOMAIN f.ca /\ section[pu] = Loaded(f, pu)
    BY <1>1, AcceptedHas DEF Declares
  <2> QED BY <1>2, <2>1, <2>2
<1>3. PICK x \in DOMAIN f.ca : s = Loaded(f, x)
  BY <1>2
<1>4. PICK y \in DOMAIN f.ca : t = Loaded(f, y)
  BY <1>2
<1>5. \A z \in DOMAIN f.ca : f.ca[z].prefix \in Seq(STRING)
  BY FilesAssumption
<1>6. SlugText(f.ca[x], g) # SlugText(f.ca[y], h)
  BY <1>1, <1>3, <1>4, <1>5, SlugsOfAcceptedDiffer DEF Declares
<1>7. ASSUME NEW z \in DOMAIN f.ca, NEW n \in Nat
      PROVE  SlugText(Loaded(f, z), n) = SlugText(f.ca[z], n)
  BY DEF SlugText, Loaded
<1> QED BY <1>3, <1>4, <1>6, <1>7

\* "a slug collision silently overwrites published artifacts" (load): none
\* comes up in a store whose ceremonies never warned, though load looks at the
\* prefixes of one file at a time.
THEOREM SlugsNeverMeetHolds == Spec => []SlugsNeverMeet
<1>1. IInv => SlugsNeverMeet
  <2>1. \A g \in 1 .. 11 : g \in Nat
    OBVIOUS
  <2> QED BY <2>1, SlugsDiffer DEF SlugsNeverMeet, Slugs
<1> QED BY <1>1, Invariance, PTL

-----------------------------------------------------------------------------
Keeps == /\ globals' = globals /\ row'[First("root")] = row[First("root")]
         /\ \A pu \in Locked : section'[pu] = section[pu]

\* "write-once": nothing changes what an initialized store has locked.
THEOREM LockedIsFinalHolds == Spec => LockedIsFinal
<1>1. IInv /\ [Next]_vars => [Initialized => Keeps]_store
  <2> SUFFICES ASSUME IInv, [Next]_vars, Initialized PROVE Keeps \/ UNCHANGED store
    OBVIOUS
  <2>1. CASE UNCHANGED vars
    BY <2>1 DEF vars
  <2>2. ASSUME NEW p \in Inits, Begin(p) \/ Crash(p) PROVE Keeps
    BY <2>2 DEF Begin, Crash, Keeps, store
  <2>3. ASSUME NEW p \in Inits, Step(p) PROVE Keeps
    <3>1. CASE FindKey(p) \/ GenerateKey(p) \/ StoreKeys(p) \/ GlobalsTaken(p)
               \/ IndexGens(p) \/ Publish(p)
      BY <3>1 DEF FindKey, GenerateKey, StoreKeys, GlobalsTaken, IndexGens,
                  Publish, Keeps, store
    <3>2. CASE LockGlobals(p) \/ LockSection(p)
      BY <3>2, InitializedLocks DEF LockGlobals, LockSection
    <3>3. CASE IndexCert(p)
      <4>1. Ca(p) # "root"
        BY <3>3, CaIsLeft, InitializedLocks DEF IndexCert, IInv, Writers, Writing
      <4> QED BY <3>3, <4>1, FirstGens, ProfileAssumption
              DEF IndexCert, Keeps, First, IInv, Shapes
    <3> QED BY <2>3, <3>1, <3>2, <3>3 DEF Step
  <2>4. CASE MoveAway \/ EditFile
    BY <2>4 DEF MoveAway, EditFile
  <2>5. ASSUME NEW pu \in DOMAIN section, Add(pu) PROVE Keeps
    <3>1. /\ Mint(Globals(file), Loaded(file, pu), First(pu), Warned(file))
          /\ section[pu] = None /\ UNCHANGED globals
          /\ section' = [section EXCEPT ![pu] = Loaded(file, pu)]
      BY <2>5 DEF Add
    <3>2. PICK c : /\ row' = [row EXCEPT ![First(pu)] = {c}]
                   /\ c.under = Globals(file) /\ c.warned = Warned(file)
      BY <3>1, MintsOne
    <3> QED BY <3>1, <3>2 DEF Keeps, Locked, First, IInv, Shapes
  <2>6. ASSUME NEW pu \in DOMAIN section, NEW g \in 1 .. MaxGen, Renew(pu, g)
        PROVE  Keeps
    <3>1. PICK n, k, r :
             row' = [row EXCEPT ![<<pu, g + 1>>] = {Certificate(n, k, r, globals, FALSE)}]
      BY <2>6 DEF Renew, Mint
    <3> QED BY <2>6, <3>1 DEF Renew, Keeps, First, IInv, Shapes
  <2> QED BY <2>1, <2>2, <2>3, <2>4, <2>5, <2>6 DEF Next
<1>2. LockedIsFinal <=> [][Initialized => Keeps]_store
  BY PTL DEF LockedIsFinal, Keeps
<1> QED BY <1>1, <1>2, Invariance, PTL DEF Spec

-----------------------------------------------------------------------------
(* Keys on the token *)

\* Two keypairs that nothing but the key tells apart; a token without them;
\* one that only got keypairs of labels it did not have.
Same(t, u) == t.label = u.label /\ t.name = u.name
OneIn(tok) == \A t, u \in tok : Same(t, u) => t.key = u.key
Grown(tok, new) ==
    /\ tok \subseteq new
    /\ \A t \in tok, u \in new \ tok : ~Same(t, u)

\* KeyIsHeld, for what is in the store and on the token.
HeldIn(st, tok, g, s, key) ==
    IF s.backend = "internal" THEN <<g, key>> \in st
    ELSE Keypairs(tok, s, g[2]) = {key}

LEMMA GrownTwice ==
    ASSUME NEW a, NEW b, NEW c, Grown(a, b), Grown(b, c)
    PROVE  Grown(a, c)
BY DEF Grown

\* A keypair that is there is what is there from then on.
LEMMA KeypairsStay ==
    ASSUME NEW tok, NEW new, Grown(tok, new), NEW s, NEW g, Keypairs(tok, s, g) # {}
    PROVE  Keypairs(new, s, g) = Keypairs(tok, s, g)
<1>1. PICK t \in tok : t.label = s.label /\ t.name = SlugText(s, g)
  BY DEF Keypairs
<1>2. \A u \in new : u.label = s.label /\ u.name = SlugText(s, g) => u \in tok
  BY <1>1 DEF Grown, Same
<1>3. tok \subseteq new
  BY DEF Grown
<1>. QED
  BY <1>2, <1>3 DEF Keypairs

LEMMA HeldStays ==
    ASSUME NEW st, NEW st2, st \subseteq st2, NEW tok, NEW new, Grown(tok, new),
           NEW g, NEW s, NEW key, HeldIn(st, tok, g, s, key)
    PROVE  HeldIn(st2, new, g, s, key)
BY KeypairsStay DEF HeldIn

LEMMA OnePair ==
    ASSUME NEW tok, OneIn(tok), NEW s, NEW g, NEW k \in Keypairs(tok, s, g)
    PROVE  Keypairs(tok, s, g) = {k}
BY DEF OneIn, Same, Keypairs

\* A keypair is generated under a label the token does not have.
WithKey(tok, s, g, n) ==
    tok \cup {[label |-> s.label, name |-> SlugText(s, g), key |-> n]}
LEMMA Generates ==
    ASSUME NEW tok, OneIn(tok), NEW s, NEW g, Keypairs(tok, s, g) = {}, NEW n
    PROVE  /\ OneIn(WithKey(tok, s, g, n)) /\ Grown(tok, WithKey(tok, s, g, n))
           /\ Keypairs(WithKey(tok, s, g, n), s, g) = {n}
<1> DEFINE u == [label |-> s.label, name |-> SlugText(s, g), key |-> n]
           new == WithKey(tok, s, g, n)
<1>1. u.label = s.label /\ u.name = SlugText(s, g) /\ u.key = n
  OBVIOUS
<1>2. \A t \in tok : ~Same(t, u)
  BY <1>1 DEF Keypairs, Same
<1>3. new = tok \cup {u}
  BY DEF WithKey
<1> HIDE DEF u, new
<1>4. \A t \in tok : ~Same(u, t)
  BY <1>2 DEF Same
<1>5. OneIn(new)
  BY <1>2, <1>3, <1>4 DEF OneIn
<1>6. Grown(tok, new)
  BY <1>2, <1>3 DEF Grown
<1>7. u \in new /\ \A t \in new : t.label = s.label /\ t.name = SlugText(s, g) => t = u
  BY <1>1, <1>2, <1>3 DEF Same
<1>8. Keypairs(new, s, g) = {n}
  BY <1>1, <1>7 DEF Keypairs
<1>. QED
  BY <1>5, <1>6, <1>8 DEF new

\* make_ca_key makes a key where there is none, and adopts the one there is.
LEMMA Makes ==
    ASSUME NEW tok, OneIn(tok), NEW s, NEW g, NEW n, NEW made \in MadeKeys(tok, s, g, n)
    PROVE  /\ OneIn(made[2]) /\ Grown(tok, made[2])
           /\ s.backend = "internal" => made[2] = tok
           /\ s.backend # "internal" => Keypairs(made[2], s, g) = {made[1]}
           /\ s.backend # "internal" /\ Keypairs(tok, s, g) # {} =>
                 made[1] \in Keypairs(tok, s, g)
<1>1. Grown(tok, tok)
  BY DEF Grown
<1>2. CASE s.backend = "internal"
  BY <1>1, <1>2 DEF MadeKeys
<1>3. CASE s.backend # "internal" /\ Keypairs(tok, s, g) = {}
  <2>1. made[1] = n /\ made[2] = WithKey(tok, s, g, n)
    BY <1>3 DEF MadeKeys, WithKey
  <2>. QED
    BY <1>3, <2>1, Generates
<1>4. CASE s.backend # "internal" /\ Keypairs(tok, s, g) # {}
  <2>1. PICK k \in Keypairs(tok, s, g) : made = <<k, tok>>
    BY <1>4 DEF MadeKeys
  <2>. QED
    BY <1>1, <1>4, <2>1, OnePair
<1>. QED
  BY <1>2, <1>3, <1>4

-----------------------------------------------------------------------------
(* The keys an init makes *)

Fields == {"conf", "run", "key", "todo"}
HeadOf(todo) == IF "root" \in todo THEN "root" ELSE CHOOSE x \in todo : TRUE

\* An init that is making keys has one for each CA it is done with, later one
\* for each of its file: on the token as the only one of its label, or, from
\* the time store.db is written, in the store.
MakingKeys == {"keys", "generate"}
Stored == {"globals", "sections", "index", "gens", "publish"}
KeysIn(l, j, tok, st) ==
    /\ l \in MakingKeys =>
          /\ j.todo # {} /\ j.todo \subseteq DOMAIN j.conf.ca
          /\ DOMAIN j.key = DOMAIN j.conf.ca \ j.todo
    /\ l \notin MakingKeys => DOMAIN j.key = DOMAIN j.conf.ca
    /\ l = "generate" =>
          /\ Loaded(j.conf, HeadOf(j.todo)).backend = "pkcs11"
          /\ Keypairs(tok, Loaded(j.conf, HeadOf(j.todo)), 1) = {}
    /\ \A x \in DOMAIN j.key :
          IF Loaded(j.conf, x).backend = "internal"
          THEN l \in Stored => <<First(x), j.key[x]>> \in st
          ELSE Keypairs(tok, Loaded(j.conf, x), 1) = {j.key[x]}
KeysMade == \A p \in Inits : pc[p] # "idle" => KeysIn(pc[p], job[p], token, stored)

\* One init at a time has keys on the token.
UsesToken(p) == pc[p] # "idle" /\ OnToken(job[p].conf) # {}
OneUser == \A p, q \in Inits : UsesToken(p) /\ UsesToken(q) => p = q

Jobshape == \A p \in Inits : Fields \subseteq DOMAIN job[p]

TInv == IInv /\ Jobshape /\ OneIn(token) /\ OneUser /\ KeysMade

LEMMA HeadIsCa == \A p \in Inits : Ca(p) = HeadOf(job[p].todo)
BY DEF Ca, HeadOf

\* Where Onward leads, with all the job carries.
LEMMA Goes ==
    ASSUME IInv, NEW p \in Inits, NEW j, Fields \subseteq DOMAIN j,
           NEW l, NEW n, NEW all, Onward(p, j, l, n, all)
    PROVE  /\ \A q \in Inits \ {p} : pc'[q] = pc[q] /\ job'[q] = job[q]
           /\ Fields \subseteq DOMAIN job'[p]
           /\ job'[p].conf = j.conf /\ job'[p].run = j.run /\ job'[p].key = j.key
           /\ \/ /\ pc'[p] = l /\ j.todo # {Ca(p)}
                 /\ job'[p].todo = j.todo \ {Ca(p)}
              \/ /\ pc'[p] = n /\ j.todo = {Ca(p)}
                 /\ job'[p].todo = all
<1>1. CASE j.todo # {Ca(p)}
  <2> DEFINE k == [j EXCEPT !.todo = j.todo \ {Ca(p)}]
  <2>1. Become(p, l, k)
    BY <1>1 DEF Onward
  <2>2. /\ Fields \subseteq DOMAIN k
        /\ k.conf = j.conf /\ k.run = j.run /\ k.key = j.key /\ k.todo = j.todo \ {Ca(p)}
    BY DEF Fields
  <2> HIDE DEF k
  <2>. QED
    BY <1>1, <2>1, <2>2, Becomes
<1>2. CASE j.todo = {Ca(p)}
  <2> DEFINE k == [j EXCEPT !.todo = all]
  <2>1. Become(p, n, k)
    BY <1>2 DEF Onward
  <2>2. /\ Fields \subseteq DOMAIN k
        /\ k.conf = j.conf /\ k.run = j.run /\ k.key = j.key /\ k.todo = all
    BY DEF Fields
  <2> HIDE DEF k
  <2>. QED
    BY <1>2, <2>1, <2>2, Becomes
<1>. QED
  BY <1>1, <1>2

\* What is on the token and in the store of an init that does not move stays.
LEMMA KeysStay ==
    ASSUME NEW l, NEW j, NEW tok, NEW st, NEW new, NEW st2, KeysIn(l, j, tok, st),
           Grown(tok, new), st \subseteq st2, l = "generate" => new = tok
    PROVE  KeysIn(l, j, new, st2)
<1>1. \A x \in DOMAIN j.key : Loaded(j.conf, x).backend # "internal" =>
         Keypairs(new, Loaded(j.conf, x), 1) = {j.key[x]}
  <2>. SUFFICES ASSUME NEW x \in DOMAIN j.key, Loaded(j.conf, x).backend # "internal"
                PROVE  Keypairs(new, Loaded(j.conf, x), 1) = {j.key[x]}
    OBVIOUS
  <2> DEFINE s == Loaded(j.conf, x)
  <2>1. Keypairs(tok, s, 1) = {j.key[x]}
    BY DEF KeysIn
  <2> HIDE DEF s
  <2>2. Keypairs(new, s, 1) = Keypairs(tok, s, 1)
    BY <2>1, KeypairsStay
  <2>. QED
    BY <2>1, <2>2 DEF s
<1>. QED
  BY <1>1 DEF KeysIn

\* A CA whose key is on a token makes its file's ceremonies use the token.
LEMMA SectionsOnToken ==
    ASSUME NEW f, NEW x \in DOMAIN f.ca, Loaded(f, x).backend = "pkcs11"
    PROVE  OnToken(f) # {}
<1>1. f.ca[x].backend = "pkcs11"
  BY DEF Loaded
<1>. QED
  BY <1>1 DEF OnToken, Sections

\* A step of p that gives it the keys it should have, and gives the token
\* none but under new labels, and only if nobody else uses it.
LEMMA KeysKept ==
    ASSUME TInv, IInv', NEW p \in Inits,
           \A q \in Inits \ {p} : pc'[q] = pc[q] /\ job'[q] = job[q],
           Fields \subseteq DOMAIN job'[p],
           pc'[p] # "idle" => KeysIn(pc'[p], job'[p], token', stored'),
           pc'[p] # "idle" => pc[p] # "idle" /\ job'[p].conf = job[p].conf,
           Grown(token, token'), OneIn(token'), stored \subseteq stored',
           UsesToken(p) \/ token' = token
    PROVE  TInv'
<1>1. Jobshape'
  BY DEF TInv, Jobshape
<1>2. OneUser'
  BY DEF TInv, OneUser, UsesToken
<1>3. KeysMade'
  <2>. SUFFICES ASSUME NEW q \in Inits, pc'[q] # "idle"
                PROVE  KeysIn(pc'[q], job'[q], token', stored')
    BY DEF KeysMade
  <2>1. CASE q # p
    <3>1. pc'[q] = pc[q] /\ job'[q] = job[q] /\ KeysIn(pc[q], job[q], token, stored)
      BY <2>1 DEF TInv, KeysMade
    <3>2. pc[q] = "generate" => token' = token
      <4>1. SUFFICES ASSUME pc[q] = "generate" PROVE UsesToken(q)
        BY <2>1 DEF TInv, OneUser
      <4>2. /\ Loaded(job[q].conf, Ca(q)).backend = "pkcs11"
            /\ job[q].todo # {} /\ job[q].todo \subseteq DOMAIN job[q].conf.ca
        BY <3>1, <4>1, HeadIsCa DEF KeysIn, MakingKeys
      <4>3. Ca(q) \in DOMAIN job[q].conf.ca
        BY <4>2, CaIsLeft
      <4>. QED
        BY <4>1, <4>2, <4>3, SectionsOnToken DEF UsesToken
    <3>. QED
      BY <3>1, <3>2, KeysStay
  <2>. QED
    BY <2>1
<1>. QED
  BY <1>1, <1>2, <1>3 DEF TInv

\* A step of p over what it has done: its keys, and those of its file, are as
\* they were.
LEMMA KeysCarried ==
    ASSUME TInv, IInv', NEW p \in Inits, pc[p] # "idle", pc[p] \notin MakingKeys,
           \A q \in Inits \ {p} : pc'[q] = pc[q] /\ job'[q] = job[q],
           Fields \subseteq DOMAIN job'[p],
           job'[p].conf = job[p].conf, job'[p].key = job[p].key,
           pc'[p] \notin MakingKeys, pc'[p] \in Stored => pc[p] \in Stored,
           UNCHANGED <<token, stored>>
    PROVE  TInv'
<1>1. KeysIn(pc[p], job[p], token, stored)
  BY DEF TInv, KeysMade
<1>2. KeysIn(pc'[p], job'[p], token', stored')
  BY <1>1 DEF KeysIn, MakingKeys
<1>3. Grown(token, token') /\ OneIn(token')
  BY DEF Grown, TInv
<1>. QED
  BY <1>2, <1>3, KeysKept

LEMMA StopsKeys ==
    ASSUME TInv, IInv', NEW p \in Inits, Stop(p), UNCHANGED <<token, stored>>
    PROVE  TInv'
<1>1. pc'[p] = "idle" /\ job'[p] = NoJob
      /\ \A q \in Inits \ {p} : pc'[q] = pc[q] /\ job'[q] = job[q]
  BY Becomes DEF Stop, TInv
<1>2. Fields \subseteq DOMAIN NoJob
  BY DEF Fields, NoJob
<1>3. Grown(token, token') /\ OneIn(token')
  BY DEF Grown, TInv
<1>. QED
  BY <1>1, <1>2, <1>3, KeysKept

\* One key more, which the section of the loop's head finds.
LEMMA HasKeyKeys ==
    ASSUME TInv, IInv', NEW p \in Inits, pc[p] \in MakingKeys, NEW k, HasKey(p, k),
           Grown(token, token'), OneIn(token'), stored' = stored,
           UsesToken(p) \/ token' = token,
           Spec1(p).backend = "internal" \/ Keypairs(token', Spec1(p), 1) = {k}
    PROVE  TInv'
<1> DEFINE x == Ca(p)
           old == job[p].key
           keys == [y \in DOMAIN old \cup {x} |-> IF y = x THEN k ELSE old[y]]
           j == [job[p] EXCEPT !.key = keys]
           f == job[p].conf
<1>1. Onward(p, j, "keys", "store", {})
  BY DEF HasKey
<1>2. /\ Fields \subseteq DOMAIN j
      /\ j.conf = f /\ j.key = keys /\ j.todo = job[p].todo
  BY DEF TInv, Jobshape, Fields
<1>3. KeysIn(pc[p], job[p], token, stored) /\ pc[p] # "idle"
  BY DEF TInv, KeysMade, MakingKeys
<1>4. /\ job[p].todo # {} /\ job[p].todo \subseteq DOMAIN f.ca
      /\ DOMAIN old = DOMAIN f.ca \ job[p].todo
  BY <1>3 DEF KeysIn
<1>5. x \in job[p].todo
  BY <1>4, CaIsLeft
<1>6. DOMAIN keys = DOMAIN f.ca \ (job[p].todo \ {x})
  BY <1>4, <1>5
<1>7. \A y \in DOMAIN keys : y # x => y \in DOMAIN old /\ keys[y] = old[y]
  OBVIOUS
<1>8. x \in DOMAIN keys /\ keys[x] = k
  OBVIOUS
<1>9. \A y \in DOMAIN keys : Loaded(f, y).backend # "internal" =>
         Keypairs(token', Loaded(f, y), 1) = {keys[y]}
  <2>. SUFFICES ASSUME NEW y \in DOMAIN keys, Loaded(f, y).backend # "internal"
                PROVE  Keypairs(token', Loaded(f, y), 1) = {keys[y]}
    OBVIOUS
  <2>1. CASE y = x
    BY <1>8, <2>1 DEF Spec1
  <2>2. CASE y # x
    <3> HIDE DEF keys
    <3> DEFINE s == Loaded(f, y)
    <3>1. Keypairs(token, s, 1) = {keys[y]}
      BY <1>3, <1>7, <2>2 DEF KeysIn
    <3> HIDE DEF s
    <3>2. Keypairs(token', s, 1) = Keypairs(token, s, 1)
      BY <3>1, KeypairsStay
    <3>. QED
      BY <3>1, <3>2 DEF s
  <2>. QED
    BY <2>1, <2>2
<1> HIDE DEF j, keys
<1>10. /\ \A q \in Inits \ {p} : pc'[q] = pc[q] /\ job'[q] = job[q]
       /\ Fields \subseteq DOMAIN job'[p]
       /\ job'[p].conf = f /\ job'[p].key = keys
       /\ \/ /\ pc'[p] = "keys" /\ j.todo # {x}
             /\ job'[p].todo = j.todo \ {x}
          \/ /\ pc'[p] = "store" /\ j.todo = {x}
             /\ job'[p].todo = {}
  <2> HIDE DEF f
  <2>. QED
    BY <1>1, <1>2, Goes DEF TInv
<1> HIDE DEF x, f, old
<1>11. KeysIn(pc'[p], job'[p], token', stored')
  <2>1. CASE pc'[p] = "keys"
    <3>1. job'[p].todo # {} /\ job'[p].todo \subseteq DOMAIN f.ca
      BY <1>2, <1>4, <1>5, <1>10, <2>1
    <3>2. DOMAIN keys = DOMAIN f.ca \ job'[p].todo
      BY <1>2, <1>6, <1>10, <2>1
    <3>. QED
      BY <1>9, <1>10, <2>1, <3>1, <3>2 DEF KeysIn, MakingKeys, Stored
  <2>2. CASE pc'[p] = "store"
    <3>1. DOMAIN keys = DOMAIN f.ca
      BY <1>2, <1>6, <1>10, <2>2
    <3>. QED
      BY <1>9, <1>10, <2>2, <3>1 DEF KeysIn, MakingKeys, Stored
  <2>. QED
    BY <1>10, <2>1, <2>2
<1>. QED
  BY <1>3, <1>10, <1>11, KeysKept DEF f

-----------------------------------------------------------------------------
(* What each step does to keys and token *)

\* What nothing takes back, but the operator who moves a store away.
KeysGrow == Grown(token, token') /\ stored \subseteq stored'

LEMMA TInit == Init => TInv
<1>. SUFFICES ASSUME Init PROVE TInv
  OBVIOUS
<1>1. IInv
  BY InitInv
<1>2. Jobshape
  BY DEF Init, Jobshape, NoJob, Fields
<1>3. OneIn(token) /\ OneUser /\ KeysMade
  BY DEF Init, OneIn, OneUser, UsesToken, KeysMade
<1>. QED
  BY <1>1, <1>2, <1>3 DEF TInv

LEMMA BeginKeys ==
    ASSUME TInv, OneTokenHolder, NEW p \in Inits, Begin(p)
    PROVE  TInv' /\ KeysGrow
<1> DEFINE j == [conf |-> file, run |-> runs + 1, key |-> <<>>, todo |-> DOMAIN file.ca]
<1>1. /\ Become(p, "keys", j) /\ UNCHANGED <<stored, token>> /\ Accepted(file)
      /\ OnToken(file) # {} => TokenFree
  BY DEF Begin, Materializes
<1>2. /\ Fields \subseteq DOMAIN j /\ j.conf = file /\ j.todo = DOMAIN file.ca
      /\ DOMAIN j.key = {}
  BY DEF Fields
<1> HIDE DEF j
<1>3. IInv'
  BY BeginInv DEF TInv
<1>4. /\ pc'[p] = "keys" /\ job'[p] = j
      /\ \A q \in Inits \ {p} : pc'[q] = pc[q] /\ job'[q] = job[q]
  BY <1>1, Becomes DEF TInv
<1>5. Jobshape'
  BY <1>2, <1>4 DEF TInv, Jobshape
<1>6. OneUser'
  <2>1. OnToken(file) # {} => \A q \in Inits : ~UsesToken(q)
    BY <1>1 DEF TokenFree, UsesToken
  <2>2. UsesToken(p)' => OnToken(file) # {}
    BY <1>2, <1>4 DEF UsesToken
  <2>3. \A q \in Inits \ {p} : UsesToken(q)' => UsesToken(q)
    BY <1>4 DEF UsesToken
  <2>. QED
    BY <2>1, <2>2, <2>3 DEF TInv, OneUser
<1>7. KeysMade'
  <2>1. KeysIn("keys", j, token, stored)
    <3>1. DOMAIN file.ca # {}
      BY <1>1, AcceptedHas
    <3>. QED
      BY <1>2, <3>1 DEF KeysIn, MakingKeys
  <2>. QED
    BY <1>1, <1>4, <2>1 DEF TInv, KeysMade
<1>8. KeysGrow /\ OneIn(token)'
  BY <1>1 DEF KeysGrow, Grown, TInv
<1>. QED
  BY <1>3, <1>5, <1>6, <1>7, <1>8 DEF TInv

LEMMA FindKeyKeys ==
    ASSUME TInv, NEW p \in Inits, FindKey(p)
    PROVE  TInv' /\ KeysGrow
<1>1. /\ pc[p] = "keys" /\ UNCHANGED <<stored, token>>
      /\ KeysIn(pc[p], job[p], token, stored)
  BY DEF FindKey, store, TInv, KeysMade
<1>2. IInv' /\ Grown(token, token') /\ OneIn(token') /\ KeysGrow
  BY <1>1, FindKeyInv DEF TInv, KeysGrow, Grown
<1>3. CASE Spec1(p).backend = "internal" /\ HasKey(p, job[p].run)
  BY <1>1, <1>2, <1>3, HasKeyKeys DEF MakingKeys
<1>4. CASE /\ Spec1(p).backend = "pkcs11" /\ Keypairs(token, Spec1(p), 1) = {}
           /\ Become(p, "generate", job[p])
  <2>1. /\ pc'[p] = "generate" /\ job'[p] = job[p]
        /\ \A q \in Inits \ {p} : pc'[q] = pc[q] /\ job'[q] = job[q]
    BY <1>4, Becomes DEF TInv
  <2>2. KeysIn("generate", job[p], token, stored)
    BY <1>1, <1>4, HeadIsCa DEF KeysIn, MakingKeys, Stored, Spec1
  <2>3. Fields \subseteq DOMAIN job'[p]
    BY <2>1 DEF TInv, Jobshape
  <2>. QED
    BY <1>1, <1>2, <2>1, <2>2, <2>3, KeysKept
<1>5. ASSUME NEW k \in Keypairs(token, Spec1(p), 1), HasKey(p, k) PROVE TInv'
  <2>1. Keypairs(token', Spec1(p), 1) = {k}
    BY <1>1, <1>5, OnePair DEF TInv
  <2>. QED
    BY <1>1, <1>2, <1>5, <2>1, HasKeyKeys DEF MakingKeys
<1>6. CASE Stop(p)
  BY <1>1, <1>2, <1>6, StopsKeys
<1>. QED
  BY <1>2, <1>3, <1>4, <1>5, <1>6 DEF FindKey

LEMMA GenerateKeyKeys ==
    ASSUME TInv, NEW p \in Inits, GenerateKey(p)
    PROVE  TInv' /\ KeysGrow
<1> DEFINE n == job[p].run
           u == [label |-> Spec1(p).label, name |-> SlugText(Spec1(p), 1), key |-> n]
<1>1. /\ pc[p] = "generate" /\ stored' = stored /\ token' = token \cup {u}
      /\ HasKey(p, n)
  BY DEF GenerateKey, store
<1>2. KeysIn("generate", job[p], token, stored)
  BY <1>1 DEF TInv, KeysMade
<1>3. /\ Keypairs(token, Spec1(p), 1) = {} /\ Spec1(p).backend = "pkcs11"
      /\ job[p].todo # {} /\ job[p].todo \subseteq DOMAIN job[p].conf.ca
  BY <1>2, HeadIsCa DEF KeysIn, MakingKeys, Spec1
<1>4. OneIn(token') /\ Grown(token, token') /\ Keypairs(token', Spec1(p), 1) = {n}
  <2>1. token' = WithKey(token, Spec1(p), 1, n)
    BY <1>1 DEF WithKey
  <2>. QED
    BY <1>3, <2>1, Generates DEF TInv
<1>5. UsesToken(p)
  <2>1. Ca(p) \in DOMAIN job[p].conf.ca
    BY <1>3, CaIsLeft
  <2>. QED
    BY <1>1, <1>3, <2>1, SectionsOnToken DEF UsesToken, Spec1
<1>6. IInv'
  BY GenerateKeyInv DEF TInv
<1> HIDE DEF n, u
<1>. QED
  BY <1>1, <1>4, <1>5, <1>6, HasKeyKeys DEF MakingKeys, KeysGrow

LEMMA StoreKeysKeys ==
    ASSUME TInv, NEW p \in Inits, StoreKeys(p)
    PROVE  TInv' /\ KeysGrow
<1> DEFINE j == job[p]
           held == {y \in DOMAIN j.conf.ca : j.conf.ca[y].backend = "internal"}
<1>1. /\ pc[p] = "store" /\ UNCHANGED token /\ Become(p, "globals", j)
      /\ stored' = stored \cup {<<First(x), j.key[x]>> : x \in held}
  BY DEF StoreKeys
<1>2. KeysIn("store", j, token, stored)
  BY <1>1 DEF TInv, KeysMade
<1>3. /\ pc'[p] = "globals" /\ job'[p] = j
      /\ \A q \in Inits \ {p} : pc'[q] = pc[q] /\ job'[q] = job[q]
  BY <1>1, Becomes DEF TInv
<1>4. stored \subseteq stored' /\ Grown(token, token') /\ OneIn(token')
  BY <1>1 DEF Grown, TInv
<1>5. KeysIn("globals", j, token, stored')
  <2>1. DOMAIN j.key = DOMAIN j.conf.ca
    BY <1>2 DEF KeysIn, MakingKeys
  <2>2. ASSUME NEW x \in DOMAIN j.key, Loaded(j.conf, x).backend = "internal"
        PROVE  <<First(x), j.key[x]>> \in stored'
    <3>1. j.conf.ca[x].backend = "internal"
      BY <2>2 DEF Loaded
    <3>2. x \in held
      BY <2>1, <3>1
    <3>. QED
      BY <1>1, <3>2
  <2>. QED
    BY <1>2, <2>1, <2>2 DEF KeysIn, MakingKeys
<1>6. IInv' /\ Fields \subseteq DOMAIN job'[p]
  BY <1>3, StoreKeysInv DEF TInv, Jobshape
<1> HIDE DEF j
<1>. QED
  BY <1>1, <1>3, <1>4, <1>5, <1>6, KeysKept DEF KeysGrow, j

LEMMA GlobalsTakenKeys ==
    ASSUME TInv, NEW p \in Inits, GlobalsTaken(p)
    PROVE  TInv' /\ KeysGrow
<1>1. Stop(p) /\ UNCHANGED <<token, stored>> /\ IInv'
  BY GlobalsTakenInv DEF GlobalsTaken, store, TInv
<1>. QED
  BY <1>1, StopsKeys DEF KeysGrow, Grown

LEMMA CrashKeys ==
    ASSUME TInv, NEW p \in Inits, Crash(p)
    PROVE  TInv' /\ KeysGrow
<1>1. Stop(p) /\ UNCHANGED <<token, stored>> /\ IInv'
  BY CrashInv DEF Crash, store, TInv
<1>. QED
  BY <1>1, StopsKeys DEF KeysGrow, Grown

LEMMA LockGlobalsKeys ==
    ASSUME TInv, NEW p \in Inits, LockGlobals(p)
    PROVE  TInv' /\ KeysGrow
<1> DEFINE j == [job[p] EXCEPT !.todo = Purposes(job[p].conf)]
<1>1. /\ pc[p] = "globals" /\ UNCHANGED <<token, stored>> /\ IInv'
      /\ Become(p, "sections", j)
  BY LockGlobalsInv DEF LockGlobals, TInv
<1>2. Fields \subseteq DOMAIN j /\ j.conf = job[p].conf /\ j.key = job[p].key
  BY DEF TInv, Jobshape, Fields
<1> HIDE DEF j
<1>3. /\ pc'[p] = "sections" /\ job'[p] = j
      /\ \A q \in Inits \ {p} : pc'[q] = pc[q] /\ job'[q] = job[q]
  BY <1>1, Becomes DEF TInv
<1>. QED
  BY <1>1, <1>2, <1>3, KeysCarried DEF KeysGrow, Grown, MakingKeys, Stored

\* Onward from a phase that makes no keys to one that makes none.
LEMMA OnwardKeys ==
    ASSUME TInv, IInv', NEW p \in Inits, pc[p] \in Stored,
           NEW l, NEW n, l \in Stored, n \in Stored, NEW all,
           Onward(p, job[p], l, n, all), UNCHANGED <<token, stored>>
    PROVE  TInv' /\ KeysGrow
<1>1. Fields \subseteq DOMAIN job[p]
  BY DEF TInv, Jobshape
<1>2. /\ \A q \in Inits \ {p} : pc'[q] = pc[q] /\ job'[q] = job[q]
      /\ Fields \subseteq DOMAIN job'[p]
      /\ job'[p].conf = job[p].conf /\ job'[p].key = job[p].key
      /\ pc'[p] \in {l, n}
  BY <1>1, Goes DEF TInv
<1>3. \A x \in Stored : x \notin MakingKeys /\ x # "idle"
  BY DEF Stored, MakingKeys
<1>4. pc[p] \notin MakingKeys /\ pc[p] # "idle" /\ pc'[p] \notin MakingKeys
  BY <1>2, <1>3
<1>. QED
  BY <1>2, <1>4, KeysCarried DEF KeysGrow, Grown

LEMMA LockSectionKeys ==
    ASSUME TInv, NEW p \in Inits, LockSection(p)
    PROVE  TInv' /\ KeysGrow
<1>1. /\ pc[p] = "sections" /\ UNCHANGED <<token, stored>> /\ IInv'
      /\ Onward(p, job[p], "sections", "index", DOMAIN job[p].conf.ca)
  BY LockSectionInv DEF LockSection, TInv
<1>. QED
  BY <1>1, OnwardKeys DEF Stored

LEMMA IndexCertKeys ==
    ASSUME TInv, NEW p \in Inits, IndexCert(p)
    PROVE  TInv' /\ KeysGrow
<1>1. /\ pc[p] = "index" /\ UNCHANGED <<token, stored>> /\ IInv'
      /\ Onward(p, job[p], "index", "gens", {})
  BY IndexCertInv DEF IndexCert, TInv
<1>. QED
  BY <1>1, OnwardKeys DEF Stored

LEMMA IndexGensKeys ==
    ASSUME TInv, NEW p \in Inits, IndexGens(p)
    PROVE  TInv' /\ KeysGrow
<1> DEFINE j == [job[p] EXCEPT !.todo = DOMAIN job[p].conf.ca]
<1>1. /\ pc[p] = "gens" /\ UNCHANGED <<token, stored>> /\ IInv'
      /\ Become(p, "publish", j)
  BY IndexGensInv DEF IndexGens, TInv
<1>2. Fields \subseteq DOMAIN j /\ j.conf = job[p].conf /\ j.key = job[p].key
  BY DEF TInv, Jobshape, Fields
<1> HIDE DEF j
<1>3. /\ pc'[p] = "publish" /\ job'[p] = j
      /\ \A q \in Inits \ {p} : pc'[q] = pc[q] /\ job'[q] = job[q]
  BY <1>1, Becomes DEF TInv
<1>. QED
  BY <1>1, <1>2, <1>3, KeysCarried DEF KeysGrow, Grown, MakingKeys, Stored

LEMMA PublishKeys ==
    ASSUME TInv, NEW p \in Inits, Publish(p)
    PROVE  TInv' /\ KeysGrow
<1>1. /\ pc[p] = "publish" /\ UNCHANGED <<token, stored>> /\ IInv'
      /\ \/ job[p].todo # {Ca(p)} /\ Onward(p, job[p], "publish", "idle", {})
         \/ Stop(p)
  BY PublishInv DEF Publish, TInv
<1>2. CASE job[p].todo # {Ca(p)} /\ Onward(p, job[p], "publish", "idle", {})
  <2>1. Onward(p, job[p], "publish", "publish", {})
    BY <1>2 DEF Onward
  <2>. QED
    BY <1>1, <2>1, OnwardKeys DEF Stored
<1>3. CASE Stop(p)
  BY <1>1, <1>3, StopsKeys DEF KeysGrow, Grown
<1>. QED
  BY <1>1, <1>2, <1>3

LEMMA UnchangedKeys ==
    ASSUME TInv, IInv', UNCHANGED <<pc, job, token, stored>>
    PROVE  TInv' /\ KeysGrow
<1>1. Jobshape' /\ OneUser'
  BY DEF TInv, Jobshape, OneUser, UsesToken
<1>2. KeysMade' /\ OneIn(token)' /\ KeysGrow
  BY DEF TInv, KeysMade, KeysGrow, Grown
<1>. QED
  BY <1>1, <1>2 DEF TInv

LEMMA MoveAwayKeys == ASSUME TInv, MoveAway PROVE TInv'
<1>1. /\ IInv' /\ UNCHANGED <<token, pc, job>>
      /\ \A p \in Inits : pc[p] = "idle"
  BY MoveAwayInv DEF MoveAway, procs, TInv
<1>. QED
  BY <1>1 DEF TInv, Jobshape, OneUser, UsesToken, KeysMade

-----------------------------------------------------------------------------
(* Ceremonies of an initialized store *)

\* What a ceremony signs with: the published root's key, or the one the root's
\* section finds.
SignsWith(root, tok, key) ==
    IF root.backend = "internal" THEN key = pem[First("root")].key
    ELSE Keypairs(tok, root, 1) # {} => key \in Keypairs(tok, root, 1)

\* A ceremony makes one certificate, whose key can be found.
Minted(terms, s, g, w, c) ==
    /\ row' = [row EXCEPT ![g] = {c}] /\ pem' = [pem EXCEPT ![g] = c]
    /\ c.under = terms /\ c.warned = w
    /\ SignsWith(terms.root, token, c.signer)
    /\ HeldIn(stored', token', g, s, c.key)

LEMMA RootKeysAre ==
    ASSUME TInv, NEW root, NEW n, NEW rk \in RootKeys(root, n)
    PROVE  /\ SignsWith(root, token, rk[1])
           /\ OneIn(rk[2]) /\ Grown(token, rk[2])
           /\ root.backend = "internal" => rk[2] = token
<1>1. OneIn(token) /\ Grown(token, token)
  BY DEF TInv, Grown
<1>2. CASE root.backend = "internal"
  <2>1. rk[1] = pem[First("root")].key /\ rk[2] = token
    BY <1>2 DEF RootKeys
  <2>. QED
    BY <1>1, <1>2, <2>1 DEF SignsWith
<1>3. CASE root.backend # "internal"
  <2>1. rk \in MadeKeys(token, root, 1, n)
    BY <1>3 DEF RootKeys
  <2>. QED
    BY <1>1, <1>3, <2>1, Makes DEF SignsWith
<1>. QED
  BY <1>2, <1>3

LEMMA MintKeys ==
    ASSUME TInv, IInv', OneTokenHolder, UNCHANGED <<pc, job>>,
           NEW terms, NEW s, NEW g, NEW w, Mint(terms, s, g, w)
    PROVE  TInv' /\ KeysGrow /\ \E c : Minted(terms, s, g, w, c)
<1> DEFINE n == runs + 1
           C(nk, rk) == Certificate(n, nk[1], rk[1], terms, w)
<1>1. PICK rk \in RootKeys(terms.root, n) : \E nk \in MadeKeys(rk[2], s, g[2], n) :
          /\ row' = [row EXCEPT ![g] = {C(nk, rk)}]
          /\ pem' = [pem EXCEPT ![g] = C(nk, rk)]
          /\ token' = nk[2]
          /\ stored' = IF s.backend = "internal" THEN stored \cup {<<g, nk[1]>>}
                       ELSE stored
  BY DEF Mint
<1>2. PICK nk \in MadeKeys(rk[2], s, g[2], n) :
          /\ row' = [row EXCEPT ![g] = {C(nk, rk)}]
          /\ pem' = [pem EXCEPT ![g] = C(nk, rk)]
          /\ token' = nk[2]
          /\ stored' = IF s.backend = "internal" THEN stored \cup {<<g, nk[1]>>}
                       ELSE stored
  BY <1>1
<1>3. /\ C(nk, rk).key = nk[1] /\ C(nk, rk).signer = rk[1]
      /\ C(nk, rk).under = terms /\ C(nk, rk).warned = w
  BY DEF Certificate
<1>4. {s.backend, terms.root.backend} # {"internal"} => TokenFree
  BY DEF Mint
<1> HIDE DEF n, C
<1>5. /\ SignsWith(terms.root, token, rk[1])
      /\ OneIn(rk[2]) /\ Grown(token, rk[2])
      /\ terms.root.backend = "internal" => rk[2] = token
  BY RootKeysAre
<1>6. /\ OneIn(nk[2]) /\ Grown(rk[2], nk[2])
      /\ s.backend = "internal" => nk[2] = rk[2]
      /\ s.backend # "internal" => Keypairs(nk[2], s, g[2]) = {nk[1]}
  BY <1>5, Makes
<1>7. KeysGrow /\ OneIn(token')
  BY <1>2, <1>5, <1>6, GrownTwice DEF KeysGrow
<1>8. HeldIn(stored', token', g, s, nk[1])
  BY <1>2, <1>6 DEF HeldIn
<1>9. \E c : Minted(terms, s, g, w, c)
  <2>1. Minted(terms, s, g, w, C(nk, rk))
    BY <1>2, <1>3, <1>5, <1>8 DEF Minted
  <2>. QED
    BY <2>1
<1>10. token' = token \/ TokenFree
  BY <1>2, <1>4, <1>5, <1>6
<1>11. Jobshape' /\ OneUser'
  BY DEF TInv, Jobshape, OneUser, UsesToken
<1>12. KeysMade'
  <2>. SUFFICES ASSUME NEW q \in Inits, pc[q] # "idle"
                PROVE  KeysIn(pc[q], job[q], token', stored')
    BY DEF KeysMade
  <2>1. KeysIn(pc[q], job[q], token, stored)
    BY DEF TInv, KeysMade
  <2>2. pc[q] = "generate" => UsesToken(q)
    <3>. SUFFICES ASSUME pc[q] = "generate" PROVE UsesToken(q)
      OBVIOUS
    <3>1. /\ Loaded(job[q].conf, Ca(q)).backend = "pkcs11"
          /\ job[q].todo # {} /\ job[q].todo \subseteq DOMAIN job[q].conf.ca
      BY <2>1, HeadIsCa DEF KeysIn, MakingKeys
    <3>2. Ca(q) \in DOMAIN job[q].conf.ca
      BY <3>1, CaIsLeft
    <3>. QED
      BY <3>1, <3>2, SectionsOnToken DEF UsesToken
  <2>3. pc[q] = "generate" => token' = token
    BY <1>10, <2>2 DEF TokenFree, UsesToken
  <2>. QED
    BY <1>7, <2>1, <2>3, KeysStay DEF KeysGrow
<1>. QED
  BY <1>7, <1>9, <1>11, <1>12 DEF TInv

-----------------------------------------------------------------------------
(* What an init records *)

\* The loops that lock and index: no row before every section is locked; then
\* the root's row first, and of what is left to do none.
RootRow(p) == row[First("root")] = {CertOf(job[p], "root")}
Looped ==
    \A p \in Inits :
        /\ pc[p] = "sections" =>
              /\ \A g \in Gens : row[g] = {}
              /\ \A x \in Purposes(job[p].conf) \ job[p].todo :
                    section[x] = Loaded(job[p].conf, x)
        /\ pc[p] = "index" =>
              /\ \A x \in Purposes(job[p].conf) : section[x] = Loaded(job[p].conf, x)
              /\ \A x \in job[p].todo : row[First(x)] = {}
              /\ "root" \notin job[p].todo => RootRow(p)
        /\ pc[p] \in {"gens", "publish"} => RootRow(p)

\* A CA with a row of its first generation is locked and has one certificate,
\* whose key can be found.
Terms(x) == IF x = "root" THEN globals.root ELSE section[x]
RowsMade ==
    \A x \in Lineages : row[First(x)] # {} =>
        /\ x # "root" => section[x] # None
        /\ \E c : /\ row[First(x)] = {c}
                  /\ HeldIn(stored, token, First(x), Terms(x), c.key)

Signed == \A g \in Gens : \A c \in row[g] :
              c.warned \/ \E r \in row[First("root")] : c.signer = r.key

\* The published root certificate has the key of the recorded one.
PemRoot == pem[First("root")] # None =>
               \E r \in row[First("root")] : r.key = pem[First("root")].key

Recorded == Looped /\ RowsMade /\ Signed /\ PemRoot
RInv == TInv /\ (DOMAIN pem = Gens) /\ Recorded

LEMMA RInit == Init => RInv
<1>. SUFFICES ASSUME Init PROVE RInv
  OBVIOUS
<1>1. TInv
  BY TInit
<1>2. \A g \in Gens : row[g] = {}
  BY DEF Init
<1>3. First("root") \in Gens /\ \A x \in Lineages : First(x) \in Gens
  BY FirstGens, ProfileAssumption
<1>4. DOMAIN pem = Gens /\ pem[First("root")] = None
  BY <1>3 DEF Init
<1>5. Looped
  BY DEF Init, Looped
<1>6. RowsMade /\ Signed /\ PemRoot
  BY <1>2, <1>3, <1>4 DEF RowsMade, Signed, PemRoot
<1>. QED
  BY <1>1, <1>4, <1>5, <1>6 DEF RInv, Recorded

\* What is recorded stays while keys come.
LEMMA RecordedStays ==
    ASSUME Recorded, KeysGrow, UNCHANGED <<globals, section, row, pem>>
    PROVE  RowsMade' /\ Signed' /\ PemRoot'
<1>1. RowsMade'
  <2>. SUFFICES ASSUME NEW x \in Lineages, row[First(x)] # {}
                PROVE  /\ x # "root" => section[x] # None
                       /\ \E c : /\ row[First(x)] = {c}
                                 /\ HeldIn(stored', token', First(x), Terms(x), c.key)
    BY DEF RowsMade, Terms
  <2>1. PICK c : /\ row[First(x)] = {c}
                 /\ HeldIn(stored, token, First(x), Terms(x), c.key)
    BY DEF Recorded, RowsMade
  <2>2. HeldIn(stored', token', First(x), Terms(x), c.key)
    BY <2>1, HeldStays DEF KeysGrow
  <2>. QED
    BY <2>1, <2>2 DEF Recorded, RowsMade
<1>2. Signed' /\ PemRoot'
  BY DEF Recorded, Signed, PemRoot
<1>. QED
  BY <1>1, <1>2

\* A certificate is of its job's keys, whatever else the job has to do.
LEMMA SameCert ==
    ASSUME NEW i, NEW j, i.conf = j.conf, i.run = j.run, i.key = j.key, NEW x
    PROVE  CertOf(i, x) = CertOf(j, x)
BY DEF CertOf

\* A step that records nothing, of a p that ends up outside the loops.
LEMMA RecordsQuietly ==
    ASSUME RInv, TInv', KeysGrow, NEW p \in Inits,
           UNCHANGED <<globals, section, row, pem>>,
           \A q \in Inits \ {p} : pc'[q] = pc[q] /\ job'[q] = job[q],
           pc'[p] \notin {"sections", "index", "gens", "publish"}
    PROVE  RInv'
<1>1. Looped'
  BY DEF RInv, Recorded, Looped, RootRow
<1>2. RowsMade' /\ Signed' /\ PemRoot'
  BY RecordedStays DEF RInv
<1>. QED
  BY <1>1, <1>2 DEF RInv, Recorded

LEMMA BeginRec == ASSUME RInv, OneTokenHolder, NEW p \in Inits, Begin(p) PROVE RInv'
<1> DEFINE j == [conf |-> file, run |-> runs + 1, key |-> <<>>, todo |-> DOMAIN file.ca]
<1>1. /\ TInv' /\ KeysGrow /\ UNCHANGED <<globals, section, row, pem>>
      /\ Become(p, "keys", j)
  BY BeginKeys DEF RInv, Begin
<1> HIDE DEF j
<1>2. /\ \A q \in Inits \ {p} : pc'[q] = pc[q] /\ job'[q] = job[q]
      /\ pc'[p] = "keys"
  BY <1>1, Becomes DEF RInv, TInv
<1>. QED
  BY <1>1, <1>2, RecordsQuietly

LEMMA HasKeyGoes ==
    ASSUME TInv, NEW p \in Inits, NEW k, HasKey(p, k)
    PROVE  /\ \A q \in Inits \ {p} : pc'[q] = pc[q] /\ job'[q] = job[q]
           /\ pc'[p] \in {"keys", "store"}
<1> DEFINE keys == [y \in DOMAIN job[p].key \cup {Ca(p)} |->
                      IF y = Ca(p) THEN k ELSE job[p].key[y]]
           j == [job[p] EXCEPT !.key = keys]
<1>1. Onward(p, j, "keys", "store", {}) /\ Fields \subseteq DOMAIN j
  BY DEF HasKey, TInv, Jobshape, Fields
<1> HIDE DEF j
<1>. QED
  BY <1>1, Goes DEF TInv

LEMMA FindKeyRec == ASSUME RInv, NEW p \in Inits, FindKey(p) PROVE RInv'
<1>1. TInv' /\ KeysGrow /\ UNCHANGED <<globals, section, row, pem>> /\ TInv /\ IInv
  BY FindKeyKeys DEF RInv, TInv, FindKey, store
<1>2. /\ \A q \in Inits \ {p} : pc'[q] = pc[q] /\ job'[q] = job[q]
      /\ pc'[p] \in {"keys", "store", "generate", "idle"}
  <2>1. ASSUME NEW k, HasKey(p, k) PROVE <1>2!:
    BY <1>1, <2>1, HasKeyGoes
  <2>2. CASE Become(p, "generate", job[p])
    BY <1>1, <2>2, Becomes
  <2>3. CASE Stop(p)
    BY <1>1, <2>3, Becomes DEF Stop
  <2>. QED
    BY <2>1, <2>2, <2>3 DEF FindKey
<1>. QED
  BY <1>1, <1>2, RecordsQuietly

LEMMA GenerateKeyRec == ASSUME RInv, NEW p \in Inits, GenerateKey(p) PROVE RInv'
<1>1. TInv' /\ KeysGrow /\ UNCHANGED <<globals, section, row, pem>> /\ TInv
      /\ HasKey(p, job[p].run)
  BY GenerateKeyKeys DEF RInv, GenerateKey, store
<1>2. /\ \A q \in Inits \ {p} : pc'[q] = pc[q] /\ job'[q] = job[q]
      /\ pc'[p] \in {"keys", "store"}
  BY <1>1, HasKeyGoes
<1>. QED
  BY <1>1, <1>2, RecordsQuietly

LEMMA StoreKeysRec == ASSUME RInv, NEW p \in Inits, StoreKeys(p) PROVE RInv'
<1>1. TInv' /\ KeysGrow /\ UNCHANGED <<globals, section, row, pem>> /\ IInv
      /\ Become(p, "globals", job[p])
  BY StoreKeysKeys DEF RInv, TInv, StoreKeys
<1>2. /\ \A q \in Inits \ {p} : pc'[q] = pc[q] /\ job'[q] = job[q]
      /\ pc'[p] = "globals"
  BY <1>1, Becomes
<1>. QED
  BY <1>1, <1>2, RecordsQuietly

LEMMA StopsRec ==
    ASSUME RInv, NEW p \in Inits, Stop(p), TInv', KeysGrow,
           UNCHANGED <<globals, section, row, pem>>
    PROVE  RInv'
<1>1. /\ \A q \in Inits \ {p} : pc'[q] = pc[q] /\ job'[q] = job[q]
      /\ pc'[p] = "idle"
  BY Becomes DEF Stop, RInv, TInv
<1>. QED
  BY <1>1, RecordsQuietly

LEMMA GlobalsTakenRec == ASSUME RInv, NEW p \in Inits, GlobalsTaken(p) PROVE RInv'
BY GlobalsTakenKeys, StopsRec DEF GlobalsTaken, store, RInv

LEMMA CrashRec == ASSUME RInv, NEW p \in Inits, Crash(p) PROVE RInv'
BY CrashKeys, StopsRec DEF Crash, store, RInv

LEMMA LockGlobalsRec == ASSUME RInv, NEW p \in Inits, LockGlobals(p) PROVE RInv'
<1> DEFINE j == [job[p] EXCEPT !.todo = Purposes(job[p].conf)]
<1>1. /\ TInv' /\ KeysGrow /\ UNCHANGED <<section, row, pem>> /\ IInv
      /\ globals = None /\ Become(p, "sections", j)
  BY LockGlobalsKeys DEF RInv, TInv, LockGlobals
<1>2. j.conf = job[p].conf /\ j.todo = Purposes(job[p].conf)
  BY DEF RInv, TInv, Jobshape, Fields
<1> HIDE DEF j
<1>3. /\ \A q \in Inits \ {p} : pc'[q] = pc[q] /\ job'[q] = job[q]
      /\ pc'[p] = "sections" /\ job'[p] = j
  BY <1>1, Becomes
<1>4. \A g \in Gens : row[g] = {}
  BY <1>1 DEF IInv, Unlocked
<1>5. First("root") \in Gens /\ \A x \in Lineages : First(x) \in Gens
  BY FirstGens, ProfileAssumption
<1>6. Looped'
  BY <1>1, <1>2, <1>3, <1>4 DEF RInv, Recorded, Looped, RootRow
<1>7. RowsMade' /\ Signed' /\ PemRoot'
  BY <1>1, <1>4, <1>5 DEF RInv, Recorded, RowsMade, Signed, PemRoot
<1>. QED
  BY <1>1, <1>6, <1>7 DEF RInv, Recorded

LEMMA LockSectionRec == ASSUME RInv, NEW p \in Inits, LockSection(p) PROVE RInv'
<1> DEFINE f == job[p].conf
<1>1. /\ pc[p] = "sections" /\ UNCHANGED <<globals, row, pem>>
      /\ section' = [section EXCEPT ![Ca(p)] = Loaded(f, Ca(p))]
      /\ Onward(p, job[p], "sections", "index", DOMAIN f.ca)
      /\ TInv' /\ KeysGrow /\ IInv
  BY LockSectionKeys DEF RInv, TInv, LockSection, Spec1
<1>2. /\ job[p].todo # {} /\ job[p].todo \subseteq Purposes(f)
      /\ DOMAIN section = Lineages \ {"root"}
      /\ f \in Files
  BY <1>1 DEF IInv, Writers, Writing, Shapes, Jobs
<1>3. Ca(p) \in job[p].todo /\ Ca(p) \in DOMAIN section /\ "root" \notin Purposes(f)
  BY <1>2, CaIsLeft, FilesAssumption DEF Purposes
<1>4. /\ \A g \in Gens : row[g] = {}
      /\ \A x \in Purposes(f) \ job[p].todo : section[x] = Loaded(f, x)
  BY <1>1 DEF RInv, Recorded, Looped
<1>5. \A x \in Purposes(f) \ (job[p].todo \ {Ca(p)}) : section'[x] = Loaded(f, x)
  BY <1>1, <1>3, <1>4
<1>6. /\ \A q \in Inits \ {p} : pc'[q] = pc[q] /\ job'[q] = job[q]
      /\ job'[p].conf = f
      /\ \/ /\ pc'[p] = "sections" /\ job'[p].todo = job[p].todo \ {Ca(p)}
         \/ /\ pc'[p] = "index" /\ job[p].todo = {Ca(p)}
            /\ job'[p].todo = DOMAIN f.ca
  <2>1. Fields \subseteq DOMAIN job[p]
    BY DEF RInv, TInv, Jobshape
  <2>. QED
    BY <1>1, <2>1, Goes
<1>7. \A q \in Inits \ {p} : pc[q] \notin Writing
  BY <1>1 DEF IInv, Alone, Writing
<1>8. First("root") \in Gens /\ \A x \in Lineages : First(x) \in Gens
  BY FirstGens, ProfileAssumption
<1>9. \A q \in Inits \ {p} : pc[q] \notin {"gens", "publish"}
  BY <1>4, <1>8 DEF RInv, Recorded, Looped, RootRow
<1> HIDE DEF f
<1>10. /\ "root" \in DOMAIN f.ca /\ DOMAIN f.ca \subseteq Lineages
  <2>1. Accepted(f)
    BY <1>1 DEF IInv, Jobs, f
  <2>. QED
    BY <1>2, <2>1, AcceptedHas, FilesAssumption
<1>11. Looped'
  BY <1>1, <1>4, <1>5, <1>6, <1>7, <1>8, <1>9, <1>10 DEF Looped, Writing
<1>12. RowsMade' /\ Signed' /\ PemRoot'
  BY <1>1, <1>4, <1>8 DEF RInv, Recorded, RowsMade, Signed, PemRoot
<1>. QED
  BY <1>1, <1>11, <1>12 DEF RInv, Recorded

LEMMA IndexCertRec == ASSUME RInv, NEW p \in Inits, IndexCert(p) PROVE RInv'
<1> DEFINE f == job[p].conf
           x == Ca(p)
           c == CertOf(job[p], x)
<1>1. /\ pc[p] = "index" /\ UNCHANGED <<globals, section, pem>>
      /\ row' = [row EXCEPT ![First(x)] = row[First(x)] \cup {c}]
      /\ Onward(p, job[p], "index", "gens", {})
      /\ TInv' /\ KeysGrow /\ TInv /\ IInv
  BY IndexCertKeys DEF RInv, TInv, IndexCert
<1>2. /\ f \in Files /\ globals = Globals(f) /\ DOMAIN row = Gens
      /\ job[p].todo # {} /\ job[p].todo \subseteq DOMAIN f.ca
      /\ Fields \subseteq DOMAIN job[p]
  BY <1>1 DEF IInv, Jobs, Writers, Writing, Shapes, TInv, Jobshape
<1>3. x \in job[p].todo /\ ("root" \notin job[p].todo => x # "root")
      /\ ("root" \in job[p].todo => x = "root")
  BY <1>2, CaIsLeft DEF Ca
<1>4. /\ x \in Lineages /\ First(x) \in Gens /\ First("root") \in Gens
      /\ \A y \in Lineages : First(y) \in Gens
      /\ \A y, z \in Lineages : First(y) = First(z) => y = z
  BY <1>2, <1>3, FirstGens, FilesAssumption, ProfileAssumption DEF First
<1>5. /\ \A y \in Purposes(f) : section[y] = Loaded(f, y)
      /\ \A y \in job[p].todo : row[First(y)] = {}
      /\ "root" \notin job[p].todo => RootRow(p)
  BY <1>1 DEF RInv, Recorded, Looped
<1>6. /\ row'[First(x)] = {c}
      /\ \A g \in Gens : g # First(x) => row'[g] = row[g]
  BY <1>1, <1>2, <1>3, <1>4, <1>5
<1>7. x # "root" => section[x] = Loaded(f, x)
  BY <1>2, <1>3, <1>5 DEF Purposes
<1>8. /\ c.key = job[p].key[x] /\ c.signer = job[p].key["root"]
      /\ CertOf(job[p], "root").key = job[p].key["root"]
  BY DEF CertOf, Certificate
<1>9. row'[First("root")] = {CertOf(job[p], "root")}
  <2>1. CASE x = "root"
    BY <1>6, <2>1
  <2>2. CASE x # "root"
    BY <1>3, <1>4, <1>5, <1>6, <2>2, ProfileAssumption DEF RootRow
  <2>. QED
    BY <2>1, <2>2
<1>10. HeldIn(stored', token', First(x), Terms(x), c.key)
  <2>1. KeysIn("index", job[p], token, stored)
    BY <1>1 DEF TInv, KeysMade
  <2>2. x \in DOMAIN job[p].key
    BY <1>2, <1>3, <2>1 DEF KeysIn, MakingKeys
  <2>3. Terms(x) = Loaded(f, x)
    BY <1>2, <1>7 DEF Terms, Globals
  <2>4. First(x)[2] = 1
    BY DEF First
  <2>5. HeldIn(stored, token, First(x), Loaded(f, x), c.key)
    BY <1>8, <2>1, <2>2, <2>4 DEF KeysIn, Stored, HeldIn
  <2> HIDE DEF f, x, c
  <2>. QED
    BY <1>1, <2>3, <2>5, HeldStays DEF KeysGrow
<1>11. /\ \A q \in Inits \ {p} : pc'[q] = pc[q] /\ job'[q] = job[q]
       /\ job'[p].conf = f /\ job'[p].run = job[p].run /\ job'[p].key = job[p].key
       /\ \/ pc'[p] = "index" /\ job'[p].todo = job[p].todo \ {x}
          \/ pc'[p] = "gens"
  BY <1>1, <1>2, Goes
<1>12. \A q \in Inits \ {p} : pc[q] \notin Writing
  BY <1>1 DEF IInv, Alone, Writing
<1>13. \A y : CertOf(job'[p], y) = CertOf(job[p], y)
  BY <1>11, SameCert
<1>14. RootRow(p)'
  BY <1>9, <1>13 DEF RootRow
<1> HIDE DEF f, x, c
<1>15. \A q \in Inits \ {p} : pc[q] \in {"gens", "publish"} => RootRow(q)'
  <2>. SUFFICES ASSUME NEW q \in Inits \ {p}, pc[q] \in {"gens", "publish"}
                PROVE  RootRow(q)'
    OBVIOUS
  <2>1. RootRow(q)
    BY DEF RInv, Recorded, Looped
  <2>2. x # "root"
    BY <1>3, <1>5, <2>1 DEF RootRow
  <2>3. row'[First("root")] = row[First("root")]
    BY <1>4, <1>6, <2>2, ProfileAssumption
  <2>. QED
    BY <1>11, <2>1, <2>3 DEF RootRow
<1>16. \A y \in job[p].todo \ {x} : row'[First(y)] = {}
  BY <1>2, <1>4, <1>5, <1>6, FilesAssumption
<1>17. Looped'
  BY <1>1, <1>5, <1>11, <1>12, <1>14, <1>15, <1>16 DEF Looped, Writing
<1>18. RowsMade'
  <2>. SUFFICES ASSUME NEW y \in Lineages, row'[First(y)] # {}
                PROVE  /\ y # "root" => section'[y] # None
                       /\ \E d : /\ row'[First(y)] = {d}
                                 /\ HeldIn(stored', token', First(y), Terms(y)', d.key)
    BY DEF RowsMade
  <2>1. Terms(y)' = Terms(y)
    BY <1>1 DEF Terms
  <2>2. CASE y = x
    <3>1. x # "root" => section[x] # None
      BY <1>2, <1>3, <1>7, FilesAssumption
    <3>. QED
      BY <1>1, <1>6, <1>10, <2>1, <2>2, <3>1
  <2>3. CASE y # x
    <3>1. row'[First(y)] = row[First(y)]
      BY <1>4, <1>6, <2>3
    <3>2. /\ y # "root" => section[y] # None
          /\ \E d : row[First(y)] = {d} /\ HeldIn(stored, token, First(y), Terms(y), d.key)
      BY <3>1 DEF RInv, Recorded, RowsMade
    <3>3. PICK d : row[First(y)] = {d} /\ HeldIn(stored, token, First(y), Terms(y), d.key)
      BY <3>2
    <3>4. HeldIn(stored', token', First(y), Terms(y), d.key)
      BY <1>1, <3>3, HeldStays DEF KeysGrow
    <3>. QED
      BY <1>1, <2>1, <3>1, <3>2, <3>3, <3>4
  <2>. QED
    BY <2>2, <2>3
<1>19. row[First("root")] \subseteq row'[First("root")]
  BY <1>1, <1>2, <1>4, <1>6, <1>3, <1>5
<1>20. Signed'
  <2>. SUFFICES ASSUME NEW g \in Gens, NEW d \in row'[g]
                PROVE  d.warned \/ \E r \in row'[First("root")] : d.signer = r.key
    BY DEF Signed
  <2>1. CASE g = First(x)
    BY <1>6, <1>8, <1>9, <2>1
  <2>2. CASE g # First(x)
    BY <1>6, <1>19, <2>2 DEF RInv, Recorded, Signed
  <2>. QED
    BY <2>1, <2>2
<1>21. PemRoot'
  BY <1>1, <1>19 DEF RInv, Recorded, PemRoot
<1>. QED
  BY <1>1, <1>17, <1>18, <1>20, <1>21 DEF RInv, Recorded

LEMMA IndexGensRec == ASSUME RInv, NEW p \in Inits, IndexGens(p) PROVE RInv'
<1> DEFINE j == [job[p] EXCEPT !.todo = DOMAIN job[p].conf.ca]
<1>1. /\ TInv' /\ KeysGrow /\ UNCHANGED <<globals, section, row, pem>> /\ IInv
      /\ pc[p] = "gens" /\ Become(p, "publish", j)
  BY IndexGensKeys DEF RInv, TInv, IndexGens
<1>2. j.conf = job[p].conf /\ j.run = job[p].run /\ j.key = job[p].key
  BY DEF RInv, TInv, Jobshape, Fields
<1>3. CertOf(j, "root") = CertOf(job[p], "root")
  BY <1>2, SameCert
<1> HIDE DEF j
<1>4. /\ \A q \in Inits \ {p} : pc'[q] = pc[q] /\ job'[q] = job[q]
      /\ pc'[p] = "publish" /\ job'[p] = j
  BY <1>1, Becomes
<1>5. Looped'
  BY <1>1, <1>3, <1>4 DEF RInv, Recorded, Looped, RootRow
<1>6. RowsMade' /\ Signed' /\ PemRoot'
  BY <1>1, RecordedStays DEF RInv
<1>. QED
  BY <1>1, <1>5, <1>6 DEF RInv, Recorded

LEMMA PublishRec == ASSUME RInv, NEW p \in Inits, Publish(p) PROVE RInv'
<1> DEFINE c == CertOf(job[p], Ca(p))
<1>1. /\ TInv' /\ KeysGrow /\ UNCHANGED <<globals, section, row>> /\ IInv
      /\ pc[p] = "publish" /\ pem' \in {pem, [pem EXCEPT ![First(Ca(p))] = c]}
      /\ \/ job[p].todo # {Ca(p)} /\ Onward(p, job[p], "publish", "idle", {})
         \/ Stop(p)
  BY PublishKeys DEF RInv, TInv, Publish
<1>2. RootRow(p) /\ Fields \subseteq DOMAIN job[p]
  BY <1>1 DEF RInv, Recorded, Looped, TInv, Jobshape
<1>3. /\ \A q \in Inits \ {p} : pc'[q] = pc[q] /\ job'[q] = job[q]
      /\ \/ /\ pc'[p] = "publish" /\ job'[p].conf = job[p].conf
            /\ job'[p].run = job[p].run /\ job'[p].key = job[p].key
         \/ pc'[p] = "idle"
  <2>1. CASE Onward(p, job[p], "publish", "idle", {})
    BY <1>1, <1>2, <2>1, Goes
  <2>2. CASE Stop(p)
    BY <1>1, <2>2, Becomes DEF Stop
  <2>. QED
    BY <1>1, <2>1, <2>2
<1>4. pc'[p] = "publish" => CertOf(job'[p], "root") = CertOf(job[p], "root")
  BY <1>3, SameCert
<1>5. Looped'
  BY <1>1, <1>2, <1>3, <1>4 DEF RInv, Recorded, Looped, RootRow
<1>6. RowsMade'
  <2>. SUFFICES ASSUME NEW x \in Lineages, row[First(x)] # {}
                PROVE  /\ x # "root" => section[x] # None
                       /\ \E d : /\ row[First(x)] = {d}
                                 /\ HeldIn(stored', token', First(x), Terms(x), d.key)
    BY <1>1 DEF RowsMade, Terms
  <2>1. PICK d : /\ row[First(x)] = {d}
                 /\ HeldIn(stored, token, First(x), Terms(x), d.key)
    BY DEF RInv, Recorded, RowsMade
  <2>2. HeldIn(stored', token', First(x), Terms(x), d.key)
    BY <1>1, <2>1, HeldStays DEF KeysGrow
  <2>. QED
    BY <2>1, <2>2 DEF RInv, Recorded, RowsMade
<1>7. Signed'
  BY <1>1 DEF RInv, Recorded, Signed
<1>8. /\ First("root") \in Gens /\ DOMAIN pem' = Gens
      /\ First(Ca(p)) = First("root") => Ca(p) = "root"
  BY <1>1, FirstGens, ProfileAssumption DEF First, RInv
<1>9. PemRoot'
  <2>1. CASE pem'[First("root")] = pem[First("root")]
    BY <1>1, <2>1 DEF RInv, Recorded, PemRoot
  <2>2. CASE pem'[First("root")] # pem[First("root")]
    <3>1. Ca(p) = "root" /\ pem'[First("root")] = c
      BY <1>1, <1>8, <2>2 DEF RInv
    <3>. QED
      BY <1>1, <1>2, <3>1 DEF RootRow, PemRoot
  <2>. QED
    BY <2>1, <2>2
<1>. QED
  BY <1>1, <1>5, <1>6, <1>7, <1>8, <1>9 DEF RInv, Recorded

LEMMA MoveAwayRec == ASSUME RInv, MoveAway PROVE RInv'
<1>1. /\ TInv' /\ \A p \in Inits : pc'[p] = "idle"
      /\ \A g \in Gens : row'[g] = {}
      /\ pem' = [g \in Gens |-> None]
  BY MoveAwayKeys DEF RInv, MoveAway, procs
<1>2. First("root") \in Gens /\ \A x \in Lineages : First(x) \in Gens
  BY FirstGens, ProfileAssumption
<1>3. Looped'
  BY <1>1 DEF Looped
<1>4. RowsMade' /\ Signed' /\ PemRoot'
  BY <1>1, <1>2 DEF RowsMade, Signed, PemRoot
<1>. QED
  BY <1>1, <1>3, <1>4 DEF RInv, Recorded

\* A step that touches neither the processes nor what they record and hold.
LEMMA SameRec ==
    ASSUME RInv, IInv', UNCHANGED <<store, token, procs>>
    PROVE  RInv'
<1>1. UNCHANGED <<pc, job, token, stored, globals, section, row, pem>>
  BY DEF store, procs
<1>2. TInv' /\ KeysGrow
  BY <1>1, UnchangedKeys DEF RInv
<1>3. Looped'
  BY <1>1 DEF RInv, Recorded, Looped, RootRow
<1>. QED
  BY <1>1, <1>2, <1>3, RecordedStays DEF RInv, Recorded

\* A store is initialized only when nobody is in the loops: before their end
\* the root, or a section they locked, has no row.
LEMMA NobodyLoops ==
    ASSUME RInv, Initialized, NEW p \in Inits
    PROVE  pc[p] \notin Writing
<1>1. pc[p] # "sections"
  BY InitializedLocks DEF RInv, TInv
<1>2. ASSUME pc[p] = "index" PROVE FALSE
  <2>1. /\ job[p].conf \in Files /\ job[p].todo # {}
        /\ job[p].todo \subseteq DOMAIN job[p].conf.ca
        /\ DOMAIN section = Lineages \ {"root"}
    BY <1>2 DEF RInv, TInv, IInv, Jobs, Writers, Writing, Shapes
  <2>2. PICK x \in job[p].todo : x \in DOMAIN job[p].conf.ca
    BY <2>1
  <2>3. row[First(x)] = {}
    BY <1>2 DEF RInv, Recorded, Looped
  <2>4. x # "root"
    BY <2>3 DEF Initialized
  <2>5. section[x] = Loaded(job[p].conf, x) /\ x \in DOMAIN section
    BY <1>2, <2>1, <2>2, <2>4, FilesAssumption DEF RInv, Recorded, Looped, Purposes
  <2>6. x \in Locked
    BY <2>1, <2>2, <2>5, FilesAssumption DEF Locked
  <2>. QED
    BY <2>3, <2>6 DEF Initialized
<1>. QED
  BY <1>1, <1>2 DEF Writing

\* A certificate a ceremony made under the locked globals has the root's
\* signature.
LEMMA MintedIsSigned ==
    ASSUME RInv, Initialized, NEW terms, NEW s, NEW g, NEW w, NEW c,
           Minted(terms, s, g, w, c), pem[First("root")] # None,
           terms.root = globals.root
    PROVE  \E r \in row[First("root")] : c.signer = r.key
<1>1. PICK r : row[First("root")] = {r} /\ HeldIn(stored, token, First("root"), globals.root, r.key)
  BY ProfileAssumption DEF RInv, Recorded, RowsMade, Initialized, Terms
<1>2. r.key = pem[First("root")].key
  BY <1>1 DEF RInv, Recorded, PemRoot
<1>3. First("root")[2] = 1
  BY DEF First
<1>4. c.signer = r.key
  BY <1>1, <1>2, <1>3 DEF Minted, SignsWith, HeldIn
<1>. QED
  BY <1>1, <1>4

\* What a ceremony for an issuing CA leaves of the records.
LEMMA CeremonyRec ==
    ASSUME RInv, TInv', KeysGrow, Initialized, NEW pu \in DOMAIN section,
           NEW n \in 1 .. MaxGen, NEW terms, NEW s, NEW w, NEW c,
           Minted(terms, s, <<pu, n>>, w, c), UNCHANGED <<globals, pc, job>>,
           c.warned \/ \E r \in row[First("root")] : c.signer = r.key,
           s # None, n = 1 => section'[pu] = s,
           \A x \in DOMAIN section : x # pu \/ n # 1 => section'[x] = section[x]
    PROVE  RInv'
<1>1. /\ DOMAIN row = Gens /\ DOMAIN section = Lineages \ {"root"} /\ DOMAIN pem = Gens
  BY DEF RInv, TInv, IInv, Shapes
<1>2. /\ \A x \in Lineages : First(x) \in Gens
      /\ First("root") \in Gens /\ <<pu, n>> \in Gens /\ <<pu, n>> # First("root")
      /\ First("root") = <<"root", 1>> /\ First(pu) = <<pu, 1>>
      /\ \A x \in Lineages : x # pu => First(x) # <<pu, n>>
  BY <1>1, FirstGens, ProfileAssumption DEF First, Gens
<1>3. /\ row'[<<pu, n>>] = {c} /\ pem'[First("root")] = pem[First("root")]
      /\ \A g \in Gens : g # <<pu, n>> => row'[g] = row[g]
      /\ DOMAIN pem' = Gens
  BY <1>1, <1>2 DEF Minted
<1>4. row'[First("root")] = row[First("root")]
  BY <1>2, <1>3
<1>5. Looped'
  BY <1>4, NobodyLoops DEF RInv, Recorded, Looped, RootRow, Writing
<1>6. RowsMade'
  <2>. SUFFICES ASSUME NEW x \in Lineages, row'[First(x)] # {}
                PROVE  /\ x # "root" => section'[x] # None
                       /\ \E d : /\ row'[First(x)] = {d}
                                 /\ HeldIn(stored', token', First(x), Terms(x)', d.key)
    BY DEF RowsMade
  <2>1. CASE x = pu /\ n = 1
    <3>1. section'[x] = s /\ Terms(x)' = s /\ First(x) = <<pu, n>>
      BY <1>1, <1>2, <2>1 DEF Terms
    <3>. QED
      BY <1>3, <2>1, <3>1 DEF Minted
  <2>2. CASE x # pu \/ n # 1
    <3>1. row'[First(x)] = row[First(x)]
      BY <1>2, <1>3, <2>2
    <3>2. x # "root" => section'[x] = section[x]
      BY <1>1, <2>2
    <3>3. Terms(x)' = Terms(x)
      BY <3>2 DEF Terms
    <3>4. PICK d : row[First(x)] = {d} /\ HeldIn(stored, token, First(x), Terms(x), d.key)
      BY <3>1 DEF RInv, Recorded, RowsMade
    <3>5. HeldIn(stored', token', First(x), Terms(x), d.key)
      BY <3>4, HeldStays DEF KeysGrow
    <3>6. x # "root" => section[x] # None
      BY <3>1 DEF RInv, Recorded, RowsMade
    <3>. QED
      BY <3>1, <3>2, <3>3, <3>4, <3>5, <3>6
  <2>. QED
    BY <2>1, <2>2
<1>7. Signed'
  <2>. SUFFICES ASSUME NEW g \in Gens, NEW d \in row'[g]
                PROVE  d.warned \/ \E r \in row[First("root")] : d.signer = r.key
    BY <1>4 DEF Signed
  <2>1. CASE g = <<pu, n>>
    BY <1>3, <2>1
  <2>2. CASE g # <<pu, n>>
    BY <1>3, <2>2 DEF RInv, Recorded, Signed
  <2>. QED
    BY <2>1, <2>2
<1>8. PemRoot'
  BY <1>3, <1>4 DEF RInv, Recorded, PemRoot
<1>. QED
  BY <1>3, <1>5, <1>6, <1>7, <1>8 DEF RInv, Recorded

LEMMA AddRec ==
    ASSUME RInv, OneTokenHolder, NEW pu \in DOMAIN section, Add(pu)
    PROVE  RInv'
<1> DEFINE s == Loaded(file, pu)
           terms == Globals(file)
<1>1. /\ Initialized /\ pu \in Purposes(file)
      /\ Mint(terms, s, First(pu), Warned(file))
      /\ section' = [section EXCEPT ![pu] = s]
      /\ UNCHANGED <<globals, pc, job>> /\ IInv /\ IInv'
  BY AddInv DEF Add, procs, RInv, TInv
<1>2. s # None /\ "root" \notin Purposes(file)
  BY <1>1, FilesAssumption DEF IInv, Shapes, Purposes
<1>3. ~Warned(file) => terms.root = globals.root
  BY <1>2, UnwarnedAgrees
<1>4. pem[First("root")] # None
  BY <1>1 DEF Mint
<1>5. First(pu) = <<pu, 1>> /\ 1 \in 1 .. MaxGen
  BY FilesAssumption DEF First
<1> HIDE DEF s, terms
<1>6. TInv' /\ KeysGrow /\ \E c : Minted(terms, s, First(pu), Warned(file), c)
  BY <1>1, MintKeys DEF RInv
<1>7. PICK c : Minted(terms, s, First(pu), Warned(file), c)
  BY <1>6
<1>8. c.warned \/ \E r \in row[First("root")] : c.signer = r.key
  <2>1. c.warned = Warned(file)
    BY <1>7 DEF Minted
  <2>. QED
    BY <1>1, <1>3, <1>4, <1>7, <2>1, MintedIsSigned
<1>9. /\ section'[pu] = s
      /\ \A x \in DOMAIN section : x # pu \/ 1 # 1 => section'[x] = section[x]
  BY <1>1
<1>. QED
  BY <1>1, <1>2, <1>5, <1>6, <1>7, <1>8, <1>9, CeremonyRec

LEMMA RenewRec ==
    ASSUME RInv, OneTokenHolder, NEW pu \in DOMAIN section, NEW g \in 1 .. MaxGen,
           Renew(pu, g)
    PROVE  RInv'
<1> DEFINE s == section[pu]
<1>1. /\ Initialized /\ pu \in Locked /\ g < MaxGen
      /\ Mint(globals, s, <<pu, g + 1>>, FALSE)
      /\ UNCHANGED <<globals, section, pc, job>> /\ IInv'
  BY RenewInv DEF Renew, procs, RInv, TInv
<1>2. s # None /\ pem[First("root")] # None
  BY <1>1 DEF Locked, Mint
<1>3. g + 1 \in 1 .. MaxGen /\ g + 1 # 1
  BY <1>1, FilesAssumption
<1>4. /\ g + 1 = 1 => section'[pu] = s
      /\ \A x \in DOMAIN section : x # pu \/ g + 1 # 1 => section'[x] = section[x]
  BY <1>1, <1>3
<1> HIDE DEF s
<1>5. TInv' /\ KeysGrow /\ \E c : Minted(globals, s, <<pu, g + 1>>, FALSE, c)
  BY <1>1, MintKeys DEF RInv
<1>6. PICK c : Minted(globals, s, <<pu, g + 1>>, FALSE, c)
  BY <1>5
<1>7. \E r \in row[First("root")] : c.signer = r.key
  BY <1>1, <1>2, <1>6, MintedIsSigned
<1>. QED
  BY <1>1, <1>2, <1>3, <1>4, <1>5, <1>6, <1>7, CeremonyRec

LEMMA RNext == RInv /\ OneTokenHolder /\ [Next]_vars => RInv'
<1>. SUFFICES ASSUME RInv, OneTokenHolder, [Next]_vars PROVE RInv'
  OBVIOUS
<1>1. IInv'
  BY NextInv DEF RInv, TInv
<1>2. CASE UNCHANGED vars \/ EditFile
  <2>1. UNCHANGED <<store, token, procs>>
    BY <1>2 DEF vars, EditFile
  <2>. QED
    BY <1>1, <2>1, SameRec
<1>3. ASSUME NEW p \in Inits, Begin(p) \/ Step(p) \/ Crash(p) PROVE RInv'
  BY <1>3, BeginRec, FindKeyRec, GenerateKeyRec, StoreKeysRec, LockGlobalsRec,
     GlobalsTakenRec, LockSectionRec, IndexCertRec, IndexGensRec, PublishRec,
     CrashRec
     DEF Step
<1>. QED
  BY <1>2, <1>3, MoveAwayRec, AddRec, RenewRec DEF Next

\* Keys and rows stay matched through every step of init, through crashes,
\* stores moved away, adds and renewals.
THEOREM KeysAndRows == ASSUME OneTokenHolder PROVE Spec => []RInv
<1>1. Init => RInv
  BY RInit
<1>2. RInv /\ [Next]_vars => RInv'
  BY RNext
<1>. QED
  BY <1>1, <1>2, PTL DEF Spec

\* When is_initialized says a store is complete, it is: one certificate of
\* the root and of each locked CA, each with a key that is in the store or the
\* only one of its label on the token.  Ceremonies that need a token must not
\* overlap: two that look for a label before either has generated it leave
\* two keypairs there.
THEOREM InitializedStoresAreComplete ==
    ASSUME OneTokenHolder PROVE Spec => []InitializedIsComplete
<1>1. RInv => InitializedIsComplete
  <2>. SUFFICES ASSUME RInv, Initialized, NEW x \in {"root"} \cup Locked
                PROVE  \E c \in row[First(x)] :
                          /\ row[First(x)] = {c}
                          /\ KeyIsHeld(First(x), Terms(x), c)
    BY DEF InitializedIsComplete, Terms
  <2>1. x \in Lineages /\ row[First(x)] # {}
    BY ProfileAssumption DEF Initialized, Locked, RInv, TInv, IInv, Shapes
  <2>2. PICK c : /\ row[First(x)] = {c}
                 /\ HeldIn(stored, token, First(x), Terms(x), c.key)
    BY <2>1 DEF RInv, Recorded, RowsMade
  <2>. QED
    BY <2>2 DEF HeldIn, KeyIsHeld
<1>. QED
  BY <1>1, KeysAndRows, PTL

\* Whatever key a ceremony signs with - the stored one of the published root
\* certificate, or the one it finds on a token (mint_ca_generation) - it is the
\* key of the store's root, unless add warned that its file names another.
THEOREM CertificatesAreTheRoots ==
    ASSUME OneTokenHolder PROVE Spec => []SignedByTheRoot
<1>1. RInv => SignedByTheRoot
  BY DEF RInv, Recorded, Signed, SignedByTheRoot
<1>. QED
  BY <1>1, KeysAndRows, PTL
=============================================================================
