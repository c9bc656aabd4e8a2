--------------------------- MODULE Initialization ---------------------------
(***************************************************************************)
(* How a store comes to be (src/src/ca.cpp: init, create) and which CAs it *)
(* holds afterwards (add, renew), from a configuration file the operator   *)
(* edits and, for a pkcs11 backend, a token that outlives the store.       *)
(*                                                                         *)
(* create is not a transaction: each row and file it writes stays when the *)
(* process dies.  is_initialized decides from what is there whether init   *)
(* has run; until then the operator moves the directory away and runs init *)
(* again.  add and renew are one step here; CaStore has their steps, their *)
(* races and their validity checks.                                        *)
(***************************************************************************)
EXTENDS ConfigRules

CONSTANTS
    Inits,          \* init processes
    Files,          \* configuration files the operator may write
    MaxRuns,        \* bound: ceremonies ever started
    MaxCrashes,     \* bound: init processes that die
    MaxGen,         \* bound: generations of a CA
    OneTokenHolder  \* ceremonies that need a token do not overlap

\* The sections that exist once per store, as they are locked.
Globals(f) == [pki |-> f.pki, module |-> f.module, label |-> f.label,
               root |-> Loaded(f, "root")]

ASSUME FilesAssumption ==
    /\ MaxGen \in Nat \ {0}
    /\ \A f \in Files :
          /\ DOMAIN f.ca \subseteq Lineages
          /\ Globals(f) # None
          /\ \A x \in DOMAIN f.ca : Loaded(f, x) # None /\ f.ca[x].prefix \in Seq(STRING)

VARIABLES
    file,       \* yca.toml
    dir,        \* the store directory: absent, empty, or with a store.db
    stored,     \* private keys in the store: <<generation, key>>
    globals,    \* ca_config: [pki], [pkcs11] and [root] as locked, or None
    section,    \* ca_config purposes: purpose -> locked section, or None
    row,        \* cert_index: generation -> its CA certificates
    gen,        \* ca_cert_index: generation -> status
    pem,        \* <store>/ca/<slug>.pem, with its .crt and .crl
    token,      \* keypairs on the tokens: [label, name, key]
    pc, job,    \* the init processes
    runs, crashes

store == <<dir, stored, globals, section, row, gen, pem>>
procs == <<pc, job>>
vars == <<file, store, token, procs, runs, crashes>>

Gens == Lineages \X (1 .. MaxGen)
First(x) == <<x, 1>>

\* load_config: the sections the store has locked.
Locked == {pu \in DOMAIN section : section[pu] # None}

\* A certificate: its key and its signer's, each named by the ceremony that
\* made it; the globals it was made under, and whether a warning said so.
Certificate(n, key, signer, under, warned) ==
    [run |-> n, key |-> key, signer |-> signer, under |-> under, warned |-> warned]

NoJob == [conf |-> None, run |-> 0, key |-> <<>>, todo |-> {}]

Init ==
    /\ file \in Files
    /\ dir = "absent"
    /\ stored = {} /\ globals = None
    /\ section = [pu \in Lineages \ {"root"} |-> None]
    /\ row = [g \in Gens |-> {}]
    /\ gen = [g \in Gens |-> "none"]
    /\ pem = [g \in Gens |-> None]
    /\ token = {}
    /\ pc = [p \in Inits |-> "idle"] /\ job = [p \in Inits |-> NoJob]
    /\ runs = 0 /\ crashes = 0

-----------------------------------------------------------------------------
(* init *)

Mutant_AnchorOnly == globals # None /\ row[First("root")] # {}
\* is_initialized: the root and every locked purpose have an issued
\* certificate (found by the CN of the section, that of generation 1).
Initialized ==
    /\ globals # None
    /\ row[First("root")] # {}
    /\ Locked # {}
    /\ \A pu \in Locked : row[First(pu)] # {}

Become(p, label, j) ==
    /\ pc' = [pc EXCEPT ![p] = label]
    /\ job' = [job EXCEPT ![p] = j]
Stop(p) == Become(p, "idle", NoJob)

TokenFree ==
    OneTokenHolder => \A q \in Inits : pc[q] # "idle" => OnToken(job[q].conf) = {}

\* A valid file, no initialized store, nothing else in the directory.
Begin(p) ==
    /\ pc[p] = "idle" /\ runs < MaxRuns
    /\ Materializes(file)
    /\ ~Initialized /\ dir # "used"
    /\ OnToken(file) # {} => TokenFree
    /\ dir' = "empty"
    /\ runs' = runs + 1
    /\ Become(p, "keys", [conf |-> file, run |-> runs + 1, key |-> <<>>,
                          todo |-> DOMAIN file.ca])
    /\ UNCHANGED <<file, stored, globals, section, row, gen, pem, token, crashes>>

\* Each loop does the root first, then the purposes in the order of the map.
Ca(p) == IF "root" \in job[p].todo THEN "root" ELSE CHOOSE x \in job[p].todo : TRUE
Spec1(p) == Loaded(job[p].conf, Ca(p))

\* On to the next CA of this phase, or to the next phase.
Onward(p, j, phase, next, all) ==
    IF j.todo # {Ca(p)} THEN Become(p, phase, [j EXCEPT !.todo = @ \ {Ca(p)}])
    ELSE Become(p, next, [j EXCEPT !.todo = all])

Keypairs(tok, s, g) ==
    {k.key : k \in {t \in tok : t.label = s.label /\ t.name = SlugText(s, g)}}

HasKey(p, key) ==
    Onward(p, [job[p] EXCEPT !.key = [x \in DOMAIN @ \cup {Ca(p)} |->
                                         IF x = Ca(p) THEN key ELSE @[x]]],
           "keys", "store", {})

\* make_ca_key: a software key, or the keypair of that label on the token;
\* find_keypair throws when there are several.
Mutant_NeverAdopt(p) == FALSE
Adopts(p) == Cardinality(Keypairs(token, Spec1(p), 1)) = 1
FindKey(p) ==
    /\ pc[p] = "keys"
    /\ \/ Spec1(p).backend = "internal" /\ HasKey(p, job[p].run)
       \/ /\ Spec1(p).backend = "pkcs11"
          /\ \/ Keypairs(token, Spec1(p), 1) = {} /\ Become(p, "generate", job[p])
             \/ /\ Adopts(p)
                /\ \E k \in Keypairs(token, Spec1(p), 1) : HasKey(p, k)
             \/ /\ Keypairs(token, Spec1(p), 1) # {} /\ ~Adopts(p)
                /\ Stop(p)
    /\ UNCHANGED <<file, store, token, runs, crashes>>

GenerateKey(p) ==
    /\ pc[p] = "generate"
    /\ token' = token \cup {[label |-> Spec1(p).label, name |-> SlugText(Spec1(p), 1),
                             key |-> job[p].run]}
    /\ HasKey(p, job[p].run)
    /\ UNCHANGED <<file, store, runs, crashes>>

\* store.db, its certificates and the software keys.
StoreKeys(p) ==
    /\ pc[p] = "store"
    /\ dir' = "used"
    /\ stored' = stored \cup
          {<<First(x), job[p].key[x]>> :
              x \in {y \in DOMAIN job[p].conf.ca :
                        job[p].conf.ca[y].backend = "internal"}}
    /\ Become(p, "globals", job[p])
    /\ UNCHANGED <<file, globals, section, row, gen, pem, token, runs, crashes>>

\* The rows of ca_config, if another init has not inserted its own.
Mutant_GlobalsReplaced(p) ==
    /\ pc[p] = "globals"
    /\ globals' = Globals(job[p].conf)
    /\ Become(p, "sections", [job[p] EXCEPT !.todo = Purposes(job[p].conf)])
    /\ UNCHANGED <<file, dir, stored, section, row, gen, pem, token, runs, crashes>>
LockGlobals(p) ==
    /\ pc[p] = "globals"
    /\ globals = None
    /\ globals' = Globals(job[p].conf)
    /\ Become(p, "sections", [job[p] EXCEPT !.todo = Purposes(job[p].conf)])
    /\ UNCHANGED <<file, dir, stored, section, row, gen, pem, token, runs, crashes>>

GlobalsTaken(p) ==
    /\ pc[p] = "globals"
    /\ globals # None
    /\ Stop(p)
    /\ UNCHANGED <<file, store, token, runs, crashes>>

LockSection(p) ==
    /\ pc[p] = "sections"
    /\ section' = [section EXCEPT ![Ca(p)] = Spec1(p)]
    /\ Onward(p, job[p], "sections", "index", DOMAIN job[p].conf.ca)
    /\ UNCHANGED <<file, dir, stored, globals, row, gen, pem, token, runs, crashes>>

CertOf(j, x) == Certificate(j.run, j.key[x], j.key["root"], Globals(j.conf), FALSE)

IndexCert(p) ==
    /\ pc[p] = "index"
    /\ row' = [row EXCEPT ![First(Ca(p))] = @ \cup {CertOf(job[p], Ca(p))}]
    /\ Onward(p, job[p], "index", "gens", {})
    /\ UNCHANGED <<file, dir, stored, globals, section, gen, pem, token, runs, crashes>>

IndexGens(p) ==
    /\ pc[p] = "gens"
    /\ gen' = [g \in Gens |-> IF g[2] = 1 /\ g[1] \in DOMAIN job[p].conf.ca
                                          /\ row[g] # {} THEN "active" ELSE gen[g]]
    /\ Become(p, "publish", [job[p] EXCEPT !.todo = DOMAIN job[p].conf.ca])
    /\ UNCHANGED <<file, dir, stored, globals, section, row, pem, token, runs, crashes>>

\* A file that cannot be written is warned about.
Publish(p) ==
    /\ pc[p] = "publish"
    /\ pem' \in {pem, [pem EXCEPT ![First(Ca(p))] = CertOf(job[p], Ca(p))]}
    /\ IF job[p].todo # {Ca(p)} THEN Onward(p, job[p], "publish", "idle", {})
       ELSE Stop(p)
    /\ UNCHANGED <<file, dir, stored, globals, section, row, gen, token, runs, crashes>>

Crash(p) ==
    /\ pc[p] # "idle" /\ crashes < MaxCrashes
    /\ crashes' = crashes + 1
    /\ Stop(p)
    /\ UNCHANGED <<file, store, token, runs>>

-----------------------------------------------------------------------------
(* The operator *)

\* "move it away and re-run init": the token keeps its keys.
MoveAway ==
    /\ dir = "used" /\ ~Initialized
    /\ \A p \in Inits : pc[p] = "idle"
    /\ dir' = "absent" /\ stored' = {} /\ globals' = None
    /\ section' = [pu \in DOMAIN section |-> None]
    /\ row' = [g \in Gens |-> {}] /\ gen' = [g \in Gens |-> "none"]
    /\ pem' = [g \in Gens |-> None]
    /\ UNCHANGED <<file, token, procs, runs, crashes>>

\* Nothing reads the file of a store that is there and not initialized, nor
\* any file after the last ceremony of the bound.
EditFile ==
    /\ dir # "used" \/ Initialized
    /\ runs < MaxRuns
    /\ file' \in Files \ {file}
    /\ UNCHANGED <<store, token, procs, runs, crashes>>

\* Another token of the same label, without the keys of this store, is put in.
SwapToken ==
    /\ Initialized
    /\ token # {} /\ token' = {}
    /\ UNCHANGED <<file, store, procs, runs, crashes>>

-----------------------------------------------------------------------------
(* add, renew *)

Mutant_Unwarned(f) ==
    {<<"missing", pu>> : pu \in Locked \ Purposes(f)}
\* reconcile: what differs between the file and the store.
Remarks(f) ==
    {<<"changed", "root">> : x \in {"root"} \cap {y \in Lineages : Globals(f) # globals}}
    \cup {<<"changed", pu>> : pu \in {x \in Purposes(f) :
                                 section[x] \notin {None, Loaded(f, x)}}}
    \cup {<<"not created", pu>> : pu \in Purposes(f) \ Locked}
    \cup {<<"missing", pu>> : pu \in Locked \ Purposes(f)}

\* "is declared but not created" is no warning.
Warned(f) == \E r \in Remarks(f) : r[1] # "not created"

\* make_ca_key in a ceremony: <<key, token afterwards>>, none when the token
\* holds several keypairs of that label.
MadeKeys(tok, s, g, n) ==
    LET held == Keypairs(tok, s, g) IN
    IF s.backend = "internal" THEN {<<n, tok>>}
    ELSE IF held = {}
    THEN {<<n, tok \cup {[label |-> s.label, name |-> SlugText(s, g), key |-> n]}>>}
    ELSE {<<k, tok>> : k \in {j \in held : Cardinality(held) = 1}}

\* The root key of a ceremony: the stored one of the published certificate,
\* or, as for any other CA key, adopt-or-generate on the token.
Mutant_RootRegenerated(root, n) == {<<n, token>>}
RootKeys(root, n) ==
    IF root.backend = "internal"
    THEN {<<k, token>> : k \in {pem[First("root")].key} \cap
                                   {s[2] : s \in {t \in stored : t[1] = First("root")}}}
    ELSE MadeKeys(token, root, 1, n)

\* mint_ca_generation under terms, and the rows that record it.
Mint(terms, s, g, warned) ==
    /\ runs < MaxRuns
    /\ runs' = runs + 1
    /\ pem[First("root")] # None
    /\ {s.backend, terms.root.backend} # {"internal"} => TokenFree
    /\ \E rk \in RootKeys(terms.root, runs + 1) :
       \E nk \in MadeKeys(rk[2], s, g[2], runs + 1) :
          LET c == Certificate(runs + 1, nk[1], rk[1], terms, warned) IN
          /\ row' = [row EXCEPT ![g] = {c}]
          /\ pem' = [pem EXCEPT ![g] = c]
          /\ token' = nk[2]
          /\ stored' = IF s.backend = "internal" THEN stored \cup {<<g, nk[1]>>}
                       ELSE stored

CnTaken(cn) ==
    \/ globals.root.cn = cn
    \/ \E pu \in DOMAIN section : gen[First(pu)] # "none" /\ section[pu] # None
                                                       /\ section[pu].cn = cn

\* add runs on the file, not on what is locked.
Add(pu) ==
    /\ Initialized
    /\ Materializes(file)
    /\ pu \in Purposes(file) /\ section[pu] = None
    /\ LET s == Loaded(file, pu) IN
       /\ ~CnTaken(s.cn)
       /\ Mint(Globals(file), s, First(pu), Warned(file))
       /\ section' = [section EXCEPT ![pu] = s]
    /\ gen' = [gen EXCEPT ![First(pu)] = "active"]
    /\ UNCHANGED <<file, dir, globals, procs, crashes>>

\* renew runs on what is locked.
Renew(pu, g) ==
    /\ Initialized
    /\ pu \in Locked
    /\ gen[<<pu, g>>] = "active" /\ g < MaxGen
    /\ Mint(globals, section[pu], <<pu, g + 1>>, FALSE)
    /\ gen' = [gen EXCEPT ![<<pu, g>>] = "retiring", ![<<pu, g + 1>>] = "active"]
    /\ UNCHANGED <<file, dir, globals, section, procs, crashes>>

-----------------------------------------------------------------------------
(* get config *)

\* The file get config prints: what the store has locked, every token-held CA
\* with the label it was given or fell back on, and the default beside them.
Printed ==
    [pki |-> globals.pki, module |-> globals.module, label |-> globals.label,
     wellFormed |-> TRUE, unknown |-> FALSE,
     ca |-> [x \in {"root"} \cup Locked |->
                IF x = "root" THEN globals.root ELSE section[x]]]

-----------------------------------------------------------------------------
Step(p) ==
    \/ FindKey(p) \/ GenerateKey(p) \/ StoreKeys(p) \/ LockGlobals(p)
    \/ GlobalsTaken(p) \/ LockSection(p) \/ IndexCert(p) \/ IndexGens(p)
    \/ Publish(p)

Next ==
    \/ \E p \in Inits : Begin(p) \/ Step(p) \/ Crash(p)
    \/ MoveAway \/ EditFile
    \/ \E pu \in DOMAIN section : Add(pu)
    \/ \E pu \in DOMAIN section, g \in 1 .. MaxGen : Renew(pu, g)

\* A process that has started runs on; the operator of a store that is not
\* initialized moves it away and runs init, as init's messages say.
Spec == /\ Init /\ [][Next]_vars
        /\ \A p \in Inits : WF_vars(Step(p))
        /\ WF_vars(\E p \in Inits : Begin(p))
        /\ WF_vars(MoveAway)

\* The same without the care that one token per store asks for.
AnyTokenSpec == Init /\ [][Next \/ SwapToken]_vars

-----------------------------------------------------------------------------
KeyIsHeld(g, s, c) ==
    IF s.backend = "internal" THEN <<g, c.key>> \in stored
    ELSE Keypairs(token, s, g[2]) = {c.key}

\* Once is_initialized says so, the root and every locked CA has exactly one
\* certificate of its generation 1, and the key of that certificate can be
\* found: whichever inits raced, died or were run again over leftover token
\* keys, other commands never start on half a ceremony.  Of ceremonies with a
\* token no two overlap (OneTokenHolder).
InitializedIsComplete ==
    Initialized =>
        \A x \in {"root"} \cup Locked :
            \E c \in row[First(x)] :
                /\ row[First(x)] = {c}
                /\ KeyIsHeld(First(x), IF x = "root" THEN globals.root ELSE section[x], c)

\* Every CA certificate was made under the [pki], [pkcs11] and [root] the
\* store locked, whatever init it came from; one that add made under a file
\* that says otherwise came with a warning (reconcile).
MadeUnderLocked ==
    Initialized => \A g \in Gens : \A c \in row[g] : c.under = globals \/ c.warned

\* Every CA certificate is signed with its root's key, or add warned that
\* the file it was made under is not the one the store has locked.
SignedByTheRoot ==
    Initialized => \A g \in Gens : \A c \in row[g] :
                      c.warned \/ \E r \in row[First("root")] : c.signer = r.key

\* The CAs whose sections never were at odds with a file: all that init made,
\* and those add made without a warning.
InOrder == {pu \in Locked : \A c \in row[First(pu)] : ~c.warned}

\* The slugs of a CA, up to where a second digit comes and one more.
Slugs(s) == {SlugText(s, g) : g \in 1 .. 11}

\* The files of two CAs, both made without a warning, never share a name, at
\* any generation, whatever the files they were added from: "a slug collision
\* silently overwrites published artifacts" (load), and load sees one file,
\* never the store.  A CA add warned of may meet another.
SlugsNeverMeet ==
    Initialized =>
        \A s, t \in {globals.root} \cup {section[pu] : pu \in InOrder} : s # t =>
            Slugs(s) \cap Slugs(t) = {}

\* A profile has one issuer among the CAs made without a warning, as it has in
\* every file they were added from (ca_for_profile takes the first).  A CA add
\* warned of may list it again.
ProfileHasOneIssuer ==
    \A a, b \in InOrder : a # b =>
        Listed(section[a].profiles) \cap Listed(section[b].profiles) = {}

\* What an initialized store has locked, its anchor and every section, stays
\* as it is: a second init, an edited file, an add change none of it.
LockedIsFinal ==
    [][Initialized => /\ globals' = globals /\ row'[First("root")] = row[First("root")]
                      /\ \A pu \in Locked : section'[pu] = section[pu]]_store

\* With a file that is valid and left alone init gets there in the end,
\* however often it dies on the way: token keys are adopted, the rest is made
\* again.
InitCompletes == <>[]Materializes(file) => <>Initialized

-----------------------------------------------------------------------------
(* What the repository states and the code does not keep *)

\* "an active generation without a published certificate would break
\* issuance" (mint_ca_generation): init records the generation first.
ActiveIsPublished ==
    (\A p \in Inits : pc[p] = "idle") =>
        \A g \in Gens : gen[g] = "active" => pem[g] # None

\* "ignoring readonly params changed" (reconcile): add does not ignore them.
ReadonlyIsIgnored ==
    Initialized => \A g \in Gens : \A c \in row[g] : c.under = globals

\* "the output is a valid yca.toml" (get_cert): the way back to a file that
\* init and add accept, when yca.toml is lost or has drifted.
PrintedIsAccepted == Initialized => Materializes(Printed)

\* "each profile belongs to exactly one CA" (load): two files, one store.
OneIssuerPerProfile ==
    \A a, b \in Locked : a # b =>
        Listed(section[a].profiles) \cap Listed(section[b].profiles) = {}
=============================================================================
