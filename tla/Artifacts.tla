------------------------------ MODULE Artifacts ------------------------------
(***************************************************************************)
(* The published files and how write_file replaces them (src/src/ca.cpp):  *)
(* a sibling <path>.tmp is opened, written, closed, made read-only and     *)
(* renamed over the path.  CaStore takes the replacement as one step; this *)
(* module is that step in detail, with the commands that write files:      *)
(*   mint       write_ca_artifacts: one file after the other until one     *)
(*              fails, no lock, the database afterwards;                   *)
(*   revoke     one CRL under the write lock, the database afterwards;     *)
(*   refresh    CRLs under the write lock, going on when one fails;        *)
(*   issue      create: the database first, then certificate and key       *)
(*              without the lock; a failed file is only warned about.      *)
(***************************************************************************)
EXTENDS Integers, Sequences

CONSTANTS
    Procs,      \* the commands that may run at once
    Paths,      \* files under <store>/ca and <store>/ee
    Command,    \* [Procs -> {"mint", "revoke", "refresh", "issue"}]
    Plan,       \* [Procs -> Seq(Paths)]: the files each one replaces, in order
    MintOf,     \* whose CRL revoke and refresh rewrite: the minting process
    MaxVersion, \* bound: commands ever started
    Inodes,     \* bound: files on disk at one time
    None

Range(seq) == {seq[i] : i \in 1 .. Len(seq)}

\* What a file holds: nothing yet, all of one version, what an error at close
\* left of it, or a mixture.
Versions == 1 .. MaxVersion
Empty == 0
Torn == -1
Part(v) == Torn - v
OfVersions(vs) == vs \cup {Part(v) : v \in vs}

Republishers == {p \in Procs : Command[p] \in {"revoke", "refresh"}}

ASSUME CommandAssumption ==
    /\ Command \in [Procs -> {"mint", "revoke", "refresh", "issue"}]
    /\ Plan \in [Procs -> Seq(Paths)]
    /\ \A p \in Procs : Plan[p] # <<>>
    /\ MintOf \in [Republishers -> Procs]
    /\ MaxVersion \in Nat
ASSUME NoneAssumption ==
    None \notin Procs \cup Inodes \cup Int \cup (Paths \X Int)

\* Processes whose files overlap are kept apart: by the write lock, or because
\* a CRL is rewritten only once its generation is recorded.
KeptApart(p, q) ==
    \/ p \in Republishers /\ q \in Republishers
    \/ p \in Republishers /\ MintOf[p] = q /\ Command[q] = "mint"
    \/ q \in Republishers /\ MintOf[q] = p /\ Command[p] = "mint"
OneWriterPerPath ==
    \A p, q \in Procs :
        p # q /\ Range(Plan[p]) \cap Range(Plan[q]) # {} => KeptApart(p, q)

VARIABLES
    file,       \* path -> inode: what a reader opens
    tmp,        \* path -> inode of <path>.tmp
    data,       \* inode -> Empty, Torn, or the version written to it or its Part
    readOnly,   \* inodes of mode 0400
    lock,       \* holder of the store's write lock
    pc,         \* where each process is
    todo,       \* the files it has still to replace
    fd,         \* the inode it opened
    version,    \* the version it writes: one per run of a command
    late,       \* the processes whose close has just lost part of it, unnoticed
    used,       \* versions given out
    recorded    \* the last version each command committed

disk == <<file, tmp, data, readOnly>>
procs == <<pc, todo, fd, version, late>>
vars == <<disk, lock, procs, used, recorded>>

TypeOK ==
    /\ file \in [Paths -> Inodes \cup {None}]
    /\ tmp \in [Paths -> Inodes \cup {None}]
    /\ data \in [Inodes -> {Empty, Torn} \cup OfVersions(Versions)]
    /\ readOnly \in SUBSET Inodes
    /\ lock \in Procs \cup {None}
    /\ pc \in [Procs -> {"idle", "open", "write", "seal", "rename", "commit"}]
    /\ todo \in [Procs -> Seq(Paths)]
    /\ fd \in [Procs -> Inodes \cup {None}]
    /\ version \in [Procs -> 0 .. MaxVersion]
    /\ late \in SUBSET Procs
    /\ used \in 0 .. MaxVersion
    /\ recorded \in [Procs -> 0 .. MaxVersion]

-----------------------------------------------------------------------------
Init ==
    /\ file = [path \in Paths |-> None]
    /\ tmp = [path \in Paths |-> None]
    /\ data = [i \in Inodes |-> Empty]
    /\ readOnly = {}
    /\ lock = None
    /\ pc = [p \in Procs |-> "idle"]
    /\ todo = [p \in Procs |-> <<>>]
    /\ fd = [p \in Procs |-> None]
    /\ version = [p \in Procs |-> 0]
    /\ late = {}
    /\ used = 0
    /\ recorded = [p \in Procs |-> 0]

Active(p) == pc[p] # "idle"
Path(p) == Head(todo[p])
Free == {i \in Inodes : /\ \A path \in Paths : i \notin {file[path], tmp[path]}
                        /\ \A p \in Procs : fd[p] # i}

\* Which free inode the file system takes makes no difference.
OpenedInode(p) == IF tmp[Path(p)] # None THEN tmp[Path(p)]
                  ELSE CHOOSE i \in Free : TRUE

\* A generation is minted until it is recorded; only then is its CRL
\* republished.  revoke and refresh hold the lock while they write.
Mutant_Unlocked(p) ==
    /\ Command[p] = "mint" => recorded[p] = 0
    /\ p \in Republishers => recorded[MintOf[p]] # 0
MayBegin(p) ==
    /\ Command[p] = "mint" => recorded[p] = 0
    /\ p \in Republishers => recorded[MintOf[p]] # 0 /\ lock = None

\* A command has done its reading and reaches its first file.
Begin(p) ==
    /\ pc[p] = "idle" /\ used < MaxVersion
    /\ MayBegin(p)
    /\ used' = used + 1
    /\ version' = [version EXCEPT ![p] = used + 1]
    /\ todo' = [todo EXCEPT ![p] = Plan[p]]
    /\ pc' = [pc EXCEPT ![p] = "open"]
    /\ lock' = IF p \in Republishers THEN p ELSE lock
    /\ recorded' = IF Command[p] = "issue"
                   THEN [recorded EXCEPT ![p] = used + 1] ELSE recorded
    /\ UNCHANGED <<disk, fd, late>>

Leave(p) ==
    /\ pc' = [pc EXCEPT ![p] = "idle"]
    /\ todo' = [todo EXCEPT ![p] = <<>>]
    /\ fd' = [fd EXCEPT ![p] = None]
    /\ late' = late \ {p}
    /\ lock' = IF lock = p THEN None ELSE lock
    /\ UNCHANGED version

\* On to the next file, or to the commit.
Advance(p) ==
    /\ todo' = [todo EXCEPT ![p] = Tail(@)]
    /\ pc' = [pc EXCEPT ![p] = IF Tail(todo[p]) = <<>> THEN "commit" ELSE "open"]
    /\ fd' = [fd EXCEPT ![p] = None]
    /\ late' = late \ {p}
    /\ UNCHANGED <<lock, version>>

\* write_file returned false: issue and refresh go on, the others stop.
Mutant_CarryOn(p) == Advance(p)
Failed(p) == IF Command[p] \in {"issue", "refresh"} THEN Advance(p) ELSE Leave(p)

\* ofstream(tmp, trunc), then mode 0600: a new file, or the one left behind
\* or in use there.  A leftover of mode 0400 cannot be opened: the CLI runs
\* as yca, not as root.
OpenTmp(p) ==
    /\ pc[p] = "open"
    /\ tmp[Path(p)] = None => Free # {}
    /\ tmp[Path(p)] \notin readOnly
    /\ LET i == OpenedInode(p) IN
          /\ tmp' = [tmp EXCEPT ![Path(p)] = i]
          /\ data' = [data EXCEPT ![i] = Empty]
          /\ readOnly' = readOnly \ {i}
          /\ fd' = [fd EXCEPT ![p] = i]
    /\ pc' = [pc EXCEPT ![p] = "write"]
    /\ UNCHANGED <<file, lock, todo, version, late, used, recorded>>

OpenFails(p) ==
    /\ pc[p] = "open"
    /\ tmp[Path(p)] \in readOnly
    /\ Failed(p)
    /\ UNCHANGED <<disk, used, recorded>>

\* What p writes of its version, and what the file then holds.
Content(p, lost) == IF lost THEN Part(version[p]) ELSE version[p]
Written(p, lost) ==
    {Content(p, lost)} \cup (IF data[fd[p]] = Empty THEN {} ELSE {Torn})

\* write, and close in the destructor, where an error goes unnoticed: what was
\* still in the buffer, all of a small file, is lost.
Write(p) ==
    /\ pc[p] = "write"
    /\ \E lost \in BOOLEAN :
          /\ \E d \in Written(p, lost) : data' = [data EXCEPT ![fd[p]] = d]
          /\ late' = IF lost THEN late \cup {p} ELSE late
    /\ pc' = [pc EXCEPT ![p] = "seal"]
    /\ UNCHANGED <<file, tmp, readOnly, lock, todo, fd, version, used, recorded>>

\* write reports an error: the temporary file is removed.
Mutant_ErrorIgnored(p) ==
    /\ pc[p] = "write"
    /\ data' = [data EXCEPT ![fd[p]] = Torn]
    /\ pc' = [pc EXCEPT ![p] = "seal"]
    /\ UNCHANGED <<file, tmp, readOnly, lock, todo, fd, version, late, used,
                   recorded>>
WriteFails(p) ==
    /\ pc[p] = "write"
    /\ tmp' = [tmp EXCEPT ![Path(p)] = None]
    /\ Failed(p)
    /\ UNCHANGED <<file, data, readOnly, used, recorded>>

\* Mode 0400, by name: whatever <path>.tmp is now.
Seal(p) ==
    /\ pc[p] = "seal"
    /\ readOnly' = readOnly \cup ({tmp[Path(p)]} \ {None})
    /\ pc' = [pc EXCEPT ![p] = "rename"]
    /\ UNCHANGED <<file, tmp, data, lock, todo, fd, version, late, used, recorded>>

Rename(p) ==
    /\ pc[p] = "rename"
    /\ tmp[Path(p)] # None
    /\ file' = [file EXCEPT ![Path(p)] = tmp[Path(p)]]
    /\ tmp' = [tmp EXCEPT ![Path(p)] = None]
    /\ Advance(p)
    /\ UNCHANGED <<data, readOnly, used, recorded>>

\* Another process renamed it away, or the system refused.
RenameFails(p) ==
    /\ pc[p] = "rename"
    /\ tmp' = [tmp EXCEPT ![Path(p)] = None]
    /\ Failed(p)
    /\ UNCHANGED <<file, data, readOnly, used, recorded>>

Commit(p) ==
    /\ pc[p] = "commit"
    /\ recorded' = IF Command[p] \in {"mint", "revoke"}
                   THEN [recorded EXCEPT ![p] = version[p]] ELSE recorded
    /\ Leave(p)
    /\ UNCHANGED <<disk, used>>

\* The process dies: the transaction rolls back, the disk stays as it is.
Crash(p) ==
    /\ Active(p)
    /\ Leave(p)
    /\ UNCHANGED <<disk, used, recorded>>

Next ==
    \E p \in Procs :
        \/ Begin(p) \/ OpenTmp(p) \/ OpenFails(p) \/ Write(p) \/ WriteFails(p)
        \/ Seal(p) \/ Rename(p) \/ RenameFails(p) \/ Commit(p) \/ Crash(p)

Spec == Init /\ [][Next]_vars

-----------------------------------------------------------------------------
Published == [path \in Paths |-> IF file[path] = None THEN None
                                 ELSE data[file[path]]]
InFile(p) == pc[p] \in {"write", "seal", "rename"}
Result(p) == Content(p, p \in late)
Call == [p \in Procs |-> IF InFile(p) THEN <<Path(p), Result(p)>> ELSE None]

\* write_pem, write_der: "a reader of the published CRL never observes a
\* partial file, and rewrites replace the read-only artifact instead of
\* truncating it" (ca_detail.h), with crashes and failing writes, when
\* OneWriterPerPath; but a file whose close failed replaces it too, as if it
\* were whole.
AF == INSTANCE AtomicFile WITH Writers <- Procs, Contents <- Versions,
                               Remnant <- [v \in Versions |-> Part(v)],
                               published <- Published, call <- Call
Contract == AF!Spec

\* "Artifacts before the database" (mint_ca_generation): a recorded
\* generation has every file it publishes, all of one minting but for a CRL
\* that was republished since, whatever crashed or failed in between; an error
\* that only close() saw may have cut any of them short.
RecordedIsComplete ==
    \A p \in Procs : Command[p] = "mint" /\ recorded[p] # 0 =>
        \A path \in Range(Plan[p]) :
            \/ Published[path] \in OfVersions({recorded[p]})
            \/ /\ \E q \in Republishers : MintOf[q] = p /\ path \in Range(Plan[q])
               /\ Published[path] \in OfVersions(recorded[p] .. MaxVersion)

\* A committed revocation's CRL is the one on disk, or a later one is: neither
\* a crash nor a write or rename that fails leaves the database ahead of it
\* (revoke writes before it commits, and writers of one CRL hold the lock).
\* That an error at close cut the CRL short is not noticed.
CommittedIsPublished ==
    \A p \in Procs : Command[p] = "revoke" /\ recorded[p] # 0 =>
        \A path \in Range(Plan[p]) :
            Published[path] \in OfVersions(recorded[p] .. MaxVersion)

-----------------------------------------------------------------------------
(* What the repository states and the code does not keep *)

\* "A reader of the published CRL never observes a partial file" (ca_detail.h).
FilesAreWhole ==
    \A path \in Paths : Published[path] \in Versions \cup {None}

\* "An interrupted run leaves a working CA, possibly with orphan files - the
\* next run replaces them" (docs/operation.md, If a ceremony is interrupted).
LeftoversAreReplaced ==
    \A p \in Procs : pc[p] = "open" => tmp[Path(p)] \notin readOnly

\* create delivers the certificate with its key: when no issuance is under
\* way, ee/<slug>.crt and .key belong together.
KeyMatchesCertificate ==
    (\A p \in Procs : ~Active(p)) =>
        \A p \in Procs : Command[p] = "issue" =>
            \A a, b \in Range(Plan[p]) :
                \/ Published[a] = Published[b]
                \/ \E v \in Versions : {Published[a], Published[b]} \subseteq
                                          OfVersions({v})
=============================================================================
