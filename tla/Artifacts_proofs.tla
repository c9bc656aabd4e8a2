-------------------------- MODULE Artifacts_proofs --------------------------
(***************************************************************************)
(* write_file implements AtomicFile, for any number of processes, files    *)
(* and crashes, when writers of one path are kept apart.                   *)
(*                                                                         *)
(* The inductive invariant: a process inside write_file is the only one at *)
(* its path and still holds the inode its <path>.tmp names; no inode has   *)
(* two names; and what it will rename is what it wrote, less what a close  *)
(* lost.  A command that commits has delivered every file of its plan      *)
(* (DInv).                                                                 *)
(***************************************************************************)
EXTENDS Artifacts, TLAPS

\* Where each process is in its list of files.
OnItsPlan ==
    \A p \in Procs : Active(p) =>
        /\ version[p] \in Versions
        /\ Range(todo[p]) \subseteq Range(Plan[p])
        /\ pc[p] # "commit" => todo[p] # <<>>

HoldsItsTmp ==
    \A p \in Procs : InFile(p) => fd[p] \in Inodes /\ tmp[Path(p)] = fd[p]

NoAlias ==
    /\ \A a, b \in Paths : tmp[a] # None /\ tmp[a] = tmp[b] => a = b
    /\ \A a, b \in Paths : file[a] # None => file[a] # tmp[b]

Intact ==
    \A p \in Procs : /\ pc[p] = "write" => data[fd[p]] = Empty
                     /\ pc[p] \in {"seal", "rename"} => data[fd[p]] = Result(p)
                     /\ p \in late => pc[p] \in {"seal", "rename"}

Ordered ==
    \A p \in Procs : Active(p) =>
        /\ p \in Republishers => lock = p /\ recorded[MintOf[p]] # 0
        /\ Command[p] = "mint" => recorded[p] = 0

AInv == TypeOK /\ OnItsPlan /\ HoldsItsTmp /\ NoAlias /\ Intact /\ Ordered

(***************************************************************************)
(* A file still to be replaced is one of the command's files.              *)
(***************************************************************************)
LEMMA PathOfPlan ==
    ASSUME AInv, NEW p \in Procs, Active(p), pc[p] # "commit"
    PROVE  Path(p) \in Paths /\ Path(p) \in Range(Plan[p])
<1>1. todo[p] \in Seq(Paths) /\ todo[p] # <<>>
  BY DEF AInv, TypeOK, OnItsPlan
<1>2. Head(todo[p]) = todo[p][1] /\ 1 \in 1 .. Len(todo[p]) /\ todo[p][1] \in Paths
  BY <1>1
<1> QED BY <1>2 DEF AInv, OnItsPlan, Path, Range

(***************************************************************************)
(* Two processes at work are never at the same path (the write lock, and   *)
(* the order of minting and republishing).                                 *)
(***************************************************************************)
LEMMA ApartInFile ==
    ASSUME OneWriterPerPath, AInv, NEW p \in Procs, NEW q \in Procs, p # q,
           Active(p), pc[p] # "commit", Active(q), pc[q] # "commit"
    PROVE  Path(p) # Path(q)
<1> SUFFICES ASSUME Path(p) = Path(q) PROVE FALSE
  OBVIOUS
<1>1. Range(Plan[p]) \cap Range(Plan[q]) # {}
  BY PathOfPlan
<1>2. KeptApart(p, q)
  BY <1>1 DEF OneWriterPerPath
<1> QED BY <1>2 DEF KeptApart, AInv, Ordered

(***************************************************************************)
(* However a process leaves a file, it moves along its own plan and no     *)
(* other process notices.                                                  *)
(***************************************************************************)
Left(p) ==
    /\ pc' = [pc EXCEPT ![p] = pc'[p]] /\ pc'[p] \in {"idle", "open", "commit"}
    /\ todo' = [todo EXCEPT ![p] = todo'[p]] /\ todo'[p] \in Seq(Paths)
    /\ fd' = [fd EXCEPT ![p] = None]
    /\ version' = version /\ late' = late \ {p}
    /\ pc'[p] # "idle" => lock' = lock
    /\ lock' = lock \/ (lock = p /\ lock' = None)
    /\ pc'[p] # "idle" => Range(todo'[p]) \subseteq Range(Plan[p])
    /\ pc'[p] = "open" => todo'[p] # <<>>

LEMMA LeaveLeft == ASSUME AInv, NEW p \in Procs, Leave(p) PROVE Left(p)
BY DEF AInv, TypeOK, Left, Leave

LEMMA AdvanceLeft ==
    ASSUME AInv, NEW p \in Procs, Active(p), pc[p] # "commit", Advance(p)
    PROVE  Left(p)
<1>1. todo[p] \in Seq(Paths) /\ todo[p] # <<>>
  BY DEF AInv, TypeOK, OnItsPlan
<1> DEFINE rest == Tail(todo[p])
<1>2. /\ rest \in Seq(Paths) /\ Len(rest) = Len(todo[p]) - 1
      /\ \A i \in 1 .. Len(rest) : rest[i] = todo[p][i + 1]
  BY <1>1
<1>3. Range(rest) \subseteq Range(todo[p])
  BY <1>1, <1>2 DEF Range
<1>5. todo'[p] = rest /\ todo' = [todo EXCEPT ![p] = rest]
  BY DEF Advance, AInv, TypeOK
<1>6. pc'[p] = IF rest = <<>> THEN "commit" ELSE "open"
  BY DEF Advance, AInv, TypeOK
<1> HIDE DEF rest
<1>4. Range(todo'[p]) \subseteq Range(Plan[p])
  BY <1>3, <1>5 DEF AInv, OnItsPlan
<1> QED BY <1>2, <1>5, <1>6, <1>4 DEF Left, Advance, AInv, TypeOK

LEMMA FailedLeft ==
    ASSUME AInv, NEW p \in Procs, Active(p), pc[p] # "commit", Failed(p)
    PROVE  Left(p)
BY LeaveLeft, AdvanceLeft DEF Failed

(***************************************************************************)
(* Leaving a file, with the file replaced or not, keeps the invariant.     *)
(***************************************************************************)
LEMMA LeftKeeps ==
    ASSUME OneWriterPerPath, AInv, NEW p \in Procs, Active(p), Left(p), TypeOK',
           data' = data,
           tmp' = tmp \/ (pc[p] # "commit" /\ tmp' = [tmp EXCEPT ![Path(p)] = None]),
           \/ file' = file
           \/ /\ pc[p] = "rename" /\ tmp[Path(p)] # None
              /\ file' = [file EXCEPT ![Path(p)] = tmp[Path(p)]]
              /\ tmp' = [tmp EXCEPT ![Path(p)] = None],
           \/ recorded' = recorded
           \/ pc'[p] = "idle" /\ recorded' = [recorded EXCEPT ![p] = version[p]]
    PROVE  AInv'
<1>1. \A q \in Procs : q # p => /\ pc'[q] = pc[q] /\ todo'[q] = todo[q]
                                /\ fd'[q] = fd[q] /\ version'[q] = version[q]
                                /\ Path(q)' = Path(q) /\ (q \in late' <=> q \in late)
  BY DEF Left, AInv, TypeOK, Path
<1>2. OnItsPlan'
  <2>1. pc'[p] # "idle" => /\ version'[p] = version[p]
                           /\ Range(todo'[p]) \subseteq Range(Plan[p])
                           /\ pc'[p] # "commit" => todo'[p] # <<>>
    BY DEF Left
  <2>2. version[p] \in Versions
    BY DEF AInv, OnItsPlan
  <2>3. ASSUME NEW q \in Procs, Active(q)'
        PROVE  /\ version'[q] \in Versions
               /\ Range(todo'[q]) \subseteq Range(Plan[q])
               /\ pc'[q] # "commit" => todo'[q] # <<>>
    <3>1. CASE q = p
      BY <2>1, <2>2, <2>3, <3>1 DEF Active
    <3>2. CASE q # p
      BY <1>1, <2>3, <3>2 DEF AInv, OnItsPlan, Active
    <3> QED BY <3>1, <3>2
  <2> QED BY <2>3 DEF OnItsPlan
<1>3. ~InFile(p)'
  BY DEF Left, InFile
<1>4. HoldsItsTmp'
  <2> SUFFICES ASSUME NEW q \in Procs, InFile(q)'
               PROVE  fd'[q] \in Inodes /\ tmp'[Path(q)'] = fd'[q]
    BY DEF HoldsItsTmp
  <2>1. q # p /\ InFile(q) /\ Active(q) /\ pc[q] # "commit"
    BY <1>1, <1>3 DEF InFile, Active
  <2>2. Path(q) \in Paths /\ (pc[p] # "commit" => Path(p) # Path(q))
    BY <2>1, PathOfPlan, ApartInFile
  <2>3. tmp'[Path(q)] = tmp[Path(q)]
    BY <2>2 DEF AInv, TypeOK
  <2> QED BY <1>1, <2>1, <2>3 DEF AInv, HoldsItsTmp
<1>5. NoAlias'
  <2>1. pc[p] # "commit" => Path(p) \in Paths
    BY PathOfPlan
  <2> DEFINE x == Path(p)
  <2>2. \A a \in Paths : tmp'[a] # None => tmp'[a] = tmp[a]
    BY <2>1 DEF AInv, TypeOK
  <2>3. \A a, b \in Paths : tmp'[a] # None /\ tmp'[a] = tmp'[b] => a = b
    BY <2>2 DEF AInv, NoAlias
  <2>4. CASE file' = file
    BY <2>2, <2>3, <2>4 DEF AInv, NoAlias
  <2>5. CASE /\ pc[p] = "rename" /\ tmp[x] # None
             /\ file' = [file EXCEPT ![x] = tmp[x]]
             /\ tmp' = [tmp EXCEPT ![x] = None]
    <3>1. x \in Paths
      BY <2>1, <2>5
    <3> HIDE DEF x
    <3>2. ASSUME NEW a \in Paths, NEW b \in Paths, file'[a] # None
          PROVE  file'[a] # tmp'[b]
      BY <2>5, <3>1, <3>2 DEF AInv, TypeOK, NoAlias
    <3> QED BY <2>3, <3>2 DEF NoAlias
  <2> QED BY <2>4, <2>5
<1>6. Intact'
  BY <1>1, <1>3 DEF AInv, Intact, InFile, Result, Content, Left
<1>7. version[p] # 0
  BY CommandAssumption DEF AInv, OnItsPlan, Versions
<1>8. Ordered'
  <2> SUFFICES ASSUME NEW q \in Procs, Active(q)'
               PROVE  /\ q \in Republishers => lock' = q /\ recorded'[MintOf[q]] # 0
                      /\ Command[q] = "mint" => recorded'[q] = 0
    BY DEF Ordered
  <2>1. Active(q) /\ (q # p \/ pc'[p] # "idle")
    BY <1>1 DEF Active
  <2>2. q \in Republishers => lock' = lock
    BY <2>1 DEF Left, AInv, Ordered
  <2>3. q \in Republishers => MintOf[q] \in Procs
    BY CommandAssumption
  <2> QED BY <1>7, <2>1, <2>2, <2>3 DEF AInv, TypeOK, Ordered
<1> QED BY <1>2, <1>4, <1>5, <1>6, <1>8 DEF AInv

(***************************************************************************)
(* The types survive every step.                                           *)
(***************************************************************************)
LEMMA LeftTypes ==
    ASSUME AInv, NEW p \in Procs, Left(p)
    PROVE  /\ lock' \in Procs \cup {None}
           /\ pc' \in [Procs -> {"idle", "open", "write", "seal", "rename", "commit"}]
           /\ todo' \in [Procs -> Seq(Paths)]
           /\ fd' \in [Procs -> Inodes \cup {None}]
           /\ version' \in [Procs -> 0 .. MaxVersion]
           /\ late' \in SUBSET Procs
<1> DEFINE s == todo'[p]
<1>1. todo' = [todo EXCEPT ![p] = s] /\ s \in Seq(Paths)
  BY DEF Left
<1> HIDE DEF s
<1>2. todo' \in [Procs -> Seq(Paths)]
  BY <1>1 DEF AInv, TypeOK
<1> DEFINE l == pc'[p]
<1>3. pc' = [pc EXCEPT ![p] = l] /\ l \in {"idle", "open", "commit"}
  BY DEF Left
<1> HIDE DEF l
<1>4. pc' \in [Procs -> {"idle", "open", "write", "seal", "rename", "commit"}]
  BY <1>3 DEF AInv, TypeOK
<1> QED BY <1>2, <1>4 DEF AInv, TypeOK, Left

LEMMA ArtifactsInit == Init => AInv
BY CommandAssumption, NoneAssumption
   DEF Init, AInv, TypeOK, OnItsPlan, HoldsItsTmp, NoAlias, Intact, Ordered,
       Active, InFile

(***************************************************************************)
(* A command starts on its plan, after its predecessor at the lock and, if *)
(* it rewrites a CRL, after the CRL's generation was recorded.             *)
(***************************************************************************)
LEMMA BeginKeeps ==
    ASSUME AInv, NEW p \in Procs, Begin(p) PROVE AInv'
<1> USE CommandAssumption, NoneAssumption
<1>1. \A q \in Procs : q # p => /\ pc'[q] = pc[q] /\ todo'[q] = todo[q]
                                /\ version'[q] = version[q] /\ Path(q)' = Path(q)
                                /\ Result(q)' = Result(q)
  BY DEF Begin, AInv, TypeOK, Path, Result, Content
<1>2. TypeOK' /\ pc'[p] = "open" /\ todo'[p] = Plan[p] /\ version'[p] \in Versions
  <2>1. used + 1 \in Versions /\ used + 1 \in 0 .. MaxVersion
    <3>1. used \in 0 .. MaxVersion /\ used < MaxVersion
      BY DEF Begin, AInv, TypeOK
    <3> QED BY <3>1 DEF Versions
  <2> DEFINE n == used + 1
  <2>2. /\ used' = n /\ version' = [version EXCEPT ![p] = n]
        /\ recorded' = recorded \/ recorded' = [recorded EXCEPT ![p] = n]
    BY DEF Begin
  <2> HIDE DEF n
  <2>3. used' \in 0 .. MaxVersion /\ version' \in [Procs -> 0 .. MaxVersion]
        /\ recorded' \in [Procs -> 0 .. MaxVersion] /\ version'[p] \in Versions
    BY <2>1, <2>2 DEF AInv, TypeOK, n
  <2>4. todo' \in [Procs -> Seq(Paths)] /\ todo'[p] = Plan[p]
    BY DEF Begin, AInv, TypeOK
  <2> QED BY <2>3, <2>4 DEF Begin, AInv, TypeOK, disk
<1>3. OnItsPlan'
  BY <1>1, <1>2 DEF AInv, OnItsPlan, Active
<1>4. HoldsItsTmp'
  BY <1>1, <1>2 DEF Begin, disk, AInv, HoldsItsTmp, InFile
<1>5. NoAlias' /\ Intact'
  BY <1>1, <1>2 DEF Begin, disk, AInv, NoAlias, Intact
<1>6. Ordered'
  <2>1. \A q \in Procs : q # p /\ q \in Republishers /\ Active(q)
            => p \notin Republishers
    BY DEF Begin, MayBegin, AInv, Ordered
  <2>2. \A q \in Procs : Command[q] = "mint" => q \notin Republishers
    BY DEF Republishers
  <2>3. Command[p] = "issue" => Command[p] # "mint" /\ p \notin Republishers
    BY DEF Republishers
  <2>4. \A q \in Procs : recorded[q] # 0 => recorded'[q] # 0
    BY DEF Begin, AInv, TypeOK
  <2>5. \A q \in Procs : Command[q] = "mint" => recorded'[q] = recorded[q]
    BY DEF Begin, AInv, TypeOK
  <2>6. \A q \in Republishers : MintOf[q] \in Procs
    OBVIOUS
  <2>7. Active(p)' /\ ~Active(p) /\ \A q \in Procs : q # p => (Active(q)' <=> Active(q))
    BY <1>1, <1>2 DEF Active, Begin
  <2>8. ASSUME NEW q \in Procs, Active(q)', Command[q] = "mint" PROVE recorded'[q] = 0
    BY <2>5, <2>7, <2>8 DEF AInv, Ordered, Begin, MayBegin
  <2>9. ASSUME NEW q \in Procs, Active(q)', q \in Republishers
        PROVE  lock' = q /\ recorded'[MintOf[q]] # 0
    <3>1. CASE q = p
      BY <3>1, <2>4, <2>6, <2>9 DEF Begin, MayBegin
    <3>2. CASE q # p
      BY <3>2, <2>1, <2>4, <2>6, <2>7, <2>9 DEF Begin, AInv, Ordered
    <3> QED BY <3>1, <3>2
  <2> QED BY <2>8, <2>9 DEF Ordered
<1> QED BY <1>2, <1>3, <1>4, <1>5, <1>6 DEF AInv

(***************************************************************************)
(* A temporary file is opened under no other name and by nobody else.      *)
(***************************************************************************)
LEMMA OpenTmpKeeps ==
    ASSUME OneWriterPerPath, AInv, NEW p \in Procs, OpenTmp(p) PROVE AInv'
<1> USE NoneAssumption
<1> DEFINE x == Path(p)  i == OpenedInode(p)
<1>1. x \in Paths
  BY PathOfPlan DEF OpenTmp, Active
<1>2. i \in Inodes /\ (i = tmp[x] \/ (tmp[x] = None /\ i \in Free))
  BY <1>1 DEF OpenTmp, OpenedInode, Free, AInv, TypeOK
<1>3. /\ tmp' = [tmp EXCEPT ![x] = i] /\ data' = [data EXCEPT ![i] = Empty]
      /\ readOnly' = readOnly \ {i} /\ fd' = [fd EXCEPT ![p] = i]
      /\ pc' = [pc EXCEPT ![p] = "write"] /\ Path(p)' = x
      /\ UNCHANGED <<file, lock, todo, version, late, used, recorded>>
  BY DEF OpenTmp, Path
<1>4. \A a \in Paths : i # file[a] /\ (a # x => i # tmp[a])
  BY <1>1, <1>2 DEF Free, AInv, NoAlias
<1>5. \A q \in Procs : q # p /\ InFile(q)
          => Path(q) \in Paths /\ Path(q) # x /\ fd[q] # i
  <2> SUFFICES ASSUME NEW q \in Procs, q # p, InFile(q)
               PROVE  Path(q) \in Paths /\ Path(q) # x /\ fd[q] # i
    OBVIOUS
  <2>1. Active(p) /\ pc[p] # "commit" /\ Active(q) /\ pc[q] # "commit"
    BY DEF OpenTmp, Active, InFile
  <2>2. Path(q) \in Paths /\ Path(q) # x
    BY <2>1, PathOfPlan, ApartInFile
  <2> QED BY <1>4, <2>2 DEF AInv, HoldsItsTmp
<1>6. \A q \in Procs : Path(q)' = Path(q)
  BY <1>3 DEF Path
<1>7. pc[p] = "open"
  BY DEF OpenTmp
<1> HIDE DEF x, i
<1>8. TypeOK'
  BY <1>1, <1>2, <1>3 DEF AInv, TypeOK
<1>9. OnItsPlan' /\ Ordered'
  BY <1>3, <1>7 DEF AInv, TypeOK, OnItsPlan, Ordered, Active
<1>10. HoldsItsTmp'
  BY <1>1, <1>2, <1>3, <1>5, <1>6 DEF AInv, TypeOK, HoldsItsTmp, InFile
<1>11. NoAlias'
  BY <1>1, <1>3, <1>4 DEF AInv, TypeOK, NoAlias
<1>12. Intact'
  <2> SUFFICES ASSUME NEW q \in Procs
               PROVE  /\ pc'[q] = "write" => data'[fd'[q]] = Empty
                      /\ pc'[q] \in {"seal", "rename"} => data'[fd'[q]] = Result(q)'
                      /\ q \in late' => pc'[q] \in {"seal", "rename"}
    BY DEF Intact
  <2>1. CASE q = p
    BY <2>1, <1>2, <1>3, <1>7 DEF AInv, TypeOK, Intact
  <2>2. CASE q # p
    BY <2>2, <1>3, <1>5 DEF AInv, TypeOK, Intact, InFile, Result, Content
  <2> QED BY <2>1, <2>2
<1> QED BY <1>8, <1>9, <1>10, <1>11, <1>12 DEF AInv

(***************************************************************************)
(* Nobody else has the written inode open, and nobody reads it.            *)
(***************************************************************************)
LEMMA OwnInode ==
    ASSUME OneWriterPerPath, AInv, NEW p \in Procs, InFile(p)
    PROVE  /\ fd[p] \in Inodes /\ Path(p) \in Paths /\ tmp[Path(p)] = fd[p]
           /\ \A q \in Procs : q # p /\ InFile(q) => fd[q] # fd[p]
           /\ \A a \in Paths : file[a] # fd[p]
<1>1. Active(p) /\ pc[p] # "commit"
  BY DEF InFile, Active
<1>2. fd[p] \in Inodes /\ Path(p) \in Paths /\ tmp[Path(p)] = fd[p]
  BY <1>1, PathOfPlan DEF AInv, HoldsItsTmp
<1>3. ASSUME NEW q \in Procs, q # p, InFile(q) PROVE fd[q] # fd[p]
  <2>1. Active(q) /\ pc[q] # "commit"
    BY <1>3 DEF InFile, Active
  <2>2. Path(q) \in Paths /\ Path(q) # Path(p)
    BY <1>1, <1>3, <2>1, PathOfPlan, ApartInFile
  <2>3. tmp[Path(q)] = fd[q] /\ fd[q] \in Inodes
    BY <1>3 DEF AInv, HoldsItsTmp
  <2> QED BY <1>2, <2>2, <2>3, NoneAssumption DEF AInv, NoAlias
<1>4. ASSUME NEW a \in Paths PROVE file[a] # fd[p]
  BY <1>2, NoneAssumption DEF AInv, NoAlias
<1> QED BY <1>2, <1>3, <1>4

LEMMA WriteKeeps ==
    ASSUME OneWriterPerPath, AInv, NEW p \in Procs, Write(p)
    PROVE  AInv'
<1>1. InFile(p) /\ pc[p] = "write" /\ Active(p)
  BY DEF Write, InFile, Active
<1>2. /\ data[fd[p]] = Empty /\ fd[p] \in Inodes /\ version[p] \in Versions
      /\ p \notin late
  BY <1>1, OwnInode DEF AInv, Intact, OnItsPlan
<1>3. PICK lost \in BOOLEAN :
          /\ \E d \in Written(p, lost) : data' = [data EXCEPT ![fd[p]] = d]
          /\ late' = IF lost THEN late \cup {p} ELSE late
  BY DEF Write
<1>4. data' = [data EXCEPT ![fd[p]] = Content(p, lost)]
  BY <1>2, <1>3 DEF Written
<1>5. Content(p, lost) \in OfVersions(Versions) /\ Result(p)' = Content(p, lost)
  <2>1. version' = version
    BY DEF Write
  <2> QED BY <1>2, <1>3, <2>1 DEF Result, Content, OfVersions
<1> DEFINE d == Content(p, lost)
<1>6. data' = [data EXCEPT ![fd[p]] = d] /\ d \in OfVersions(Versions) /\ Result(p)' = d
  BY <1>4, <1>5
<1> HIDE DEF d
<1>7. TypeOK'
  <2>1. late' \in SUBSET Procs
    BY <1>3 DEF AInv, TypeOK
  <2> QED BY <1>2, <1>6, <2>1 DEF Write, AInv, TypeOK
<1>8. OnItsPlan' /\ Ordered' /\ HoldsItsTmp' /\ NoAlias'
  BY <1>1 DEF Write, AInv, TypeOK, OnItsPlan, Ordered, HoldsItsTmp, NoAlias, Active,
              InFile, Path
<1>9. Intact'
  <2> SUFFICES ASSUME NEW q \in Procs
               PROVE  /\ pc'[q] = "write" => data'[fd'[q]] = Empty
                      /\ pc'[q] \in {"seal", "rename"} => data'[fd'[q]] = Result(q)'
                      /\ q \in late' => pc'[q] \in {"seal", "rename"}
    BY DEF Intact
  <2>1. CASE q = p
    BY <2>1, <1>2, <1>6 DEF Write, AInv, TypeOK
  <2>2. CASE q # p
    <3>1. /\ pc'[q] = pc[q] /\ fd'[q] = fd[q] /\ (q \in late' <=> q \in late)
          /\ Result(q)' = Result(q)
      BY <1>3, <2>2 DEF Write, AInv, TypeOK, Result, Content
    <3>2. InFile(q) => data'[fd[q]] = data[fd[q]]
      BY <1>1, <1>6, <2>2, OwnInode DEF AInv, TypeOK
    <3> QED BY <3>1, <3>2 DEF AInv, Intact, InFile
  <2> QED BY <2>1, <2>2
<1> QED BY <1>7, <1>8, <1>9 DEF AInv

LEMMA SealKeeps == ASSUME OneWriterPerPath, AInv, NEW p \in Procs, Seal(p) PROVE AInv'
<1>1. InFile(p) /\ Active(p)
  BY DEF Seal, InFile, Active
<1>2. tmp[Path(p)] \in Inodes
  BY <1>1, OwnInode
<1>3. TypeOK'
  BY <1>2 DEF Seal, AInv, TypeOK
<1>4. OnItsPlan' /\ Ordered' /\ HoldsItsTmp' /\ NoAlias' /\ Intact'
  BY <1>1 DEF Seal, AInv, TypeOK, OnItsPlan, Ordered, HoldsItsTmp, NoAlias, Intact,
              Active, InFile, Path, Result, Content
<1> QED BY <1>3, <1>4 DEF AInv

(***************************************************************************)
(* The other steps all leave a file, replaced or not.                      *)
(***************************************************************************)
Leaves(p) == OpenFails(p) \/ WriteFails(p) \/ Rename(p) \/ RenameFails(p)
                \/ Commit(p) \/ Crash(p)

LEMMA LeavesLeft ==
    ASSUME AInv, NEW p \in Procs, Leaves(p)
    PROVE  /\ Active(p) /\ Left(p) /\ TypeOK' /\ data' = data
           /\ tmp' = tmp \/ (pc[p] # "commit" /\ tmp' = [tmp EXCEPT ![Path(p)] = None])
           /\ \/ file' = file
              \/ /\ pc[p] = "rename" /\ tmp[Path(p)] # None
                 /\ file' = [file EXCEPT ![Path(p)] = tmp[Path(p)]]
                 /\ tmp' = [tmp EXCEPT ![Path(p)] = None]
           /\ \/ recorded' = recorded
              \/ pc'[p] = "idle" /\ recorded' = [recorded EXCEPT ![p] = version[p]]
<1>1. Active(p)
  BY DEF Leaves, Active, OpenFails, WriteFails, Rename, RenameFails, Commit, Crash
<1>2. Left(p)
  BY <1>1, LeaveLeft, AdvanceLeft, FailedLeft
     DEF Leaves, OpenFails, WriteFails, Rename, RenameFails, Commit, Crash
<1>3. tmp' = tmp \/ (pc[p] # "commit" /\ tmp' = [tmp EXCEPT ![Path(p)] = None])
  BY DEF Leaves, OpenFails, WriteFails, Rename, RenameFails, Commit, Crash, disk
<1>4. \/ file' = file
      \/ /\ pc[p] = "rename" /\ tmp[Path(p)] # None
         /\ file' = [file EXCEPT ![Path(p)] = tmp[Path(p)]]
         /\ tmp' = [tmp EXCEPT ![Path(p)] = None]
  BY DEF Leaves, OpenFails, WriteFails, Rename, RenameFails, Commit, Crash, disk
<1>5. \/ recorded' = recorded
      \/ pc'[p] = "idle" /\ recorded' = [recorded EXCEPT ![p] = version[p]]
  BY DEF Leaves, OpenFails, WriteFails, Rename, RenameFails, Commit, Crash, Leave,
         AInv, TypeOK
<1>6. data' = data /\ readOnly' = readOnly /\ used' = used
  BY DEF Leaves, OpenFails, WriteFails, Rename, RenameFails, Commit, Crash, disk
<1>7. TypeOK'
  <2>1. pc[p] # "commit" => Path(p) \in Paths
    BY <1>1, PathOfPlan
  <2>2. tmp' \in [Paths -> Inodes \cup {None}] /\ file' \in [Paths -> Inodes \cup {None}]
    BY <1>3, <1>4, <2>1 DEF AInv, TypeOK
  <2>3. version[p] \in 0 .. MaxVersion
    BY DEF AInv, TypeOK
  <2>4. recorded' \in [Procs -> 0 .. MaxVersion]
    BY <1>5, <2>3 DEF AInv, TypeOK
  <2> QED BY <1>2, <1>6, <2>2, <2>4, LeftTypes DEF AInv, TypeOK
<1> QED BY <1>1, <1>2, <1>3, <1>4, <1>5, <1>6, <1>7

LEMMA ArtifactsStep == OneWriterPerPath /\ AInv /\ [Next]_vars => AInv'
<1> SUFFICES ASSUME OneWriterPerPath, AInv, [Next]_vars PROVE AInv'
  OBVIOUS
<1>1. ASSUME NEW p \in Procs, Leaves(p) PROVE AInv'
  BY <1>1, LeavesLeft, LeftKeeps
<1>2. CASE UNCHANGED vars
  BY <1>2 DEF vars, disk, procs, AInv, TypeOK, OnItsPlan, HoldsItsTmp, NoAlias, Intact,
              Ordered, Active, InFile, Path, Result, Content
<1> QED BY <1>1, <1>2, BeginKeeps, OpenTmpKeeps, WriteKeeps, SealKeeps
        DEF Next, Leaves

(***************************************************************************)
(* Every step of write_file is a step of AtomicFile or leaves its          *)
(* variables alone: opening <path>.tmp starts a call, the rename replaces  *)
(* the published file, any other way out gives the call up.                *)
(***************************************************************************)
LEMMA ContractInit == Init => AF!Init
BY DEF Init, AF!Init, Published, Call, InFile

\* What a step shows of process p, when the others show what they did.
CallBecomes(p, c) == Call' = [Call EXCEPT ![p] = c]

LEMMA CallOf ==
    ASSUME AInv, NEW p \in Procs, NEW c,
           \A q \in Procs : q # p => /\ pc'[q] = pc[q] /\ todo'[q] = todo[q]
                                    /\ version'[q] = version[q]
                                    /\ (q \in late' <=> q \in late),
           c = IF InFile(p)' THEN <<Path(p), Result(p)>>' ELSE None
    PROVE  CallBecomes(p, c)
<1>1. \A q \in Procs : q # p => Call'[q] = Call[q]
  BY DEF Call, InFile, Path, Result, Content
<1>2. Call'[p] = c
  BY DEF Call
<1> QED BY <1>1, <1>2 DEF Call, CallBecomes

(***************************************************************************)
(* What readers find changes by a rename alone, at one path and to what    *)
(* the process at it wrote.                                                *)
(***************************************************************************)
Shows(p) ==
    /\ Rename(p) => /\ Path(p) \in Paths /\ InFile(p)
                    /\ Published' = [Published EXCEPT ![Path(p)] = Result(p)]
    /\ ~Rename(p) => Published' = Published

LEMMA StepShows ==
    ASSUME OneWriterPerPath, AInv, AInv', NEW p \in Procs,
           Begin(p) \/ OpenTmp(p) \/ Write(p) \/ Seal(p) \/ Leaves(p)
    PROVE  Shows(p)
<1> USE NoneAssumption
<1>1. CASE Begin(p) \/ Seal(p)
  BY <1>1 DEF Begin, Seal, Rename, disk, Published, Shows
<1>2. CASE OpenTmp(p)
  <2>1. Path(p) \in Paths
    BY <1>2, PathOfPlan DEF OpenTmp, Active
  <2>2. InFile(p)' /\ fd'[p] = OpenedInode(p) /\ Path(p)' = Path(p)
    BY <1>2 DEF OpenTmp, AInv, TypeOK, InFile, Path
  <2>3. OpenedInode(p) \in Inodes /\ tmp'[Path(p)] = OpenedInode(p) /\ file' = file
    BY <1>2, <2>1, <2>2 DEF OpenTmp, AInv, TypeOK, HoldsItsTmp
  <2>4. \A a \in Paths : file[a] # OpenedInode(p)
    BY <2>1, <2>3 DEF AInv, NoAlias
  <2> QED BY <1>2, <2>4 DEF OpenTmp, Rename, Published, AInv, TypeOK, Shows
<1>3. CASE Write(p)
  <2>1. \A a \in Paths : file[a] # fd[p]
    BY <1>3, OwnInode DEF Write, InFile
  <2> QED BY <1>3, <2>1 DEF Write, Rename, Published, AInv, TypeOK, Shows
<1>4. CASE Rename(p)
  <2>1. Leaves(p) /\ InFile(p) /\ pc[p] = "rename"
    BY <1>4 DEF Leaves, Rename, InFile
  <2>2. /\ Path(p) \in Paths /\ tmp[Path(p)] = fd[p] /\ data[fd[p]] = Result(p)
        /\ fd[p] \in Inodes
    BY <2>1, OwnInode DEF AInv, Intact
  <2> DEFINE x == Path(p)
  <2>3. x \in Paths /\ file' = [file EXCEPT ![x] = tmp[x]] /\ data[tmp[x]] = Result(p)
        /\ tmp[x] # None /\ data' = data
    BY <1>4, <2>2 DEF Rename
  <2> HIDE DEF x
  <2>4. Published' = [Published EXCEPT ![x] = Result(p)]
    BY <2>3 DEF Published, AInv, TypeOK
  <2> QED BY <1>4, <2>1, <2>3, <2>4 DEF Shows, x
<1>5. CASE Leaves(p) /\ ~Rename(p)
  BY <1>5 DEF Leaves, OpenFails, WriteFails, RenameFails, Commit, Crash, disk, Published,
              Shows
<1> QED BY <1>1, <1>2, <1>3, <1>4, <1>5

(***************************************************************************)
(* A process inside write_file has a call in progress.                     *)
(***************************************************************************)
LEMMA CallIsCall ==
    ASSUME OneWriterPerPath, AInv, NEW p \in Procs, InFile(p)
    PROVE  Call[p] = <<Path(p), Result(p)>> /\ Call[p] # None
<1>1. Path(p) \in Paths
  BY OwnInode
<1>2. version[p] \in Int
  BY DEF AInv, TypeOK
<1>3. Result(p) \in Int
  BY <1>2 DEF Result, Content, Part, Torn
<1>4. Call[p] = <<Path(p), Result(p)>>
  BY DEF Call
<1> QED BY <1>1, <1>3, <1>4, NoneAssumption

LEMMA ContractStep == OneWriterPerPath /\ AInv /\ AInv' /\ [Next]_vars => [AF!Next]_(AF!vars)
<1> SUFFICES ASSUME OneWriterPerPath, AInv, AInv', [Next]_vars PROVE [AF!Next]_(AF!vars)
  OBVIOUS
<1> USE NoneAssumption
<1>1. ASSUME NEW p \in Procs, Begin(p) PROVE UNCHANGED <<Published, Call>>
  <2>1. UNCHANGED <<file, data, late>> /\ ~InFile(p) /\ ~InFile(p)'
    BY <1>1 DEF Begin, disk, InFile, AInv, TypeOK
  <2>2. \A q \in Procs : q # p => /\ pc'[q] = pc[q] /\ todo'[q] = todo[q]
                                  /\ version'[q] = version[q]
    BY <1>1 DEF Begin, AInv, TypeOK
  <2>3. Call' = [Call EXCEPT ![p] = None]
    BY <2>1, <2>2, CallOf DEF CallBecomes
  <2> QED BY <2>1, <2>3 DEF Published, Call
<1>2. ASSUME NEW p \in Procs, OpenTmp(p) PROVE AF!Start(p)
  <2>1. /\ Path(p) \in Paths /\ version[p] \in Versions /\ ~InFile(p) /\ ~Rename(p)
        /\ p \notin late
    BY <1>2, PathOfPlan
       DEF OpenTmp, Rename, Active, AInv, OnItsPlan, Intact, InFile
  <2>2. /\ InFile(p)' /\ Path(p)' = Path(p) /\ version' = version /\ late' = late
        /\ \A q \in Procs : q # p => /\ pc'[q] = pc[q] /\ todo'[q] = todo[q]
                                     /\ version'[q] = version[q]
    BY <1>2 DEF OpenTmp, AInv, TypeOK, InFile, Path
  <2>3. Result(p)' = version[p]
    BY <2>1, <2>2 DEF Result, Content
  <2>4. Call' = [Call EXCEPT ![p] = <<Path(p), version[p]>>]
    BY <2>2, <2>3, CallOf DEF CallBecomes
  <2>5. Call[p] = None
    BY <2>1 DEF Call
  <2>6. Published' = Published
    BY <1>2, <2>1, StepShows DEF Shows
  <2> QED BY <2>1, <2>4, <2>5, <2>6 DEF AF!Start
<1>3. ASSUME NEW p \in Procs, Write(p)
      PROVE  AF!LateError(p) \/ UNCHANGED <<Published, Call>>
  <2>1. /\ ~Rename(p) /\ InFile(p) /\ InFile(p)' /\ Path(p)' = Path(p) /\ p \notin late
        /\ version' = version /\ version[p] \in Versions
    BY <1>3 DEF Write, Rename, InFile, Path, Active, AInv, TypeOK, Intact, OnItsPlan
  <2>2. Published' = Published
    BY <1>3, <2>1, StepShows DEF Shows
  <2>3. /\ \A q \in Procs : q # p => /\ pc'[q] = pc[q] /\ todo'[q] = todo[q]
                                     /\ version'[q] = version[q]
                                     /\ (q \in late' <=> q \in late)
        /\ late' = late \/ late' = late \cup {p}
    BY <1>3 DEF Write, AInv, TypeOK
  <2>4. Call[p] = <<Path(p), version[p]>> /\ Call[p] # None
    <3>1. <<Path(p), version[p]>> \in Paths \X Int
      BY <1>3, <2>1, OwnInode, CommandAssumption DEF Versions
    <3>2. Call[p] = <<Path(p), version[p]>>
      BY <2>1 DEF Call, Result, Content
    <3> QED BY <3>1, <3>2
  <2>5. CASE p \in late'
    <3>1. Result(p)' = Part(version[p])
      BY <2>1, <2>5 DEF Result, Content
    <3>2. Call' = [Call EXCEPT ![p] = <<Path(p), Part(version[p])>>]
      BY <2>1, <2>3, <3>1, CallOf DEF CallBecomes
    <3> DEFINE remnant == [v \in Versions |-> Part(v)]
    <3>3. remnant[version[p]] = Part(version[p])
      BY <2>1
    <3>4. Call[p][1] = Path(p) /\ Call[p][2] = version[p]
      BY <2>4
    <3> QED BY <2>1, <2>2, <2>4, <3>2, <3>3, <3>4 DEF AF!LateError
  <2>6. CASE p \notin late'
    <3>1. Result(p)' = version[p]
      BY <2>1, <2>6 DEF Result, Content
    <3>2. Call' = [Call EXCEPT ![p] = <<Path(p), version[p]>>]
      BY <2>1, <2>3, <3>1, CallOf DEF CallBecomes
    <3> QED BY <2>2, <2>4, <3>2 DEF Call
  <2> QED BY <2>5, <2>6
<1>4. ASSUME NEW p \in Procs, Seal(p) PROVE UNCHANGED <<Published, Call>>
  BY <1>4 DEF Seal, Published, Call, InFile, Path, Result, Content, AInv, TypeOK
<1>5. ASSUME NEW p \in Procs, Leaves(p)
      PROVE  AF!Replace(p) \/ AF!GiveUp(p) \/ UNCHANGED <<Published, Call>>
  <2>1. Active(p) /\ Left(p)
    BY <1>5, LeavesLeft
  <2>2. ~InFile(p)' /\ \A q \in Procs : q # p =>
            /\ pc'[q] = pc[q] /\ todo'[q] = todo[q] /\ version'[q] = version[q]
            /\ (q \in late' <=> q \in late)
    BY <2>1 DEF Left, InFile, AInv, TypeOK
  <2>3. Call' = [Call EXCEPT ![p] = None]
    BY <2>2, CallOf DEF CallBecomes
  <2>4. CASE Published' = Published /\ InFile(p)
    <3>1. Call[p] # None
      BY <2>4, CallIsCall
    <3> QED BY <2>3, <2>4, <3>1 DEF AF!GiveUp
  <2>5. CASE Published' = Published /\ ~InFile(p)
    BY <2>3, <2>5 DEF Call
  <2>6. CASE /\ InFile(p) /\ Path(p) \in Paths
             /\ Published' = [Published EXCEPT ![Path(p)] = Result(p)]
    <3>1. Call[p] = <<Path(p), Result(p)>> /\ Call[p] # None
      BY <2>6, CallIsCall
    <3> QED BY <2>3, <2>6, <3>1 DEF AF!Replace
  <2> QED BY <1>5, <2>4, <2>5, <2>6, StepShows DEF Shows
<1>6. CASE UNCHANGED vars
  BY <1>6 DEF vars, disk, procs, AF!vars, Published, Call, InFile, Path, Result,
              Content
<1> QED BY <1>1, <1>2, <1>3, <1>4, <1>5, <1>6 DEF Next, Leaves, AF!Next, AF!vars

(***************************************************************************)
(* write_pem and write_der keep their contract as far as they can: a       *)
(* published file is replaced in one step, by what its writer wrote, or    *)
(* not at all, with any number of processes, crashes, writes that fail and *)
(* errors at close that nobody sees, when writers of one path are kept     *)
(* apart.                                                                  *)
(***************************************************************************)
THEOREM WriteFileIsAtomic == ASSUME OneWriterPerPath PROVE Spec => Contract
<1>1. Init => AInv
  BY ArtifactsInit
<1>2. AInv /\ [Next]_vars => AInv'
  BY ArtifactsStep
<1>3. AInv /\ AInv' /\ [Next]_vars => [AF!Next]_(AF!vars)
  BY ContractStep
<1> QED BY <1>1, <1>2, <1>3, ContractInit, PTL DEF Spec, Contract, AF!Spec

-----------------------------------------------------------------------------
(***************************************************************************)
(* The published files and the database.  The invariant behind             *)
(* RecordedIsComplete and CommittedIsPublished: a command that records has *)
(* delivered every file it no longer has to replace; versions are given    *)
(* out in order, and who rewrites a CRL has a later one than anything      *)
(* recorded about that CRL; and a CRL was republished only after its       *)
(* generation was recorded.                                                *)
(***************************************************************************)
Delivered ==
    \A p \in Procs : Active(p) /\ Command[p] \in {"mint", "revoke"} =>
        /\ pc[p] = "commit" => todo[p] = <<>>
        /\ \A path \in Range(Plan[p]) \ Range(todo[p]) :
              Published[path] \in OfVersions({version[p]})

Numbered ==
    /\ \A p \in Procs : version[p] <= used /\ recorded[p] <= used
    /\ \A q \in Republishers, r \in Procs :
          Active(q) /\ (r \in Republishers \/ (r = MintOf[q] /\ Command[r] = "mint"))
          => recorded[r] < version[q]

Founded == \A q \in Republishers : recorded[q] # 0 => recorded[MintOf[q]] # 0

DInv == /\ AInv /\ Delivered /\ Numbered /\ Founded
        /\ RecordedIsComplete /\ CommittedIsPublished

Step(p) == Begin(p) \/ OpenTmp(p) \/ Write(p) \/ Seal(p) \/ Leaves(p)

LEMMA StepMovesOne ==
    ASSUME AInv, NEW p \in Procs, Step(p)
    PROVE  /\ \A q \in Procs : q # p => /\ pc'[q] = pc[q] /\ todo'[q] = todo[q]
                                        /\ version'[q] = version[q]
                                        /\ recorded'[q] = recorded[q]
                                        /\ (Active(q)' <=> Active(q))
           /\ Begin(p) \/ (version' = version /\ used' = used)
           /\ \/ recorded' = recorded
              \/ Begin(p) /\ Command[p] = "issue" /\ recorded'[p] = used'
              \/ /\ Commit(p) /\ Command[p] \in {"mint", "revoke"}
                 /\ recorded'[p] = version[p]
           /\ ~Begin(p) => Active(p)
<1>1. CASE Begin(p)
  BY <1>1 DEF Begin, AInv, TypeOK, Active
<1>2. CASE OpenTmp(p) \/ Write(p) \/ Seal(p)
  BY <1>2 DEF OpenTmp, Write, Seal, AInv, TypeOK, Active
<1>3. CASE Leaves(p)
  <2>1. Active(p) /\ Left(p)
    BY <1>3, LeavesLeft
  <2>2. used' = used
    BY <1>3 DEF Leaves, OpenFails, WriteFails, Rename, RenameFails, Commit, Crash
  <2>3. \/ recorded' = recorded
        \/ /\ Commit(p) /\ Command[p] \in {"mint", "revoke"}
           /\ recorded' = [recorded EXCEPT ![p] = version[p]]
    BY <1>3 DEF Leaves, OpenFails, WriteFails, Rename, RenameFails, Commit, Crash
  <2> QED BY <2>1, <2>2, <2>3 DEF Left, AInv, TypeOK, Active
<1> QED BY <1>1, <1>2, <1>3 DEF Step

(***************************************************************************)
(* While a command that records is at work, nobody else is at its files.   *)
(***************************************************************************)
LEMMA AloneAtWork ==
    ASSUME OneWriterPerPath, AInv, NEW p \in Procs, NEW q \in Procs, p # q,
           Active(p), Command[p] \in {"mint", "revoke"}, Active(q),
           Range(Plan[p]) \cap Range(Plan[q]) # {}
    PROVE  FALSE
<1>1. KeptApart(p, q)
  BY DEF OneWriterPerPath
<1> QED BY <1>1 DEF KeptApart, AInv, Ordered

(***************************************************************************)
(* What is recorded stays so, and at p's files only p and, once p has      *)
(* recorded, who rewrites its CRL with a later version.                    *)
(***************************************************************************)
LEMMA LaterWriter ==
    ASSUME OneWriterPerPath, DInv, NEW p \in Procs, NEW q \in Procs,
           Command[p] \in {"mint", "revoke"}, recorded[p] # 0, Active(q),
           Range(Plan[p]) \cap Range(Plan[q]) # {}
    PROVE  /\ q \in Republishers /\ recorded[p] < version[q]
           /\ Command[p] = "mint" => MintOf[q] = p
<1>1. CASE p = q
  <2>1. Command[p] = "revoke" /\ q \in Republishers /\ p \in Republishers
    BY <1>1 DEF DInv, AInv, Ordered, Republishers
  <2> QED BY <1>1, <2>1 DEF DInv, Numbered
<1>2. CASE p # q
  <2>1. KeptApart(p, q)
    BY <1>2 DEF OneWriterPerPath
  <2>2. ~(p \in Republishers /\ MintOf[p] = q /\ Command[q] = "mint")
    BY DEF DInv, AInv, Ordered, Founded
  <2>3. Command[p] = "mint" => p \notin Republishers
    BY DEF Republishers
  <2>4. q \in Republishers /\ (Command[p] = "mint" => MintOf[q] = p)
    BY <2>1, <2>2, <2>3 DEF KeptApart
  <2>5. p \in Republishers \/ (p = MintOf[q] /\ Command[p] = "mint")
    BY <2>4 DEF Republishers
  <2> QED BY <2>4, <2>5 DEF DInv, Numbered
<1> QED BY <1>1, <1>2

LEMMA PlannedPaths == \A p \in Procs : Range(Plan[p]) \subseteq Paths
<1> SUFFICES ASSUME NEW p \in Procs, NEW i \in 1 .. Len(Plan[p])
             PROVE  Plan[p][i] \in Paths
  BY DEF Range
<1>1. Plan[p] \in Seq(Paths)
  BY CommandAssumption
<1> QED BY <1>1

LEMMA ResultOfVersion == \A p \in Procs : Result(p) \in OfVersions({version[p]})
BY DEF Result, Content, OfVersions

LEMMA DeliveredStep ==
    ASSUME OneWriterPerPath, DInv, AInv', NEW p \in Procs, Step(p) PROVE Delivered'
<1> SUFFICES ASSUME NEW q \in Procs, Active(q)', Command[q] \in {"mint", "revoke"}
             PROVE  /\ pc'[q] = "commit" => todo'[q] = <<>>
                    /\ \A path \in Range(Plan[q]) \ Range(todo'[q]) :
                          Published'[path] \in OfVersions({version'[q]})
  BY DEF Delivered
<1>1. Shows(p)
  BY StepShows DEF DInv, Step
<1>2. /\ \A r \in Procs : r # p => /\ pc'[r] = pc[r] /\ todo'[r] = todo[r]
                                   /\ version'[r] = version[r]
                                   /\ (Active(r)' <=> Active(r))
      /\ Begin(p) \/ (version' = version /\ Active(p))
  BY StepMovesOne DEF DInv
<1>3. CASE q # p
  <2>1. Active(q) /\ pc'[q] = pc[q] /\ todo'[q] = todo[q] /\ version'[q] = version[q]
    BY <1>2, <1>3
  <2>2. ASSUME NEW path \in Range(Plan[q]), Published'[path] # Published[path]
        PROVE  FALSE
    <3>1. Rename(p) /\ Published' = [Published EXCEPT ![Path(p)] = Result(p)]
      BY <1>1, <2>2 DEF Shows
    <3>2. path = Path(p)
      BY <2>2, <3>1, PlannedPaths DEF Published
    <3>3. Active(p) /\ Path(p) \in Range(Plan[p])
      BY <3>1, PathOfPlan DEF Rename, Active, DInv
    <3> QED BY <1>3, <2>1, <2>2, <3>2, <3>3, AloneAtWork DEF DInv
  <2> QED BY <2>1, <2>2 DEF DInv, Delivered
<1>4. CASE q = p
  <2>1. CASE Begin(p)
    <3>1. pc'[p] = "open" /\ todo'[p] = Plan[p]
      BY <2>1 DEF Begin, DInv, AInv, TypeOK
    <3> QED BY <1>4, <3>1
  <2>2. CASE OpenTmp(p) \/ Write(p) \/ Seal(p)
    <3>1. /\ todo' = todo /\ version' = version /\ pc'[p] # "commit" /\ ~Rename(p)
          /\ Active(p)
      BY <2>2 DEF OpenTmp, Write, Seal, Rename, DInv, AInv, TypeOK, Active
    <3> QED BY <1>1, <1>4, <3>1 DEF Shows, DInv, Delivered
  <2>3. CASE Rename(p)
    <3>1. todo[p] \in Seq(Paths) /\ todo[p] # <<>> /\ Active(p)
      BY <2>3 DEF DInv, AInv, TypeOK, OnItsPlan, Rename, Active
    <3> DEFINE rest == Tail(todo[p])
    <3>2. /\ todo'[p] = rest /\ version' = version
          /\ pc'[p] = IF rest = <<>> THEN "commit" ELSE "open"
      BY <2>3 DEF Rename, Advance, DInv, AInv, TypeOK
    <3>3. Range(todo[p]) \subseteq Range(rest) \cup {Path(p)}
      <4> SUFFICES ASSUME NEW i \in 1 .. Len(todo[p]), i # 1
                   PROVE  todo[p][i] \in Range(rest)
        BY <3>1 DEF Range, Path
      <4>1. i - 1 \in 1 .. Len(rest) /\ rest[i - 1] = todo[p][i]
        BY <3>1
      <4> HIDE DEF rest
      <4> QED BY <4>1 DEF Range
    <3> HIDE DEF rest
    <3>4. Path(p) \in Paths /\ Published' = [Published EXCEPT ![Path(p)] = Result(p)]
      BY <1>1, <2>3 DEF Shows
    <3>6. Published'[Path(p)] \in OfVersions({version[p]})
      BY <3>4, ResultOfVersion DEF Published
    <3>7. \A path \in Paths : path # Path(p) => Published'[path] = Published[path]
      BY <3>4 DEF Published
    <3>9. ASSUME NEW path \in Range(Plan[p]) \ Range(rest)
          PROVE  Published'[path] \in OfVersions({version[p]})
      <4>1. CASE path = Path(p)
        BY <4>1, <3>6
      <4>2. CASE path # Path(p)
        BY <4>2, <1>4, <3>1, <3>3, <3>7, <3>9, PlannedPaths
           DEF DInv, Delivered
      <4> QED BY <4>1, <4>2
    <3> QED BY <1>4, <3>2, <3>9
  <2>4. CASE Leaves(p) /\ ~Rename(p)
    <3>1. pc'[p] = "idle"
      <4>1. Command[p] \notin {"issue", "refresh"}
        BY <1>4
      <4>2. Leave(p)
        BY <2>4, <4>1 DEF Leaves, OpenFails, WriteFails, RenameFails, Commit, Crash,
                          Failed
      <4> QED BY <4>2 DEF Leave, DInv, AInv, TypeOK
    <3> QED BY <1>4, <3>1 DEF Active
  <2> QED BY <2>1, <2>2, <2>3, <2>4 DEF Step
<1> QED BY <1>3, <1>4

LEMMA NumberedStep ==
    ASSUME DInv, AInv', NEW p \in Procs, Step(p) PROVE Numbered'
<1>1. /\ \A q \in Procs : q # p => /\ version'[q] = version[q]
                                   /\ recorded'[q] = recorded[q]
                                   /\ (Active(q)' <=> Active(q))
      /\ Begin(p) \/ (version' = version /\ used' = used)
      /\ \/ recorded' = recorded
         \/ Begin(p) /\ Command[p] = "issue" /\ recorded'[p] = used'
         \/ /\ Commit(p) /\ Command[p] \in {"mint", "revoke"}
            /\ recorded'[p] = version[p]
      /\ ~Begin(p) => Active(p)
  BY StepMovesOne DEF DInv
<1>2. /\ used \in Nat /\ \A q \in Procs : version[q] \in Nat /\ recorded[q] \in Nat
      /\ \A q \in Procs : version[q] <= used /\ recorded[q] <= used
  <2>1. \A q \in Procs : version[q] <= used /\ recorded[q] <= used
    BY DEF DInv, Numbered
  <2> QED BY <2>1, CommandAssumption DEF DInv, AInv, TypeOK
<1>3. Begin(p) => used' = used + 1 /\ version'[p] = used + 1 /\ ~Active(p)
  BY DEF Begin, DInv, AInv, TypeOK, Active
<1>6. Begin(p) => ~Commit(p)
  BY DEF Begin, Commit
<1>4. \A q \in Procs : version'[q] <= used' /\ recorded'[q] <= used'
  BY <1>1, <1>2, <1>3
<1>5. ASSUME NEW q \in Republishers, NEW r \in Procs, Active(q)',
             r \in Republishers \/ (r = MintOf[q] /\ Command[r] = "mint")
      PROVE  recorded'[r] < version'[q]
  <2>1. q \in Procs /\ Command[r] # "issue" /\ (r # q \/ r \in Republishers)
    BY <1>5 DEF Republishers
  <2>2. CASE Begin(p) /\ q = p
    <3>1. recorded'[r] = recorded[r]
      BY <1>1, <1>6, <2>1, <2>2
    <3> QED BY <1>2, <1>3, <2>2, <3>1
  <2>3. CASE Begin(p) /\ q # p
    <3>1. recorded'[r] = recorded[r] /\ Active(q) /\ version'[q] = version[q]
      BY <1>1, <1>5, <1>6, <2>1, <2>3
    <3> QED BY <1>5, <3>1 DEF DInv, Numbered
  <2>4. CASE ~Begin(p)
    <3>1. Active(q) /\ version'[q] = version[q]
      BY <1>1, <1>5, <2>1, <2>4
    <3>2. CASE recorded'[r] = recorded[r]
      BY <1>5, <3>1, <3>2 DEF DInv, Numbered
    <3>3. CASE recorded'[r] # recorded[r]
      <4>1. r = p /\ Commit(p) /\ Active(r)
        BY <1>1, <2>4, <3>3
      <4>2. r = q
        BY <1>5, <2>1, <3>1, <4>1 DEF DInv, AInv, Ordered
      <4>3. pc'[q] = "idle"
        BY <4>1, <4>2 DEF Commit, Leave, DInv, AInv, TypeOK
      <4> QED BY <1>5, <4>3 DEF Active
    <3> QED BY <3>2, <3>3
  <2> QED BY <2>2, <2>3, <2>4
<1> QED BY <1>4, <1>5 DEF Numbered

LEMMA FoundedStep ==
    ASSUME DInv, AInv', NEW p \in Procs, Step(p) PROVE Founded'
<1> SUFFICES ASSUME NEW q \in Republishers, recorded'[q] # 0
             PROVE  recorded'[MintOf[q]] # 0
  BY DEF Founded
<1>1. /\ \A r \in Procs : r # p => recorded'[r] = recorded[r]
      /\ \/ recorded' = recorded
         \/ Begin(p) /\ Command[p] = "issue" /\ recorded'[p] = used'
         \/ /\ Commit(p) /\ Command[p] \in {"mint", "revoke"}
            /\ recorded'[p] = version[p]
      /\ ~Begin(p) => Active(p)
  BY StepMovesOne DEF DInv
<1>2. q \in Procs /\ MintOf[q] \in Procs
  BY CommandAssumption DEF Republishers
<1>3. \A r \in Procs : recorded[r] # 0 => recorded'[r] # 0
  <2>1. Active(p) => version[p] # 0
    BY CommandAssumption DEF DInv, AInv, OnItsPlan, Versions
  <2>2. Begin(p) => used' # 0
    BY CommandAssumption DEF Begin, DInv, AInv, TypeOK
  <2> QED BY <1>1, <2>1, <2>2 DEF Commit, Active
<1>4. CASE recorded[q] # 0
  BY <1>2, <1>3, <1>4 DEF DInv, Founded
<1>5. CASE recorded[q] = 0
  <2>1. q = p /\ Commit(p) /\ Active(p)
    BY <1>1, <1>2, <1>5 DEF Republishers, Commit, Active
  <2> QED BY <1>2, <1>3, <2>1 DEF DInv, AInv, Ordered
<1> QED BY <1>4, <1>5

(***************************************************************************)
(* What a command finds published when it records, and what a later writer *)
(* may put in its place.                                                   *)
(***************************************************************************)
LEMMA PublishedStep ==
    ASSUME OneWriterPerPath, DInv, AInv', Numbered', NEW p \in Procs, Step(p)
    PROVE  RecordedIsComplete' /\ CommittedIsPublished'
<1> SUFFICES ASSUME NEW r \in Procs, Command[r] \in {"mint", "revoke"},
                    recorded'[r] # 0, NEW path \in Range(Plan[r])
             PROVE  /\ Command[r] = "mint" =>
                          \/ Published'[path] \in OfVersions({recorded'[r]})
                          \/ /\ \E q \in Republishers :
                                   MintOf[q] = r /\ path \in Range(Plan[q])
                             /\ Published'[path] \in
                                   OfVersions(recorded'[r] .. MaxVersion)
                    /\ Command[r] = "revoke" =>
                          Published'[path] \in
                             OfVersions(recorded'[r] .. MaxVersion)
  BY DEF RecordedIsComplete, CommittedIsPublished
<1>1. Shows(p)
  BY StepShows DEF DInv, Step
<1>2. /\ \A q \in Procs : q # p => recorded'[q] = recorded[q]
      /\ \/ recorded' = recorded
         \/ Begin(p) /\ Command[p] = "issue" /\ recorded'[p] = used'
         \/ /\ Commit(p) /\ Command[p] \in {"mint", "revoke"}
            /\ recorded'[p] = version[p]
      /\ ~Begin(p) => Active(p)
  BY StepMovesOne DEF DInv
<1>3. path \in Paths
  BY PlannedPaths
<1>4. CASE recorded'[r] # recorded[r]
  <2>1. r = p /\ Commit(p) /\ recorded'[r] = version[p]
    BY <1>2, <1>4
  <2>2. Active(p) /\ pc[p] = "commit" /\ ~Rename(p)
    BY <2>1 DEF Commit, Rename, Active
  <2>3. todo[p] = <<>> /\ Range(todo[p]) = {}
    <3>1. todo[p] = <<>>
      BY <2>1, <2>2 DEF DInv, Delivered
    <3> QED BY <3>1 DEF Range
  <2>4. Published'[path] \in OfVersions({version[p]})
    BY <1>1, <2>1, <2>2, <2>3 DEF Shows, DInv, Delivered
  <2>5. version[p] \in version[p] .. MaxVersion
    BY CommandAssumption DEF DInv, AInv, TypeOK
  <2>6. Published'[path] \in OfVersions(version[p] .. MaxVersion)
    BY <2>4, <2>5 DEF OfVersions
  <2> QED BY <2>1, <2>4, <2>6
<1>5. CASE recorded'[r] = recorded[r]
  <2>1. CASE Published'[path] = Published[path]
    BY <1>5, <2>1 DEF DInv, RecordedIsComplete, CommittedIsPublished
  <2>2. CASE Published'[path] # Published[path]
    <3>1. /\ Rename(p) /\ path = Path(p) /\ Published'[path] = Result(p)
      BY <1>1, <1>3, <2>2 DEF Shows, Published
    <3>2. Active(p) /\ path \in Range(Plan[p])
      BY <3>1, PathOfPlan DEF Rename, Active, DInv
    <3>3. /\ p \in Republishers /\ recorded[r] < version[p]
          /\ Command[r] = "mint" => MintOf[p] = r
      BY <1>5, <3>2, LaterWriter
    <3>4. version[p] \in recorded[r] .. MaxVersion
      <4>1. /\ version[p] \in 0 .. MaxVersion /\ recorded[r] \in 0 .. MaxVersion
            /\ MaxVersion \in Nat
        BY CommandAssumption DEF DInv, AInv, TypeOK
      <4> QED BY <3>3, <4>1
    <3>5. Result(p) \in OfVersions(recorded[r] .. MaxVersion)
      BY <3>4, ResultOfVersion DEF OfVersions
    <3> QED BY <1>5, <3>1, <3>2, <3>3, <3>5
  <2> QED BY <2>1, <2>2
<1> QED BY <1>4, <1>5

LEMMA DatabaseInit == Init => DInv
<1> SUFFICES ASSUME Init PROVE DInv
  OBVIOUS
<1>1. AInv
  BY ArtifactsInit
<1>2. \A p \in Procs : ~Active(p) /\ recorded[p] = 0 /\ version[p] = 0 /\ used = 0
  BY DEF Init, Active
<1>3. \A q \in Republishers : q \in Procs
  BY DEF Republishers
<1> QED BY <1>1, <1>2, <1>3
        DEF DInv, Delivered, Numbered, Founded, RecordedIsComplete, CommittedIsPublished

LEMMA DatabaseStep == OneWriterPerPath /\ DInv /\ [Next]_vars => DInv'
<1> SUFFICES ASSUME OneWriterPerPath, DInv, [Next]_vars PROVE DInv'
  OBVIOUS
<1>1. AInv'
  BY ArtifactsStep DEF DInv
<1>2. ASSUME NEW p \in Procs, Step(p) PROVE DInv'
  BY <1>1, <1>2, DeliveredStep, NumberedStep, FoundedStep, PublishedStep DEF DInv
<1>3. CASE UNCHANGED vars
  <2>1. UNCHANGED <<pc, todo, version, used, recorded>> /\ Published' = Published
    BY <1>3 DEF vars, disk, procs, Published
  <2>2. Delivered' /\ Numbered' /\ Founded'
    BY <2>1 DEF DInv, Delivered, Numbered, Founded, Active
  <2>3. RecordedIsComplete' /\ CommittedIsPublished'
    BY <2>1 DEF DInv, RecordedIsComplete, CommittedIsPublished
  <2> QED BY <1>1, <2>2, <2>3 DEF DInv
<1> QED BY <1>2, <1>3 DEF Next, Step, Leaves

(***************************************************************************)
(* "Artifacts before the database": a recorded CA generation has every     *)
(* file it publishes, whatever crashed or failed, for any number of        *)
(* commands and files (mint_ca_generation, write_ca_artifacts); a file is  *)
(* whole but for what an error at close lost.                              *)
(***************************************************************************)
THEOREM RecordedGenerationsArePublished ==
    ASSUME OneWriterPerPath PROVE Spec => []RecordedIsComplete
<1>1. DInv /\ [Next]_vars => DInv'
  BY DatabaseStep
<1>2. DInv => RecordedIsComplete
  BY DEF DInv
<1> QED BY <1>1, <1>2, DatabaseInit, PTL DEF Spec

(***************************************************************************)
(* The database is never ahead of the CRL: the file of a committed         *)
(* revocation, or a later one, is on disk, whole but for what an error at  *)
(* close lost (revoke writes before it commits, under the write lock).     *)
(***************************************************************************)
THEOREM CommittedRevocationsArePublished ==
    ASSUME OneWriterPerPath PROVE Spec => []CommittedIsPublished
<1>1. DInv /\ [Next]_vars => DInv'
  BY DatabaseStep
<1>2. DInv => CommittedIsPublished
  BY DEF DInv
<1> QED BY <1>1, <1>2, DatabaseInit, PTL DEF Spec
=============================================================================
