-------------------------- MODULE WatchLoopProofs ---------------------------
(***************************************************************************)
(* Proofs about WatchLoop, for every set of files and jobs, debounce and   *)
(* bound on faults and crashes: the watcher waits before it reloads, and   *)
(* the file operations and the load implement Directory.                   *)
(***************************************************************************)
EXTENDS WatchLoop, FiniteSetTheorems, WellFoundedInduction, TLAPS

\* What the assumptions say of the constants.
LEMMA ConstantsAre ==
  /\ Files \subseteq Inodes /\ Inodes \subseteq Nat /\ NoInode \notin Inodes
  /\ Absent \notin Files /\ Absent \notin Docs /\ Empty \notin Docs
  /\ Empty \in Contents /\ Torn \in Contents /\ Docs \subseteq Contents
  /\ \A j \in Jobs : /\ Target[j] \in Files /\ Doc[j] \in Docs
                     /\ Kind[j] \in {"save", "delete", "drop"}
  /\ \A f \in Files : Initial[f] \in Docs \cup {Absent}
  /\ D \in Nat \ {0} /\ Off \notin Nat /\ MaxFaults \in Nat /\ MaxCrashes \in Nat
  /\ IsFiniteSet(Inodes) /\ IsFiniteSet(Files) /\ IsFiniteSet(Jobs)
<1>1. IsFiniteSet(Files)
  BY FilesAssumption, InodesAssumption, FS_Subset
<1> QED
  BY <1>1, FilesAssumption, DebounceAssumption, InodesAssumption DEF Contents

-----------------------------------------------------------------------------
(* Inodes. *)

\* The values of a function are no more than its arguments.
LEMMA Values ==
  ASSUME NEW S, NEW T, NEW f \in [S -> T], IsFiniteSet(S)
  PROVE  /\ IsFiniteSet({f[x] : x \in S})
         /\ Cardinality({f[x] : x \in S}) \in Nat
         /\ Cardinality({f[x] : x \in S}) <= Cardinality(S)
<1> DEFINE V == {f[x] : x \in S}
<1>1. f \in Surjection(S, V)
  BY DEF Surjection
<1> HIDE DEF V
<1>2. IsFiniteSet(V) /\ Cardinality(V) <= Cardinality(S)
  BY <1>1, FS_Surjection
<1>3. Cardinality(V) \in Nat
  BY <1>2, FS_CardinalityType
<1> QED  BY <1>2, <1>3 DEF V

\* A union of two finite sets is no larger than both.
LEMMA UnionBound ==
  ASSUME NEW S, NEW T, NEW m \in Nat, NEW n \in Nat,
         IsFiniteSet(S), IsFiniteSet(T), Cardinality(S) <= m, Cardinality(T) <= n
  PROVE  IsFiniteSet(S \cup T) /\ Cardinality(S \cup T) <= m + n
<1>1. IsFiniteSet(S \cap T)
  BY FS_Subset
<1>2. /\ Cardinality(S) \in Nat /\ Cardinality(T) \in Nat /\ Cardinality(S \cap T) \in Nat
  BY <1>1, FS_CardinalityType
<1>3. /\ IsFiniteSet(S \cup T)
      /\ Cardinality(S \cup T) = Cardinality(S) + Cardinality(T) - Cardinality(S \cap T)
  BY FS_Union
<1> QED  BY <1>2, <1>3

\* There is a fresh inode to open, and nothing refers to it.
LEMMA FreshIsFree ==
  ASSUME TypeOK
  PROVE  /\ Fresh(HeldInodes) \in Inodes
         /\ \A f \in Files : Fresh(HeldInodes) # path[f] /\ Fresh(HeldInodes) # tmp[f]
         /\ \A j \in Jobs : Fresh(HeldInodes) # fd[j]
         /\ Fresh(HeldInodes) # held.inode
<1> DEFINE P == {path[f] : f \in Files}
           T == {tmp[f] : f \in Files}
           F == {fd[j] : j \in Jobs}
           m == Cardinality(Files)
           n == Cardinality(Jobs)
           U == InUse(HeldInodes)
<1>1. IsFiniteSet(Files) /\ IsFiniteSet(Jobs) /\ m \in Nat /\ n \in Nat
  BY ConstantsAre, FS_CardinalityType
<1>2. /\ path \in [Files -> Inodes \cup {NoInode}] /\ tmp \in [Files -> Inodes \cup {NoInode}]
      /\ fd \in [Jobs -> Inodes \cup {NoInode}]
  BY DEF TypeOK
<1>3. IsFiniteSet(P) /\ Cardinality(P) <= m
  BY ONLY <1>1, <1>2, Values, ZenonT(60)
<1>4. IsFiniteSet(T) /\ Cardinality(T) <= m
  BY ONLY <1>1, <1>2, Values, ZenonT(60)
<1>5. IsFiniteSet(F) /\ Cardinality(F) <= n
  BY ONLY <1>1, <1>2, Values, ZenonT(60)
<1>6. IsFiniteSet({held.inode}) /\ Cardinality({held.inode}) <= 1
  <2>1. IsFiniteSet({held.inode}) /\ Cardinality({held.inode}) = 1
    BY FS_Singleton, Zenon
  <2> QED  BY <2>1
<1>7. U = ((P \cup T) \cup F) \cup {held.inode}
  BY DEF InUse, HeldInodes
<1> HIDE DEF P, T, F, m, n, U
<1>8. IsFiniteSet(P \cup T) /\ Cardinality(P \cup T) <= m + m
  BY <1>1, <1>3, <1>4, UnionBound
<1>9. IsFiniteSet((P \cup T) \cup F) /\ Cardinality((P \cup T) \cup F) <= m + m + n
  <2>1. m + m \in Nat
    BY <1>1
  <2> QED  BY <1>1, <1>5, <1>8, <2>1, UnionBound
<1>10. IsFiniteSet(U) /\ Cardinality(U) <= m + m + n + 1
  <2>1. m + m + n \in Nat /\ 1 \in Nat
    BY <1>1
  <2> QED  BY <1>6, <1>7, <1>9, <2>1, UnionBound
<1>11. Inodes \ U # {}
  <2>1. ASSUME Inodes \subseteq U PROVE FALSE
    <3>1. Cardinality(Inodes) <= Cardinality(U) /\ Cardinality(U) \in Nat
          /\ Cardinality(Inodes) \in Nat
      BY <1>10, <2>1, InodesAssumption, FS_Subset, FS_CardinalityType
    <3>2. Cardinality(Inodes) > 2 * m + n + 1
      BY InodesAssumption DEF m, n
    <3> QED  BY <1>1, <1>10, <3>1, <3>2
  <2> QED  BY <2>1
<1>12. PICK i \in Inodes \ U : \A k \in Inodes \ U : i <= k
  <2>1. Inodes \ U \subseteq Nat
    BY ConstantsAre
  <2>2. PICK i \in Inodes \ U : \A k \in Inodes \ U : ~ (<<k, i>> \in OpToRel(<, Nat))
    BY <1>11, <2>1, NatLessThanWellFounded, WFMin
  <2>3. \A k \in Inodes \ U : ~ (k < i)
    BY <2>1, <2>2 DEF OpToRel
  <2>4. \A k \in Inodes \ U : i <= k
    BY <2>1, <2>3
  <2> QED  BY <2>4
<1>13. Fresh(HeldInodes) \in Inodes \ U
  <2>1. Fresh(HeldInodes) = CHOOSE x \in Inodes \ U : \A k \in Inodes \ U : x <= k
    BY DEF Fresh, U
  <2> QED  BY <1>12, <2>1
<1> QED  BY <1>7, <1>13 DEF P, T, F

\* What is opened: the file of that name, or a new one.
LEMMA OpenIs ==
  ASSUME TypeOK, NEW name \in [Files -> Inodes \cup {NoInode}], NEW f \in Files
  PROVE  LET o == Open(name, f, HeldInodes) IN
         /\ o.inode \in Inodes /\ o.kind \in {"create", "write"}
         /\ o.names \in [Files -> Inodes \cup {NoInode}]
         /\ o.names[f] = o.inode
         /\ \A g \in Files \ {f} : o.names[g] = name[g]
         /\ name[f] # NoInode => o.inode = name[f]
         /\ name[f] = NoInode => o.inode = Fresh(HeldInodes)
<1> DEFINE i == Fresh(HeldInodes)
<1>1. i \in Inodes
  BY FreshIsFree
<1> HIDE DEF i
<1>2. CASE name[f] = NoInode
  <2>1. Open(name, f, HeldInodes)
          = [inode |-> i, names |-> [name EXCEPT ![f] = i], kind |-> "create"]
    BY <1>2 DEF Open, i
  <2>2. [name EXCEPT ![f] = i] \in [Files -> Inodes \cup {NoInode}]
    BY <1>1
  <2> QED  BY <1>1, <1>2, <2>1, <2>2 DEF i
<1>3. CASE name[f] # NoInode
  <2>1. Open(name, f, HeldInodes) = [inode |-> name[f], names |-> name, kind |-> "write"]
    BY <1>3 DEF Open
  <2> QED  BY <1>3, <2>1
<1> QED  BY <1>2, <1>3

-----------------------------------------------------------------------------
(* Types. *)

Kinds == {"create", "write", "rename", "remove", "chmod", "overflow"}

\* The type invariant in four parts: files and jobs, events, the load, time.
FileTypes ==
  /\ path \in [Files -> Inodes \cup {NoInode}]
  /\ tmp \in [Files -> Inodes \cup {NoInode}]
  /\ data \in [Inodes -> Contents]
  /\ step \in [Jobs -> {"todo", "open", "written", "done", "failed"}]
  /\ fd \in [Jobs -> Inodes \cup {NoInode}]

EventTypes ==
  /\ queue \subseteq Kinds /\ damaged \in BOOLEAN /\ faults \in 0..MaxFaults
  /\ pc \in {"start", "dir", "read", "select", "exited"}

LoadTypes ==
  /\ crashes \in 0..MaxCrashes
  /\ listed \subseteq Files /\ held.inode \in Inodes \cup {NoInode}
  /\ got \in [Files -> Docs \cup {Absent}] /\ loaded \in [Files -> Docs \cup {Absent}]

TimeTypes == timer \in 0..(D + 1) \cup {Off} /\ armed \in 0..D /\ quiet \in 0..D

\* They make up the type invariant, before a step and after it.
LEMMA TypeParts == TypeOK <=> FileTypes /\ EventTypes /\ LoadTypes /\ TimeTypes
BY DEF TypeOK, FileTypes, EventTypes, LoadTypes, TimeTypes, Kinds

LEMMA TypePartsNext == FileTypes' /\ EventTypes' /\ LoadTypes' /\ TimeTypes' => TypeOK'
BY DEF TypeOK, FileTypes, EventTypes, LoadTypes, TimeTypes, Kinds

\* A content loads as a valid document or not at all.
LEMMA LoadsIs == \A c : Loads(c) \in Docs \cup {Absent}
BY DEF Loads

\* An event is queued or lost.
LEMMA EmitTypes ==
  ASSUME EventTypes, NEW kinds \in SUBSET Kinds, Emit(kinds)
  PROVE  EventTypes' /\ pc' = pc
<1>1. pc' = pc
  BY DEF Emit
<1>2. CASE queue' = (IF Watching THEN queue \cup kinds ELSE queue) /\ UNCHANGED <<damaged, faults>>
  <2>1. queue' \in {queue \cup kinds, queue}
    BY <1>2
  <2> QED  BY <1>1, <1>2, <2>1 DEF EventTypes
<1>3. CASE /\ Watching /\ faults < MaxFaults /\ faults' = faults + 1
           /\ queue' = queue \cup {"overflow"} /\ damaged' = TRUE
  <2>1. faults' \in 0..MaxFaults
    BY <1>3, ConstantsAre DEF EventTypes
  <2> QED  BY <1>1, <1>3, <2>1 DEF EventTypes, Kinds
<1> QED  BY <1>2, <1>3 DEF Emit

\* Failures are bounded.
LEMMA FaultTypes == EventTypes /\ Fault => faults' \in 0..MaxFaults
<1> SUFFICES ASSUME EventTypes, Fault PROVE faults' \in 0..MaxFaults
  OBVIOUS
<1> QED  BY ConstantsAre DEF EventTypes, Fault

\* Every step of a job keeps the types.
LEMMA JobTypes ==
  ASSUME TypeOK, NEW j \in Jobs, JobStep(j, HeldInodes)
  PROVE  FileTypes' /\ EventTypes' /\ pc' = pc /\ crashes' = crashes
<1> DEFINE f == Target[j]
<1>0. FileTypes /\ EventTypes /\ f \in Files /\ Doc[j] \in Contents
      /\ Empty \in Contents
  BY TypeParts, ConstantsAre
<1>1. \A to \in {"open", "written", "done", "failed"} :
        Advance(j, to) => step' \in [Jobs -> {"todo", "open", "written", "done", "failed"}]
  BY <1>0 DEF Advance, FileTypes
<1>2. CASE OpenTmp(j, HeldInodes)
  <2> DEFINE o == Open(tmp, f, HeldInodes)
  <2>1. o.inode \in Inodes /\ o.kind \in {"create", "write"}
        /\ o.names \in [Files -> Inodes \cup {NoInode}]
    BY <1>0, OpenIs DEF FileTypes
  <2>2. /\ tmp' = o.names /\ data' = [data EXCEPT ![o.inode] = Empty]
        /\ fd' = [fd EXCEPT ![j] = o.inode] /\ Emit({o.kind}) /\ Advance(j, "open")
        /\ UNCHANGED <<path, crashes>>
    BY <1>2 DEF OpenTmp
  <2> HIDE DEF o
  <2>3. EventTypes' /\ pc' = pc
    <3>1. {o.kind} \in SUBSET Kinds
      BY <2>1 DEF Kinds
    <3> QED  BY <1>0, <2>2, <3>1, EmitTypes
  <2>4. FileTypes'
    BY <1>0, <1>1, <2>1, <2>2 DEF FileTypes
  <2> QED  BY <2>2, <2>3, <2>4
<1>3. CASE WriteTmp(j)
  <2> DEFINE c == WrittenOver(data[fd[j]], Doc[j])
  <2>1. c \in Contents
    BY ConstantsAre DEF WrittenOver
  <2>2. /\ data' = [data EXCEPT ![fd[j]] = c]
        /\ fd' = [fd EXCEPT ![j] = NoInode] /\ Emit({"write"}) /\ Advance(j, "written")
        /\ UNCHANGED <<path, tmp, crashes>>
    BY <1>3 DEF WriteTmp
  <2> HIDE DEF c
  <2>3. EventTypes' /\ pc' = pc
    BY <1>0, <2>2, EmitTypes DEF Kinds
  <2>4. FileTypes'
    BY <1>0, <1>1, <2>1, <2>2 DEF FileTypes
  <2> QED  BY <2>2, <2>3, <2>4
<1>4. CASE Rename(j)
  <2>1. /\ path' = [path EXCEPT ![f] = tmp[f]] /\ tmp' = [tmp EXCEPT ![f] = NoInode]
        /\ Emit({"rename", "create"}) /\ Advance(j, "done")
        /\ UNCHANGED <<data, fd, crashes>>
    BY <1>4 DEF Rename
  <2>2. EventTypes' /\ pc' = pc
    BY <1>0, <2>1, EmitTypes DEF Kinds
  <2>3. FileTypes'
    BY <1>0, <1>1, <2>1 DEF FileTypes
  <2> QED  BY <2>1, <2>2, <2>3
<1>5. CASE Remove(j)
  <2>1. /\ path' = [path EXCEPT ![f] = NoInode]
        /\ Emit({"remove"}) /\ Advance(j, "done")
        /\ UNCHANGED <<tmp, data, fd, crashes>>
    BY <1>5 DEF Remove
  <2>2. EventTypes' /\ pc' = pc
    BY <1>0, <2>1, EmitTypes DEF Kinds
  <2>3. FileTypes'
    BY <1>0, <1>1, <2>1 DEF FileTypes
  <2> QED  BY <2>1, <2>2, <2>3
<1>6. CASE FailJob(j)
  <2>1. /\ fd' = [fd EXCEPT ![j] = NoInode] /\ Advance(j, "failed")
        /\ UNCHANGED <<nameVars, queue, pc, damaged, crashes>>
        /\ UNCHANGED faults \/ Fault
    BY <1>6 DEF FailJob, Fault
  <2>2. EventTypes'
    BY <1>0, <2>1, FaultTypes DEF EventTypes
  <2>3. FileTypes'
    BY <1>0, <1>1, <2>1 DEF FileTypes, nameVars
  <2> QED  BY <2>1, <2>2, <2>3
<1>7. CASE Drop(j, HeldInodes)
  <2> DEFINE o == Open(path, f, HeldInodes)
  <2>1. o.inode \in Inodes /\ o.kind \in {"create", "write"}
        /\ o.names \in [Files -> Inodes \cup {NoInode}]
    BY <1>0, OpenIs DEF FileTypes
  <2>2. /\ path' = o.names /\ data' = [data EXCEPT ![o.inode] = Empty]
        /\ fd' = [fd EXCEPT ![j] = o.inode] /\ Emit({o.kind}) /\ Advance(j, "open")
        /\ UNCHANGED <<tmp, crashes>>
    BY <1>7 DEF Drop
  <2> HIDE DEF o
  <2>3. EventTypes' /\ pc' = pc
    <3>1. {o.kind} \in SUBSET Kinds
      BY <2>1 DEF Kinds
    <3> QED  BY <1>0, <2>2, <3>1, EmitTypes
  <2>4. FileTypes'
    BY <1>0, <1>1, <2>1, <2>2 DEF FileTypes
  <2> QED  BY <2>2, <2>3, <2>4
<1>8. CASE FinishDrop(j)
  <2>1. /\ data' = [data EXCEPT ![fd[j]] = Doc[j]]
        /\ fd' = [fd EXCEPT ![j] = NoInode] /\ Emit({"write"}) /\ Advance(j, "done")
        /\ UNCHANGED <<path, tmp, crashes>>
    BY <1>8 DEF FinishDrop
  <2>2. EventTypes' /\ pc' = pc
    BY <1>0, <2>1, EmitTypes DEF Kinds
  <2>3. FileTypes'
    BY <1>0, <1>1, <2>1 DEF FileTypes
  <2> QED  BY <2>1, <2>2, <2>3
<1> QED  BY <1>2, <1>3, <1>4, <1>5, <1>6, <1>7, <1>8 DEF JobStep

\* Every step of a load keeps the types.
LEMMA LoadStepTypes ==
  ASSUME TypeOK, Load
  PROVE  TypeOK'
<1>0. FileTypes /\ EventTypes /\ LoadTypes /\ TimeTypes
  BY TypeParts
<1>1. CASE ReadDir
  <2>1. /\ pc' = "read" /\ listed' \subseteq Files
        /\ UNCHANGED <<nameVars, jobVars, queue, crashes, held, got, loaded, timeVars>>
        /\ damaged' \in BOOLEAN /\ faults' \in 0..MaxFaults
    BY <1>0, <1>1, FaultTypes DEF ReadDir, EventTypes
  <2>2. FileTypes' /\ EventTypes' /\ LoadTypes' /\ TimeTypes'
    BY <1>0, <2>1
    DEF FileTypes, EventTypes, LoadTypes, TimeTypes, nameVars, jobVars, timeVars
  <2> QED  BY <2>2, TypePartsNext
<1>2. ASSUME NEW f \in Files, OpenSite(f) PROVE TypeOK'
  <2>1. /\ listed' \subseteq Files
        /\ UNCHANGED <<nameVars, jobVars, queue, crashes, pc, got, loaded, timeVars>>
        /\ damaged' \in BOOLEAN /\ faults' \in 0..MaxFaults
    BY <1>0, <1>2, FaultTypes DEF OpenSite, EventTypes, LoadTypes
  <2>2. held'.inode \in Inodes \cup {NoInode}
    <3>1. held' = held \/ held' = [file |-> f, inode |-> path[f]]
      BY <1>2 DEF OpenSite
    <3>2. path[f] \in Inodes \cup {NoInode}
      BY <1>0, <1>2 DEF FileTypes
    <3> QED  BY <1>0, <3>1, <3>2 DEF LoadTypes
  <2>3. FileTypes' /\ EventTypes' /\ LoadTypes' /\ TimeTypes'
    BY <1>0, <2>1, <2>2
    DEF FileTypes, EventTypes, LoadTypes, TimeTypes, nameVars, jobVars, timeVars
  <2> QED  BY <2>3, TypePartsNext
<1>3. CASE ReadSite
  <2>1. /\ held' = NoHold
        /\ got' = [got EXCEPT ![held.file] = Loads(data[held.inode])]
        /\ UNCHANGED <<fileVars, listed, loaded, timeVars>>
    BY <1>3 DEF ReadSite
  <2>2. got' \in [Files -> Docs \cup {Absent}]
    <3>1. Loads(data[held.inode]) \in Docs \cup {Absent}
      BY LoadsIs
    <3> QED  BY <1>0, <2>1, <3>1 DEF LoadTypes
  <2>3. held'.inode = NoInode
    BY <2>1 DEF NoHold
  <2>4. FileTypes' /\ EventTypes' /\ LoadTypes' /\ TimeTypes'
    BY <1>0, <2>1, <2>2, <2>3
    DEF FileTypes, EventTypes, LoadTypes, TimeTypes, fileVars, nameVars, jobVars,
        eventVars, timeVars
  <2> QED  BY <2>4, TypePartsNext
<1>4. CASE Install
  <2>1. /\ loaded' = got /\ got' = Nothing /\ pc' = "select"
        /\ UNCHANGED <<nameVars, jobVars, queue, damaged, faults, crashes,
                       listed, held, timeVars>>
    BY <1>4 DEF Install
  <2>2. Nothing \in [Files -> Docs \cup {Absent}]
    BY DEF Nothing
  <2>3. FileTypes' /\ EventTypes' /\ LoadTypes' /\ TimeTypes'
    BY <1>0, <2>1, <2>2
    DEF FileTypes, EventTypes, LoadTypes, TimeTypes, nameVars, jobVars, timeVars
  <2> QED  BY <2>3, TypePartsNext
<1> QED  BY <1>1, <1>2, <1>3, <1>4 DEF Load

\* Every step keeps the types.
LEMMA TypeStep == TypeOK /\ [Next]_vars => TypeOK'
<1> SUFFICES ASSUME TypeOK, [Next]_vars PROVE TypeOK'
  OBVIOUS
<1>0. FileTypes /\ EventTypes /\ LoadTypes /\ TimeTypes
  BY TypeParts
<1>1. CASE StartWatch
  <2>1. /\ pc' \in {"dir", "exited"} /\ damaged' \in BOOLEAN /\ faults' \in 0..MaxFaults
        /\ UNCHANGED <<nameVars, jobVars, queue, crashes, loadVars, loaded, timeVars>>
    BY <1>0, <1>1, FaultTypes DEF StartWatch, EventTypes
  <2>2. FileTypes' /\ EventTypes' /\ LoadTypes' /\ TimeTypes'
    BY <1>0, <2>1
    DEF FileTypes, EventTypes, LoadTypes, TimeTypes, nameVars, jobVars, loadVars, timeVars
  <2> QED  BY <2>2, TypePartsNext
<1>2. ASSUME NEW kind \in queue, Receive(kind) PROVE TypeOK'
  <2>1. /\ queue' = queue \ {kind}
        /\ UNCHANGED <<nameVars, jobVars, damaged, faults, crashes, pc, loadVars, loaded>>
    BY <1>2 DEF Receive
  <2>2. TimeTypes'
    <3>1. CASE kind \in Relevant
      <4>1. armed' = D /\ timer' \in {D, D + 1} /\ quiet' = 0
        BY <1>2, <3>1 DEF Receive, Arm
      <4> QED  BY <4>1, ConstantsAre DEF TimeTypes
    <3>2. CASE kind \notin Relevant
      <4>1. UNCHANGED timeVars
        BY <1>2, <3>2 DEF Receive
      <4> QED  BY <1>0, <4>1 DEF timeVars, TimeTypes
    <3> QED  BY <3>1, <3>2
  <2>3. FileTypes' /\ EventTypes' /\ LoadTypes'
    BY <1>0, <2>1 DEF FileTypes, EventTypes, LoadTypes, nameVars, jobVars, loadVars
  <2> QED  BY <2>2, <2>3, TypePartsNext
<1>3. CASE TimerFires
  <2>1. /\ pc' \in {pc, "dir"} /\ UNCHANGED <<armed, quiet>>
        /\ timer' \in {armed, Off}
        /\ UNCHANGED <<nameVars, jobVars, queue, damaged, faults, crashes, loadVars, loaded>>
    BY <1>3 DEF TimerFires
  <2>2. TimeTypes'
    BY <1>0, <2>1, ConstantsAre DEF TimeTypes
  <2>3. FileTypes' /\ EventTypes' /\ LoadTypes'
    BY <1>0, <2>1 DEF FileTypes, EventTypes, LoadTypes, nameVars, jobVars, loadVars
  <2> QED  BY <2>2, <2>3, TypePartsNext
<1>4. CASE Tick
  <2>1. UNCHANGED <<fileVars, loadVars, loaded>>
    BY <1>4 DEF Tick
  <2>2. TimeTypes'
    <3>1. timer' \in 0..(D + 1)
      BY <1>0, <1>4, ConstantsAre DEF Tick, TimeTypes
    <3>2. armed' \in 0..D
      BY <1>0, <1>4, ConstantsAre DEF Tick, TimeTypes
    <3>3. quiet' \in 0..D
      BY <1>0, <1>4, ConstantsAre DEF Tick, TimeTypes
    <3> QED  BY <3>1, <3>2, <3>3 DEF TimeTypes
  <2>3. FileTypes' /\ EventTypes' /\ LoadTypes'
    BY <1>0, <2>1
    DEF FileTypes, EventTypes, LoadTypes, fileVars, nameVars, jobVars, eventVars, loadVars
  <2> QED  BY <2>2, <2>3, TypePartsNext
<1>5. CASE Load
  BY <1>5, LoadStepTypes
<1>6. ASSUME NEW j \in Jobs, Writes(j) PROVE TypeOK'
  <2>1. /\ JobStep(j, HeldInodes) /\ UNCHANGED <<loadVars, loaded, timeVars>>
    BY <1>6 DEF Writes
  <2>2. FileTypes' /\ EventTypes' /\ crashes' = crashes
    BY <2>1, JobTypes
  <2>3. LoadTypes' /\ TimeTypes'
    BY <1>0, <2>1, <2>2 DEF LoadTypes, TimeTypes, loadVars, timeVars
  <2> QED  BY <2>2, <2>3, TypePartsNext
<1>7. CASE Touch
  <2>1. /\ queue' = queue \cup {"chmod"}
        /\ UNCHANGED <<nameVars, jobVars, damaged, faults, crashes, pc, loadVars, loaded, timeVars>>
    BY <1>7 DEF Touch
  <2>2. FileTypes' /\ EventTypes' /\ LoadTypes' /\ TimeTypes'
    BY <1>0, <2>1
    DEF FileTypes, EventTypes, LoadTypes, TimeTypes, nameVars, jobVars, loadVars, timeVars, Kinds
  <2> QED  BY <2>2, TypePartsNext
<1>8. CASE Crash
  <2>1. /\ step' = [j \in Jobs |-> IF Busy(j) /\ Kind[j] = "save" THEN "failed" ELSE step[j]]
        /\ fd' = [j \in Jobs |-> IF Kind[j] = "save" THEN NoInode ELSE fd[j]]
        /\ UNCHANGED nameVars
    BY <1>8 DEF Crash
  <2>2. FileTypes'
    BY <1>0, <2>1 DEF FileTypes, nameVars
  <2>3. EventTypes'
    BY <1>0, <1>8 DEF Crash, EventTypes
  <2>4. LoadTypes'
    <3>1. crashes' \in 0..MaxCrashes
      BY <1>0, <1>8, ConstantsAre DEF Crash, LoadTypes
    <3>2. listed' = {} /\ held' = NoHold /\ got' = Nothing /\ loaded' = Nothing
      BY <1>8 DEF Crash
    <3>3. held'.inode = NoInode /\ Nothing \in [Files -> Docs \cup {Absent}]
      BY <3>2 DEF NoHold, Nothing
    <3> QED  BY <3>1, <3>2, <3>3 DEF LoadTypes
  <2>5. TimeTypes'
    <3>1. timer' = Off /\ armed' = 0 /\ quiet' = D
      BY <1>8 DEF Crash
    <3> QED  BY <3>1, ConstantsAre DEF TimeTypes
  <2> QED  BY <2>2, <2>3, <2>4, <2>5, TypePartsNext
<1>9. CASE UNCHANGED vars
  <2>1. FileTypes' /\ EventTypes' /\ LoadTypes' /\ TimeTypes'
    BY <1>0, <1>9
    DEF vars, FileTypes, EventTypes, LoadTypes, TimeTypes, fileVars, nameVars, jobVars,
        eventVars, loadVars, timeVars
  <2> QED  BY <2>1, TypePartsNext
<1> QED  BY <1>1, <1>2, <1>3, <1>4, <1>5, <1>6, <1>7, <1>8, <1>9 DEF Next

\* The process starts with the types.
LEMMA TypeInit == Init => TypeOK
<1> SUFFICES ASSUME Init PROVE TypeOK
  OBVIOUS
<1>1. FileTypes
  <2>1. path \in [Files -> Inodes \cup {NoInode}]
    BY ConstantsAre DEF Init
  <2>2. data \in [Inodes -> Contents]
    BY ConstantsAre DEF Init
  <2> QED  BY <2>1, <2>2 DEF Init, FileTypes
<1>2. EventTypes
  <2>1. queue = {} /\ damaged = FALSE /\ pc = "start"
    BY DEF Init
  <2>2. faults \in 0..MaxFaults
    BY ConstantsAre DEF Init
  <2> QED  BY <2>1, <2>2 DEF EventTypes
<1>3. LoadTypes
  BY ConstantsAre DEF Init, LoadTypes, NoHold, Nothing
<1>4. TimeTypes
  BY ConstantsAre DEF Init, TimeTypes
<1> QED  BY <1>1, <1>2, <1>3, <1>4, TypeParts

\* Names and descriptors always refer to inodes, files hold whole, empty or mixed
\* documents, and the timer, armedTime and the quiet time stay within the
\* debounce, whatever the file operations, failures, crashes and events are.
THEOREM TypeCorrect == FairSpec => []TypeOK
BY TypeInit, TypeStep, PTL DEF FairSpec

-----------------------------------------------------------------------------
(* The debounce. *)

\* armedTime is D ticks after the event that armed it, or has passed.
Debounced == armed + quiet = D

\* Every step keeps the two together.
LEMMA DebounceStep == TypeOK /\ Debounced /\ [Next]_vars => Debounced'
<1> SUFFICES ASSUME TypeOK, Debounced, [Next]_vars PROVE Debounced'
  OBVIOUS
<1>0. armed \in 0..D /\ quiet \in 0..D /\ D \in Nat /\ armed + quiet = D
  BY ConstantsAre DEF TypeOK, Debounced
<1>1. ASSUME UNCHANGED <<armed, quiet>> PROVE Debounced'
  BY <1>0, <1>1 DEF Debounced
<1>2. CASE StartWatch
  BY <1>1, <1>2 DEF StartWatch, timeVars
<1>3. ASSUME NEW kind \in queue, Receive(kind) PROVE Debounced'
  <2>1. CASE kind \in Relevant
    <3>1. armed' = D /\ quiet' = 0
      BY <1>3, <2>1 DEF Receive, Arm
    <3> QED  BY <1>0, <3>1 DEF Debounced
  <2>2. CASE kind \notin Relevant
    BY <1>1, <1>3, <2>2 DEF Receive, timeVars
  <2> QED  BY <2>1, <2>2
<1>4. CASE TimerFires
  BY <1>1, <1>4 DEF TimerFires
<1>5. CASE Tick
  BY <1>0, <1>5 DEF Tick, Debounced
<1>6. CASE Load
  BY <1>1, <1>6 DEF Load, ReadDir, OpenSite, ReadSite, Install, timeVars
<1>7. ASSUME NEW j \in Jobs, Writes(j) PROVE Debounced'
  BY <1>1, <1>7 DEF Writes, timeVars
<1>8. CASE Touch
  BY <1>1, <1>8 DEF Touch, timeVars
<1>9. CASE Crash
  <2>1. armed' = 0 /\ quiet' = D
    BY <1>9 DEF Crash
  <2> QED  BY <1>0, <2>1 DEF Debounced
<1>10. CASE UNCHANGED vars
  BY <1>1, <1>10 DEF vars, timeVars
<1> QED  BY <1>2, <1>3, <1>4, <1>5, <1>6, <1>7, <1>8, <1>9, <1>10 DEF Next

\* watcher.go, Run: the watcher leaves its select for a reload only when D ticks
\* have passed since the last event that re-armed it, whenever the runtime makes
\* the timer's channel ready and whatever was armed in between.
THEOREM ReloadWaits == FairSpec => QuietBeforeReload
<1>1. Init => Debounced
  BY ConstantsAre DEF Init, Debounced
<1>2. ASSUME TypeOK, Debounced, Next, pc = "select", pc' = "dir" PROVE quiet = D
  <2>1. TimerFires
    <3>1. ~ StartWatch /\ ~ Load /\ ~ Touch /\ ~ Crash /\ ~ Tick
      BY <1>2 DEF StartWatch, Load, ReadDir, OpenSite, ReadSite, Install, Touch, Crash, Tick,
                  fileVars, eventVars
    <3>2. \A kind \in queue : ~ Receive(kind)
      BY <1>2 DEF Receive
    <3>3. \A j \in Jobs : ~ Writes(j)
      BY <1>2, JobTypes DEF Writes
    <3> QED  BY <1>2, <3>1, <3>2, <3>3 DEF Next
  <2>2. ~ (armed > 0)
    BY <1>2, <2>1 DEF TimerFires
  <2>3. armed \in 0..D /\ quiet \in 0..D /\ D \in Nat /\ armed + quiet = D
    BY <1>2, ConstantsAre DEF TypeOK, Debounced
  <2> QED  BY <2>2, <2>3
<1>3. TypeOK /\ Debounced /\ [Next]_vars => [pc = "select" /\ pc' = "dir" => quiet = D]_vars
  BY <1>2
<1> QED  BY <1>1, <1>3, DebounceStep, TypeCorrect, PTL DEF FairSpec, QuietBeforeReload

-----------------------------------------------------------------------------
(* The directory. *)

\* No two saves of a site at a time, and a file that is dropped into sites/ is
\* nobody else's.
Separate ==
  /\ Overlap = FALSE
  /\ \A j, k \in Jobs : Kind[j] = "drop" /\ Target[k] = Target[j] => k = j

\* The load has a file of sites/ open, or none.
HeldOK ==
  /\ held.file \in Files \cup {Absent} /\ held = [file |-> held.file, inode |-> held.inode]
  /\ held.file = Absent <=> held.inode = NoInode

\* No two names have the same inode, and the load reads no temporary file: if
\* the inode that it reads has a name, it is the one under which it was opened.
Names ==
  /\ \A f, g \in Files : path[f] = path[g] /\ path[f] # NoInode => f = g
  /\ \A f, g \in Files : tmp[f] = tmp[g] /\ tmp[f] # NoInode => f = g
  /\ \A f, g \in Files : path[f] # NoInode => path[f] # tmp[g]
  /\ \A g \in Files : held.inode # NoInode => held.inode # tmp[g]
  /\ \A g \in Files : held.inode # NoInode /\ held.inode = path[g] => held.file = g

\* What a job that has begun finds at its next step: its temporary file, empty
\* or with its document, or the file that it is copying, still empty.
Work ==
  /\ \A j \in Jobs : step[j] = "written" =>
       /\ Kind[j] = "save"
       /\ tmp[Target[j]] # NoInode => data[tmp[Target[j]]] = Doc[j]
  /\ \A j \in Jobs : step[j] = "open" =>
       /\ Kind[j] = "save" => fd[j] = tmp[Target[j]]
       /\ Kind[j] = "drop" => fd[j] = path[Target[j]]
       /\ Kind[j] \in {"save", "drop"}
       /\ fd[j] # NoInode
       /\ data[fd[j]] = Empty

\* One job at a time works on a site.
Alone == \A j, k \in Jobs : Busy(j) /\ Busy(k) /\ Target[j] = Target[k] => j = k

WInv == HeldOK /\ Names /\ Work /\ Alone

\* What the directory sees of the jobs.
LEMMA JobSeenIs ==
  /\ JobSeen = [j \in Jobs |-> IF step[j] \in {"done", "failed"} THEN step[j] ELSE "todo"]
  /\ JobSeen' = [j \in Jobs |-> IF step'[j] \in {"done", "failed"} THEN step'[j] ELSE "todo"]
BY DEF JobSeen

\* A job that is not answered yet goes unseen.
LEMMA Unseen ==
  ASSUME FileTypes, NEW j \in Jobs, NEW to \in {"open", "written"},
         step[j] \notin {"done", "failed"}, Advance(j, to)
  PROVE  JobSeen' = JobSeen
<1>1. \A k \in Jobs : step'[k] = IF k = j THEN to ELSE step[k]
  BY DEF Advance, FileTypes
<1>2. \A k \in Jobs : (IF step'[k] \in {"done", "failed"} THEN step'[k] ELSE "todo")
                      = (IF step[k] \in {"done", "failed"} THEN step[k] ELSE "todo")
  BY <1>1
<1> QED  BY <1>2, JobSeenIs

\* The end of a job is seen.
LEMMA Answered ==
  ASSUME FileTypes, NEW j \in Jobs, NEW to \in {"done", "failed"},
         step[j] \notin {"done", "failed"}, Advance(j, to)
  PROVE  JobSeen[j] = "todo" /\ JobSeen' = [JobSeen EXCEPT ![j] = to]
<1>1. \A k \in Jobs : step'[k] = IF k = j THEN to ELSE step[k]
  BY DEF Advance, FileTypes
<1>2. \A k \in Jobs : (IF step'[k] \in {"done", "failed"} THEN step'[k] ELSE "todo")
                      = IF k = j THEN to ELSE JobSeen[k]
  BY <1>1, JobSeenIs
<1> QED  BY <1>2, JobSeenIs

\* The files load as before when the inodes of sites/ are as they were.
LEMMA SameDisk ==
  ASSUME path' = path, \A f \in Files : path[f] # NoInode => data'[path[f]] = data[path[f]]
  PROVE  Disk' = Disk
<1>1. \A f \in Files : (IF path'[f] = NoInode THEN Absent ELSE Loads(data'[path'[f]]))
                       = (IF path[f] = NoInode THEN Absent ELSE Loads(data[path[f]]))
  OBVIOUS
<1> QED  BY <1>1 DEF Disk, Loads

\* So does a load when the inode that it has open is as it was.
LEMMA SameView ==
  ASSUME held' = held, got' = got, HeldOK,
         held.inode # NoInode => data'[held.inode] = data[held.inode]
  PROVE  LoadSeen' = LoadSeen
<1>1. \A f \in Files : (IF held'.file = f THEN Loads(data'[held'.inode]) ELSE got'[f])
                       = (IF held.file = f THEN Loads(data[held.inode]) ELSE got[f])
  BY ConstantsAre DEF HeldOK
<1> QED  BY <1>1 DEF LoadSeen, Loads

\* The temporary file is opened: nothing is seen of it.
LEMMA OpenTmpStep ==
  ASSUME TypeOK, WInv, Separate, NEW j \in Jobs, OpenTmp(j, HeldInodes), UNCHANGED loadVars
  PROVE  WInv' /\ Disk' = Disk /\ JobSeen' = JobSeen /\ LoadSeen' = LoadSeen
<1> DEFINE f == Target[j]
           o == Open(tmp, f, HeldInodes)
           i == o.inode
<1>0. FileTypes /\ HeldOK /\ Names /\ Work /\ Alone /\ f \in Files
  BY TypeParts, ConstantsAre DEF WInv
<1>1. /\ i \in Inodes /\ o.names \in [Files -> Inodes \cup {NoInode}]
      /\ o.names[f] = i /\ \A g \in Files \ {f} : o.names[g] = tmp[g]
      /\ tmp[f] # NoInode => i = tmp[f]
      /\ tmp[f] = NoInode => i = Fresh(HeldInodes)
  BY <1>0, OpenIs DEF FileTypes
<1>2. /\ tmp' = o.names /\ data' = [data EXCEPT ![i] = Empty]
      /\ fd' = [fd EXCEPT ![j] = i] /\ Advance(j, "open")
      /\ path' = path /\ step[j] = "todo" /\ Kind[j] = "save"
      /\ ~ \E k \in Jobs : Target[k] = f /\ Busy(k)
      /\ held' = held /\ got' = got
  BY DEF OpenTmp, Separate, loadVars
<1> HIDE DEF o
<1>3. /\ \A g \in Files : i # path[g] /\ (g # f => i # tmp[g])
      /\ i # held.inode /\ i # NoInode
  BY <1>0, <1>1, FreshIsFree, ConstantsAre DEF Names, HeldOK
<1>4. /\ \A g \in Files : tmp'[g] = IF g = f THEN i ELSE tmp[g]
      /\ \A k \in Jobs : fd'[k] = IF k = j THEN i ELSE fd[k]
      /\ \A k \in Jobs : step'[k] = IF k = j THEN "open" ELSE step[k]
      /\ \A x \in Inodes : data'[x] = IF x = i THEN Empty ELSE data[x]
  BY <1>0, <1>1, <1>2 DEF FileTypes, Advance
<1>5. HeldOK'
  BY <1>0, <1>2 DEF HeldOK
<1>6. Names'
  BY <1>0, <1>2, <1>3, <1>4 DEF Names
<1>7. Work'
  <2>1. ASSUME NEW k \in Jobs, step'[k] = "written"
        PROVE  /\ Kind[k] = "save"
               /\ tmp'[Target[k]] # NoInode => data'[tmp'[Target[k]]] = Doc[k]
    <3>1. step[k] = "written" /\ Target[k] # f /\ Target[k] \in Files
      BY <1>2, <1>4, <2>1, ConstantsAre DEF Busy
    <3>2. tmp'[Target[k]] = tmp[Target[k]] /\ tmp[Target[k]] # i
      BY <1>3, <1>4, <3>1
    <3>3. tmp[Target[k]] \in Inodes \cup {NoInode}
      BY <1>0, <3>1 DEF FileTypes
    <3> QED  BY <1>0, <1>4, <3>1, <3>2, <3>3 DEF Work
  <2>2. ASSUME NEW k \in Jobs, step'[k] = "open"
        PROVE  /\ Kind[k] = "save" => fd'[k] = tmp'[Target[k]]
               /\ Kind[k] = "drop" => fd'[k] = path'[Target[k]]
               /\ Kind[k] \in {"save", "drop"}
               /\ fd'[k] # NoInode
               /\ data'[fd'[k]] = Empty
    <3>1. CASE k = j
      BY <1>0, <1>1, <1>2, <1>3, <1>4, <3>1
    <3>2. CASE k # j
      <4>1. step[k] = "open" /\ Target[k] # f /\ Target[k] \in Files /\ fd'[k] = fd[k]
        BY <1>2, <1>4, <2>2, <3>2, ConstantsAre DEF Busy
      <4>2. tmp'[Target[k]] = tmp[Target[k]]
        BY <1>4, <4>1
      <4>3. fd[k] # i /\ fd[k] \in Inodes
        BY <1>0, <1>3, <4>1 DEF Work, FileTypes
      <4> QED  BY <1>0, <1>2, <1>4, <4>1, <4>2, <4>3 DEF Work
    <3> QED  BY <3>1, <3>2
  <2> QED  BY <2>1, <2>2 DEF Work
<1>8. Alone'
  BY <1>0, <1>2, <1>4 DEF Alone, Busy
<1>9. Disk' = Disk
  BY <1>0, <1>2, <1>3, <1>4, SameDisk DEF FileTypes
<1>10. JobSeen' = JobSeen
  BY <1>0, <1>2, Unseen
<1>11. LoadSeen' = LoadSeen
  <2>1. held.inode # NoInode => data'[held.inode] = data[held.inode]
    BY <1>3, <1>4 DEF TypeOK
  <2> QED  BY <1>0, <1>2, <2>1, SameView
<1> QED  BY <1>5, <1>6, <1>7, <1>8, <1>9, <1>10, <1>11 DEF WInv

\* It is written, over nothing: nothing is seen of it.
LEMMA WriteTmpStep ==
  ASSUME TypeOK, WInv, NEW j \in Jobs, WriteTmp(j), UNCHANGED loadVars
  PROVE  WInv' /\ Disk' = Disk /\ JobSeen' = JobSeen /\ LoadSeen' = LoadSeen
<1> DEFINE f == Target[j]
           i == fd[j]
<1>0. FileTypes /\ HeldOK /\ Names /\ Work /\ Alone /\ f \in Files
  BY TypeParts, ConstantsAre DEF WInv
<1>1. /\ data' = [data EXCEPT ![i] = WrittenOver(data[i], Doc[j])]
      /\ fd' = [fd EXCEPT ![j] = NoInode] /\ Advance(j, "written")
      /\ path' = path /\ tmp' = tmp /\ step[j] = "open" /\ Kind[j] = "save"
      /\ held' = held /\ got' = got
  BY DEF WriteTmp, loadVars
<1>2. i = tmp[f] /\ i \in Inodes /\ i # NoInode /\ data[i] = Empty
  BY <1>0, <1>1 DEF Work, FileTypes
<1>3. WrittenOver(data[i], Doc[j]) = Doc[j]
  BY <1>2 DEF WrittenOver
<1>4. /\ \A k \in Jobs : fd'[k] = IF k = j THEN NoInode ELSE fd[k]
      /\ \A k \in Jobs : step'[k] = IF k = j THEN "written" ELSE step[k]
      /\ \A x \in Inodes : data'[x] = IF x = i THEN Doc[j] ELSE data[x]
  BY <1>0, <1>1, <1>3 DEF FileTypes, Advance
<1>5. \A g \in Files : i # path[g] /\ (g # f => i # tmp[g]) /\ i # held.inode
  BY <1>0, <1>2 DEF Names
<1>6. \A k \in Jobs \ {j} : Busy(k) => Target[k] # f
  BY <1>0, <1>1 DEF Alone, Busy
<1>7. HeldOK' /\ Names'
  BY <1>0, <1>1 DEF HeldOK, Names
<1>8. Work'
  <2>1. ASSUME NEW k \in Jobs, step'[k] = "written"
        PROVE  /\ Kind[k] = "save"
               /\ tmp'[Target[k]] # NoInode => data'[tmp'[Target[k]]] = Doc[k]
    <3>1. CASE k = j
      BY <1>1, <1>2, <1>4, <3>1
    <3>2. CASE k # j
      <4>1. step[k] = "written" /\ Target[k] # f /\ Target[k] \in Files
        BY <1>4, <1>6, <2>1, <3>2, ConstantsAre DEF Busy
      <4>2. tmp[Target[k]] # i /\ tmp[Target[k]] \in Inodes \cup {NoInode}
        BY <1>0, <1>5, <4>1 DEF FileTypes
      <4> QED  BY <1>0, <1>1, <1>4, <4>1, <4>2 DEF Work
    <3> QED  BY <3>1, <3>2
  <2>2. ASSUME NEW k \in Jobs, step'[k] = "open"
        PROVE  /\ Kind[k] = "save" => fd'[k] = tmp'[Target[k]]
               /\ Kind[k] = "drop" => fd'[k] = path'[Target[k]]
               /\ Kind[k] \in {"save", "drop"}
               /\ fd'[k] # NoInode
               /\ data'[fd'[k]] = Empty
    <3>1. k # j /\ step[k] = "open" /\ Target[k] # f /\ Target[k] \in Files /\ fd'[k] = fd[k]
      BY <1>4, <1>6, <2>2, ConstantsAre DEF Busy
    <3>2. fd[k] # i /\ fd[k] \in Inodes
      BY <1>0, <1>5, <3>1 DEF Work, FileTypes
    <3> QED  BY <1>0, <1>1, <1>4, <3>1, <3>2 DEF Work
  <2> QED  BY <2>1, <2>2 DEF Work
<1>9. Alone'
  BY <1>0, <1>1, <1>4 DEF Alone, Busy
<1>10. Disk' = Disk
  BY <1>0, <1>1, <1>4, <1>5, SameDisk DEF FileTypes
<1>11. JobSeen' = JobSeen
  BY <1>0, <1>1, Unseen
<1>12. LoadSeen' = LoadSeen
  <2>1. held.inode # NoInode => data'[held.inode] = data[held.inode]
    BY <1>0, <1>4, <1>5 DEF TypeOK
  <2> QED  BY <1>0, <1>1, <2>1, SameView
<1> QED  BY <1>7, <1>8, <1>9, <1>10, <1>11, <1>12 DEF WInv

\* What the directory sees of a step, with the parameters that WatchLoop gives it.
Leaves(j) == IF Kind[j] = "delete" THEN Absent ELSE Doc[j]

Effect(j) ==
  /\ JobSeen[j] = "todo" /\ JobSeen' = [JobSeen EXCEPT ![j] = "done"]
  /\ Disk' = [Disk EXCEPT ![Target[j]] = Leaves(j)]
  /\ LoadSeen' \in {LoadSeen, [LoadSeen EXCEPT ![Target[j]] = Leaves(j)]}

\* The rename is the instant at which a save takes effect.
LEMMA RenameStep ==
  ASSUME TypeOK, WInv, NEW j \in Jobs, Rename(j), UNCHANGED loadVars
  PROVE  WInv' /\ Effect(j)
<1> DEFINE f == Target[j]
           i == tmp[f]
<1>0. FileTypes /\ HeldOK /\ Names /\ Work /\ Alone /\ f \in Files /\ Doc[j] \in Docs
  BY TypeParts, ConstantsAre DEF WInv
<1>1. /\ path' = [path EXCEPT ![f] = i] /\ tmp' = [tmp EXCEPT ![f] = NoInode]
      /\ data' = data /\ fd' = fd /\ Advance(j, "done")
      /\ step[j] = "written" /\ i # NoInode
      /\ held' = held /\ got' = got
  BY DEF Rename, loadVars
<1>2. i \in Inodes /\ Kind[j] = "save" /\ data[i] = Doc[j]
  BY <1>0, <1>1 DEF Work, FileTypes
<1>3. /\ \A k \in Jobs : step'[k] = IF k = j THEN "done" ELSE step[k]
      /\ \A g \in Files : path'[g] = IF g = f THEN i ELSE path[g]
      /\ \A g \in Files : tmp'[g] = IF g = f THEN NoInode ELSE tmp[g]
  BY <1>0, <1>1 DEF FileTypes, Advance
<1>4. \A k \in Jobs \ {j} : Busy(k) => Target[k] # f
  BY <1>0, <1>1 DEF Alone, Busy
<1>5. HeldOK'
  BY <1>0, <1>1 DEF HeldOK
<1>6. Names'
  <2>1. \A g \in Files : path[g] # i /\ (g # f => tmp[g] # i)
    BY <1>0, <1>1 DEF Names
  <2>2. i # held.inode
    BY <1>0, <1>1 DEF Names
  <2> QED  BY <1>0, <1>1, <1>3, <2>1, <2>2 DEF Names
<1>7. Work'
  <2>1. ASSUME NEW k \in Jobs, step'[k] \in {"written", "open"}
        PROVE  /\ k # j /\ step'[k] = step[k] /\ Target[k] \in Files
               /\ tmp'[Target[k]] = tmp[Target[k]] /\ path'[Target[k]] = path[Target[k]]
    BY <1>3, <1>4, <2>1, ConstantsAre DEF Busy
  <2> QED  BY <1>0, <1>1, <2>1 DEF Work
<1>8. Alone'
  BY <1>0, <1>3 DEF Alone, Busy
<1>9. Disk' = [Disk EXCEPT ![f] = Leaves(j)]
  <2>1. Leaves(j) = Doc[j]
    BY <1>2 DEF Leaves
  <2>2. \A g \in Files : (IF path'[g] = NoInode THEN Absent ELSE Loads(data'[path'[g]]))
                         = IF g = f THEN Leaves(j) ELSE Disk[g]
    BY <1>0, <1>1, <1>2, <1>3, <2>1 DEF Disk, Loads
  <2> QED  BY <2>2 DEF Disk, Loads
<1>10. JobSeen[j] = "todo" /\ JobSeen' = [JobSeen EXCEPT ![j] = "done"]
  BY <1>0, <1>1, Answered
<1>11. LoadSeen' = LoadSeen
  BY <1>0, <1>1, SameView
<1> QED  BY <1>5, <1>6, <1>7, <1>8, <1>9, <1>10, <1>11 DEF WInv, Effect

\* So is the removal for a delete.
LEMMA RemoveStep ==
  ASSUME TypeOK, WInv, Separate, NEW j \in Jobs, Remove(j), UNCHANGED loadVars
  PROVE  WInv' /\ Effect(j)
<1> DEFINE f == Target[j]
<1>0. FileTypes /\ HeldOK /\ Names /\ Work /\ Alone /\ f \in Files
  BY TypeParts, ConstantsAre DEF WInv
<1>1. /\ path' = [path EXCEPT ![f] = NoInode] /\ tmp' = tmp
      /\ data' = data /\ fd' = fd /\ Advance(j, "done")
      /\ step[j] = "todo" /\ Kind[j] = "delete"
      /\ held' = held /\ got' = got
  BY DEF Remove, loadVars
<1>3. /\ \A k \in Jobs : step'[k] = IF k = j THEN "done" ELSE step[k]
      /\ \A g \in Files : path'[g] = IF g = f THEN NoInode ELSE path[g]
  BY <1>0, <1>1 DEF FileTypes, Advance
<1>5. HeldOK'
  BY <1>0, <1>1 DEF HeldOK
<1>6. Names'
  BY <1>0, <1>1, <1>3 DEF Names
<1>7. Work'
  <2>1. \A k \in Jobs : step'[k] \in {"written", "open"} =>
          /\ step'[k] = step[k] /\ Target[k] \in Files
          /\ Kind[k] = "drop" => path'[Target[k]] = path[Target[k]]
    BY <1>1, <1>3, ConstantsAre DEF Separate
  <2> QED  BY <1>0, <1>1, <2>1 DEF Work
<1>8. Alone'
  BY <1>0, <1>3 DEF Alone, Busy
<1>9. Disk' = [Disk EXCEPT ![f] = Leaves(j)]
  <2>1. Leaves(j) = Absent
    BY <1>1 DEF Leaves
  <2>2. \A g \in Files : (IF path'[g] = NoInode THEN Absent ELSE Loads(data'[path'[g]]))
                         = IF g = f THEN Leaves(j) ELSE Disk[g]
    BY <1>0, <1>1, <1>3, <2>1 DEF Disk, Loads
  <2> QED  BY <2>2 DEF Disk, Loads
<1>10. JobSeen[j] = "todo" /\ JobSeen' = [JobSeen EXCEPT ![j] = "done"]
  BY <1>0, <1>1, Answered
<1>11. LoadSeen' = LoadSeen
  BY <1>0, <1>1, SameView
<1> QED  BY <1>5, <1>6, <1>7, <1>8, <1>9, <1>10, <1>11 DEF WInv, Effect

\* A job that fails leaves what is seen of the files as it was.
LEMMA FailStep ==
  ASSUME TypeOK, WInv, NEW j \in Jobs, FailJob(j), UNCHANGED loadVars
  PROVE  /\ WInv' /\ Disk' = Disk /\ LoadSeen' = LoadSeen
         /\ JobSeen[j] = "todo" /\ JobSeen' = [JobSeen EXCEPT ![j] = "failed"]
<1>0. FileTypes /\ HeldOK /\ Names /\ Work /\ Alone
  BY TypeParts DEF WInv
<1>1. /\ path' = path /\ tmp' = tmp /\ data' = data
      /\ fd' = [fd EXCEPT ![j] = NoInode] /\ Advance(j, "failed")
      /\ step[j] \notin {"done", "failed"}
      /\ held' = held /\ got' = got
  BY DEF FailJob, loadVars, nameVars
<1>3. /\ \A k \in Jobs : step'[k] = IF k = j THEN "failed" ELSE step[k]
      /\ \A k \in Jobs : fd'[k] = IF k = j THEN NoInode ELSE fd[k]
  BY <1>0, <1>1 DEF FileTypes, Advance
<1>5. HeldOK' /\ Names'
  BY <1>0, <1>1 DEF HeldOK, Names
<1>7. Work'
  <2>1. \A k \in Jobs : step'[k] \in {"written", "open"} =>
          step'[k] = step[k] /\ fd'[k] = fd[k]
    BY <1>3
  <2> QED  BY <1>0, <1>1, <2>1 DEF Work
<1>8. Alone'
  BY <1>0, <1>3 DEF Alone, Busy
<1>9. Disk' = Disk
  BY <1>1, SameDisk
<1>10. JobSeen[j] = "todo" /\ JobSeen' = [JobSeen EXCEPT ![j] = "failed"]
  BY <1>0, <1>1, Answered
<1>11. LoadSeen' = LoadSeen
  BY <1>0, <1>1, SameView
<1> QED  BY <1>5, <1>7, <1>8, <1>9, <1>10, <1>11 DEF WInv

\* A copy that is opened is empty, and an empty file is no site.
LEMMA DropStep ==
  ASSUME TypeOK, WInv, Separate, NEW j \in Jobs, Drop(j, HeldInodes), UNCHANGED loadVars
  PROVE  WInv' /\ Disk' = Disk /\ JobSeen' = JobSeen /\ LoadSeen' = LoadSeen
<1> DEFINE f == Target[j]
           o == Open(path, f, HeldInodes)
           i == Fresh(HeldInodes)
<1>0. FileTypes /\ HeldOK /\ Names /\ Work /\ Alone /\ f \in Files
  BY TypeParts, ConstantsAre DEF WInv
<1>1. /\ step[j] = "todo" /\ Kind[j] = "drop" /\ path[f] = NoInode
      /\ path' = o.names /\ data' = [data EXCEPT ![o.inode] = Empty]
      /\ fd' = [fd EXCEPT ![j] = o.inode] /\ Advance(j, "open")
      /\ tmp' = tmp /\ held' = held /\ got' = got
  BY DEF Drop, loadVars
<1>2. /\ o.inode = i /\ i \in Inodes /\ o.names \in [Files -> Inodes \cup {NoInode}]
      /\ o.names[f] = i /\ \A g \in Files \ {f} : o.names[g] = path[g]
  BY <1>0, <1>1, OpenIs DEF FileTypes
<1>3. /\ \A g \in Files : i # path[g] /\ i # tmp[g]
      /\ \A k \in Jobs : i # fd[k]
      /\ i # held.inode /\ i # NoInode
  BY <1>2, FreshIsFree, ConstantsAre
<1> HIDE DEF o, i
<1>4. /\ \A g \in Files : path'[g] = IF g = f THEN i ELSE path[g]
      /\ \A k \in Jobs : fd'[k] = IF k = j THEN i ELSE fd[k]
      /\ \A k \in Jobs : step'[k] = IF k = j THEN "open" ELSE step[k]
      /\ \A x \in Inodes : data'[x] = IF x = i THEN Empty ELSE data[x]
  BY <1>0, <1>1, <1>2 DEF FileTypes, Advance
<1>5. HeldOK'
  BY <1>0, <1>1 DEF HeldOK
<1>6. Names'
  BY <1>0, <1>1, <1>3, <1>4 DEF Names
<1>7. Work'
  <2>1. ASSUME NEW k \in Jobs, step'[k] = "written"
        PROVE  /\ Kind[k] = "save"
               /\ tmp'[Target[k]] # NoInode => data'[tmp'[Target[k]]] = Doc[k]
    <3>1. step[k] = "written" /\ Target[k] \in Files
      BY <1>4, <2>1, ConstantsAre
    <3>2. tmp[Target[k]] # i /\ tmp[Target[k]] \in Inodes \cup {NoInode}
      BY <1>0, <1>3, <3>1 DEF FileTypes
    <3> QED  BY <1>0, <1>1, <1>4, <3>1, <3>2 DEF Work
  <2>2. ASSUME NEW k \in Jobs, step'[k] = "open"
        PROVE  /\ Kind[k] = "save" => fd'[k] = tmp'[Target[k]]
               /\ Kind[k] = "drop" => fd'[k] = path'[Target[k]]
               /\ Kind[k] \in {"save", "drop"}
               /\ fd'[k] # NoInode
               /\ data'[fd'[k]] = Empty
    <3>1. CASE k = j
      BY <1>0, <1>1, <1>2, <1>3, <1>4, <3>1
    <3>2. CASE k # j
      <4>1. step[k] = "open" /\ Target[k] \in Files /\ fd'[k] = fd[k]
        BY <1>4, <2>2, <3>2, ConstantsAre
      <4>2. Kind[k] = "drop" => path'[Target[k]] = path[Target[k]]
        BY <1>1, <1>4, <3>2, <4>1 DEF Separate
      <4>3. fd[k] # i /\ fd[k] \in Inodes
        BY <1>0, <1>3, <4>1 DEF Work, FileTypes
      <4> QED  BY <1>0, <1>1, <1>4, <4>1, <4>2, <4>3 DEF Work
    <3> QED  BY <3>1, <3>2
  <2> QED  BY <2>1, <2>2 DEF Work
<1>8. Alone'
  BY <1>0, <1>1, <1>4 DEF Alone, Busy, Separate
<1>9. Disk' = Disk
  <2>1. Loads(Empty) = Absent
    BY ConstantsAre DEF Loads
  <2>2. ASSUME NEW g \in Files
        PROVE  (IF path'[g] = NoInode THEN Absent ELSE Loads(data'[path'[g]]))
               = (IF path[g] = NoInode THEN Absent ELSE Loads(data[path[g]]))
    <3>1. CASE g = f
      BY <1>1, <1>2, <1>3, <1>4, <2>1, <3>1
    <3>2. CASE g # f
      <4>1. path'[g] = path[g] /\ path[g] # i /\ path[g] \in Inodes \cup {NoInode}
        BY <1>0, <1>3, <1>4, <3>2 DEF FileTypes
      <4> QED  BY <1>4, <4>1
    <3> QED  BY <3>1, <3>2
  <2> QED  BY <2>2 DEF Disk, Loads
<1>10. JobSeen' = JobSeen
  BY <1>0, <1>1, Unseen
<1>11. LoadSeen' = LoadSeen
  <2>1. held.inode # NoInode => data'[held.inode] = data[held.inode]
    BY <1>3, <1>4 DEF TypeOK
  <2> QED  BY <1>0, <1>1, <2>1, SameView
<1> QED  BY <1>5, <1>6, <1>7, <1>8, <1>9, <1>10, <1>11 DEF WInv

\* A copy takes effect when it is written, for a load that has the file open too.
LEMMA FinishStep ==
  ASSUME TypeOK, WInv, Separate, NEW j \in Jobs, FinishDrop(j), UNCHANGED loadVars
  PROVE  WInv' /\ Effect(j)
<1> DEFINE f == Target[j]
           i == fd[j]
<1>0. FileTypes /\ HeldOK /\ Names /\ Work /\ Alone /\ f \in Files /\ Doc[j] \in Docs
  BY TypeParts, ConstantsAre DEF WInv
<1>1. /\ data' = [data EXCEPT ![i] = Doc[j]]
      /\ fd' = [fd EXCEPT ![j] = NoInode] /\ Advance(j, "done")
      /\ path' = path /\ tmp' = tmp /\ step[j] = "open" /\ Kind[j] = "drop"
      /\ held' = held /\ got' = got
  BY DEF FinishDrop, loadVars
<1>2. i = path[f] /\ i \in Inodes /\ i # NoInode
  BY <1>0, <1>1 DEF Work, FileTypes
<1>4. /\ \A k \in Jobs : fd'[k] = IF k = j THEN NoInode ELSE fd[k]
      /\ \A k \in Jobs : step'[k] = IF k = j THEN "done" ELSE step[k]
      /\ \A x \in Inodes : data'[x] = IF x = i THEN Doc[j] ELSE data[x]
  BY <1>0, <1>1 DEF FileTypes, Advance
<1>5. /\ \A g \in Files : i # tmp[g] /\ (g # f => i # path[g])
      /\ i = held.inode => held.file = f
  BY <1>0, <1>2 DEF Names
<1>6. \A k \in Jobs \ {j} : Target[k] # f
  BY <1>1 DEF Separate
<1>7. HeldOK' /\ Names'
  BY <1>0, <1>1 DEF HeldOK, Names
<1>8. Work'
  <2>1. ASSUME NEW k \in Jobs, step'[k] = "written"
        PROVE  /\ Kind[k] = "save"
               /\ tmp'[Target[k]] # NoInode => data'[tmp'[Target[k]]] = Doc[k]
    <3>1. step[k] = "written" /\ Target[k] \in Files
      BY <1>4, <2>1, ConstantsAre
    <3>2. tmp[Target[k]] # i /\ tmp[Target[k]] \in Inodes \cup {NoInode}
      BY <1>0, <1>5, <3>1 DEF FileTypes
    <3> QED  BY <1>0, <1>1, <1>4, <3>1, <3>2 DEF Work
  <2>2. ASSUME NEW k \in Jobs, step'[k] = "open"
        PROVE  /\ Kind[k] = "save" => fd'[k] = tmp'[Target[k]]
               /\ Kind[k] = "drop" => fd'[k] = path'[Target[k]]
               /\ Kind[k] \in {"save", "drop"}
               /\ fd'[k] # NoInode
               /\ data'[fd'[k]] = Empty
    <3>1. k # j /\ step[k] = "open" /\ Target[k] # f /\ Target[k] \in Files /\ fd'[k] = fd[k]
      BY <1>4, <1>6, <2>2, ConstantsAre
    <3>2. fd[k] # i /\ fd[k] \in Inodes
      BY <1>0, <1>5, <3>1 DEF Work, FileTypes
    <3> QED  BY <1>0, <1>1, <1>4, <3>1, <3>2 DEF Work
  <2> QED  BY <2>1, <2>2 DEF Work
<1>9. Alone'
  BY <1>0, <1>1, <1>4 DEF Alone, Busy
<1>10. Leaves(j) = Doc[j] /\ Loads(Doc[j]) = Doc[j]
  BY <1>0, <1>1 DEF Leaves, Loads
<1>11. Disk' = [Disk EXCEPT ![f] = Leaves(j)]
  <2>1. ASSUME NEW g \in Files
        PROVE  (IF path'[g] = NoInode THEN Absent ELSE Loads(data'[path'[g]]))
               = IF g = f THEN Leaves(j) ELSE Disk[g]
    <3>1. CASE g = f
      BY <1>1, <1>2, <1>4, <1>10, <3>1
    <3>2. CASE g # f
      <4>1. path[g] # i /\ path[g] \in Inodes \cup {NoInode}
        BY <1>0, <1>5, <3>2 DEF FileTypes
      <4> QED  BY <1>1, <1>4, <3>2, <4>1 DEF Disk
    <3> QED  BY <3>1, <3>2
  <2> QED  BY <2>1 DEF Disk, Loads
<1>12. JobSeen[j] = "todo" /\ JobSeen' = [JobSeen EXCEPT ![j] = "done"]
  BY <1>0, <1>1, Answered
<1>13. LoadSeen' \in {LoadSeen, [LoadSeen EXCEPT ![f] = Leaves(j)]}
  <2>1. CASE held.inode # i
    <3>1. held.inode # NoInode => data'[held.inode] = data[held.inode]
      BY <1>4, <2>1 DEF TypeOK
    <3> QED  BY <1>0, <1>1, <3>1, SameView
  <2>2. CASE held.inode = i
    <3>1. held.file = f
      BY <1>5, <2>2
    <3>2. ASSUME NEW g \in Files
          PROVE  (IF held'.file = g THEN Loads(data'[held'.inode]) ELSE got'[g])
                 = IF g = f THEN Leaves(j) ELSE LoadSeen[g]
      BY <1>1, <1>2, <1>4, <1>10, <2>2, <3>1 DEF LoadSeen
    <3>3. LoadSeen' = [LoadSeen EXCEPT ![f] = Leaves(j)]
      BY <3>2 DEF LoadSeen, Loads
    <3> QED  BY <3>3
  <2> QED  BY <2>1, <2>2
<1> QED  BY <1>7, <1>8, <1>9, <1>11, <1>12, <1>13 DEF WInv, Effect

\* A process that dies answers no save that it was at; copies go on.
LEMMA CrashStep ==
  ASSUME TypeOK, WInv, Crash
  PROVE  /\ WInv' /\ Disk' = Disk /\ LoadSeen' = Nothing
         /\ \E J \in SUBSET {j \in Jobs : JobSeen[j] = "todo"} :
              JobSeen' = [j \in Jobs |-> IF j \in J THEN "failed" ELSE JobSeen[j]]
<1> DEFINE J == {j \in Jobs : Busy(j) /\ Kind[j] = "save"}
<1>0. FileTypes /\ HeldOK /\ Names /\ Work /\ Alone
  BY TypeParts DEF WInv
<1>1. /\ step' = [j \in Jobs |-> IF Busy(j) /\ Kind[j] = "save" THEN "failed" ELSE step[j]]
      /\ fd' = [j \in Jobs |-> IF Kind[j] = "save" THEN NoInode ELSE fd[j]]
      /\ path' = path /\ tmp' = tmp /\ data' = data
      /\ held' = NoHold /\ got' = Nothing
  BY DEF Crash, nameVars
<1>2. HeldOK' /\ Names'
  BY <1>0, <1>1 DEF HeldOK, Names, NoHold
<1>3. ASSUME NEW j \in Jobs, step'[j] \in {"open", "written"}
      PROVE  step'[j] = step[j] /\ step[j] = "open" /\ Kind[j] = "drop" /\ fd'[j] = fd[j]
  BY <1>0, <1>1, <1>3 DEF Work, Busy
<1>4. Work'
  BY <1>0, <1>1, <1>3 DEF Work
<1>5. Alone'
  BY <1>0, <1>3 DEF Alone, Busy
<1>6. Disk' = Disk
  BY <1>1, SameDisk
<1>7. LoadSeen' = Nothing
  BY <1>1, ConstantsAre DEF LoadSeen, NoHold, Nothing
<1>8. J \in SUBSET {j \in Jobs : JobSeen[j] = "todo"}
  BY JobSeenIs DEF Busy
<1>9. JobSeen' = [j \in Jobs |-> IF j \in J THEN "failed" ELSE JobSeen[j]]
  <2>1. \A j \in Jobs : (IF step'[j] \in {"done", "failed"} THEN step'[j] ELSE "todo")
                        = IF j \in J THEN "failed" ELSE JobSeen[j]
    BY <1>1, JobSeenIs
  <2> QED  BY <2>1, JobSeenIs
<1> QED  BY <1>2, <1>4, <1>5, <1>6, <1>7, <1>8, <1>9 DEF WInv

\* A load reads a file at the instant at which it opens it.
LEMMA LoadStep ==
  ASSUME TypeOK, WInv, Load
  PROVE  /\ WInv' /\ Disk' = Disk /\ JobSeen' = JobSeen
         /\ \/ LoadSeen' = LoadSeen \/ LoadSeen' = Nothing
            \/ \E f \in Files : LoadSeen' = [LoadSeen EXCEPT ![f] = Disk[f]]
<1>0. FileTypes /\ HeldOK /\ Names /\ Work /\ Alone
  BY TypeParts DEF WInv
<1>1. path' = path /\ tmp' = tmp /\ data' = data /\ step' = step /\ fd' = fd
  BY DEF Load, ReadDir, OpenSite, ReadSite, Install, fileVars, nameVars, jobVars
<1>2. Work' /\ Alone'
  BY <1>0, <1>1 DEF Work, Alone, Busy
<1>3. Disk' = Disk /\ JobSeen' = JobSeen
  BY <1>1, SameDisk, JobSeenIs
<1>4. ASSUME held' = held PROVE HeldOK' /\ Names'
  BY <1>0, <1>1, <1>4 DEF HeldOK, Names
<1>5. ASSUME held' = NoHold PROVE HeldOK' /\ Names'
  BY <1>0, <1>1, <1>5 DEF HeldOK, Names, NoHold
<1>6. CASE ReadDir
  <2>1. held' = held /\ got' = got
    BY <1>6 DEF ReadDir
  <2> QED  BY <1>0, <1>1, <1>2, <1>3, <1>4, <2>1, SameView DEF WInv
<1>7. ASSUME NEW f \in Files, OpenSite(f)
      PROVE  WInv' /\ (LoadSeen' = LoadSeen \/ LoadSeen' = [LoadSeen EXCEPT ![f] = Disk[f]])
  <2>1. CASE held' = held
    <3>1. got' = got
      BY <1>7 DEF OpenSite
    <3> QED  BY <1>0, <1>1, <1>2, <1>4, <2>1, <3>1, SameView DEF WInv
  <2>2. CASE held' # held
    <3>1. /\ held = NoHold /\ path[f] # NoInode /\ got' = got
          /\ held' = [file |-> f, inode |-> path[f]]
      BY <1>7, <2>2 DEF OpenSite
    <3>2. HeldOK' /\ Names'
      BY <1>0, <1>1, <3>1, ConstantsAre DEF HeldOK, Names
    <3>3. \A g \in Files : (IF held'.file = g THEN Loads(data'[held'.inode]) ELSE got'[g])
                           = IF g = f THEN Disk[f] ELSE LoadSeen[g]
      BY <1>1, <3>1, ConstantsAre DEF LoadSeen, Disk, NoHold
    <3>4. LoadSeen' = [LoadSeen EXCEPT ![f] = Disk[f]]
      BY <3>3 DEF LoadSeen, Loads
    <3> QED  BY <1>2, <3>2, <3>4 DEF WInv
  <2> QED  BY <2>1, <2>2
<1>8. CASE ReadSite
  <2>1. /\ held # NoHold /\ held' = NoHold
        /\ got' = [got EXCEPT ![held.file] = Loads(data[held.inode])]
    BY <1>8 DEF ReadSite
  <2>2. got \in [Files -> Docs \cup {Absent}]
    BY DEF TypeOK
  <2>3. \A g \in Files : (IF held'.file = g THEN Loads(data'[held'.inode]) ELSE got'[g])
                         = (IF held.file = g THEN Loads(data[held.inode]) ELSE got[g])
    BY <2>1, <2>2, ConstantsAre DEF NoHold
  <2>4. LoadSeen' = LoadSeen
    BY <2>3 DEF LoadSeen, Loads
  <2> QED  BY <1>2, <1>3, <1>5, <2>1, <2>4 DEF WInv
<1>9. CASE Install
  <2>1. held = NoHold /\ held' = NoHold /\ got' = Nothing
    BY <1>9 DEF Install
  <2>2. LoadSeen' = Nothing
    BY <2>1, ConstantsAre DEF LoadSeen, NoHold, Nothing
  <2> QED  BY <1>2, <1>3, <1>5, <2>1, <2>2 DEF WInv
<1> QED  BY <1>3, <1>6, <1>7, <1>8, <1>9 DEF Load, WInv

\* The rest of the watcher is not seen.
LEMMA QuietStep ==
  ASSUME WInv, UNCHANGED <<nameVars, jobVars, loadVars>>
  PROVE  WInv' /\ Disk' = Disk /\ JobSeen' = JobSeen /\ LoadSeen' = LoadSeen
<1>0. HeldOK /\ Names /\ Work /\ Alone
  BY DEF WInv
<1>1. /\ path' = path /\ tmp' = tmp /\ data' = data /\ step' = step /\ fd' = fd
      /\ held' = held /\ got' = got
  BY DEF nameVars, jobVars, loadVars
<1>2. WInv'
  BY <1>0, <1>1 DEF WInv, HeldOK, Names, Work, Alone, Busy
<1>3. JobSeen' = JobSeen
  BY <1>1, JobSeenIs
<1> QED  BY <1>0, <1>1, <1>2, <1>3, SameDisk, SameView

\* Both start alike.
LEMMA DirectoryInit == Init => WInv /\ Dir!Init
<1> SUFFICES ASSUME Init PROVE WInv /\ Dir!Init
  OBVIOUS
<1>1. /\ path = [f \in Files |-> IF Initial[f] = Absent THEN NoInode ELSE f]
      /\ data = [i \in Inodes |-> IF i \in Files /\ Initial[i] # Absent
                                  THEN Initial[i] ELSE Empty]
      /\ tmp = [f \in Files |-> NoInode]
      /\ step = [j \in Jobs |-> "todo"] /\ fd = [j \in Jobs |-> NoInode]
      /\ held = NoHold /\ got = Nothing
  BY DEF Init
<1>2. WInv
  BY <1>1, ConstantsAre DEF WInv, HeldOK, Names, Work, Alone, Busy, NoHold
<1>3. Disk = Initial
  <2>1. \A f \in Files : (IF path[f] = NoInode THEN Absent ELSE Loads(data[path[f]])) = Initial[f]
    BY <1>1, ConstantsAre DEF Loads
  <2>2. Initial \in [Files -> Docs \cup {Absent}]
    BY FilesAssumption
  <2> QED  BY <2>1, <2>2 DEF Disk
<1>4. JobSeen = [j \in Jobs |-> "todo"]
  BY <1>1, JobSeenIs
<1>5. LoadSeen = Nothing
  BY <1>1, ConstantsAre DEF LoadSeen, NoHold, Nothing
<1> QED  BY <1>2, <1>3, <1>4, <1>5 DEF Dir!Init, Dir!Nothing, Nothing

\* A step is one of the directory, or is not seen there.
LEMMA DirectoryStep ==
  ASSUME TypeOK, WInv, Separate, [Next]_vars
  PROVE  WInv' /\ [Dir!Next]_(Dir!vars)
<1> DEFINE Same == Disk' = Disk /\ JobSeen' = JobSeen /\ LoadSeen' = LoadSeen
<1>1. ASSUME WInv', Same PROVE WInv' /\ [Dir!Next]_(Dir!vars)
  BY <1>1 DEF Dir!vars
<1>2. ASSUME UNCHANGED <<nameVars, jobVars, loadVars>> PROVE WInv' /\ [Dir!Next]_(Dir!vars)
  BY <1>1, <1>2, QuietStep
<1>3. CASE StartWatch \/ (\E kind \in queue : Receive(kind)) \/ TimerFires \/ Tick \/ Touch
           \/ UNCHANGED vars
  BY <1>2, <1>3 DEF StartWatch, Receive, TimerFires, Tick, Touch, vars, fileVars
<1>4. CASE Load
  <2>1. LoadSeen' = Nothing /\ Disk' = Disk /\ JobSeen' = JobSeen => Dir!Forget
    BY DEF Dir!Forget, Dir!Nothing, Nothing
  <2>2. ASSUME NEW f \in Files, LoadSeen' = [LoadSeen EXCEPT ![f] = Disk[f]],
               Disk' = Disk, JobSeen' = JobSeen
        PROVE  Dir!Read(f)
    BY <2>2 DEF Dir!Read
  <2>3. Dir!Forget \/ (\E f \in Files : Dir!Read(f)) => Dir!Next
    BY DEF Dir!Next
  <2> QED  BY <1>1, <1>4, <2>1, <2>2, <2>3, LoadStep
<1>5. ASSUME NEW j \in Jobs, Writes(j) PROVE WInv' /\ [Dir!Next]_(Dir!vars)
  <2>1. JobStep(j, HeldInodes) /\ UNCHANGED loadVars
    BY <1>5 DEF Writes
  <2>2. Effect(j) => Dir!Do(j)
    BY DEF Effect, Leaves, Dir!Do
  <2>3. Dir!Do(j) => Dir!Next
    BY DEF Dir!Next
  <2>4. CASE OpenTmp(j, HeldInodes)
    BY <1>1, <2>1, <2>4, OpenTmpStep
  <2>5. CASE WriteTmp(j)
    BY <1>1, <2>1, <2>5, WriteTmpStep
  <2>6. CASE Rename(j)
    BY <2>1, <2>2, <2>3, <2>6, RenameStep
  <2>7. CASE Remove(j)
    BY <2>1, <2>2, <2>3, <2>7, RemoveStep
  <2>8. CASE FailJob(j)
    <3>1. /\ WInv' /\ Disk' = Disk /\ LoadSeen' = LoadSeen
          /\ JobSeen[j] = "todo" /\ JobSeen' = [JobSeen EXCEPT ![j] = "failed"]
      BY <2>1, <2>8, FailStep
    <3>2. Dir!Fail(j)
      BY <3>1 DEF Dir!Fail
    <3> QED  BY <3>1, <3>2 DEF Dir!Next
  <2>9. CASE Drop(j, HeldInodes)
    BY <1>1, <2>1, <2>9, DropStep
  <2>10. CASE FinishDrop(j)
    BY <2>1, <2>2, <2>3, <2>10, FinishStep
  <2> QED  BY <2>1, <2>4, <2>5, <2>6, <2>7, <2>8, <2>9, <2>10 DEF JobStep
<1>6. CASE Crash
  <2>1. /\ WInv' /\ Disk' = Disk /\ LoadSeen' = Nothing
        /\ \E J \in SUBSET {j \in Jobs : JobSeen[j] = "todo"} :
             JobSeen' = [j \in Jobs |-> IF j \in J THEN "failed" ELSE JobSeen[j]]
    BY <1>6, CrashStep
  <2>2. Dir!Die
    BY <2>1 DEF Dir!Die, Dir!Nothing, Nothing
  <2> QED  BY <2>1, <2>2 DEF Dir!Next
<1> QED  BY <1>3, <1>4, <1>5, <1>6 DEF Next

\* SaveSite, DeleteSite, a file copied into sites/ and LoadSites, with failures
\* and crashes between any two of their file operations, implement a directory
\* whose files change at one instant and are read at one, provided that no two
\* admins save the same site at a time, which WatchLoopTorn shows to matter, and
\* that a file being copied in is neither saved nor deleted from the UI.
THEOREM DirectoryImplemented == Separate => (FairSpec => ImplementsDirectory)
<1> SUFFICES ASSUME Separate PROVE FairSpec => ImplementsDirectory
  OBVIOUS
<1>1. TypeOK /\ WInv /\ [Next]_vars => WInv' /\ [Dir!Next]_(Dir!vars)
  BY DirectoryStep
<1> QED
  BY <1>1, DirectoryInit, TypeCorrect, PTL DEF FairSpec, ImplementsDirectory, Dir!Spec

\* What is in each file was there at the start, or is what a job left that was done.
Left ==
  \A f \in Files :
    \/ Disk[f] = Initial[f]
    \/ \E j \in Jobs : Target[j] = f /\ JobSeen[j] = "done" /\ Disk[f] = Leaves(j)

\* The directory keeps that, whatever its step.
LEMMA LeftStep ==
  ASSUME Left, [Dir!Next]_(Dir!vars)
  PROVE  Left'
<1>0. /\ Disk = [f \in Files |-> Disk[f]] /\ JobSeen = [j \in Jobs |-> JobSeen[j]]
  BY JobSeenIs DEF Disk
<1>1. ASSUME Disk' = Disk, \A j \in Jobs : JobSeen[j] = "done" => JobSeen'[j] = "done"
      PROVE  Left'
  <2>1. ASSUME NEW f \in Files
        PROVE  \/ Disk'[f] = Initial[f]
               \/ \E j \in Jobs : Target[j] = f /\ JobSeen'[j] = "done" /\ Disk'[f] = Leaves(j)
    BY <1>1 DEF Left
  <2> QED  BY <2>1 DEF Left, Leaves
<1>2. ASSUME NEW j \in Jobs, Dir!Do(j) PROVE Left'
  <2>1. /\ JobSeen' = [JobSeen EXCEPT ![j] = "done"]
        /\ Disk' = [Disk EXCEPT ![Target[j]] = Leaves(j)]
    BY <1>2 DEF Dir!Do, Leaves
  <2>2. ASSUME NEW f \in Files
        PROVE  \/ Disk'[f] = Initial[f]
               \/ \E k \in Jobs : Target[k] = f /\ JobSeen'[k] = "done" /\ Disk'[f] = Leaves(k)
    <3>1. CASE f = Target[j]
      BY <1>0, <2>1, <3>1
    <3>2. CASE f # Target[j]
      <4>1. Disk'[f] = Disk[f] /\ \A k \in Jobs : JobSeen[k] = "done" => JobSeen'[k] = "done"
        BY <1>0, <2>1, <3>2
      <4> QED  BY <4>1 DEF Left
    <3> QED  BY <3>1, <3>2
  <2> QED  BY <2>2 DEF Left, Leaves
<1>3. ASSUME NEW j \in Jobs, Dir!Fail(j) PROVE Left'
  <2>1. /\ JobSeen[j] = "todo" /\ JobSeen' = [JobSeen EXCEPT ![j] = "failed"] /\ Disk' = Disk
    BY <1>3 DEF Dir!Fail
  <2>2. \A k \in Jobs : JobSeen[k] = "done" => JobSeen'[k] = "done"
    BY <1>0, <2>1
  <2> QED  BY <1>1, <2>1, <2>2
<1>4. CASE Dir!Forget \/ (\E f \in Files : Dir!Read(f)) \/ UNCHANGED Dir!vars
  BY <1>1, <1>4 DEF Dir!Forget, Dir!Read, Dir!vars
<1>5. CASE Dir!Die
  <2>1. PICK J \in SUBSET {j \in Jobs : JobSeen[j] = "todo"} :
          JobSeen' = [j \in Jobs |-> IF j \in J THEN "failed" ELSE JobSeen[j]]
    BY <1>5 DEF Dir!Die
  <2>2. Disk' = Disk
    BY <1>5 DEF Dir!Die
  <2>3. \A k \in Jobs : JobSeen[k] = "done" => JobSeen'[k] = "done"
    BY <2>1
  <2> QED  BY <1>1, <2>2, <2>3
<1> QED  BY <1>2, <1>3, <1>4, <1>5 DEF Dir!Next

\* SaveSite persists an edit, under the same provision: when no save is under way,
\* each file loads as it did at the start, or as one of the jobs left it.
THEOREM PersistedAlone == Separate => (FairSpec => []SavedIsPersisted)
<1> SUFFICES ASSUME Separate PROVE FairSpec => []SavedIsPersisted
  OBVIOUS
<1>1. Init => Left
  BY DirectoryInit DEF Dir!Init, Left
<1>2. TypeOK /\ WInv /\ Left /\ [Next]_vars => WInv' /\ Left'
  BY DirectoryStep, LeftStep
<1>3. Left => SavedIsPersisted
  <2> SUFFICES ASSUME Left, NEW f \in Files
               PROVE  \/ Disk[f] = Initial[f]
                      \/ \E j \in Jobs : Target[j] = f /\ step[j] # "todo"
                                         /\ Disk[f] = IF Kind[j] = "delete" THEN Absent ELSE Doc[j]
    BY DEF SavedIsPersisted
  <2>1. CASE Disk[f] = Initial[f]
    BY <2>1
  <2>2. CASE \E j \in Jobs : Target[j] = f /\ JobSeen[j] = "done" /\ Disk[f] = Leaves(j)
    <3>1. PICK j \in Jobs : Target[j] = f /\ JobSeen[j] = "done" /\ Disk[f] = Leaves(j)
      BY <2>2
    <3>2. step[j] # "todo"
      BY <3>1, JobSeenIs
    <3> QED  BY <3>1, <3>2 DEF Leaves
  <2> QED  BY <2>1, <2>2 DEF Left
<1> QED  BY <1>1, <1>2, <1>3, DirectoryInit, TypeCorrect, PTL DEF FairSpec
=============================================================================
