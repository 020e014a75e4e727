------------------------- MODULE SegmentStoreProofs -------------------------
(***************************************************************************)
(* Theorems about SegmentStore for any number of processes, commands,      *)
(* crashes, states and snapshot names: first about the steps of the        *)
(* commands, then about what segment replay gives, then about what scrub   *)
(* and stats report beside them (Inspection).                              *)
(***************************************************************************)
EXTENDS Inspection, SequenceLemmas, TLAPS

USE ConstantsAssumption

\* A segment file put among the others keeps their types.
LEMMA PutType ==
    ASSUME NEW fs, NEW id \in Nat, NEW f \in File,
           DOMAIN fs \subseteq Nat, fs \in [DOMAIN fs -> File]
    PROVE  /\ DOMAIN Put(fs, id, f) = DOMAIN fs \cup {id}
           /\ DOMAIN Put(fs, id, f) \subseteq Nat
           /\ Put(fs, id, f) \in [DOMAIN Put(fs, id, f) -> File]
           /\ Put(fs, id, f)[id] = f
           /\ \A i \in DOMAIN fs : i # id => Put(fs, id, f)[i] = fs[i]
  BY DEF Put

\* Both ways of making a record make one.
LEMMA RecordType ==
    ASSUME NEW v \in Nat, NEW r \in Nat, NEW n \in Names \cup {NoName}
    PROVE  RootUpdate(r) \in Record /\ Snapshot(v, r, n) \in Record
  BY DEF RootUpdate, Snapshot, Record

\* What replay finds in the segments are records.
LEMMA ReplayType ==
    ASSUME TypeOK
    PROVE  /\ \A x \in Positions : At(x) \in Record
           /\ ByVersion \subseteq Record
           /\ ByName \subseteq Record
<1>1. ASSUME NEW x \in Positions PROVE At(x) \in Record
  <2>1. PICK i \in DOMAIN files : x \in {i} \X DOMAIN files[i].records
    BY DEF Positions
  <2>2. x[1] = i /\ x[2] \in DOMAIN files[i].records
    BY <2>1
  <2>3. files[i].records \in Seq(Record)
    BY DEF TypeOK, File
  <2> QED
    BY <2>2, <2>3 DEF At
<1>2. ASSUME NEW S, S \subseteq Positions PROVE LastAmong(S) \subseteq Record
  BY <1>1, <1>2 DEF LastAmong
<1>3. ByVersion \subseteq Record
  BY <1>2 DEF ByVersion, SnapPositions
<1>4. ByName \subseteq Record
  BY <1>2 DEF ByName, SnapPositions
<1> QED
  BY <1>1, <1>3, <1>4

-----------------------------------------------------------------------------
\* Giving one process a well-typed state keeps proc well typed.
LEMMA BecomeType ==
    ASSUME TypeOK, NEW p \in Procs, NEW r \in ProcState, Become(p, r)
    PROVE  proc' \in [Procs -> ProcState]
  BY DEF TypeOK, Become

\* An idle process is well typed.
LEMMA IdleType == IdleProc \in ProcState
  BY DEF IdleProc, ProcState, Pcs

\* Moving a process to another label keeps proc well typed.
LEMMA GotoType ==
    ASSUME TypeOK, NEW p \in Procs, NEW l \in Pcs, Goto(p, l)
    PROVE  proc' \in [Procs -> ProcState]
<1>1. proc[p] \in ProcState
  BY DEF TypeOK
<1>2. [proc[p] EXCEPT !.pc = l] \in ProcState
  BY <1>1 DEF ProcState
<1> QED
  BY <1>2, BecomeType DEF Goto

\* The initial store is well typed.
LEMMA InitType == Init => TypeOK
<1> SUFFICES ASSUME Init PROVE TypeOK
  OBVIOUS
<1>1. proc \in [Procs -> ProcState]
  BY IdleType DEF Init
<1>2. DOMAIN files = {} /\ files \in [DOMAIN files -> File]
  BY DEF Init
<1> QED
  BY <1>1, <1>2 DEF Init, TypeOK

\* The numbers NumberAfter gives are naturals.
LEMMA NumberAfterType ==
    ASSUME NEW S, S \subseteq Nat
    PROVE  NumberAfter(S) \subseteq Nat
  BY DEF NumberAfter

\* Starting a command keeps the types.
LEMMA StartType ==
    ASSUME TypeOK, NEW p \in Procs,
           StartMount(p) \/ StartSnapshot(p) \/ StartGc(p) \/ StartSeed(p)
    PROVE  TypeOK'
<1>1. ASSUME NEW k \in Kinds, Start(p, k)
      PROVE  /\ budget' \in [Bounded -> Nat]
             /\ UNCHANGED <<disk, cleaning, states, crashes, history>>
  BY <1>1 DEF Start, TypeOK, Bounded
<1>2. ASSUME NEW l \in Pcs, NEW k \in Kinds,
             NEW w \in {"PerOp", "FlushOnFsync", "Periodic", "NoWal"},
             NEW n \in Names \cup {NoName}
      PROVE  /\ [IdleProc EXCEPT !.pc = l, !.kind = k] \in ProcState
             /\ [IdleProc EXCEPT !.pc = l, !.kind = k, !.wal = w] \in ProcState
             /\ [IdleProc EXCEPT !.pc = l, !.kind = k, !.wal = w, !.name = n]
                   \in ProcState
  BY IdleType DEF ProcState
<1>3. \E k \in Kinds : Start(p, k)
  BY DEF StartMount, StartSnapshot, StartGc, StartSeed, Kinds, MountKinds
<1>4. \E r \in ProcState : Become(p, r)
  <2>1. CASE StartMount(p)
    <3>1. PICK k \in MountKinds, w \in Strategies :
              Become(p, [IdleProc EXCEPT !.pc = "acquire", !.kind = k, !.wal = w])
      BY <2>1 DEF StartMount
    <3>2. k \in Kinds /\ "acquire" \in Pcs
      BY DEF MountKinds, Kinds, Pcs
    <3> QED
      BY <1>2, <3>1, <3>2
  <2>2. CASE StartSnapshot(p)
    BY <1>2, <2>2, ZenonT(40) DEF StartSnapshot, Kinds, Pcs
  <2>3. CASE StartGc(p)
    BY <1>2, <2>3 DEF StartGc, Kinds, Pcs
  <2>4. CASE StartSeed(p)
    BY <1>2, <2>4 DEF StartSeed, Kinds, Pcs
  <2> QED
    BY <2>1, <2>2, <2>3, <2>4
<1>5. proc' \in [Procs -> ProcState]
  BY <1>4, BecomeType
<1> QED
  BY <1>1, <1>3, <1>5 DEF TypeOK, disk, history

\* Taking and releasing mount.lock keeps the types.
LEMMA LockType ==
    ASSUME TypeOK, NEW p \in Procs,
           \/ Acquire(p) \/ RemoveStale(p) \/ Reacquire(p) \/ LockWrite(p)
           \/ CheckUnmounted(p)
    PROVE  TypeOK'
<1>1. proc[p] \in ProcState
  BY DEF TypeOK
<1>2. CASE Acquire(p)
  <2>1. proc' \in [Procs -> ProcState]
    BY <1>2, GotoType DEF Acquire, Pcs
  <2> QED
    BY <1>2, <2>1 DEF Acquire, TypeOK, disk, history
<1>3. CASE RemoveStale(p)
  <2>1. proc' \in [Procs -> ProcState]
    BY <1>3, GotoType DEF RemoveStale, Pcs
  <2> QED
    BY <1>3, <2>1 DEF RemoveStale, TypeOK, history
<1>4. CASE Reacquire(p)
  <2>1. proc' \in [Procs -> ProcState]
    BY <1>4, GotoType, IdleType, BecomeType DEF Reacquire, Pcs
  <2> QED
    BY <1>4, <2>1 DEF Reacquire, TypeOK, disk, history
<1>5. CASE LockWrite(p)
  <2>1. [proc[p] EXCEPT !.pc = "load", !.held = TRUE] \in ProcState
    BY <1>1 DEF ProcState, Pcs
  <2>2. proc' \in [Procs -> ProcState]
    BY <1>5, <2>1, BecomeType DEF LockWrite
  <2> QED
    BY <1>5, <2>2 DEF LockWrite, TypeOK, history
<1>6. CASE CheckUnmounted(p)
  <2>1. proc' \in [Procs -> ProcState]
    BY <1>6, GotoType, IdleType, BecomeType DEF CheckUnmounted, Pcs
  <2> QED
    BY <1>6, <2>1 DEF CheckUnmounted, TypeOK, disk, history
<1> QED
  BY <1>2, <1>3, <1>4, <1>5, <1>6

\* Loading the store, opening a WAL and finding a snapshot keep the types.
LEMMA LoadType ==
    ASSUME TypeOK, NEW p \in Procs,
           Load(p) \/ CreateWal(p) \/ FindSnapshot(p)
    PROVE  TypeOK'
<1>1. proc[p] \in ProcState
  BY DEF TypeOK
<1>2. CASE Load(p)
  <2>1. CASE proc[p].kind = "gc"
    <3>1. proc' \in [Procs -> ProcState]
      BY <1>2, <2>1, GotoType DEF Load, Pcs
    <3> QED
      BY <1>2, <2>1, <3>1 DEF Load, TypeOK, history
  <2>2. CASE proc[p].kind # "gc" /\ ReplayRoot \notin blobs
    <3>1. proc' \in [Procs -> ProcState]
      BY <1>2, <2>2, IdleType, BecomeType DEF Load, End
    <3> QED
      BY <1>2, <2>2, <3>1 DEF Load, End, TypeOK, history
  <2>3. CASE proc[p].kind # "gc" /\ ReplayRoot \in blobs
    <3>1. ReplayRoot \in Nat
      BY <2>3 DEF TypeOK
    <3>2. [proc[p] EXCEPT !.pc = "wal", !.mem = ReplayRoot,
               !.known = ByVersion, !.named = ByName] \in ProcState
      BY <1>1, <3>1, ReplayType DEF ProcState, Pcs
    <3>3. proc' \in [Procs -> ProcState]
      BY <1>2, <2>3, <3>2, BecomeType DEF Load
    <3> QED
      BY <1>2, <2>3, <3>3 DEF Load, TypeOK, history
  <2> QED
    BY <2>1, <2>2, <2>3
<1>3. CASE CreateWal(p)
  <2> DEFINE l == CASE proc[p].kind \in {"mount", "automount"} -> "mounted"
                    [] proc[p].kind \in {"snapmount", "switch"} -> "find"
                    [] OTHER -> "commit"
  <2>0. l \in Pcs
    BY DEF Pcs
  <2>1. CASE proc[p].wal = "NoWal"
    <3>1. Goto(p, l) /\ UNCHANGED files
      BY <1>3, <2>1 DEF CreateWal
    <3>2. proc' \in [Procs -> ProcState]
      BY <2>0, <3>1, GotoType
    <3> QED
      BY <1>3, <3>1, <3>2 DEF CreateWal, TypeOK, history
  <2>2. CASE proc[p].wal # "NoWal"
    <3>1. PICK id \in NumberAfter(DOMAIN files) :
              /\ files' = Put(files, id, NewFile)
              /\ Become(p, [proc[p] EXCEPT !.pc = l, !.seg = id])
      BY <1>3, <2>2 DEF CreateWal
    <3>2. id \in Nat /\ NewFile \in File
      BY NumberAfterType DEF TypeOK, NewFile, File
    <3>3. [proc[p] EXCEPT !.pc = l, !.seg = id] \in ProcState
      BY <1>1, <2>0, <3>2 DEF ProcState
    <3>4. proc' \in [Procs -> ProcState]
      BY <3>1, <3>3, BecomeType
    <3>5. DOMAIN files' \subseteq Nat /\ files' \in [DOMAIN files' -> File]
      BY <3>1, <3>2, PutType DEF TypeOK
    <3> QED
      BY <1>3, <3>4, <3>5 DEF CreateWal, TypeOK, history
  <2> QED
    BY <2>1, <2>2
<1>4. CASE FindSnapshot(p)
  <2>1. ASSUME NEW s \in Findable(proc[p])
        PROVE  /\ [proc[p] EXCEPT !.pc = "commit", !.target = s.root] \in ProcState
               /\ [proc[p] EXCEPT !.pc = "mounted", !.mem = s.root, !.wal = "NoWal",
                                   !.known = {}, !.named = {}] \in ProcState
    <3>1. s \in Record
      BY <1>1 DEF Findable, ProcState
    <3>2. s.root \in Nat
      BY <3>1 DEF Record
    <3> QED
      BY <1>1, <3>2 DEF ProcState, Pcs
  <2>2. proc' \in [Procs -> ProcState]
    BY <1>4, <2>1, BecomeType, GotoType DEF FindSnapshot, Pcs
  <2> QED
    BY <1>4, <2>2 DEF FindSnapshot, TypeOK, disk, history
<1> QED
  BY <1>2, <1>3, <1>4

\* What a mounted filesystem does, and how it ends, keeps the types.
LEMMA MountedType ==
    ASSUME TypeOK, NEW p \in Procs,
           \/ Mutate(p) \/ Fsync(p) \/ Unmount(p) \/ FsyncDone(p)
           \/ ShutdownWal(p) \/ CommitBlobs(p)
    PROVE  TypeOK'
<1>1. proc[p] \in ProcState
  BY DEF TypeOK
<1>2. CASE Mutate(p)
  <2>0. states + 1 \in Nat
    BY DEF TypeOK
  <2>1. [proc[p] EXCEPT !.mem = states + 1] \in ProcState
    BY <1>1, <2>0 DEF ProcState
  <2>2. proc' \in [Procs -> ProcState]
    BY <1>2, <2>1, BecomeType DEF Mutate
  <2> QED
    BY <1>2, <2>0, <2>2 DEF Mutate, TypeOK, disk, history
<1>3. CASE Fsync(p)
  <2>1. proc' \in [Procs -> ProcState]
    BY <1>3, GotoType DEF Fsync, Pcs
  <2>2. budget' \in [Bounded -> Nat]
    BY <1>3 DEF Fsync, TypeOK, Bounded
  <2> QED
    BY <1>3, <2>1, <2>2 DEF Fsync, TypeOK, disk, history
<1>4. CASE Unmount(p)
  <2>1. proc' \in [Procs -> ProcState]
    BY <1>4, GotoType DEF Unmount, Pcs
  <2>2. cleaning' \in BOOLEAN
    BY <1>4, Zenon DEF Unmount, TypeOK
  <2>3. budget' \in [Bounded -> Nat]
    <3>1. budget \in [Bounded -> Nat] /\ "unmount" \in Bounded
      BY DEF TypeOK, Bounded
    <3>2. CASE UNCHANGED <<cleaning, budget>>
      BY <3>1, <3>2
    <3>3. CASE /\ budget["unmount"] > 0
               /\ budget' = [budget EXCEPT !["unmount"] = @ - 1]
      BY <3>1, <3>3
    <3> QED
      BY <1>4, <3>2, <3>3 DEF Unmount
  <2> QED
    BY <1>4, <2>1, <2>2, <2>3 DEF Unmount, TypeOK, disk, history
<1>5. CASE FsyncDone(p)
  <2>1. proc' \in [Procs -> ProcState]
    BY <1>5, GotoType DEF FsyncDone, Pcs
  <2>2. fsynced' \in Nat
    BY <1>1, <1>5 DEF FsyncDone, ProcState
  <2> QED
    BY <1>5, <2>1, <2>2 DEF FsyncDone, TypeOK, disk
<1>6. CASE ShutdownWal(p)
  <2>1. proc' \in [Procs -> ProcState]
    BY <1>6, GotoType DEF ShutdownWal, Pcs
  <2> QED
    BY <1>6, <2>1 DEF ShutdownWal, TypeOK, disk, history
<1>7. CASE CommitBlobs(p)
  <2>1. proc' \in [Procs -> ProcState]
    BY <1>7, GotoType DEF CommitBlobs, Pcs
  <2>2. proc[p].mem \in Nat
    BY <1>1 DEF ProcState
  <2> QED
    BY <1>7, <2>1, <2>2 DEF CommitBlobs, TypeOK, history
<1> QED
  BY <1>2, <1>3, <1>4, <1>5, <1>6, <1>7

\* Logging keeps the types.
LEMMA LogType ==
    ASSUME TypeOK, NEW p \in Procs,
           LogRoot(p) \/ LogSnapshot(p) \/ LogTarget(p)
    PROVE  TypeOK'
<1>1. proc[p] \in ProcState
  BY DEF TypeOK
<1>2. ASSUME NEW rec \in Record PROVE Logged(proc[p], rec) \in Seq(Record)
  BY <1>1 DEF Logged, ProcState
<1>3. CASE LogRoot(p)
  <2> DEFINE b == Logged(proc[p], RootUpdate(proc[p].mem))
             logged == [proc[p] EXCEPT !.buf = b]
  <2>1. proc[p].mem \in Nat
    BY <1>1 DEF ProcState
  <2>2. b \in Seq(Record)
    BY <1>2, <2>1, RecordType
  <2>3. logged \in ProcState
    BY <1>1, <2>2 DEF ProcState
  <2> HIDE DEF logged
  <2>4. /\ [logged EXCEPT !.pc = "shutdown"] \in ProcState
        /\ [logged EXCEPT !.pc = "snap"] \in ProcState
        /\ [logged EXCEPT !.pc = "commit", !.name = "auto-unmount"] \in ProcState
    BY <2>3, ZenonT(40) DEF ProcState, Pcs, Kinds, Names, AutoNames
  <2> DEFINE again == [logged EXCEPT !.pc = "commit", !.name = "auto-unmount"]
  <2>6. [again EXCEPT !.kind = "create"] \in ProcState
    <3> HIDE DEF again
    <3>1. again \in ProcState
      BY <2>4 DEF again
    <3> QED
      BY <3>1, ZenonT(40) DEF ProcState, Kinds
  <2>5. proc' \in [Procs -> ProcState]
    BY <1>3, <2>4, <2>6, BecomeType DEF LogRoot, logged
  <2> QED
    BY <1>3, <2>5 DEF LogRoot, TypeOK, disk, history
<1>4. CASE LogSnapshot(p)
  <2> DEFINE switching == proc[p].kind = "switch"
             n == IF switching THEN "auto-before-switch" ELSE proc[p].name
  <2>1. PICK v \in NumberAfter({t.version : t \in proc[p].known}) :
            Become(p, [proc[p] EXCEPT
                    !.pc = IF switching THEN "target" ELSE "shutdown",
                    !.buf = Logged(proc[p], Snapshot(v, proc[p].mem, n)),
                    !.known = @ \cup {Snapshot(v, proc[p].mem, n)},
                    !.named = IF n = NoName THEN @
                              ELSE {t \in @ : t.name # n}
                                       \cup {Snapshot(v, proc[p].mem, n)}])
    BY <1>4 DEF LogSnapshot
  <2>2. {t.version : t \in proc[p].known} \subseteq Nat
    BY <1>1 DEF ProcState, Record
  <2>3. v \in Nat
    BY <2>1, <2>2, NumberAfterType
  <2>4. n \in Names \cup {NoName} /\ proc[p].mem \in Nat
    BY <1>1 DEF ProcState, Names, AutoNames
  <2> DEFINE s == Snapshot(v, proc[p].mem, n)
  <2>5. s \in Record
    BY <2>3, <2>4, RecordType
  <2>6. Logged(proc[p], s) \in Seq(Record)
    BY <1>2, <2>5
  <2>7. /\ proc[p].known \cup {s} \in SUBSET Record
        /\ {t \in proc[p].named : t.name # n} \cup {s} \in SUBSET Record
        /\ proc[p].named \in SUBSET Record
    BY <1>1, <2>5 DEF ProcState
  <2> HIDE DEF s, n
  <2>8. [proc[p] EXCEPT
            !.pc = IF switching THEN "target" ELSE "shutdown",
            !.buf = Logged(proc[p], s),
            !.known = @ \cup {s},
            !.named = IF n = NoName THEN @
                      ELSE {t \in @ : t.name # n} \cup {s}] \in ProcState
    BY <1>1, <2>6, <2>7, ZenonT(40) DEF ProcState, Pcs
  <2>9. proc' \in [Procs -> ProcState]
    BY <2>1, <2>8, BecomeType DEF s
  <2> QED
    BY <1>4, <2>9 DEF LogSnapshot, TypeOK, disk, history
<1>5. CASE LogTarget(p)
  <2>1. proc[p].target \in Nat
    BY <1>1 DEF ProcState
  <2>2. Logged(proc[p], RootUpdate(proc[p].target)) \in Seq(Record)
    BY <1>2, <2>1, RecordType
  <2>3. [proc[p] EXCEPT !.pc = "shutdown",
             !.buf = Logged(proc[p], RootUpdate(proc[p].target))] \in ProcState
    BY <1>1, <2>2 DEF ProcState, Pcs
  <2>4. proc' \in [Procs -> ProcState]
    BY <1>5, <2>3, BecomeType DEF LogTarget
  <2> QED
    BY <1>5, <2>4 DEF LogTarget, TypeOK, disk, history
<1> QED
  BY <1>3, <1>4, <1>5

\* Writing the WAL, ending and crashing keep the types.
LEMMA WriteType ==
    ASSUME TypeOK, NEW p \in Procs,
           WriteHeader(p) \/ WriteRecord(p) \/ Exit(p) \/ Crash(p)
    PROVE  TypeOK'
<1>1. proc[p] \in ProcState
  BY DEF TypeOK
<1>2. CASE WriteHeader(p)
  <2>1. DOMAIN files' = DOMAIN files /\ files' \in [DOMAIN files -> File]
    BY <1>2 DEF WriteHeader, TypeOK, File
  <2> QED
    BY <1>2, <2>1 DEF WriteHeader, TypeOK, history
<1>3. CASE WriteRecord(p)
  <2>1. /\ proc[p].buf \in Seq(Record)
        /\ Head(proc[p].buf) \in Record
        /\ Tail(proc[p].buf) \in Seq(Record)
    BY <1>1, <1>3 DEF WriteRecord, ProcState
  <2>2. [proc[p] EXCEPT !.buf = Tail(@)] \in ProcState
    BY <1>1, <2>1 DEF ProcState
  <2>3. proc' \in [Procs -> ProcState]
    BY <1>3, <2>2, BecomeType DEF WriteRecord
  <2>4. DOMAIN files' = DOMAIN files /\ files' \in [DOMAIN files -> File]
    <3>1. CASE proc[p].seg = 0
      BY <1>3, <3>1 DEF WriteRecord, TypeOK
    <3>2. CASE proc[p].seg # 0
      <4> DEFINE id == proc[p].seg
                 rec == Head(proc[p].buf)
      <4>1. files' = [files EXCEPT ![id].records = Append(@, rec)]
        BY <1>3, <3>2 DEF WriteRecord
      <4>2. ASSUME NEW f \in File
            PROVE  [f EXCEPT !.records = Append(@, rec)] \in File
        <5>1. f.records \in Seq(Record) /\ rec \in Record
          BY <2>1 DEF File
        <5>2. Append(f.records, rec) \in Seq(Record)
          BY <5>1
        <5> QED
          BY <5>2 DEF File
      <4> HIDE DEF id, rec
      <4> QED
        BY <4>1, <4>2 DEF TypeOK
    <3> QED
      BY <3>1, <3>2
  <2>5. lastDurable' \in Nat
    BY <1>3, <2>1 DEF WriteRecord, TypeOK, Record
  <2> QED
    BY <1>3, <2>3, <2>4, <2>5 DEF WriteRecord, TypeOK
<1>4. CASE Exit(p)
  <2>1. DOMAIN files' = DOMAIN files /\ files' \in [DOMAIN files -> File]
    BY <1>4 DEF Exit, TypeOK, File
  <2>2. proc' \in [Procs -> ProcState] /\ lock' \in BOOLEAN
    BY <1>4, IdleType, BecomeType DEF Exit, End
  <2> QED
    BY <1>4, <2>1, <2>2 DEF Exit, TypeOK, history
<1>5. CASE Crash(p)
  <2>1. proc' \in [Procs -> ProcState]
    BY <1>5, IdleType, BecomeType DEF Crash
  <2> QED
    BY <1>5, <2>1 DEF Crash, TypeOK, disk, history
<1> QED
  BY <1>2, <1>3, <1>4, <1>5

\* Seeding and garbage collection keep the types.
LEMMA SeedGcType ==
    ASSUME TypeOK, TodoExists, NEW p \in Procs,
           \/ SeedImport(p) \/ SeedSegment(p) \/ GcList(p) \/ GcDone(p)
           \/ \E i \in proc[p].todo : GcCompact(p, i) \/ GcFail(p, i)
    PROVE  TypeOK'
<1>1. proc[p] \in ProcState
  BY DEF TypeOK
<1>2. CASE SeedImport(p)
  <2>1. states + 1 \in Nat
    BY DEF TypeOK
  <2>2. [proc[p] EXCEPT !.pc = "seedwal", !.mem = states + 1] \in ProcState
    BY <1>1, <2>1 DEF ProcState, Pcs
  <2>3. proc' \in [Procs -> ProcState]
    BY <1>2, <2>2, BecomeType DEF SeedImport
  <2> QED
    BY <1>2, <2>1, <2>3 DEF SeedImport, TypeOK, history
<1>3. CASE SeedSegment(p)
  <2>1. proc[p].mem \in Nat
    BY <1>1 DEF ProcState
  <2>2. <<RootUpdate(proc[p].mem)>> \in Seq(Record)
    BY <2>1, RecordType
  <2>3. [proc[p] EXCEPT !.pc = "shutdown", !.wal = "FlushOnFsync",
             !.seg = 1, !.buf = <<RootUpdate(proc[p].mem)>>] \in ProcState
    BY <1>1, <2>2 DEF ProcState, Pcs
  <2>4. proc' \in [Procs -> ProcState]
    BY <1>3, <2>3, BecomeType DEF SeedSegment
  <2>5. NewFile \in File
    BY DEF NewFile, File
  <2>6. DOMAIN files' \subseteq Nat /\ files' \in [DOMAIN files' -> File]
    BY <1>3, <2>5, PutType DEF SeedSegment, TypeOK
  <2> QED
    BY <1>3, <2>4, <2>6 DEF SeedSegment, TypeOK, history
<1>4. CASE GcList(p)
  <2>1. DOMAIN files \in SUBSET Nat
    BY DEF TypeOK
  <2>2. [proc[p] EXCEPT !.pc = "compact", !.todo = DOMAIN files] \in ProcState
    BY <1>1, <2>1 DEF ProcState, Pcs
  <2>3. proc' \in [Procs -> ProcState]
    BY <1>4, <2>2, BecomeType DEF GcList
  <2> QED
    BY <1>4, <2>3 DEF GcList, TypeOK, disk, history
<1>5. CASE GcDone(p)
  <2>1. proc' \in [Procs -> ProcState]
    BY <1>5, IdleType, BecomeType DEF GcDone
  <2> QED
    BY <1>5, <2>1 DEF GcDone, TypeOK, disk, history
<1>6. ASSUME NEW i \in proc[p].todo, GcCompact(p, i) PROVE TypeOK'
  <2>1. i \in DOMAIN files /\ i \in Nat
    BY DEF TodoExists, TypeOK
  <2>2. i + GcStride \in Nat /\ files[i] \in File
    BY <2>1 DEF TypeOK
  <2>3. DOMAIN files' \subseteq Nat /\ files' \in [DOMAIN files' -> File]
    BY <1>6, <2>2, PutType DEF GcCompact, TypeOK
  <2>4. ASSUME NEW q \in Procs PROVE proc'[q] \in ProcState
    <3>1. proc[q] \in ProcState
      BY DEF TypeOK
    <3>2. /\ [proc[q] EXCEPT !.seg = 0] \in ProcState
          /\ [proc[p] EXCEPT !.todo = @ \ {i}] \in ProcState
      BY <1>1, <3>1 DEF ProcState
    <3> QED
      BY <1>6, <3>1, <3>2 DEF GcCompact
  <2>5. proc' \in [Procs -> ProcState]
    BY <1>6, <2>4 DEF GcCompact
  <2> QED
    BY <1>6, <2>3, <2>5 DEF GcCompact, TypeOK, history
<1>7. ASSUME NEW i \in proc[p].todo, GcFail(p, i) PROVE TypeOK'
  <2>1. proc' \in [Procs -> ProcState]
    BY <1>7, IdleType, BecomeType DEF GcFail
  <2> QED
    BY <1>7, <2>1 DEF GcFail, TypeOK, disk, history
<1> QED
  BY <1>2, <1>3, <1>4, <1>5, <1>6, <1>7

-----------------------------------------------------------------------------
(* RootsResolve.  Blobs are never removed, every record comes from a        *)
(* process's buffer or from another segment, and what is in a buffer was    *)
(* flushed before it was logged.                                            *)

Safe == TodoExists /\ RootsResolve /\ PendingResolve

SafeInv == TypeOK /\ TodoExists /\ RootsResolve /\ PendingResolve

\* A step that changes one process, to a state that resolves, and at most adds
\* blobs and files, keeps what the processes hold resolvable.
LEMMA BecomeSafe ==
    ASSUME SafeInv, NEW p \in Procs, NEW r, Become(p, r),
           blobs \subseteq blobs', DOMAIN files \subseteq DOMAIN files',
           Resolves(r, blobs'), r.todo \subseteq DOMAIN files'
    PROVE  TodoExists' /\ PendingResolve'
<1>1. ASSUME NEW q \in Procs
      PROVE  proc'[q].todo \subseteq DOMAIN files' /\ Resolves(proc'[q], blobs')
  <2>1. CASE q = p
    BY <2>1 DEF Become, SafeInv, TypeOK
  <2>2. CASE q # p
    <3>1. proc'[q] = proc[q]
      BY <2>2 DEF Become, SafeInv, TypeOK
    <3>2. Resolves(proc[q], blobs) /\ proc[q].todo \subseteq DOMAIN files
      BY DEF SafeInv, PendingResolve, TodoExists
    <3>3. Resolves(proc[q], blobs')
      BY <3>2 DEF Resolves
    <3> QED
      BY <3>1, <3>2, <3>3
  <2> QED
    BY <2>1, <2>2
<1> QED
  BY <1>1 DEF TodoExists, PendingResolve

\* An idle process has nothing to write.
LEMMA IdleSafe ==
    ASSUME NEW B PROVE Resolves(IdleProc, B) /\ IdleProc.todo = {}
  BY DEF Resolves, IdleProc

\* A step that leaves the segments alone and at most adds blobs keeps
\* RootsResolve.
LEMMA SameFilesSafe ==
    ASSUME RootsResolve, UNCHANGED files, blobs \subseteq blobs'
    PROVE  RootsResolve'
  BY DEF RootsResolve

\* What replay returns resolves.
LEMMA ReplayResolves ==
    ASSUME TypeOK, RootsResolve
    PROVE  \A s \in ByVersion : s.root \in blobs
<1>1. ASSUME NEW x \in Positions PROVE At(x).root \in blobs
  <2>1. PICK i \in DOMAIN files : x \in {i} \X DOMAIN files[i].records
    BY DEF Positions
  <2>2. x[1] = i /\ x[2] \in DOMAIN files[i].records
    BY <2>1
  <2> QED
    BY <2>2 DEF At, RootsResolve
<1>2. ASSUME NEW S, S \subseteq Positions, NEW s \in LastAmong(S)
      PROVE  s.root \in blobs
  BY <1>1, <1>2 DEF LastAmong
<1> QED
  BY <1>2 DEF ByVersion, SnapPositions

\* A label change alone is safe, unless it enters a label that promises blobs.
LEMMA GotoSafe ==
    ASSUME SafeInv, NEW p \in Procs, NEW l, Goto(p, l),
           l \notin {"commit", "log", "snap", "target", "seedwal", "mounted",
                      "fsync"},
           blobs \subseteq blobs', DOMAIN files \subseteq DOMAIN files'
    PROVE  TodoExists' /\ PendingResolve'
<1> DEFINE r == [proc[p] EXCEPT !.pc = l]
<1>1. proc[p] \in ProcState
  BY DEF SafeInv, TypeOK
<1>2. r.todo = proc[p].todo /\ r.buf = proc[p].buf /\ r.known = proc[p].known
      /\ r.pc = l /\ r.kind = proc[p].kind
  BY <1>1 DEF ProcState
<1>3. Resolves(proc[p], blobs) /\ proc[p].todo \subseteq DOMAIN files
  BY DEF SafeInv, PendingResolve, TodoExists
<1> HIDE DEF r
<1>4. Resolves(r, blobs') /\ r.todo \subseteq DOMAIN files'
  BY <1>2, <1>3 DEF Resolves
<1>5. Become(p, r)
  BY DEF Goto, r
<1> QED
  BY <1>4, <1>5, BecomeSafe

\* Starting commands and handling mount.lock.
LEMMA LockSafe ==
    ASSUME SafeInv, NEW p \in Procs,
           \/ StartMount(p) \/ StartSnapshot(p) \/ StartGc(p) \/ StartSeed(p)
           \/ Acquire(p) \/ RemoveStale(p) \/ Reacquire(p) \/ LockWrite(p)
           \/ CheckUnmounted(p) \/ Crash(p) \/ GcDone(p)
           \/ \E i \in proc[p].todo : GcFail(p, i)
    PROVE  Safe'
<1>1. UNCHANGED <<files, blobs>>
  BY DEF StartMount, StartSnapshot, StartGc, StartSeed, Start, Acquire,
         RemoveStale, Reacquire, LockWrite, CheckUnmounted, Crash, GcDone,
         GcFail, disk
<1>2. RootsResolve'
  BY <1>1, SameFilesSafe DEF SafeInv
<1>3. proc[p] \in ProcState /\ Resolves(proc[p], blobs)
      /\ proc[p].todo \subseteq DOMAIN files
  BY DEF SafeInv, TypeOK, PendingResolve, TodoExists
<1>4. ASSUME NEW l, NEW k, NEW w, NEW n,
             l \notin {"commit", "log", "snap", "target", "seedwal", "mounted",
                        "fsync"}
      PROVE  /\ Resolves([IdleProc EXCEPT !.pc = l, !.kind = k], blobs)
             /\ [IdleProc EXCEPT !.pc = l, !.kind = k].todo = {}
             /\ Resolves([IdleProc EXCEPT !.pc = l, !.kind = k, !.wal = w], blobs)
             /\ [IdleProc EXCEPT !.pc = l, !.kind = k, !.wal = w].todo = {}
             /\ Resolves([IdleProc EXCEPT !.pc = l, !.kind = k, !.wal = w,
                                          !.name = n], blobs)
             /\ [IdleProc EXCEPT !.pc = l, !.kind = k, !.wal = w,
                                  !.name = n].todo = {}
  BY <1>4 DEF IdleProc, Resolves
<1>5. CASE StartMount(p) \/ StartSnapshot(p) \/ StartGc(p) \/ StartSeed(p)
  <2>1. \E r : Become(p, r) /\ Resolves(r, blobs) /\ r.todo = {}
    BY <1>4, <1>5 DEF StartMount, StartSnapshot, StartGc, StartSeed
  <2> QED
    BY <1>1, <1>2, <2>1, BecomeSafe DEF Safe
<1>6. CASE Become(p, IdleProc)
  BY <1>1, <1>2, <1>6, IdleSafe, BecomeSafe DEF Safe
<1>7. ASSUME NEW l \in {"stale", "lockwrite", "reacquire", "load"}, Goto(p, l)
      PROVE  Safe'
  BY <1>1, <1>2, <1>7, GotoSafe DEF Safe
<1>8. CASE LockWrite(p)
  <2> DEFINE r == [proc[p] EXCEPT !.pc = "load", !.held = TRUE]
  <2>1. r.todo = proc[p].todo /\ Resolves(r, blobs)
    BY <1>3 DEF ProcState, Resolves
  <2>2. Become(p, r)
    BY <1>8 DEF LockWrite
  <2> HIDE DEF r
  <2> QED
    BY <1>1, <1>2, <1>3, <2>1, <2>2, BecomeSafe DEF Safe
<1>9. CASE Acquire(p) \/ RemoveStale(p) \/ Reacquire(p) \/ CheckUnmounted(p)
  BY <1>6, <1>7, <1>9 DEF Acquire, RemoveStale, Reacquire, CheckUnmounted
<1>10. CASE Crash(p) \/ GcDone(p) \/ \E i \in proc[p].todo : GcFail(p, i)
  BY <1>6, <1>10 DEF Crash, GcDone, GcFail
<1> QED
  BY <1>5, <1>8, <1>9, <1>10

\* Loading the store and preparing to work.
LEMMA LoadSafe ==
    ASSUME SafeInv, NEW p \in Procs,
           Load(p) \/ CreateWal(p) \/ FindSnapshot(p)
    PROVE  Safe'
<1>3. proc[p] \in ProcState /\ Resolves(proc[p], blobs)
      /\ proc[p].todo \subseteq DOMAIN files
  BY DEF SafeInv, TypeOK, PendingResolve, TodoExists
<1>4. CASE Load(p)
  <2>1. UNCHANGED <<files, blobs>> /\ RootsResolve'
    BY <1>4, SameFilesSafe DEF Load, SafeInv
  <2>2. CASE Goto(p, "list")
    BY <2>1, <2>2, GotoSafe DEF Safe
  <2>3. CASE Become(p, IdleProc)
    BY <2>1, <2>3, IdleSafe, BecomeSafe DEF Safe
  <2> DEFINE r == [proc[p] EXCEPT !.pc = "wal", !.mem = ReplayRoot,
                       !.known = ByVersion, !.named = ByName]
  <2>4. CASE Become(p, r)
    <3>1. r.todo = proc[p].todo /\ r.buf = proc[p].buf /\ r.known = ByVersion
          /\ r.pc = "wal"
      BY <1>3 DEF ProcState
    <3>2. \A s \in ByVersion : s.root \in blobs
      BY ReplayResolves DEF SafeInv
    <3> HIDE DEF r
    <3>3. Resolves(r, blobs')
      BY <1>3, <2>1, <3>1, <3>2 DEF Resolves
    <3> QED
      BY <1>3, <2>1, <2>4, <3>1, <3>3, BecomeSafe DEF Safe
  <2> QED
    BY <1>4, <2>2, <2>3, <2>4 DEF Load, End
<1>5. CASE CreateWal(p)
  <2> DEFINE l == CASE proc[p].kind \in {"mount", "automount"} -> "mounted"
                    [] proc[p].kind \in {"snapmount", "switch"} -> "find"
                    [] OTHER -> "commit"
  <2>0. UNCHANGED blobs
    BY <1>5 DEF CreateWal
  <2>1. l \in {"mounted", "find", "commit"} /\ (proc[p].kind = "switch" => l = "find")
    OBVIOUS
  <2> HIDE DEF l
  <2>2. CASE Goto(p, l) /\ UNCHANGED files
    <3> DEFINE r == [proc[p] EXCEPT !.pc = l]
    <3>1. r.todo = proc[p].todo /\ Resolves(r, blobs)
      BY <1>3, <2>1 DEF ProcState, Resolves
    <3>2. RootsResolve' /\ Become(p, r)
      BY <2>0, <2>2, SameFilesSafe DEF SafeInv, Goto
    <3> HIDE DEF r
    <3> QED
      BY <1>3, <2>0, <2>2, <3>1, <3>2, BecomeSafe DEF Safe
  <2>3. ASSUME NEW id \in Nat, files' = Put(files, id, NewFile),
               Become(p, [proc[p] EXCEPT !.pc = l, !.seg = id])
        PROVE  Safe'
    <3> DEFINE r == [proc[p] EXCEPT !.pc = l, !.seg = id]
    <3>1. r.todo = proc[p].todo /\ Resolves(r, blobs)
      BY <1>3, <2>1 DEF ProcState, Resolves
    <3>3. /\ DOMAIN files' = DOMAIN files \cup {id}
          /\ files'[id] = NewFile
          /\ \A i \in DOMAIN files : i # id => files'[i] = files[i]
      BY <2>3 DEF Put
    <3>4. RootsResolve'
      BY <2>0, <3>3 DEF SafeInv, RootsResolve, NewFile
    <3> HIDE DEF r
    <3>5. Become(p, r)
      BY <2>3 DEF r
    <3> QED
      BY <1>3, <2>0, <3>1, <3>3, <3>4, <3>5, BecomeSafe DEF Safe
  <2>4. NumberAfter(DOMAIN files) \subseteq Nat
    BY NumberAfterType DEF SafeInv, TypeOK
  <2> QED
    BY <1>5, <2>2, <2>3, <2>4 DEF CreateWal, l
<1>6. CASE FindSnapshot(p)
  <2>1. UNCHANGED <<files, blobs>> /\ RootsResolve'
    BY <1>6, SameFilesSafe DEF FindSnapshot, SafeInv, disk
  <2>2. ASSUME NEW s \in Findable(proc[p]) PROVE s.root \in blobs
    BY <1>3 DEF Findable, Resolves
  <2>3. ASSUME NEW s \in Findable(proc[p]), proc[p].kind = "switch",
               Become(p, [proc[p] EXCEPT !.pc = "commit", !.target = s.root])
        PROVE  Safe'
    <3> DEFINE r == [proc[p] EXCEPT !.pc = "commit", !.target = s.root]
    <3>1. r.todo = proc[p].todo /\ Resolves(r, blobs)
      BY <1>3, <2>2 DEF ProcState, Resolves
    <3> HIDE DEF r
    <3>2. Become(p, r)
      BY <2>3 DEF r
    <3> QED
      BY <1>3, <2>1, <3>1, <3>2, BecomeSafe DEF Safe
  <2>4. ASSUME NEW s \in Findable(proc[p]), proc[p].kind # "switch",
               Become(p, [proc[p] EXCEPT !.pc = "mounted", !.mem = s.root,
                              !.wal = "NoWal", !.known = {}, !.named = {}])
        PROVE  Safe'
    <3> DEFINE r == [proc[p] EXCEPT !.pc = "mounted", !.mem = s.root,
                         !.wal = "NoWal", !.known = {}, !.named = {}]
    <3>1. r.todo = proc[p].todo /\ Resolves(r, blobs)
      BY <1>3, <2>4 DEF ProcState, Resolves
    <3> HIDE DEF r
    <3>2. Become(p, r)
      BY <2>4 DEF r
    <3> QED
      BY <1>3, <2>1, <3>1, <3>2, BecomeSafe DEF Safe
  <2>5. CASE Goto(p, "exit")
    BY <2>1, <2>5, GotoSafe DEF Safe
  <2> QED
    BY <1>6, <2>3, <2>4, <2>5 DEF FindSnapshot
<1> QED
  BY <1>4, <1>5, <1>6

\* Appending a record that resolves.
LEMMA AppendResolves ==
    ASSUME NEW B, NEW R, NEW b \in Seq(R), NEW rec, rec.root \in B,
           \A k \in DOMAIN b : b[k].root \in B
    PROVE  \A k \in DOMAIN Append(b, rec) : Append(b, rec)[k].root \in B
<1>1. /\ Len(b) \in Nat
      /\ DOMAIN b = 1 .. Len(b)
      /\ DOMAIN Append(b, rec) = 1 .. Len(b) + 1
      /\ \A k \in 1 .. Len(b) + 1 :
            Append(b, rec)[k] = IF k = Len(b) + 1 THEN rec ELSE b[k]
  BY SMT
<1>2. ASSUME NEW k \in 1 .. Len(b) + 1 PROVE Append(b, rec)[k].root \in B
  <2>1. CASE k = Len(b) + 1
    BY <1>1, <2>1
  <2>2. CASE k # Len(b) + 1
    BY <1>1, <2>2
  <2> QED
    BY <2>1, <2>2
<1> QED
  BY <1>1, <1>2

\* A mounted filesystem, and the two halves of commit and create_snapshot.
LEMMA CommitSafe ==
    ASSUME SafeInv, NEW p \in Procs,
           \/ Mutate(p) \/ Fsync(p) \/ Unmount(p) \/ FsyncDone(p)
           \/ ShutdownWal(p) \/ CommitBlobs(p) \/ LogRoot(p) \/ LogSnapshot(p)
           \/ LogTarget(p) \/ SeedImport(p) \/ GcList(p)
    PROVE  Safe'
<1>1. UNCHANGED files /\ blobs \subseteq blobs'
  BY DEF Mutate, Fsync, Unmount, FsyncDone, ShutdownWal, CommitBlobs, LogRoot,
         LogSnapshot, LogTarget, SeedImport, GcList, disk
<1>2. RootsResolve'
  BY <1>1, SameFilesSafe DEF SafeInv
<1>3. proc[p] \in ProcState /\ Resolves(proc[p], blobs)
      /\ proc[p].todo \subseteq DOMAIN files
  BY DEF SafeInv, TypeOK, PendingResolve, TodoExists
<1>4. ASSUME NEW r, Become(p, r), Resolves(r, blobs'), r.todo \subseteq DOMAIN files
      PROVE  Safe'
  BY <1>1, <1>2, <1>4, BecomeSafe DEF Safe
<1>5. ASSUME NEW rec, rec.root \in blobs
      PROVE  \A k \in DOMAIN Logged(proc[p], rec) :
                 Logged(proc[p], rec)[k].root \in blobs
  <2>1. proc[p].buf \in Seq(Record)
    BY <1>3 DEF ProcState
  <2>2. \A k \in DOMAIN proc[p].buf : proc[p].buf[k].root \in blobs
    BY <1>3 DEF Resolves
  <2>3. CASE proc[p].wal = "NoWal"
    BY <2>2, <2>3 DEF Logged
  <2>4. CASE proc[p].wal # "NoWal"
    BY <1>5, <2>1, <2>2, <2>4, AppendResolves DEF Logged
  <2> QED
    BY <2>3, <2>4
<1>6. CASE ShutdownWal(p)
  BY <1>1, <1>2, <1>6, GotoSafe DEF ShutdownWal, Safe
<1>12. CASE Fsync(p) \/ FsyncDone(p)
  <2> DEFINE l == IF proc[p].pc = "mounted" THEN "fsync" ELSE "mounted"
             r == [proc[p] EXCEPT !.pc = l]
  <2>1. Become(p, r) /\ proc[p].pc \in {"mounted", "fsync"}
    BY <1>12 DEF Fsync, FsyncDone, Goto
  <2>2. r.todo = proc[p].todo /\ Resolves(r, blobs')
    BY <1>1, <1>3, <2>1 DEF ProcState, Resolves
  <2> HIDE DEF r
  <2> QED
    BY <1>3, <1>4, <2>1, <2>2
<1>7. CASE Mutate(p)
  <2> DEFINE r == [proc[p] EXCEPT !.mem = states + 1]
  <2>1. proc[p].pc = "mounted" /\ Become(p, r)
    BY <1>7 DEF Mutate
  <2>2. r.todo = proc[p].todo /\ Resolves(r, blobs')
    BY <1>1, <1>3, <2>1 DEF ProcState, Resolves
  <2> QED
    BY <1>3, <1>4, <2>1, <2>2
<1>8. CASE Unmount(p)
  <2> DEFINE r == [proc[p] EXCEPT !.pc = "commit"]
  <2>1. Become(p, r)
    BY <1>8 DEF Unmount, Goto
  <2>2. proc[p].pc = "mounted" /\ proc[p].kind # "switch"
    BY <1>3, <1>8 DEF Unmount, Resolves
  <2>3. r.todo = proc[p].todo /\ Resolves(r, blobs')
    BY <1>1, <1>3, <2>2 DEF ProcState, Resolves
  <2> QED
    BY <1>3, <1>4, <2>1, <2>3
<1>9. CASE CommitBlobs(p)
  <2> DEFINE r == [proc[p] EXCEPT !.pc = "log"]
  <2>1. Become(p, r) /\ proc[p].mem \in blobs' /\ proc[p].pc = "commit"
    BY <1>9 DEF CommitBlobs, Goto
  <2>2. r.todo = proc[p].todo /\ Resolves(r, blobs')
    BY <1>1, <1>3, <2>1 DEF ProcState, Resolves
  <2> QED
    BY <1>3, <1>4, <2>1, <2>2
<1>10. CASE SeedImport(p)
  <2> DEFINE r == [proc[p] EXCEPT !.pc = "seedwal", !.mem = states + 1]
  <2>1. Become(p, r) /\ states + 1 \in blobs'
    BY <1>10 DEF SeedImport
  <2>2. r.todo = proc[p].todo /\ Resolves(r, blobs')
    BY <1>1, <1>3, <2>1 DEF ProcState, Resolves
  <2> QED
    BY <1>3, <1>4, <2>1, <2>2
<1>11. CASE GcList(p)
  <2> DEFINE r == [proc[p] EXCEPT !.pc = "compact", !.todo = DOMAIN files]
  <2>1. Become(p, r)
    BY <1>11 DEF GcList
  <2>2. r.todo = DOMAIN files /\ Resolves(r, blobs')
    BY <1>1, <1>3, <2>1 DEF ProcState, Resolves
  <2> QED
    BY <1>4, <2>1, <2>2
<1>13. CASE LogRoot(p)
  <2> DEFINE b == Logged(proc[p], RootUpdate(proc[p].mem))
             r1 == [[proc[p] EXCEPT !.buf = b] EXCEPT !.pc = "shutdown"]
             r2 == [[proc[p] EXCEPT !.buf = b] EXCEPT
                       !.pc = "commit", !.name = "auto-unmount"]
             r3 == [[proc[p] EXCEPT !.buf = b] EXCEPT !.pc = "snap"]
             r4 == [r2 EXCEPT !.kind = "create"]
  <2>1. /\ proc[p].pc = "log"
        /\ \/ Become(p, r1) \/ Become(p, r3) \/ Become(p, r4)
           \/ proc[p].kind = "snapmount" /\ Become(p, r2)
    BY <1>13 DEF LogRoot
  <2>2. proc[p].mem \in blobs
    BY <1>3, <2>1 DEF Resolves
  <2>3. RootUpdate(proc[p].mem).root \in blobs
    BY <2>2 DEF RootUpdate
  <2>4. \A k \in DOMAIN b : b[k].root \in blobs
    BY <1>5, <2>3
  <2> HIDE DEF b
  <2>5. /\ r1.todo = proc[p].todo /\ Resolves(r1, blobs')
        /\ r2.todo = proc[p].todo
        /\ proc[p].kind = "snapmount" => Resolves(r2, blobs')
        /\ r3.todo = proc[p].todo /\ Resolves(r3, blobs')
        /\ r4.todo = proc[p].todo /\ Resolves(r4, blobs')
    BY <1>1, <1>3, <2>1, <2>2, <2>4 DEF ProcState, Resolves
  <2> HIDE DEF r1, r2, r3, r4
  <2> QED
    BY <1>3, <1>4, <2>1, <2>5
<1>14. CASE LogSnapshot(p)
  <2> DEFINE n == IF proc[p].kind = "switch" THEN "auto-before-switch"
                  ELSE proc[p].name
             snap(v) == Snapshot(v, proc[p].mem, n)
             r(v) == [proc[p] EXCEPT
                    !.pc = IF proc[p].kind = "switch" THEN "target" ELSE "shutdown",
                    !.buf = Logged(proc[p], snap(v)),
                    !.known = @ \cup {snap(v)},
                    !.named = IF n = NoName THEN @
                              ELSE {t \in @ : t.name # n} \cup {snap(v)}]
  <2>1. proc[p].pc = "snap" /\ \E v : Become(p, r(v))
    BY <1>14 DEF LogSnapshot
  <2>2. proc[p].mem \in blobs /\ (proc[p].kind = "switch" => proc[p].target \in blobs)
    BY <1>3, <2>1 DEF Resolves
  <2>3. ASSUME NEW v PROVE r(v).todo = proc[p].todo /\ Resolves(r(v), blobs')
    <3>1. snap(v).root \in blobs
      BY <2>2 DEF Snapshot
    <3>2. \A k \in DOMAIN Logged(proc[p], snap(v)) :
              Logged(proc[p], snap(v))[k].root \in blobs
      BY <1>5, <3>1
    <3>3. \A s \in proc[p].known \cup {snap(v)} : s.root \in blobs
      BY <1>3, <3>1 DEF Resolves
    <3> HIDE DEF snap, n
    <3>4. /\ r(v).todo = proc[p].todo
          /\ r(v).buf = Logged(proc[p], snap(v))
          /\ r(v).known = proc[p].known \cup {snap(v)}
          /\ r(v).pc = IF proc[p].kind = "switch" THEN "target" ELSE "shutdown"
          /\ r(v).target = proc[p].target
      BY <1>3 DEF ProcState
    <3> HIDE DEF r
    <3> QED
      BY <1>1, <2>2, <3>2, <3>3, <3>4 DEF Resolves
  <2> HIDE DEF r
  <2> QED
    BY <1>3, <1>4, <2>1, <2>3
<1>15. CASE LogTarget(p)
  <2> DEFINE b == Logged(proc[p], RootUpdate(proc[p].target))
             r == [proc[p] EXCEPT !.pc = "shutdown", !.buf = b]
  <2>1. proc[p].pc = "target" /\ Become(p, r)
    BY <1>15 DEF LogTarget
  <2>2. RootUpdate(proc[p].target).root \in blobs
    BY <1>3, <2>1 DEF Resolves, RootUpdate
  <2>3. \A k \in DOMAIN b : b[k].root \in blobs
    BY <1>5, <2>2
  <2> HIDE DEF b
  <2>4. r.todo = proc[p].todo /\ Resolves(r, blobs')
    BY <1>1, <1>3, <2>3 DEF ProcState, Resolves
  <2> HIDE DEF r
  <2> QED
    BY <1>3, <1>4, <2>1, <2>4
<1> QED
  BY <1>6, <1>7, <1>8, <1>9, <1>10, <1>11, <1>12, <1>13, <1>14, <1>15

\* Writing the WAL: a record reaches a file from the head of a buffer.
LEMMA WriteSafe ==
    ASSUME SafeInv, NEW p \in Procs, WriteHeader(p) \/ WriteRecord(p) \/ Exit(p)
    PROVE  Safe'
<1>1. proc[p] \in ProcState /\ Resolves(proc[p], blobs)
      /\ proc[p].todo \subseteq DOMAIN files
  BY DEF SafeInv, TypeOK, PendingResolve, TodoExists
<1>2. UNCHANGED blobs /\ DOMAIN files' = DOMAIN files
  BY DEF WriteHeader, WriteRecord, Exit
<1>3. ASSUME NEW id, files' = [files EXCEPT ![id].header = TRUE]
      PROVE  RootsResolve'
  <2>1. ASSUME NEW i \in DOMAIN files PROVE files'[i].records = files[i].records
    <3>1. files[i] \in File
      BY DEF SafeInv, TypeOK
    <3> QED
      BY <1>3, <3>1 DEF File
  <2> QED
    BY <1>2, <2>1 DEF SafeInv, RootsResolve
<1>4. CASE WriteHeader(p)
  BY <1>2, <1>3, <1>4 DEF WriteHeader, Safe, SafeInv, TodoExists, PendingResolve,
     Resolves
<1>5. CASE WriteRecord(p)
  <2> DEFINE b == proc[p].buf
             r == [proc[p] EXCEPT !.buf = Tail(b)]
             id == proc[p].seg
  <2>1. b \in Seq(Record) /\ b # <<>> /\ Become(p, r)
    BY <1>1, <1>5 DEF ProcState, WriteRecord
  <2>2. /\ Head(b) = b[1] /\ 1 \in DOMAIN b
        /\ \A k \in DOMAIN Tail(b) : k + 1 \in DOMAIN b /\ Tail(b)[k] = b[k + 1]
    BY <2>1
  <2>3. /\ Head(b).root \in blobs
        /\ \A k \in DOMAIN Tail(b) : Tail(b)[k].root \in blobs
    BY <1>1, <2>2 DEF Resolves
  <2>4. r.todo = proc[p].todo /\ Resolves(r, blobs')
    BY <1>1, <1>2, <2>3 DEF ProcState, Resolves
  <2>5. RootsResolve'
    <3>1. CASE id = 0
      BY <1>2, <1>5, <3>1, SameFilesSafe DEF WriteRecord, SafeInv
    <3>2. CASE id # 0
      <4>1. files' = [files EXCEPT ![id].records = Append(@, Head(b))]
        BY <1>5, <3>2 DEF WriteRecord
      <4> HIDE DEF b, id
      <4>2. ASSUME NEW i \in DOMAIN files, NEW k \in DOMAIN files'[i].records
            PROVE  files'[i].records[k].root \in blobs
        <5>1. files[i] \in File
          BY DEF SafeInv, TypeOK
        <5>2. files[i].records \in Seq(Record)
          BY <5>1 DEF File
        <5>3. \A j \in DOMAIN files[i].records : files[i].records[j].root \in blobs
          BY DEF SafeInv, RootsResolve
        <5>4. CASE i = id
          <6>1. files'[i].records = Append(files[i].records, Head(b))
            BY <4>1, <5>1, <5>4 DEF File
          <6> QED
            BY <2>3, <4>2, <5>2, <5>3, <6>1, AppendResolves
        <5>5. CASE i # id
          BY <4>1, <4>2, <5>3, <5>5
        <5> QED
          BY <5>4, <5>5
      <4> QED
        BY <1>2, <4>2 DEF RootsResolve
    <3> QED
      BY <3>1, <3>2
  <2> HIDE DEF r
  <2> QED
    BY <1>1, <1>2, <2>1, <2>4, <2>5, BecomeSafe DEF Safe
<1>6. CASE Exit(p)
  <2>1. RootsResolve'
    BY <1>2, <1>3, <1>6, SameFilesSafe DEF Exit, SafeInv
  <2>2. Become(p, IdleProc)
    BY <1>6 DEF Exit, End
  <2> QED
    BY <1>2, <2>1, <2>2, IdleSafe, BecomeSafe DEF Safe
<1> QED
  BY <1>4, <1>5, <1>6

\* The segment seed writes, and the copies garbage collection makes.
LEMMA SegmentSafe ==
    ASSUME SafeInv, NEW p \in Procs,
           SeedSegment(p) \/ \E i \in proc[p].todo : GcCompact(p, i)
    PROVE  Safe'
<1>1. proc[p] \in ProcState /\ Resolves(proc[p], blobs)
      /\ proc[p].todo \subseteq DOMAIN files
  BY DEF SafeInv, TypeOK, PendingResolve, TodoExists
<1>2. ASSUME NEW id, NEW f, files' = Put(files, id, f), UNCHANGED blobs,
             \A k \in DOMAIN f.records : f.records[k].root \in blobs
      PROVE  RootsResolve' /\ DOMAIN files \subseteq DOMAIN files'
  <2>1. /\ DOMAIN files' = DOMAIN files \cup {id}
        /\ files'[id] = f
        /\ \A i \in DOMAIN files : i # id => files'[i] = files[i]
    BY <1>2 DEF Put
  <2> QED
    BY <1>2, <2>1 DEF SafeInv, RootsResolve
<1>3. CASE SeedSegment(p)
  <2> DEFINE b == <<RootUpdate(proc[p].mem)>>
             r == [proc[p] EXCEPT !.pc = "shutdown", !.wal = "FlushOnFsync",
                                  !.seg = 1, !.buf = b]
  <2>1. proc[p].mem \in blobs /\ Become(p, r) /\ UNCHANGED blobs
    BY <1>1, <1>3 DEF SeedSegment, Resolves
  <2>2. \A k \in DOMAIN b : b[k].root \in blobs
    BY <2>1 DEF RootUpdate
  <2>3. RootsResolve' /\ DOMAIN files \subseteq DOMAIN files'
    BY <1>2, <1>3, <2>1 DEF SeedSegment, NewFile
  <2> HIDE DEF b
  <2>4. r.todo = proc[p].todo /\ Resolves(r, blobs')
    BY <1>1, <2>1, <2>2 DEF ProcState, Resolves
  <2> HIDE DEF r
  <2> QED
    BY <1>1, <2>1, <2>3, <2>4, BecomeSafe DEF Safe
<1>4. ASSUME NEW i \in proc[p].todo, GcCompact(p, i) PROVE Safe'
  <2>1. \A k \in DOMAIN files[i].records : files[i].records[k].root \in blobs
    BY <1>1 DEF SafeInv, RootsResolve
  <2>2. RootsResolve' /\ DOMAIN files \subseteq DOMAIN files' /\ UNCHANGED blobs
    BY <1>2, <1>4, <2>1 DEF GcCompact
  <2>3. ASSUME NEW q \in Procs
        PROVE  Resolves(proc'[q], blobs') /\ proc'[q].todo \subseteq DOMAIN files'
    <3>1. proc[q] \in ProcState /\ Resolves(proc[q], blobs)
          /\ proc[q].todo \subseteq DOMAIN files
      BY DEF SafeInv, TypeOK, PendingResolve, TodoExists
    <3>2. /\ proc'[q].buf = proc[q].buf /\ proc'[q].known = proc[q].known
          /\ proc'[q].pc = proc[q].pc /\ proc'[q].kind = proc[q].kind
          /\ proc'[q].mem = proc[q].mem /\ proc'[q].target = proc[q].target
          /\ proc'[q].todo \subseteq proc[q].todo
      <4>1. CASE q = p
        BY <1>1, <1>4, <4>1 DEF GcCompact, ProcState
      <4>2. CASE q # p
        BY <1>4, <3>1, <4>2 DEF GcCompact, ProcState
      <4> QED
        BY <4>1, <4>2
    <3> QED
      BY <2>2, <3>1, <3>2 DEF Resolves
  <2> QED
    BY <2>2, <2>3 DEF Safe, TodoExists, PendingResolve
<1> QED
  BY <1>3, <1>4

\* The initial states.
LEMMA InitSafe == Init => SafeInv
<1> SUFFICES ASSUME Init PROVE SafeInv
  OBVIOUS
<1>1. TypeOK
  BY InitType
<1>2. TodoExists /\ PendingResolve
  BY IdleSafe DEF Init, TodoExists, PendingResolve
<1>3. RootsResolve
  BY DEF Init, RootsResolve
<1> QED
  BY <1>1, <1>2, <1>3 DEF SafeInv

\* Every step keeps the invariant.
LEMMA StepSafe == SafeInv /\ [Next]_vars => SafeInv'
<1> SUFFICES ASSUME SafeInv, [Next]_vars PROVE SafeInv'
  OBVIOUS
<1>1. TypeOK /\ TodoExists
  BY DEF SafeInv
<1> DEFINE Good == TypeOK /\ Safe
<1>2. ASSUME NEW p \in Procs,
             \/ StartMount(p) \/ StartSnapshot(p) \/ StartGc(p) \/ StartSeed(p)
      PROVE  Good'
  BY <1>1, <1>2, StartType, LockSafe
<1>3. ASSUME NEW p \in Procs,
             \/ Acquire(p) \/ RemoveStale(p) \/ Reacquire(p) \/ LockWrite(p)
             \/ CheckUnmounted(p)
      PROVE  Good'
  BY <1>1, <1>3, LockType, LockSafe
<1>4. ASSUME NEW p \in Procs, Load(p) \/ CreateWal(p) \/ FindSnapshot(p)
      PROVE  Good'
  BY <1>1, <1>4, LoadType, LoadSafe
<1>5. ASSUME NEW p \in Procs,
             \/ Mutate(p) \/ Fsync(p) \/ Unmount(p) \/ FsyncDone(p)
             \/ ShutdownWal(p) \/ CommitBlobs(p)
      PROVE  Good'
  BY <1>1, <1>5, MountedType, CommitSafe
<1>6. ASSUME NEW p \in Procs, LogRoot(p) \/ LogSnapshot(p) \/ LogTarget(p)
      PROVE  Good'
  BY <1>1, <1>6, LogType, CommitSafe
<1>7. ASSUME NEW p \in Procs, WriteHeader(p) \/ WriteRecord(p) \/ Exit(p)
      PROVE  Good'
  BY <1>1, <1>7, WriteType, WriteSafe
<1>8. ASSUME NEW p \in Procs, Crash(p) PROVE Good'
  BY <1>1, <1>8, WriteType, LockSafe
<1>9. ASSUME NEW p \in Procs, SeedImport(p) \/ GcList(p) PROVE Good'
  BY <1>1, <1>9, SeedGcType, CommitSafe
<1>10. ASSUME NEW p \in Procs,
              GcDone(p) \/ \E i \in proc[p].todo : GcFail(p, i)
       PROVE  Good'
  BY <1>1, <1>10, SeedGcType, LockSafe
<1>11. ASSUME NEW p \in Procs,
              SeedSegment(p) \/ \E i \in proc[p].todo : GcCompact(p, i)
       PROVE  Good'
  BY <1>1, <1>11, SeedGcType, SegmentSafe
<1>12. ASSUME CleanMountLock PROVE Good'
  BY <1>12 DEF CleanMountLock, SafeInv, Safe, TypeOK, TodoExists, RootsResolve,
     PendingResolve, Resolves, history
<1>13. ASSUME UNCHANGED vars PROVE Good'
  BY <1>13 DEF vars, SafeInv, Safe, TypeOK, TodoExists, RootsResolve,
     PendingResolve, Resolves
<1>14. ASSUME NEW p \in Procs, Progress(p) PROVE Good'
  BY <1>3, <1>4, <1>5, <1>6, <1>7, <1>9, <1>10, <1>11, <1>14 DEF Progress
<1> HIDE DEF Good
<1>15. Good'
  BY <1>2, <1>5, <1>8, <1>12, <1>13, <1>14 DEF Next, Rest
<1> QED
  BY <1>15 DEF Good, Safe, SafeInv

\* The inductive invariant holds in every reachable state.
THEOREM Safety == Spec => []SafeInv
<1> QED
  BY InitSafe, StepSafe, PTL DEF Spec

\* For any number of processes, commands, states and crashes, any segment
\* numbering and any WAL strategies, the variables keep their types; in
\* particular no step applies a file or a buffer outside its domain.
THEOREM TypeCorrect == Spec => []TypeOK
<1>1. SafeInv => TypeOK
  BY DEF SafeInv
<1> QED
  BY <1>1, Safety, PTL

\* For every value of the constants, every root and snapshot in a segment has
\* its blobs on disk, through every interleaving of commands and crashes.
THEOREM RootsAlwaysResolve == Spec => []RootsResolve
<1>1. SafeInv => RootsResolve
  BY DEF SafeInv
<1> QED
  BY <1>1, Safety, PTL

-----------------------------------------------------------------------------
(***************************************************************************)
(* What segment replay gives, for any number of processes, commands,       *)
(* crashes, states and snapshot names.                                     *)
(*                                                                         *)
(* The theorems are about stores on which one command runs at a time, that *)
(* are seeded once, have not been garbage collected and whose segment      *)
(* numbers fit the width of their file names.  When commands overlap, seed *)
(* again, fail in a collection or outgrow the names the code does not keep *)
(* them (see README.md); the run gc covers collections that end.           *)
(***************************************************************************)

HIDE ConstantsAssumption

\* The commands that b still allows.
Left(b) ==
    b["seed"] + b["mount"] + b["automount"] + b["snapmount"] + b["create"] + b["switch"]

\* One command at a time, one seed, no collection, padded numbers.
Orderly ==
    Serial /\ Budget["seed"] <= 1 /\ Budget["gc"] = 0 /\ Left(Budget) < PadLimit

-----------------------------------------------------------------------------
(* The invariant.                                                          *)

Busy(p) == proc[p].pc # "idle"

\* One process runs, and no collection; the others hold nothing.
Alone ==
    /\ \A p, q \in Procs : Busy(p) /\ Busy(q) => p = q
    /\ \A p \in Procs : ~Busy(p) => proc[p] = IdleProc
    /\ budget["gc"] = 0

\* A command that may still create a segment.
Expecting == \E p \in Procs : Busy(p) /\ proc[p].seg = 0

\* There is a number left for every command; the running one writes to the
\* segment with the largest; the first segment is the one of the seed.
Segments ==
    /\ \A i \in DOMAIN files : i # 0 /\ (files[i].header \/ files[i].records = <<>>)
    /\ \A i \in DOMAIN files \cup {0} :
          i + Left(budget) + (IF Expecting THEN 1 ELSE 0) <= Left(Budget)
    /\ \A p \in Procs : proc[p].seg # 0 =>
          proc[p].seg \in DOMAIN files /\ \A i \in DOMAIN files : i <= proc[p].seg
    /\ budget["seed"] <= 1 /\ (budget["seed"] = 1 => DOMAIN files = {})
    /\ \A p \in Procs : Busy(p) =>
          /\ budget["seed"] = 0
          /\ DOMAIN files = {} <=> proc[p].pc \in {"import", "seedwal"}

\* The roots that were committed.
Roots == {At(x).root : x \in RootPositions}

\* x is the last of a set of positions.
IsLast(S, x) == x \in S /\ \A y \in S \ {x} : Before(y, x)

\* The order of replay: the root written last comes last, and versions rise.
Order ==
    /\ \/ RootPositions = {} /\ lastDurable = 0
       \/ \E x \in RootPositions : IsLast(RootPositions, x) /\ At(x).root = lastDurable
    /\ \A x, y \in SnapPositions : Before(x, y) => At(x).version < At(y).version

\* Roots are states that were made, one of them is the newest, and the root of
\* a snapshot was committed.
Disk ==
    /\ Roots # {} => \E m \in Roots : \A n \in Roots : n <= m
    /\ \A m \in Roots : m <= states
    /\ \A s \in Saved : s.root \in Roots
    /\ \A m \in blobs : 0 < m /\ m <= states

\* A snapshot is mounted, or its mount is being ended.
Shown(r) ==
    /\ r.kind = "snapmount"
    /\ r.pc \in {"mounted", "fsync", "commit", "log", "snap", "shutdown"}

\* Which commands come to which label, and with what in their buffers.
Stage(r) ==
    /\ r.kind # "gc"
    /\ r.pc \in {"acquire", "stale", "reacquire", "lockwrite", "check", "load", "wal",
                 "import", "seedwal"} => r.seg = 0
    /\ r.pc \notin {"commit", "log", "snap", "target", "shutdown"} => r.buf = <<>>
    /\ r.wal = "NoWal" => r.buf = <<>>
    /\ r.wal # "NoWal" /\ r.pc \in {"find", "mounted", "fsync", "commit", "log", "snap",
                                    "target", "shutdown"} => r.seg # 0
    /\ r.pc \in {"acquire", "stale", "reacquire", "lockwrite", "mounted", "fsync"}
          => r.kind \in MountKinds
    /\ r.pc = "check" => r.kind \in {"create", "switch"}
    /\ r.pc \in {"load", "wal"} => r.kind \in MountKinds \cup {"create", "switch"}
    /\ r.pc = "find" => r.kind \in {"snapmount", "switch"}
    /\ r.pc \in {"commit", "log"} => r.kind \in MountKinds \cup {"create", "switch"}
    /\ r.pc = "snap" => r.kind \in {"create", "switch", "snapmount"}
    /\ r.pc = "target" => r.kind = "switch"
    /\ r.pc = "shutdown" => r.kind \in {"mount", "create", "switch", "seed", "snapmount"}
    /\ r.pc = "exit" => r.kind \in {"mount", "create", "switch", "seed", "snapmount"}
    /\ r.pc \in {"import", "seedwal"} => r.kind = "seed"
    /\ r.pc \notin {"list", "compact"}
    /\ Shown(r) => r.wal = "NoWal" /\ r.pc # "fsync"
    /\ r.kind \in MountKinds \ {"snapmount"} => r.wal \in Strategies
    /\ r.held /\ r.kind # "snapmount" => r.wal \in Strategies
    /\ r.held => r.kind \notin {"switch", "seed"}

\* The store is loaded and the snapshots in memory are those on disk.
Loaded == {"wal", "find", "mounted", "fsync", "commit", "log", "snap"}

\* A switch that has written everything.
Switched(r) == r.pc = "shutdown" /\ r.kind = "switch" /\ r.buf = <<>>

\* What memory says of the disk: a state that is not on disk is newer than all
\* that are.
Memory(r) ==
    /\ r.pc \in Loaded /\ ~Shown(r) => r.known = Saved
    /\ r.pc \in Loaded \cup {"target", "shutdown", "seedwal"} => r.mem \in 1 .. states
    /\ r.pc \in {"wal", "find"} => r.mem = lastDurable
    /\ ~Shown(r) /\ \/ r.pc \in {"mounted", "fsync"}
                    \/ r.pc \in {"commit", "log", "snap", "target", "shutdown"} /\ ~Switched(r)
       => r.mem = lastDurable \/ \A m \in Roots : m < r.mem
    /\ r.kind = "switch" /\ r.pc \in {"commit", "log", "snap", "target", "shutdown"}
       => \E s \in Saved : s.root = r.target

\* What is in the buffer, in which order, and what it will do: commits of the
\* state in memory, a snapshot of it with a new version, and the target of a
\* switch.
Queue(r) ==
    /\ \A k \in DOMAIN r.buf :
          \/ r.buf[k] = RootUpdate(r.mem)
          \/ /\ r.buf[k].type = "snap" /\ r.buf[k].root = r.mem
             /\ \A s \in Saved : s.version < r.buf[k].version
             /\ r.pc \in {"target", "shutdown"}
             /\ \A j \in DOMAIN r.buf : j < k => r.buf[j] = RootUpdate(r.mem)
             /\ \A j \in DOMAIN r.buf : j > k => /\ r.buf[j] = RootUpdate(r.target)
                                                 /\ r.kind = "switch" /\ r.pc = "shutdown"
          \/ /\ r.buf[k] = RootUpdate(r.target) /\ r.kind = "switch" /\ r.pc = "shutdown"
             /\ k = Len(r.buf)
    /\ r.pc \in {"snap", "target", "shutdown"} /\ ~Switched(r) /\ r.wal # "NoWal"
          /\ r.mem # lastDurable => r.buf # <<>> /\ r.buf[1] = RootUpdate(r.mem)
    /\ r.pc \in {"target", "shutdown"} /\ r.kind = "switch" /\ ~Switched(r) /\ r.wal # "NoWal"
       => \/ \E s \in Saved : s.root = r.mem
          \/ \E k \in DOMAIN r.buf : r.buf[k].type = "snap"
    /\ r.pc = "exit" /\ r.kind \in {"mount", "create"} /\ r.wal # "NoWal"
       => r.mem = lastDurable

\* What holds of the state r of a process.
Good(r) == Stage(r) /\ Memory(r) /\ Queue(r)

IInv ==
    /\ SafeInv /\ Alone /\ Segments /\ Order /\ Disk
    /\ \A p \in Procs : Good(proc[p])

-----------------------------------------------------------------------------
(* Positions and their order.                                              *)

\* A position is a segment with a header and the index of a record of it.
LEMMA PositionFacts ==
    ASSUME TypeOK
    PROVE  /\ \A x \in Positions :
                 /\ x = <<x[1], x[2]>> /\ x[1] \in DOMAIN files /\ files[x[1]].header
                 /\ x[2] \in DOMAIN files[x[1]].records
                 /\ x[1] \in Nat /\ x[2] \in Nat /\ At(x) \in Record
           /\ \A i \in DOMAIN files : \A k \in DOMAIN files[i].records :
                 files[i].header => <<i, k>> \in Positions
<1>1. ASSUME NEW x \in Positions
      PROVE  /\ x = <<x[1], x[2]>> /\ x[1] \in DOMAIN files /\ files[x[1]].header
             /\ x[2] \in DOMAIN files[x[1]].records
             /\ x[1] \in Nat /\ x[2] \in Nat /\ At(x) \in Record
  <2>1. PICK i \in DOMAIN files : files[i].header /\ x \in {i} \X DOMAIN files[i].records
    BY DEF Positions
  <2>2. x = <<x[1], x[2]>> /\ x[1] = i /\ x[2] \in DOMAIN files[i].records
    BY <2>1
  <2>3. i \in Nat /\ files[i].records \in Seq(Record)
    BY DEF TypeOK, File
  <2>4. x[2] \in Nat
    BY <2>2, <2>3
  <2> QED
    BY <2>1, <2>2, <2>3, <2>4, ReplayType
<1>2. ASSUME NEW i \in DOMAIN files, NEW k \in DOMAIN files[i].records, files[i].header
      PROVE  <<i, k>> \in Positions
  BY <1>2 DEF Positions
<1> QED
  BY <1>1, <1>2

\* Numbers that fit the width of a file name are replayed in their own order.
LEMMA OrderOfNames ==
    ASSUME NEW i \in Nat, NEW j \in Nat, i < PadLimit, j < PadLimit
    PROVE  LexLess(i, j) <=> i < j
  BY ConstantsAssumption DEF LexLess, SortKey

\* The last of a set of positions is unique.
LEMMA LastUnique ==
    ASSUME NEW S, NEW x, IsLast(S, x),
           \A y \in S : Before(x, y) /\ Before(y, x) => FALSE
    PROVE  LastOf(S) = x
<1>1. \A y \in S : (\A z \in S \ {y} : Before(z, y)) => y = x
  BY DEF IsLast
<1>2. x \in S /\ \A z \in S \ {x} : Before(z, x)
  BY DEF IsLast
<1> QED
  BY <1>1, <1>2 DEF LastOf

\* No position comes before another one and after it.
LEMMA BeforeStrict ==
    ASSUME NEW x, NEW y, x[1] \in Nat, y[1] \in Nat, x[2] \in Nat, y[2] \in Nat,
           x[1] < PadLimit, y[1] < PadLimit
    PROVE  /\ ~(Before(x, y) /\ Before(y, x))
           /\ x[1] # y[1] \/ x[2] # y[2] => Before(x, y) \/ Before(y, x)
  BY OrderOfNames DEF Before

\* Replay returns the root that was written last.
LEMMA ReplayIsLast ==
    ASSUME TypeOK, Order, \A i \in DOMAIN files : i < PadLimit
    PROVE  ReplayRoot = lastDurable
<1>1. CASE RootPositions = {}
  BY <1>1 DEF Order, ReplayRoot
<1>2. CASE RootPositions # {}
  <2>1. PICK x \in RootPositions : IsLast(RootPositions, x) /\ At(x).root = lastDurable
    BY <1>2 DEF Order
  <2>2. \A y \in RootPositions : ~(Before(x, y) /\ Before(y, x))
    BY PositionFacts, BeforeStrict DEF RootPositions
  <2>3. LastOf(RootPositions) = x
    BY <2>1, <2>2, LastUnique
  <2> QED
    BY <1>2, <2>1, <2>3 DEF ReplayRoot
<1> QED
  BY <1>1, <1>2

\* The number of commands that are left.
LEMMA LeftType ==
    ASSUME NEW b \in [Bounded -> Nat]
    PROVE  Left(b) \in Nat
<1>1. /\ b["seed"] \in Nat /\ b["mount"] \in Nat /\ b["automount"] \in Nat
      /\ b["snapmount"] \in Nat /\ b["create"] \in Nat /\ b["switch"] \in Nat
  BY DEF Bounded, Kinds
<1> QED
  BY <1>1 DEF Left

\* Numbers in use are padded ones.
LEMMA Padded ==
    ASSUME IInv, Orderly
    PROVE  \A i \in DOMAIN files : i \in Nat /\ i < PadLimit
<1>1. TypeOK
  BY DEF IInv, SafeInv
<1>4. Left(budget) \in Nat /\ Left(Budget) \in Nat
  BY <1>1, LeftType, ConstantsAssumption DEF TypeOK
<1>5. \A i \in DOMAIN files : i + Left(budget) <= Left(Budget) /\ i \in Nat
  <2> SUFFICES ASSUME NEW i \in DOMAIN files
               PROVE  i + Left(budget) <= Left(Budget) /\ i \in Nat
    OBVIOUS
  <2>1. i \in Nat
    BY <1>1 DEF TypeOK
  <2>2. i + Left(budget) + (IF Expecting THEN 1 ELSE 0) <= Left(Budget)
    BY DEF IInv, Segments
  <2> QED
    BY <1>4, <2>1, <2>2
<1> QED
  BY <1>4, <1>5, ConstantsAssumption DEF Orderly

\* Versions name one position each, so the index by version is all snapshots.
LEMMA VersionIndex ==
    ASSUME IInv, Orderly
    PROVE  ByVersion = Saved
<1>1. TypeOK /\ Order
  BY DEF IInv, SafeInv
<1>2. ASSUME NEW x \in SnapPositions, NEW y \in SnapPositions, At(x).version = At(y).version
      PROVE  x = y
  <2>1. /\ x[1] \in Nat /\ y[1] \in Nat /\ x[2] \in Nat /\ y[2] \in Nat
        /\ x[1] < PadLimit /\ y[1] < PadLimit
        /\ x = <<x[1], x[2]>> /\ y = <<y[1], y[2]>>
        /\ At(x).version \in Nat /\ At(y).version \in Nat
    BY <1>1, PositionFacts, Padded DEF SnapPositions, Record
  <2>2. ~Before(x, y) /\ ~Before(y, x)
    BY <1>1, <1>2, <2>1 DEF Order
  <2> QED
    BY <2>1, <2>2, BeforeStrict
<1>3. ASSUME NEW x \in SnapPositions
      PROVE  LastAmong({y \in SnapPositions : At(y).version = At(x).version}) = {At(x)}
  <2>1. {y \in SnapPositions : At(y).version = At(x).version} = {x}
    BY <1>2
  <2> QED
    BY <2>1 DEF LastAmong
<1>4. ASSUME NEW s \in ByVersion PROVE s \in Saved
  <2>1. PICK x \in SnapPositions :
           s \in LastAmong({y \in SnapPositions : At(y).version = At(x).version})
    BY DEF ByVersion
  <2> QED
    BY <1>3, <2>1 DEF Saved
<1>5. ASSUME NEW s \in Saved PROVE s \in ByVersion
  BY <1>3 DEF ByVersion, Saved
<1> QED
  BY <1>4, <1>5

-----------------------------------------------------------------------------
(* Steps that replay does not see.                                         *)

\* The positions and the records at them stay.
DiskKept ==
    /\ Positions' = Positions /\ \A x \in Positions : At(x)' = At(x)
    /\ lastDurable' = lastDurable

\* Then so does all that replay gives.
LEMMA KeptFacts ==
    ASSUME DiskKept
    PROVE  /\ RootPositions' = RootPositions /\ SnapPositions' = SnapPositions
           /\ Roots' = Roots /\ Saved' = Saved
           /\ Order => Order'
<1>1. RootPositions' = RootPositions /\ SnapPositions' = SnapPositions
  BY DEF DiskKept, RootPositions, SnapPositions
<1>2. \A x \in Positions : At(x)' = At(x)
  BY DEF DiskKept
<1>3. RootPositions \subseteq Positions /\ SnapPositions \subseteq Positions
  BY DEF RootPositions, SnapPositions
<1>4. Roots' = Roots /\ Saved' = Saved
  BY <1>1, <1>2, <1>3 DEF Roots, Saved
<1>5. ASSUME Order PROVE Order'
  <2>1. \/ RootPositions' = {} /\ lastDurable' = 0
        \/ \E x \in RootPositions' : /\ \A y \in RootPositions' \ {x} : Before(y, x)
                                     /\ At(x)'.root = lastDurable'
    BY <1>1, <1>2, <1>3, <1>5 DEF Order, IsLast, DiskKept
  <2>2. \A x, y \in SnapPositions' : Before(x, y) => At(x)'.version < At(y)'.version
    BY <1>1, <1>2, <1>3, <1>5 DEF Order
  <2> QED
    BY <2>1, <2>2 DEF Order, IsLast, Before
<1> QED
  BY <1>1, <1>4, <1>5

\* The files stay.
LEMMA SameFilesKept ==
    ASSUME UNCHANGED <<files, lastDurable>>
    PROVE  DiskKept
  BY DEF DiskKept, Positions, At

\* A file that has no records comes, or gets its header.
LEMMA EmptyFileKept ==
    ASSUME NEW i, NEW f, f.records = <<>>,
           i \in DOMAIN files => files[i].records = <<>>,
           files' = Put(files, i, f), lastDurable' = lastDurable
    PROVE  DiskKept
<1>1. /\ DOMAIN files' = DOMAIN files \cup {i} /\ files'[i] = f
      /\ \A j \in DOMAIN files : j # i => files'[j] = files[j]
  BY DEF Put
<1>2. DOMAIN <<>> = {}
  OBVIOUS
<1>3. \A x : x \in Positions' <=> x \in Positions
  <2>1. ASSUME NEW x \in Positions PROVE x \in Positions'
    <3>1. PICK j \in DOMAIN files : files[j].header /\ x \in {j} \X DOMAIN files[j].records
      BY DEF Positions
    <3>2. j # i
      BY <1>2, <3>1
    <3> QED
      BY <1>1, <3>1, <3>2 DEF Positions
  <2>2. ASSUME NEW x \in Positions' PROVE x \in Positions
    <3>1. PICK j \in DOMAIN files' : files'[j].header /\ x \in {j} \X DOMAIN files'[j].records
      BY DEF Positions
    <3>2. j # i
      BY <1>1, <1>2, <3>1
    <3> QED
      BY <1>1, <3>1, <3>2 DEF Positions
  <2> QED
    BY <2>1, <2>2
<1>4. ASSUME NEW x \in Positions PROVE At(x)' = At(x)
  <2>1. PICK j \in DOMAIN files : files[j].header /\ x \in {j} \X DOMAIN files[j].records
    BY DEF Positions
  <2>2. j # i
    BY <1>2, <2>1
  <2>3. files'[j] = files[j] /\ x[1] = j
    BY <1>1, <2>1, <2>2
  <2> QED
    BY <2>3 DEF At
<1> QED
  BY <1>3, <1>4 DEF DiskKept

-----------------------------------------------------------------------------
(* Steps of one process.                                                   *)

\* An idle process owes nothing.
LEMMA IdleGood == Good(IdleProc) /\ Good(IdleProc)'
<1>1. PICK r : r = IdleProc
  OBVIOUS
<1>2. /\ r.pc = "idle" /\ r.kind = "none" /\ r.buf = <<>> /\ r.seg = 0 /\ r.held = FALSE
      /\ r.wal = "NoWal"
  BY <1>1 DEF IdleProc
<1>3. Stage(r)
  BY <1>2 DEF Stage, Shown, MountKinds
<1>4. Memory(r) /\ Memory(r)'
  BY <1>2 DEF Memory, Shown, Loaded, Switched
<1>5. Queue(r) /\ Queue(r)'
  BY <1>2 DEF Queue, Switched
<1> QED
  BY <1>1, <1>3, <1>4, <1>5 DEF Good, Stage, Shown

\* What the invariant says while process p runs.
LEMMA Running ==
    ASSUME IInv, NEW p \in Procs, Busy(p)
    PROVE  /\ TypeOK /\ proc[p] \in ProcState /\ Good(proc[p]) /\ budget["seed"] = 0
           /\ \A q \in Procs : q # p => proc[q] = IdleProc
           /\ Expecting <=> proc[p].seg = 0
  BY DEF IInv, SafeInv, TypeOK, Alone, Segments, Busy, Expecting

\* A step of the running process that replay does not see, and that creates no
\* segment: what is left to show.
LEMMA Quiet ==
    ASSUME IInv, SafeInv', NEW p \in Procs, Busy(p), DiskKept,
           \A q \in Procs : q # p => proc'[q] = proc[q],
           DOMAIN files' = DOMAIN files,
           \A i \in DOMAIN files : files'[i].header \/ files'[i].records = <<>>,
           Left(budget') = Left(budget), budget'["gc"] = budget["gc"],
           budget'["seed"] = budget["seed"],
           states \in Nat, states' \in Nat, states <= states',
           \A m \in blobs' : m \in Nat /\ 0 < m /\ m <= states',
           \/ proc'[p] = IdleProc
           \/ /\ Busy(p)' /\ Good(proc[p])' /\ proc'[p].seg = proc[p].seg
              /\ proc'[p].pc \in {"import", "seedwal"} <=> proc[p].pc \in {"import", "seedwal"}
    PROVE  IInv'
<1>1. \A q \in Procs : q # p => proc'[q] = IdleProc
  BY Running
<1>2. Alone'
  BY <1>1 DEF IInv, Alone, Busy
<1>3. Roots' = Roots /\ Saved' = Saved /\ Order'
  BY KeptFacts DEF IInv
<1>4. Disk'
  <2>1. \A m \in Roots : m \in Nat
    BY Running, PositionFacts DEF Roots, RootPositions, Record
  <2>2. \A m \in Roots' : m <= states'
    BY <1>3, <2>1 DEF IInv, Disk
  <2> QED
    BY <1>3, <2>2 DEF IInv, Disk
<1>5. \A q \in Procs : Good(proc[q])'
  <2>1. ASSUME NEW q \in Procs, proc'[q] = IdleProc PROVE Good(proc[q])'
    BY <2>1, IdleGood
  <2> QED
    BY <1>1, <2>1
<1>6. Expecting' => Expecting
  BY <1>1, Running DEF Expecting, Busy, IdleProc
<1>7. Segments'
  <2>1. \A i \in DOMAIN files' : i # 0 /\ (files'[i].header \/ files'[i].records = <<>>)
    BY DEF IInv, Segments
  <2>2. ASSUME NEW i \in DOMAIN files' \cup {0}
        PROVE  i + Left(budget') + (IF Expecting' THEN 1 ELSE 0) <= Left(Budget)
    <3>1. i + Left(budget) + (IF Expecting THEN 1 ELSE 0) <= Left(Budget) /\ i \in Nat
      BY Running DEF IInv, Segments, TypeOK
    <3>2. Left(budget) \in Int /\ Left(Budget) \in Int
      BY Running, LeftType, ConstantsAssumption DEF TypeOK
    <3> QED
      BY <1>6, <3>1, <3>2
  <2>3. \A q \in Procs : proc'[q].seg # 0 =>
           proc'[q].seg \in DOMAIN files' /\ \A i \in DOMAIN files' : i <= proc'[q].seg
    BY <1>1 DEF IInv, Segments, IdleProc
  <2>4. budget'["seed"] <= 1 /\ (budget'["seed"] = 1 => DOMAIN files' = {})
    BY DEF IInv, Segments
  <2>5. \A q \in Procs : (proc'[q].pc # "idle") =>
           /\ budget'["seed"] = 0
           /\ DOMAIN files' = {} <=> proc'[q].pc \in {"import", "seedwal"}
    BY <1>1 DEF IInv, Segments, Busy, IdleProc
  <2> QED
    BY <2>1, <2>2, <2>3, <2>4, <2>5 DEF Segments, Busy
<1> QED
  BY <1>2, <1>3, <1>4, <1>5, <1>7 DEF IInv

\* The process moves on, with the segment it had.
MovesOn(p) ==
    /\ proc'[p].pc # "idle" /\ Good(proc[p])' /\ proc'[p].seg = proc[p].seg
    /\ proc'[p].pc \in {"import", "seedwal"} <=> proc[p].pc \in {"import", "seedwal"}

\* The same for a step that changes memory only.
LEMMA QuietInMemory ==
    ASSUME IInv, SafeInv', NEW p \in Procs, Busy(p),
           \A q \in Procs : q # p => proc'[q] = proc[q],
           UNCHANGED <<files, lastDurable, budget, states, blobs>>,
           proc'[p] = IdleProc \/ MovesOn(p)
    PROVE  IInv'
<1>1. DiskKept /\ states \in Nat
  BY SameFilesKept, Running DEF TypeOK
<1>2. \A i \in DOMAIN files : files'[i].header \/ files'[i].records = <<>>
  BY DEF IInv, Segments
<1>3. \A m \in blobs' : m \in Nat /\ 0 < m /\ m <= states'
  BY Running DEF IInv, Disk, TypeOK
<1>4. /\ DOMAIN files' = DOMAIN files /\ Left(budget') = Left(budget)
      /\ budget'["gc"] = budget["gc"] /\ budget'["seed"] = budget["seed"]
      /\ states' \in Nat /\ states <= states'
  BY <1>1
<1> QED
  BY <1>1, <1>2, <1>3, <1>4, Quiet DEF MovesOn, Busy

\* A change of process p is one of p alone.
LEMMA OthersStay ==
    ASSUME TypeOK, NEW p \in Procs, NEW r, Become(p, r)
    PROVE  proc'[p] = r /\ \A q \in Procs : q # p => proc'[q] = proc[q]
  BY DEF Become, TypeOK

\* mount.lock, the end of a command, and a crash: nothing of the store is in
\* memory, or nothing stays.
LEMMA LockStep ==
    ASSUME IInv, SafeInv', NEW p \in Procs,
           \/ Acquire(p) \/ RemoveStale(p) \/ Reacquire(p) \/ LockWrite(p)
           \/ CheckUnmounted(p) \/ Crash(p)
    PROVE  IInv'
<1> DEFINE r == proc'[p]
           o == proc[p]
<1>1. Busy(p) /\ UNCHANGED <<files, lastDurable, budget, states, blobs>>
  BY DEF Acquire, RemoveStale, Reacquire, LockWrite, CheckUnmounted, Crash, Busy, disk, history
<1>2. TypeOK /\ o \in ProcState /\ Good(o)
  BY <1>1, Running
<1>3. \A q \in Procs : q # p => proc'[q] = proc[q]
  BY <1>2 DEF Acquire, RemoveStale, Reacquire, LockWrite, CheckUnmounted, Crash,
     Goto, Become, TypeOK
<1>4. CASE r = IdleProc
  BY <1>1, <1>3, <1>4, QuietInMemory
<1>5. ASSUME \/ r.pc \in {"stale", "lockwrite"} /\ o.pc = "acquire" /\ r.held = o.held
             \/ r.pc = "reacquire" /\ o.pc = "stale" /\ r.held = o.held
             \/ r.pc = "lockwrite" /\ o.pc = "reacquire" /\ r.held = o.held
             \/ r.pc = "load" /\ o.pc \in {"lockwrite", "check"}
                /\ (r.held => o.pc = "lockwrite" \/ o.held),
             r.kind = o.kind, r.wal = o.wal, r.seg = o.seg, r.buf = o.buf
      PROVE  IInv'
  <2>1. Stage(proc[p])'
    BY <1>2, <1>5 DEF Good, Stage, Shown, MountKinds
  <2>2. Memory(proc[p])' /\ Queue(proc[p])'
    BY <1>2, <1>5 DEF Good, Stage, Shown, Memory, Queue, Loaded, Switched
  <2>3. MovesOn(p)
    BY <1>5, <2>1, <2>2 DEF Good, MovesOn
  <2> QED
    BY <1>1, <1>3, <2>3, QuietInMemory
<1>6. CASE Acquire(p)
  <2>1. r = [o EXCEPT !.pc = IF lock THEN "stale" ELSE "lockwrite"] /\ o.pc = "acquire"
    BY <1>2, <1>6, OthersStay DEF Acquire, Goto
  <2> QED
    BY <1>2, <1>5, <2>1 DEF ProcState
<1>7. CASE RemoveStale(p)
  <2>1. r = [o EXCEPT !.pc = "reacquire"] /\ o.pc = "stale"
    BY <1>2, <1>7, OthersStay DEF RemoveStale, Goto
  <2> QED
    BY <1>2, <1>5, <2>1 DEF ProcState
<1>8. CASE Reacquire(p)
  <2>1. o.pc = "reacquire" /\ (r = IdleProc \/ r = [o EXCEPT !.pc = "lockwrite"])
    BY <1>2, <1>8, OthersStay DEF Reacquire, Goto
  <2> QED
    BY <1>2, <1>4, <1>5, <2>1 DEF ProcState
<1>9. CASE LockWrite(p)
  <2>1. r = [o EXCEPT !.pc = "load", !.held = TRUE] /\ o.pc = "lockwrite"
    BY <1>2, <1>9, OthersStay DEF LockWrite
  <2> QED
    BY <1>2, <1>5, <2>1 DEF ProcState
<1>10. CASE CheckUnmounted(p)
  <2>1. o.pc = "check" /\ (r = IdleProc \/ r = [o EXCEPT !.pc = "load"])
    BY <1>2, <1>10, OthersStay DEF CheckUnmounted, Goto
  <2> QED
    BY <1>2, <1>4, <1>5, <2>1 DEF ProcState
<1>11. CASE Crash(p)
  BY <1>2, <1>4, <1>11, OthersStay DEF Crash
<1> QED
  BY <1>6, <1>7, <1>8, <1>9, <1>10, <1>11

-----------------------------------------------------------------------------
(* Loading, mounting and logging.                                          *)

\* A root whose blobs are on disk is a state that was made.
LEMMA BlobsMade ==
    ASSUME IInv, TypeOK, NEW m \in blobs
    PROVE  m \in 1 .. states
<1>1. m \in Nat /\ 0 < m /\ m <= states /\ states \in Nat
  BY DEF IInv, Disk, TypeOK
<1> QED
  BY <1>1

\* Load takes over what replay gives.
LEMMA LoadStep ==
    ASSUME IInv, SafeInv', Orderly, NEW p \in Procs, Load(p)
    PROVE  IInv'
<1> DEFINE r == proc'[p]
           o == proc[p]
<1>1. Busy(p) /\ UNCHANGED <<files, lastDurable, budget, states, blobs>> /\ o.pc = "load"
  BY DEF Load, Busy, history
<1>2. TypeOK /\ o \in ProcState /\ Good(o) /\ o.kind # "gc"
  BY <1>1, Running DEF Good, Stage, Shown
<1>3. CASE ReplayRoot \notin blobs
  <2>1. r = IdleProc /\ \A q \in Procs : q # p => proc'[q] = proc[q]
    BY <1>2, <1>3, OthersStay DEF Load, End
  <2> QED
    BY <1>1, <2>1, QuietInMemory
<1>4. CASE ReplayRoot \in blobs
  <2>1. /\ r = [o EXCEPT !.pc = "wal", !.mem = ReplayRoot, !.known = ByVersion, !.named = ByName]
        /\ \A q \in Procs : q # p => proc'[q] = proc[q]
    BY <1>2, <1>4, OthersStay DEF Load
  <2>2. ReplayRoot = lastDurable /\ lastDurable \in 1 .. states /\ ByVersion = Saved
    BY <1>2, <1>4, ReplayIsLast, VersionIndex, BlobsMade, Padded DEF IInv
  <2>3. /\ r.pc = "wal" /\ r.mem = lastDurable /\ r.known = Saved
        /\ r.kind = o.kind /\ r.wal = o.wal /\ r.seg = o.seg /\ r.buf = o.buf
        /\ r.held = o.held
    BY <1>2, <2>1, <2>2 DEF ProcState
  <2>4. Saved' = Saved
    BY <1>1, SameFilesKept, KeptFacts
  <2>5. Stage(proc[p])'
    BY <1>1, <1>2, <2>3 DEF Good, Stage, Shown, MountKinds
  <2>6. Memory(proc[p])' /\ Queue(proc[p])'
    BY <1>1, <1>2, <2>2, <2>3, <2>4 DEF Good, Stage, Shown, Memory, Queue, Loaded, Switched
  <2>7. MovesOn(p)
    BY <1>1, <2>3, <2>5, <2>6 DEF Good, MovesOn
  <2> QED
    BY <1>1, <2>1, <2>7, QuietInMemory
<1> QED
  BY <1>3, <1>4

\* find_snapshot: a switch remembers the root, a snapshot mount loads it.
LEMMA FindStep ==
    ASSUME IInv, SafeInv', NEW p \in Procs, FindSnapshot(p)
    PROVE  IInv'
<1> DEFINE r == proc'[p]
           o == proc[p]
<1>1. Busy(p) /\ UNCHANGED <<files, lastDurable, budget, states, blobs>> /\ o.pc = "find"
  BY DEF FindSnapshot, Busy, disk, history
<1>2. TypeOK /\ o \in ProcState /\ Good(o)
  BY <1>1, Running
<1>3. Saved' = Saved /\ Roots' = Roots
  BY <1>1, SameFilesKept, KeptFacts
<1>4. o.kind \in {"snapmount", "switch"} /\ o.known = Saved /\ o.mem = lastDurable
      /\ o.mem \in 1 .. states /\ o.buf = <<>>
  BY <1>1, <1>2 DEF Good, Stage, Shown, Memory, Loaded
<1>5. ASSUME NEW l \in {"commit", "mounted", "exit"}, r.pc = l,
             r.kind = o.kind, r.seg = o.seg, r.buf = o.buf, r.held = o.held,
             l = "mounted" => /\ r.mem \in 1 .. states /\ o.kind = "snapmount"
                              /\ r.wal = "NoWal",
             l # "mounted" => r.wal = o.wal,
             l = "commit" => /\ r.mem = o.mem /\ o.kind = "switch" /\ r.known = o.known
                             /\ \E s \in Saved : s.root = r.target,
             \A q \in Procs : q # p => proc'[q] = proc[q]
      PROVE  IInv'
  <2>1. Stage(proc[p])'
    BY <1>1, <1>2, <1>4, <1>5 DEF Good, Stage, Shown, MountKinds
  <2>2. Memory(proc[p])'
    BY <1>1, <1>3, <1>4, <1>5 DEF Memory, Shown, Loaded, Switched
  <2>3. Queue(proc[p])'
    BY <1>1, <1>4, <1>5 DEF Queue, Switched
  <2>4. MovesOn(p)
    BY <1>1, <1>5, <2>1, <2>2, <2>3 DEF Good, MovesOn
  <2> QED
    BY <1>1, <1>5, <2>4, QuietInMemory
<1>6. CASE \E s \in Findable(proc[p]) :
             IF proc[p].kind = "switch"
             THEN Become(p, [proc[p] EXCEPT !.pc = "commit", !.target = s.root])
             ELSE /\ s.root \in blobs
                  /\ Become(p, [proc[p] EXCEPT !.pc = "mounted", !.mem = s.root,
                                   !.wal = "NoWal", !.known = {}, !.named = {}])
  <2>1. PICK s \in Saved :
          IF o.kind = "switch"
          THEN Become(p, [o EXCEPT !.pc = "commit", !.target = s.root])
          ELSE /\ s.root \in blobs
               /\ Become(p, [o EXCEPT !.pc = "mounted", !.mem = s.root,
                                !.wal = "NoWal", !.known = {}, !.named = {}])
    BY <1>4, <1>6 DEF Findable
  <2>2. CASE o.kind = "switch"
    <3>1. /\ r = [o EXCEPT !.pc = "commit", !.target = s.root]
          /\ \A q \in Procs : q # p => proc'[q] = proc[q]
      BY <1>2, <2>1, <2>2, OthersStay
    <3>2. /\ r.pc = "commit" /\ r.known = o.known /\ r.kind = o.kind /\ r.wal = o.wal
          /\ r.seg = o.seg /\ r.buf = o.buf /\ r.held = o.held /\ r.mem = o.mem
          /\ r.target = s.root
      BY <1>2, <3>1 DEF ProcState
    <3> QED
      BY <1>5, <2>2, <3>1, <3>2
  <2>3. CASE o.kind # "switch"
    <3>1. /\ r = [o EXCEPT !.pc = "mounted", !.mem = s.root, !.wal = "NoWal",
                           !.known = {}, !.named = {}]
          /\ \A q \in Procs : q # p => proc'[q] = proc[q]
      BY <1>2, <2>1, <2>3, OthersStay
    <3>2. /\ r.pc = "mounted" /\ r.kind = o.kind /\ r.wal = "NoWal"
          /\ r.seg = o.seg /\ r.buf = o.buf /\ r.held = o.held /\ r.mem = s.root
      BY <1>2, <3>1 DEF ProcState
    <3>3. s.root \in 1 .. states
      BY <1>2, <2>1, <2>3, BlobsMade
    <3> QED
      BY <1>4, <1>5, <2>3, <3>1, <3>2, <3>3
  <2> QED
    BY <2>2, <2>3
<1>7. CASE Goto(p, "exit")
  <2>1. r = [o EXCEPT !.pc = "exit"] /\ \A q \in Procs : q # p => proc'[q] = proc[q]
    BY <1>2, <1>7, OthersStay DEF Goto
  <2>2. /\ r.pc = "exit" /\ r.known = o.known /\ r.kind = o.kind /\ r.wal = o.wal
        /\ r.seg = o.seg /\ r.buf = o.buf /\ r.held = o.held
    BY <1>2, <2>1 DEF ProcState
  <2> QED
    BY <1>5, <2>1, <2>2
<1> QED
  BY <1>6, <1>7 DEF FindSnapshot

\* The same for a step that leaves the disk alone, but may make a state or use
\* up an fsync or an unmount.
LEMMA QuietOnDisk ==
    ASSUME IInv, SafeInv', NEW p \in Procs, Busy(p),
           \A q \in Procs : q # p => proc'[q] = proc[q],
           UNCHANGED <<files, lastDurable>>,
           budget' = budget \/ \E k \in {"fsync", "unmount"} :
                                  budget' = [budget EXCEPT ![k] = @ - 1],
           states' \in Nat, states <= states',
           \A m \in blobs' : m \in Nat /\ 0 < m /\ m <= states',
           MovesOn(p)
    PROVE  IInv'
<1>1. DiskKept /\ states \in Nat /\ TypeOK
  BY SameFilesKept, Running DEF TypeOK
<1>2. \A i \in DOMAIN files : files'[i].header \/ files'[i].records = <<>>
  BY DEF IInv, Segments
<1>3. \A k \in Kinds : budget'[k] = budget[k]
  BY <1>1 DEF TypeOK, Bounded, Kinds
<1>4. /\ Left(budget') = Left(budget)
      /\ budget'["gc"] = budget["gc"] /\ budget'["seed"] = budget["seed"]
  BY <1>3 DEF Left, Kinds
<1> QED
  BY <1>1, <1>2, <1>4, Quiet DEF MovesOn, Busy

\* A mutating callback: the new state is newer than all that are on disk.
LEMMA MutateStep ==
    ASSUME IInv, SafeInv', NEW p \in Procs, Mutate(p)
    PROVE  IInv'
<1> DEFINE r == proc'[p]
           o == proc[p]
<1>1. /\ Busy(p) /\ UNCHANGED <<files, lastDurable, budget, blobs>> /\ o.pc = "mounted"
      /\ o.kind # "snapmount" /\ states' = states + 1
  BY DEF Mutate, Busy, disk, history
<1>2. TypeOK /\ o \in ProcState /\ Good(o) /\ states \in Nat
  BY <1>1, Running DEF TypeOK
<1>3. Saved' = Saved /\ Roots' = Roots
  BY <1>1, SameFilesKept, KeptFacts
<1>4. r = [o EXCEPT !.mem = states + 1] /\ \A q \in Procs : q # p => proc'[q] = proc[q]
  BY <1>2, OthersStay DEF Mutate
<1>5. /\ r.pc = "mounted" /\ r.known = o.known /\ r.kind = o.kind /\ r.wal = o.wal
      /\ r.seg = o.seg /\ r.buf = o.buf /\ r.held = o.held /\ r.mem = states + 1
  BY <1>1, <1>2, <1>4 DEF ProcState
<1>6. \A m \in Roots : m < states + 1
  <2>1. \A m \in Roots : m \in Nat /\ m <= states
    BY <1>2, PositionFacts DEF IInv, Disk, Roots, RootPositions, Record
  <2> QED
    BY <1>2, <2>1
<1>7. Stage(proc[p])'
  BY <1>1, <1>2, <1>5 DEF Good, Stage, Shown
<1>8. Memory(proc[p])' /\ Queue(proc[p])'
  <2>1. r.mem \in 1 .. states'
    BY <1>1, <1>2, <1>5
  <2>2. o.buf = <<>> /\ o.known = Saved
    BY <1>1, <1>2 DEF Good, Stage, Shown, Memory, Loaded
  <2> QED
    BY <1>1, <1>3, <1>5, <1>6, <2>1, <2>2 DEF Memory, Shown, Queue, Loaded, Switched
<1>9. \A m \in blobs' : m \in Nat /\ 0 < m /\ m <= states'
  <2>1. \A m \in blobs : m \in Nat /\ 0 < m /\ m <= states
    BY <1>2 DEF IInv, Disk, TypeOK
  <2> QED
    BY <1>1, <1>2, <2>1
<1>10. MovesOn(p)
  BY <1>1, <1>5, <1>7, <1>8 DEF MovesOn, Good
<1>11. states' \in Nat /\ states <= states'
  BY <1>1, <1>2
<1> QED
  BY <1>1, <1>4, <1>9, <1>10, <1>11, QuietOnDisk

\* fsync, the end of a session, and the end of a command that has synced its
\* segment: only the label changes.
LEMMA LabelStep ==
    ASSUME IInv, SafeInv', NEW p \in Procs,
           Fsync(p) \/ Unmount(p) \/ FsyncDone(p) \/ ShutdownWal(p)
    PROVE  IInv'
<1> DEFINE r == proc'[p]
           o == proc[p]
<1>1. Busy(p) /\ UNCHANGED <<files, lastDurable, states, blobs>>
  BY DEF Fsync, Unmount, FsyncDone, ShutdownWal, Busy, disk, history
<1>2. TypeOK /\ o \in ProcState /\ Good(o) /\ states \in Nat
  BY <1>1, Running DEF TypeOK
<1>3. Saved' = Saved /\ Roots' = Roots
  BY <1>1, SameFilesKept, KeptFacts
<1>4. budget' = budget \/ \E k \in {"fsync", "unmount"} : budget' = [budget EXCEPT ![k] = @ - 1]
  BY DEF Fsync, Unmount, FsyncDone, ShutdownWal
<1>5. /\ \A q \in Procs : q # p => proc'[q] = proc[q]
      /\ \E l \in Pcs :
           /\ r = [o EXCEPT !.pc = l]
           /\ \/ o.pc = "mounted" /\ l = "fsync" /\ o.kind # "snapmount"
              \/ o.pc = "fsync" /\ l = "mounted"
              \/ o.pc = "mounted" /\ l = "commit"
              \/ o.pc = "shutdown" /\ l = "exit" /\ o.buf = <<>>
  <2>1. CASE Fsync(p)
    BY <1>2, <2>1, OthersStay DEF Fsync, Goto, Pcs
  <2>2. CASE Unmount(p)
    BY <1>2, <2>2, OthersStay DEF Unmount, Goto, Pcs
  <2>3. CASE FsyncDone(p)
    BY <1>2, <2>3, OthersStay DEF FsyncDone, Goto, Pcs
  <2>4. CASE ShutdownWal(p)
    BY <1>2, <2>4, OthersStay DEF ShutdownWal, Goto, Pcs, Synced
  <2> QED
    BY <2>1, <2>2, <2>3, <2>4
<1>6. /\ r.known = o.known /\ r.kind = o.kind /\ r.wal = o.wal /\ r.seg = o.seg
      /\ r.buf = o.buf /\ r.held = o.held /\ r.mem = o.mem /\ r.target = o.target
      /\ \/ o.pc = "mounted" /\ r.pc = "fsync" /\ o.kind # "snapmount"
         \/ o.pc = "fsync" /\ r.pc = "mounted"
         \/ o.pc = "mounted" /\ r.pc = "commit"
         \/ o.pc = "shutdown" /\ r.pc = "exit" /\ o.buf = <<>>
  BY <1>2, <1>5 DEF ProcState
<1>7. Stage(proc[p])'
  BY <1>2, <1>6 DEF Good, Stage, Shown, MountKinds
<1>8. Memory(proc[p])'
  BY <1>1, <1>2, <1>3, <1>6 DEF Good, Stage, Shown, Memory, Loaded, Switched, MountKinds
<1>9. Queue(proc[p])'
  BY <1>1, <1>2, <1>3, <1>6 DEF Good, Stage, Shown, Queue, Switched
<1>10. MovesOn(p)
  BY <1>6, <1>7, <1>8, <1>9 DEF MovesOn, Good
<1>11. states' \in Nat /\ states <= states' /\ \A m \in blobs' : m \in Nat /\ 0 < m /\ m <= states'
  BY <1>1, <1>2 DEF IInv, Disk, TypeOK
<1> QED
  BY <1>1, <1>4, <1>5, <1>10, <1>11, QuietOnDisk

\* The first half of a commit.
LEMMA CommitStep ==
    ASSUME IInv, SafeInv', NEW p \in Procs, CommitBlobs(p)
    PROVE  IInv'
<1> DEFINE r == proc'[p]
           o == proc[p]
<1>1. /\ Busy(p) /\ UNCHANGED <<files, lastDurable, budget, states>> /\ o.pc = "commit"
      /\ blobs' = blobs \cup {o.mem}
  BY DEF CommitBlobs, Busy, history
<1>2. TypeOK /\ o \in ProcState /\ Good(o) /\ states \in Nat /\ o.mem \in 1 .. states
  BY <1>1, Running DEF TypeOK, Good, Memory, Shown, Loaded
<1>3. Saved' = Saved /\ Roots' = Roots
  BY <1>1, SameFilesKept, KeptFacts
<1>4. r = [o EXCEPT !.pc = "log"] /\ \A q \in Procs : q # p => proc'[q] = proc[q]
  BY <1>2, OthersStay DEF CommitBlobs, Goto
<1>5. /\ r.pc = "log" /\ r.known = o.known /\ r.kind = o.kind /\ r.wal = o.wal
      /\ r.seg = o.seg /\ r.buf = o.buf /\ r.held = o.held /\ r.mem = o.mem
      /\ r.target = o.target
  BY <1>1, <1>2, <1>4 DEF ProcState
<1>6. Stage(proc[p])'
  BY <1>1, <1>2, <1>5 DEF Good, Stage, Shown
<1>7. Memory(proc[p])' /\ Queue(proc[p])'
  BY <1>1, <1>2, <1>3, <1>5 DEF Good, Memory, Shown, Queue, Loaded, Switched
<1>8. MovesOn(p)
  BY <1>1, <1>5, <1>6, <1>7 DEF MovesOn, Good
<1>9. states' \in Nat /\ states <= states' /\ \A m \in blobs' : m \in Nat /\ 0 < m /\ m <= states'
  BY <1>1, <1>2 DEF IInv, Disk, TypeOK
<1> QED
  BY <1>1, <1>4, <1>8, <1>9, QuietOnDisk

-----------------------------------------------------------------------------
(* Logging.                                                                *)

\* The elements of a sequence with one more.
LEMMA AppendAt ==
    ASSUME NEW S, NEW s \in Seq(S), NEW e \in S
    PROVE  /\ DOMAIN s = 1 .. Len(s) /\ Len(s) \in Nat /\ (s = <<>> <=> Len(s) = 0)
           /\ DOMAIN Append(s, e) = 1 .. Len(s) + 1 /\ Len(Append(s, e)) = Len(s) + 1
           /\ \A k \in DOMAIN s : Append(s, e)[k] = s[k]
           /\ Append(s, e)[Len(s) + 1] = e
           /\ Append(s, e) # <<>>
  OBVIOUS

\* The number after those of S is larger than they are.
LEMMA NumberAfterAll ==
    ASSUME NEW S, S \subseteq Nat, NEW v \in NumberAfter(S)
    PROVE  v \in Nat /\ v > 0 /\ \A n \in S : n < v
<1>1. CASE S = {}
  BY <1>1 DEF NumberAfter
<1>2. CASE S # {}
  <2>1. PICK x \in S : v = x + 1 /\ \A z \in S : z <= x
    BY <1>2 DEF NumberAfter
  <2> QED
    BY <2>1
<1> QED
  BY <1>1, <1>2

\* The second half of a commit.
LEMMA LogRootStep ==
    ASSUME IInv, SafeInv', NEW p \in Procs, LogRoot(p)
    PROVE  IInv'
<1> DEFINE r == proc'[p]
           o == proc[p]
           e == RootUpdate(o.mem)
<1>1. /\ Busy(p) /\ UNCHANGED <<files, lastDurable, budget, states, blobs>> /\ o.pc = "log"
  BY DEF LogRoot, Busy, disk, history
<1>2. TypeOK /\ o \in ProcState /\ Good(o)
  BY <1>1, Running
<1>3. Saved' = Saved /\ Roots' = Roots
  BY <1>1, SameFilesKept, KeptFacts
<1>4. o.kind \in {"mount", "automount", "create", "switch", "snapmount"}
  BY <1>1, <1>2 DEF Good, Stage, Shown, MountKinds
<1>5. /\ \A q \in Procs : q # p => proc'[q] = proc[q]
      /\ r.known = o.known /\ r.wal = o.wal /\ r.seg = o.seg /\ r.held = o.held
      /\ r.mem = o.mem /\ r.target = o.target /\ r.buf = Logged(o, e)
      /\ \/ o.kind \in {"mount", "snapmount"} /\ r.pc = "shutdown" /\ r.kind = o.kind
         \/ o.kind = "automount" /\ r.pc = "commit" /\ r.kind = "create"
         \/ o.kind = "snapmount" /\ r.pc = "commit" /\ r.kind = o.kind
         \/ o.kind \in {"create", "switch", "snapmount"} /\ r.pc = "snap" /\ r.kind = o.kind
  <2> DEFINE logged == [o EXCEPT !.buf = Logged(o, e)]
             again == [logged EXCEPT !.pc = "commit", !.name = "auto-unmount"]
  <2>1. \/ o.kind \in {"mount", "snapmount"} /\ Become(p, [logged EXCEPT !.pc = "shutdown"])
        \/ o.kind = "automount" /\ Become(p, [again EXCEPT !.kind = "create"])
        \/ o.kind = "snapmount" /\ Become(p, again)
        \/ /\ o.kind \in {"create", "switch", "snapmount"}
           /\ Become(p, [logged EXCEPT !.pc = "snap"])
    BY <1>4 DEF LogRoot
  <2>3. CASE o.kind \in {"mount", "snapmount"} /\ Become(p, [logged EXCEPT !.pc = "shutdown"])
    <3>1. r = [logged EXCEPT !.pc = "shutdown"] /\ \A q \in Procs : q # p => proc'[q] = proc[q]
      BY <1>2, <2>3, OthersStay
    <3> QED
      BY <1>2, <2>3, <3>1 DEF ProcState
  <2>4. CASE o.kind = "automount" /\ Become(p, [again EXCEPT !.kind = "create"])
    <3>1. r = [again EXCEPT !.kind = "create"] /\ \A q \in Procs : q # p => proc'[q] = proc[q]
      BY <1>2, <2>4, OthersStay
    <3> QED
      BY <1>2, <2>4, <3>1 DEF ProcState
  <2>5. CASE o.kind = "snapmount" /\ Become(p, again)
    <3>1. r = again /\ \A q \in Procs : q # p => proc'[q] = proc[q]
      BY <1>2, <2>5, OthersStay
    <3> QED
      BY <1>2, <2>5, <3>1 DEF ProcState
  <2>6. CASE /\ o.kind \in {"create", "switch", "snapmount"}
             /\ Become(p, [logged EXCEPT !.pc = "snap"])
    <3>1. r = [logged EXCEPT !.pc = "snap"] /\ \A q \in Procs : q # p => proc'[q] = proc[q]
      BY <1>2, <2>6, OthersStay
    <3> QED
      BY <1>2, <2>6, <3>1 DEF ProcState
  <2> QED
    BY <2>1, <2>3, <2>4, <2>5, <2>6
<1>6. /\ o.mem \in Nat /\ o.buf \in Seq(Record) /\ e \in Record
      /\ \A k \in DOMAIN o.buf : o.buf[k] = e
  BY <1>1, <1>2, RecordType DEF ProcState, Good, Queue
<1>7. /\ \A k \in DOMAIN r.buf : r.buf[k] = e
      /\ r.wal = "NoWal" => r.buf = <<>>
      /\ r.wal # "NoWal" => r.buf # <<>> /\ r.buf[1] = e
  <2>1. CASE o.wal = "NoWal"
    BY <1>2, <1>5, <1>6, <2>1 DEF Logged, Good, Stage, Shown
  <2>2. CASE o.wal # "NoWal"
    <3>1. r.buf = Append(o.buf, e)
      BY <1>5, <2>2 DEF Logged
    <3>2. /\ DOMAIN r.buf = 1 .. Len(o.buf) + 1 /\ Len(o.buf) \in Nat /\ r.buf # <<>>
          /\ DOMAIN o.buf = 1 .. Len(o.buf)
          /\ \A k \in DOMAIN o.buf : r.buf[k] = e
          /\ r.buf[Len(o.buf) + 1] = e
      BY <1>6, <3>1, AppendAt, SMTT(30)
    <3> QED
      BY <1>5, <2>2, <3>2, SMTT(30)
  <2> QED
    BY <2>1, <2>2
<1>8. Stage(proc[p])'
  BY <1>1, <1>2, <1>5, <1>7 DEF Good, Stage, Shown, MountKinds
<1>9. Memory(proc[p])'
  BY <1>1, <1>2, <1>3, <1>5 DEF Good, Memory, Shown, Loaded, Switched
<1>10. Queue(proc[p])'
  BY <1>1, <1>3, <1>5, <1>7 DEF Queue, Switched
<1>11. MovesOn(p)
  BY <1>1, <1>5, <1>8, <1>9, <1>10 DEF MovesOn, Good
<1> QED
  BY <1>1, <1>5, <1>11, QuietInMemory

\* create_snapshot: the version is above all that are on disk.
LEMMA LogSnapshotStep ==
    ASSUME IInv, SafeInv', NEW p \in Procs, LogSnapshot(p)
    PROVE  IInv'
<1> DEFINE r == proc'[p]
           o == proc[p]
           switching == o.kind = "switch"
           n == IF switching THEN "auto-before-switch" ELSE o.name
<1>1. /\ Busy(p) /\ UNCHANGED <<files, lastDurable, budget, states, blobs>> /\ o.pc = "snap"
  BY DEF LogSnapshot, Busy, disk, history
<1>2. TypeOK /\ o \in ProcState /\ Good(o)
  BY <1>1, Running
<1>3. Saved' = Saved /\ Roots' = Roots
  BY <1>1, SameFilesKept, KeptFacts
<1>4. /\ o.kind \in {"create", "switch", "snapmount"}
      /\ o.wal # "NoWal" => o.kind # "snapmount" /\ o.known = Saved
      /\ o.buf \in Seq(Record)
      /\ \A k \in DOMAIN o.buf : o.buf[k] = RootUpdate(o.mem)
  BY <1>1, <1>2 DEF Good, Stage, Shown, Memory, Loaded, Queue, ProcState
<1>5. PICK v \in NumberAfter({t.version : t \in o.known}) :
        Become(p, [o EXCEPT
           !.pc = IF switching THEN "target" ELSE "shutdown",
           !.buf = Logged(o, Snapshot(v, o.mem, n)),
           !.known = @ \cup {Snapshot(v, o.mem, n)},
           !.named = IF n = NoName THEN @
                     ELSE {t \in @ : t.name # n} \cup {Snapshot(v, o.mem, n)}])
  BY DEF LogSnapshot
<1> DEFINE e == Snapshot(v, o.mem, n)
<1>6. /\ \A q \in Procs : q # p => proc'[q] = proc[q]
      /\ r = [o EXCEPT
           !.pc = IF switching THEN "target" ELSE "shutdown",
           !.buf = Logged(o, e),
           !.known = @ \cup {e},
           !.named = IF n = NoName THEN @
                     ELSE {t \in @ : t.name # n} \cup {e}]
  BY <1>2, <1>5, OthersStay
<1>7. /\ r.wal = o.wal /\ r.seg = o.seg /\ r.held = o.held
      /\ r.mem = o.mem /\ r.target = o.target /\ r.buf = Logged(o, e) /\ r.kind = o.kind
      /\ r.pc = IF switching THEN "target" ELSE "shutdown"
  BY <1>2, <1>6 DEF ProcState
<1>8. v \in Nat /\ (o.wal # "NoWal" => \A s \in Saved : s.version < v)
  <2>1. o.known \subseteq Record
    BY <1>2 DEF ProcState
  <2>2. {t.version : t \in o.known} \subseteq Nat
    BY <2>1 DEF Record
  <2>3. v \in Nat /\ \A m \in {t.version : t \in o.known} : m < v
    BY <1>5, <2>2, NumberAfterAll
  <2> QED
    BY <1>4, <2>3
<1>9. e \in Record /\ e.type = "snap" /\ e.root = o.mem /\ e.version = v
  <2>1. n \in Names \cup {NoName} /\ o.mem \in Nat
    BY <1>2 DEF ProcState, Names, AutoNames
  <2> QED
    BY <1>8, <2>1 DEF Snapshot, Record
<1>10. CASE o.wal = "NoWal"
  <2>1. r.buf = <<>> /\ DOMAIN r.buf = {}
    BY <1>2, <1>7, <1>10 DEF Logged, Good, Stage, Shown
  <2>2. Stage(proc[p])'
    BY <1>1, <1>2, <1>4, <1>7, <2>1 DEF Good, Stage, Shown, MountKinds
  <2>3. Memory(proc[p])'
    BY <1>1, <1>2, <1>3, <1>4, <1>7 DEF Good, Memory, Shown, Loaded, Switched
  <2>4. Queue(proc[p])'
    BY <1>1, <1>4, <1>7, <1>10, <2>1 DEF Queue, Switched
  <2>5. MovesOn(p)
    BY <1>1, <1>7, <2>2, <2>3, <2>4 DEF MovesOn, Good
  <2> QED
    BY <1>1, <1>6, <2>5, QuietInMemory
<1>11. CASE o.wal # "NoWal"
  <2>1. r.buf = Append(o.buf, e)
    BY <1>7, <1>11 DEF Logged
  <2>2. /\ DOMAIN r.buf = 1 .. Len(o.buf) + 1 /\ Len(o.buf) \in Nat /\ r.buf # <<>>
        /\ DOMAIN o.buf = 1 .. Len(o.buf) /\ (o.buf = <<>> <=> Len(o.buf) = 0)
        /\ \A k \in DOMAIN o.buf : r.buf[k] = o.buf[k]
        /\ r.buf[Len(o.buf) + 1] = e
    BY <1>4, <1>9, <2>1, AppendAt, SMTT(30)
  <2>3. Stage(proc[p])'
    BY <1>1, <1>2, <1>4, <1>7, <1>11 DEF Good, Stage, Shown, MountKinds
  <2>4. Memory(proc[p])'
    BY <1>1, <1>2, <1>3, <1>4, <1>7 DEF Good, Memory, Shown, Loaded, Switched
  <2>5. Queue(proc[p])'
    <3>1. \A k \in DOMAIN r.buf :
            \/ r.buf[k] = RootUpdate(r.mem)
            \/ /\ r.buf[k].type = "snap" /\ r.buf[k].root = r.mem
               /\ \A s \in Saved' : s.version < r.buf[k].version
               /\ r.pc \in {"target", "shutdown"}
               /\ \A j \in DOMAIN r.buf : j < k => r.buf[j] = RootUpdate(r.mem)
               /\ \A j \in DOMAIN r.buf : ~(j > k)
      <4> SUFFICES ASSUME NEW k \in DOMAIN r.buf, k \notin DOMAIN o.buf
                   PROVE  /\ r.buf[k].type = "snap" /\ r.buf[k].root = r.mem
                          /\ \A s \in Saved' : s.version < r.buf[k].version
                          /\ r.pc \in {"target", "shutdown"}
                          /\ \A j \in DOMAIN r.buf : j < k => r.buf[j] = RootUpdate(r.mem)
                          /\ \A j \in DOMAIN r.buf : ~(j > k)
        BY <1>4, <1>7, <2>2
      <4>1. k = Len(o.buf) + 1
        BY <2>2
      <4>2. \A j \in DOMAIN r.buf : (j < k => j \in DOMAIN o.buf) /\ ~(j > k)
        BY <2>2, <4>1
      <4>3. r.buf[k] = e
        BY <2>2, <4>1
      <4>4. \A s \in Saved' : s.version < r.buf[k].version
        BY <1>3, <1>8, <1>9, <1>11, <4>3
      <4>5. \A j \in DOMAIN r.buf : j < k => r.buf[j] = RootUpdate(r.mem)
        BY <1>4, <1>7, <2>2, <4>2
      <4> QED
        BY <1>7, <1>9, <4>2, <4>3, <4>4, <4>5
    <3>2. r.mem # lastDurable => r.buf[1] = RootUpdate(r.mem)
      <4>1. o.mem # lastDurable => o.buf # <<>> /\ o.buf[1] = RootUpdate(o.mem)
        BY <1>1, <1>2, <1>11 DEF Good, Queue, Switched
      <4> QED
        BY <1>7, <2>2, <4>1
    <3>3. \E k \in DOMAIN r.buf : r.buf[k].type = "snap"
      <4>1. Len(o.buf) + 1 \in DOMAIN r.buf
        BY <2>2
      <4> QED
        BY <1>9, <2>2, <4>1
    <3> QED
      BY <1>1, <1>3, <1>7, <2>2, <3>1, <3>2, <3>3 DEF Queue
  <2>6. MovesOn(p)
    BY <1>1, <1>7, <2>3, <2>4, <2>5 DEF MovesOn, Good
  <2> QED
    BY <1>1, <1>6, <2>6, QuietInMemory
<1> QED
  BY <1>10, <1>11

\* write_root_update: the target is logged after the snapshot.
LEMMA LogTargetStep ==
    ASSUME IInv, SafeInv', NEW p \in Procs, LogTarget(p)
    PROVE  IInv'
<1> DEFINE r == proc'[p]
           o == proc[p]
           e == RootUpdate(o.target)
<1>1. /\ Busy(p) /\ UNCHANGED <<files, lastDurable, budget, states, blobs>> /\ o.pc = "target"
  BY DEF LogTarget, Busy, disk, history
<1>2. TypeOK /\ o \in ProcState /\ Good(o)
  BY <1>1, Running
<1>3. Saved' = Saved /\ Roots' = Roots
  BY <1>1, SameFilesKept, KeptFacts
<1>4. o.kind = "switch" /\ o.buf \in Seq(Record) /\ e \in Record
  BY <1>1, <1>2, RecordType DEF Good, Stage, Shown, ProcState
<1>5. /\ \A q \in Procs : q # p => proc'[q] = proc[q]
      /\ r = [o EXCEPT !.pc = "shutdown", !.buf = Logged(o, e)]
  BY <1>2, OthersStay DEF LogTarget
<1>6. /\ r.wal = o.wal /\ r.seg = o.seg /\ r.held = o.held
      /\ r.mem = o.mem /\ r.target = o.target /\ r.buf = Logged(o, e) /\ r.kind = o.kind
      /\ r.pc = "shutdown"
  BY <1>2, <1>5 DEF ProcState
<1>7. Memory(proc[p])'
  BY <1>1, <1>2, <1>3, <1>4, <1>6 DEF Good, Memory, Shown, Loaded, Switched
<1>8. CASE o.wal = "NoWal"
  <2>1. r.buf = <<>> /\ DOMAIN r.buf = {}
    BY <1>2, <1>6, <1>8 DEF Logged, Good, Stage, Shown
  <2>2. Stage(proc[p])'
    BY <1>1, <1>2, <1>4, <1>6, <2>1 DEF Good, Stage, Shown, MountKinds
  <2>3. Queue(proc[p])'
    BY <1>1, <1>4, <1>6, <1>8, <2>1 DEF Queue, Switched
  <2>4. MovesOn(p)
    BY <1>1, <1>6, <1>7, <2>2, <2>3 DEF MovesOn, Good
  <2> QED
    BY <1>1, <1>5, <2>4, QuietInMemory
<1>9. CASE o.wal # "NoWal"
  <2>1. r.buf = Append(o.buf, e)
    BY <1>6, <1>9 DEF Logged
  <2>2. /\ DOMAIN r.buf = 1 .. Len(o.buf) + 1 /\ Len(o.buf) \in Nat /\ r.buf # <<>>
        /\ DOMAIN o.buf = 1 .. Len(o.buf) /\ (o.buf = <<>> <=> Len(o.buf) = 0)
        /\ Len(r.buf) = Len(o.buf) + 1
        /\ \A k \in DOMAIN o.buf : r.buf[k] = o.buf[k]
        /\ r.buf[Len(o.buf) + 1] = e
    BY <1>4, <2>1, AppendAt
  <2>3. Stage(proc[p])'
    BY <1>1, <1>2, <1>4, <1>6, <1>9 DEF Good, Stage, Shown, MountKinds
  <2>4. Queue(proc[p])'
    <3>1. \A k \in DOMAIN r.buf :
            \/ r.buf[k] = RootUpdate(r.mem)
            \/ /\ r.buf[k].type = "snap" /\ r.buf[k].root = r.mem
               /\ \A s \in Saved' : s.version < r.buf[k].version
               /\ \A j \in DOMAIN r.buf : j < k => r.buf[j] = RootUpdate(r.mem)
               /\ \A j \in DOMAIN r.buf : j > k => r.buf[j] = RootUpdate(r.target)
            \/ r.buf[k] = RootUpdate(r.target) /\ k = Len(r.buf)
      <4> SUFFICES ASSUME NEW k \in DOMAIN r.buf, k \in DOMAIN o.buf, r.buf[k] # RootUpdate(r.mem)
                   PROVE  /\ r.buf[k].type = "snap" /\ r.buf[k].root = r.mem
                          /\ \A s \in Saved' : s.version < r.buf[k].version
                          /\ \A j \in DOMAIN r.buf : j < k => r.buf[j] = RootUpdate(r.mem)
                          /\ \A j \in DOMAIN r.buf : j > k => r.buf[j] = RootUpdate(r.target)
        BY <1>6, <2>2
      <4>1. /\ o.buf[k].type = "snap" /\ o.buf[k].root = o.mem
            /\ \A s \in Saved : s.version < o.buf[k].version
            /\ \A j \in DOMAIN o.buf : j < k => o.buf[j] = RootUpdate(o.mem)
            /\ \A j \in DOMAIN o.buf : ~(j > k)
        BY <1>1, <1>2, <1>6, <2>2 DEF Good, Queue
      <4>2. \A j \in DOMAIN r.buf : (j < k => j \in DOMAIN o.buf)
                                    /\ (j > k => j \in DOMAIN o.buf \/ j = Len(o.buf) + 1)
        BY <2>2
      <4> QED
        BY <1>3, <1>6, <2>2, <4>1, <4>2
    <3>2. r.mem # lastDurable => r.buf[1] = RootUpdate(r.mem)
      <4>1. o.mem # lastDurable => o.buf # <<>> /\ o.buf[1] = RootUpdate(o.mem)
        BY <1>1, <1>2, <1>9 DEF Good, Queue, Switched
      <4> QED
        BY <1>6, <2>2, <4>1
    <3>3. \/ \E s \in Saved' : s.root = r.mem
          \/ \E k \in DOMAIN r.buf : r.buf[k].type = "snap"
      <4>1. \/ \E s \in Saved : s.root = o.mem
            \/ \E k \in DOMAIN o.buf : o.buf[k].type = "snap"
        BY <1>1, <1>2, <1>4, <1>9 DEF Good, Queue, Switched
      <4>2. DOMAIN o.buf \subseteq DOMAIN r.buf
        BY <2>2
      <4> QED
        BY <1>3, <1>6, <2>2, <4>1, <4>2
    <3> QED
      BY <1>1, <1>3, <1>4, <1>6, <2>2, <3>1, <3>2, <3>3 DEF Queue
  <2>5. MovesOn(p)
    BY <1>1, <1>6, <1>7, <2>3, <2>4 DEF MovesOn, Good
  <2> QED
    BY <1>1, <1>5, <2>5, QuietInMemory
<1> QED
  BY <1>8, <1>9

-----------------------------------------------------------------------------
(* Headers, segments and the start of a command.                           *)

\* A process that does not move keeps what it holds.
LEMMA StaysGood ==
    ASSUME DiskKept, states' = states, NEW p \in Procs, Good(proc[p]), proc'[p] = proc[p]
    PROVE  Good(proc[p])'
<1>1. Saved' = Saved /\ Roots' = Roots /\ lastDurable' = lastDurable
  BY KeptFacts DEF DiskKept
<1>2. Stage(proc[p])'
  BY DEF Good, Stage, Shown
<1>3. Memory(proc[p])'
  BY <1>1 DEF Good, Memory, Shown, Switched
<1>4. Queue(proc[p])'
  BY <1>1 DEF Good, Queue, Switched
<1> QED
  BY <1>2, <1>3, <1>4 DEF Good

\* A file with its header written.
LEMMA HeaderSet ==
    ASSUME NEW g \in File, NEW h \in BOOLEAN
    PROVE  [g EXCEPT !.header = h] = [header |-> h, records |-> g.records]
  BY DEF File

\* The header of a segment: replay sees an empty segment as it saw none.
LEMMA HeaderKept ==
    ASSUME IInv, NEW p \in Procs, WriteHeader(p) \/ Exit(p)
    PROVE  /\ DiskKept /\ DOMAIN files' = DOMAIN files
           /\ \A i \in DOMAIN files : files'[i].header \/ files'[i].records = <<>>
<1> DEFINE id == proc[p].seg
           f == [files[id] EXCEPT !.header = TRUE]
<1>1. TypeOK
  BY DEF IInv, SafeInv
<1>2. lastDurable' = lastDurable
  BY DEF WriteHeader, Exit, history
<1>3. \A i \in DOMAIN files : files[i].header \/ files[i].records = <<>>
  BY DEF IInv, Segments
<1>4. CASE files' = files
  BY <1>2, <1>3, <1>4, SameFilesKept
<1>5. CASE id # 0 /\ files' = [files EXCEPT ![id].header = TRUE]
  <2>1. id \in DOMAIN files
    BY <1>5 DEF IInv, Segments
  <2>2. /\ files[id] = [header |-> files[id].header, records |-> files[id].records]
        /\ files[id].header \in BOOLEAN
        /\ f = [header |-> TRUE, records |-> files[id].records]
    <3>1. files[id] \in File
      BY <1>1, <2>1 DEF TypeOK
    <3>2. files[id] = [header |-> files[id].header, records |-> files[id].records]
      BY <3>1 DEF File
    <3>3. files[id].header \in BOOLEAN
      BY <3>1 DEF File
    <3>4. f = [header |-> TRUE, records |-> files[id].records]
      BY <3>1, HeaderSet
    <3> QED
      BY <3>2, <3>3, <3>4
  <2>3. /\ DOMAIN files' = DOMAIN files /\ files'[id] = f
        /\ \A i \in DOMAIN files : i # id => files'[i] = files[i]
    BY <1>5, <2>1
  <2>4. CASE files[id].records = <<>>
    <3>1. f.records = <<>>
      BY <2>2, <2>4
    <3>2. files' = Put(files, id, f)
      BY <1>1, <1>5, <2>1 DEF Put, TypeOK
    <3>3. DiskKept
      BY <1>2, <2>4, <3>1, <3>2, EmptyFileKept
    <3> QED
      BY <1>3, <2>3, <3>1, <3>3
  <2>5. CASE files[id].header
    <3>1. files[id] = f
      BY <2>2, <2>5
    <3>2. files' = files
      BY <1>1, <1>5, <2>1, <3>1 DEF TypeOK
    <3> QED
      BY <1>2, <1>3, <3>2, SameFilesKept
  <2> QED
    BY <1>3, <2>1, <2>4, <2>5
<1> QED
  BY <1>4, <1>5 DEF WriteHeader, Exit

\* Writing a header, and the end of a command.
LEMMA HeaderStep ==
    ASSUME IInv, SafeInv', NEW p \in Procs, WriteHeader(p) \/ Exit(p)
    PROVE  IInv'
<1> DEFINE r == proc'[p]
           o == proc[p]
<1>1. TypeOK /\ Busy(p)
  <2>1. o # IdleProc
    BY DEF WriteHeader, Exit, Syncing, IdleProc
  <2> QED
    BY <2>1 DEF IInv, Alone, SafeInv
<1>2. Good(o) /\ o \in ProcState /\ states \in Nat
  BY <1>1, Running DEF TypeOK
<1>3. UNCHANGED <<lastDurable, budget, states, blobs>>
  BY DEF WriteHeader, Exit, history
<1>4. \A q \in Procs : q # p => proc'[q] = proc[q]
  BY <1>1, OthersStay DEF WriteHeader, Exit, End
<1>5. /\ DiskKept /\ DOMAIN files' = DOMAIN files
      /\ \A i \in DOMAIN files : files'[i].header \/ files'[i].records = <<>>
  BY HeaderKept
<1>6. r = IdleProc \/ (r = o /\ Good(proc[p])')
  <2>1. CASE WriteHeader(p)
    BY <1>2, <1>3, <1>5, <2>1, StaysGood DEF WriteHeader
  <2>2. CASE Exit(p)
    BY <1>1, <2>2, OthersStay DEF Exit, End
  <2> QED
    BY <2>1, <2>2
<1>7. \A m \in blobs' : m \in Nat /\ 0 < m /\ m <= states'
  BY <1>1, <1>3 DEF IInv, Disk, TypeOK
<1>8. /\ Left(budget') = Left(budget) /\ budget'["gc"] = budget["gc"]
      /\ budget'["seed"] = budget["seed"] /\ states' \in Nat /\ states <= states'
  BY <1>2, <1>3
<1>9. \/ r = IdleProc
      \/ /\ Busy(p)' /\ Good(proc[p])' /\ r.seg = o.seg
         /\ r.pc \in {"import", "seedwal"} <=> o.pc \in {"import", "seedwal"}
  BY <1>1, <1>6 DEF Busy
<1> QED
  BY <1>1, <1>2, <1>4, <1>5, <1>7, <1>8, <1>9, Quiet

\* The import of a seed.
LEMMA ImportStep ==
    ASSUME IInv, SafeInv', NEW p \in Procs, SeedImport(p)
    PROVE  IInv'
<1> DEFINE r == proc'[p]
           o == proc[p]
<1>1. /\ Busy(p) /\ UNCHANGED <<files, lastDurable, budget>> /\ o.pc = "import"
      /\ states' = states + 1 /\ blobs' = blobs \cup {states + 1}
  BY DEF SeedImport, Busy, history
<1>2. TypeOK /\ o \in ProcState /\ Good(o) /\ states \in Nat
  BY <1>1, Running DEF TypeOK
<1>3. r = [o EXCEPT !.pc = "seedwal", !.mem = states + 1]
      /\ \A q \in Procs : q # p => proc'[q] = proc[q]
  BY <1>2, OthersStay DEF SeedImport
<1>4. /\ r.pc = "seedwal" /\ r.kind = o.kind /\ r.wal = o.wal
      /\ r.seg = o.seg /\ r.buf = o.buf /\ r.held = o.held /\ r.mem = states + 1
  BY <1>1, <1>2, <1>3 DEF ProcState
<1>5. Stage(proc[p])'
  BY <1>1, <1>2, <1>4 DEF Good, Stage, Shown
<1>6. Memory(proc[p])' /\ Queue(proc[p])'
  <2>1. r.mem \in 1 .. states' /\ o.buf = <<>> /\ DOMAIN o.buf = {}
    BY <1>1, <1>2, <1>4 DEF Good, Stage, Shown
  <2> QED
    BY <1>4, <2>1 DEF Memory, Shown, Queue, Loaded, Switched
<1>7. MovesOn(p)
  BY <1>1, <1>4, <1>5, <1>6 DEF MovesOn, Good
<1>8. \A m \in blobs' : m \in Nat /\ 0 < m /\ m <= states'
  <2>1. \A m \in blobs : m \in Nat /\ 0 < m /\ m <= states
    BY <1>2 DEF IInv, Disk, TypeOK
  <2> QED
    BY <1>1, <1>2, <2>1
<1>9. states' \in Nat /\ states <= states'
  BY <1>1, <1>2
<1> QED
  BY <1>1, <1>3, <1>7, <1>8, <1>9, QuietOnDisk

\* A new segment gets the number after the largest.
LEMMA NewSegment ==
    ASSUME IInv, SafeInv', NEW p \in Procs, Busy(p), proc[p].seg = 0,
           \A q \in Procs : q # p => proc'[q] = proc[q],
           NEW id \in NumberAfter(DOMAIN files), files' = Put(files, id, NewFile),
           UNCHANGED <<lastDurable, budget, states, blobs>>,
           proc'[p].pc \notin {"idle", "import", "seedwal"}, Good(proc[p])',
           proc'[p].seg = id
    PROVE  IInv'
<1>1. TypeOK /\ \A q \in Procs : q # p => proc'[q] = IdleProc
  BY Running
<1>2. DOMAIN files \subseteq Nat /\ Left(budget) \in Nat /\ Left(Budget) \in Nat
  BY <1>1, LeftType, ConstantsAssumption DEF TypeOK
<1>3. id \in Nat /\ id > 0 /\ \A i \in DOMAIN files : i < id
  BY <1>2, NumberAfterAll
<1>4. /\ DOMAIN files' = DOMAIN files \cup {id} /\ files'[id] = NewFile
      /\ \A i \in DOMAIN files : files'[i] = files[i]
  BY <1>2, <1>3 DEF Put
<1>5. DiskKept
  <2>1. NewFile.records = <<>> /\ id \notin DOMAIN files
    BY <1>2, <1>3 DEF NewFile
  <2> QED
    BY <2>1, EmptyFileKept
<1>6. Roots' = Roots /\ Saved' = Saved /\ Order'
  BY <1>5, KeptFacts DEF IInv
<1>7. Alone'
  BY <1>1 DEF IInv, Alone, Busy
<1>8. Disk'
  BY <1>6 DEF IInv, Disk
<1>9. \A q \in Procs : Good(proc[q])'
  <2>1. ASSUME NEW q \in Procs, proc'[q] = IdleProc PROVE Good(proc[q])'
    BY <2>1, IdleGood
  <2> QED
    BY <1>1, <2>1
<1>10. Expecting /\ ~Expecting'
  BY <1>1, <1>3 DEF Expecting, Busy, IdleProc
<1>11. Segments'
  <2>1. \A i \in DOMAIN files' : i # 0 /\ (files'[i].header \/ files'[i].records = <<>>)
    BY <1>3, <1>4 DEF IInv, Segments, NewFile
  <2>2. ASSUME NEW i \in DOMAIN files' \cup {0}
        PROVE  i + Left(budget') + (IF Expecting' THEN 1 ELSE 0) <= Left(Budget)
    <3>1. \A j \in DOMAIN files \cup {0} : j + Left(budget) + 1 <= Left(Budget) /\ j \in Nat
      BY <1>2, <1>10 DEF IInv, Segments
    <3>2. CASE i \in DOMAIN files \cup {0}
      BY <1>2, <1>10, <3>1, <3>2
    <3>3. CASE i = id
      <4>1. \E j \in DOMAIN files \cup {0} : id = j + 1
        <5>1. CASE DOMAIN files = {}
          BY <5>1 DEF NumberAfter
        <5>2. CASE DOMAIN files # {}
          BY <5>2 DEF NumberAfter
        <5> QED
          BY <5>1, <5>2
      <4> QED
        BY <1>2, <1>10, <3>1, <3>3, <4>1
    <3> QED
      BY <1>4, <3>2, <3>3
  <2>3. \A q \in Procs : proc'[q].seg # 0 =>
           proc'[q].seg \in DOMAIN files' /\ \A i \in DOMAIN files' : i <= proc'[q].seg
    <3>1. id \in DOMAIN files' /\ \A i \in DOMAIN files' : i <= id
      BY <1>2, <1>3, <1>4
    <3> QED
      BY <1>1, <3>1 DEF IdleProc
  <2>4. budget["seed"] = 0
    BY Running
  <2>5. \A q \in Procs : (proc'[q].pc # "idle") =>
           DOMAIN files' = {} <=> proc'[q].pc \in {"import", "seedwal"}
    BY <1>1, <1>4 DEF IdleProc
  <2> QED
    BY <2>1, <2>2, <2>3, <2>4, <2>5 DEF Segments, Busy
<1> QED
  BY <1>6, <1>7, <1>8, <1>9, <1>11 DEF IInv

\* create_wal, and the segment of a seed.
LEMMA CreateStep ==
    ASSUME IInv, SafeInv', NEW p \in Procs, CreateWal(p) \/ SeedSegment(p)
    PROVE  IInv'
<1> DEFINE r == proc'[p]
           o == proc[p]
<1>1. /\ Busy(p) /\ UNCHANGED <<lastDurable, budget, states, blobs>>
      /\ o.pc \in {"wal", "seedwal"}
  BY DEF CreateWal, SeedSegment, Busy, history
<1>2. TypeOK /\ o \in ProcState /\ Good(o) /\ states \in Nat
  BY <1>1, Running DEF TypeOK
<1>3. o.seg = 0 /\ o.buf = <<>> /\ DOMAIN o.buf = {} /\ o.mem \in 1 .. states /\ o.mem \in Nat
  BY <1>1, <1>2 DEF Good, Stage, Shown, Memory, Loaded
<1>4. \A m \in Roots : m \in Nat
  BY <1>2, PositionFacts DEF Roots, RootPositions, Record
<1>5. CASE CreateWal(p)
  <2> DEFINE l == CASE o.kind \in {"mount", "automount"} -> "mounted"
                    [] o.kind \in {"snapmount", "switch"} -> "find"
                    [] OTHER -> "commit"
  <2>1. /\ o.pc = "wal" /\ o.kind \in MountKinds \cup {"create", "switch"}
        /\ o.known = Saved /\ o.mem = lastDurable
    BY <1>2, <1>5 DEF CreateWal, Good, Stage, Shown, Memory, Loaded
  <2>2. /\ l = "mounted" <=> o.kind \in {"mount", "automount"}
        /\ l = "find" <=> o.kind \in {"snapmount", "switch"}
        /\ l = "commit" <=> o.kind = "create"
        /\ l \in {"mounted", "find", "commit"}
    BY <2>1 DEF MountKinds
  <2>3. ASSUME DiskKept, r.pc = l, r.known = o.known, r.kind = o.kind, r.wal = o.wal, r.buf = o.buf,
               r.held = o.held, r.mem = o.mem, r.seg # 0 <=> o.wal # "NoWal"
        PROVE  Good(proc[p])' /\ r.pc \notin {"idle", "import", "seedwal"}
    <3>1. Saved' = Saved /\ Roots' = Roots
      BY <2>3, KeptFacts
    <3>2. Stage(proc[p])'
      BY <1>2, <1>3, <2>1, <2>2, <2>3 DEF Good, Stage, Shown, MountKinds
    <3>3. Memory(proc[p])'
      BY <1>1, <1>3, <2>1, <2>2, <2>3, <3>1 DEF Memory, Shown, Loaded, Switched
    <3>4. Queue(proc[p])'
      BY <1>3, <2>2, <2>3 DEF Queue, Switched
    <3> QED
      BY <2>2, <2>3, <3>2, <3>3, <3>4 DEF Good
  <2>4. CASE o.wal = "NoWal"
    <3>1. Goto(p, l) /\ UNCHANGED files
      BY <1>5, <2>4 DEF CreateWal
    <3>2. r = [o EXCEPT !.pc = l] /\ \A q \in Procs : q # p => proc'[q] = proc[q]
      BY <1>2, <3>1, OthersStay DEF Goto
    <3>3. /\ r.pc = l /\ r.known = o.known /\ r.kind = o.kind /\ r.wal = o.wal /\ r.buf = o.buf
          /\ r.held = o.held /\ r.mem = o.mem /\ r.seg = o.seg
      BY <1>2, <3>2 DEF ProcState
    <3>4. MovesOn(p)
      BY <1>1, <1>3, <2>1, <2>3, <2>4, <3>1, <3>3, SameFilesKept DEF MovesOn
    <3> QED
      BY <1>1, <3>1, <3>2, <3>4, QuietInMemory
  <2>5. CASE o.wal # "NoWal"
    <3>1. PICK id \in NumberAfter(DOMAIN files) :
             /\ files' = Put(files, id, NewFile)
             /\ Become(p, [o EXCEPT !.pc = l, !.seg = id])
      BY <1>5, <2>5 DEF CreateWal
    <3>2. r = [o EXCEPT !.pc = l, !.seg = id] /\ \A q \in Procs : q # p => proc'[q] = proc[q]
      BY <1>2, <3>1, OthersStay
    <3>3. /\ r.pc = l /\ r.known = o.known /\ r.kind = o.kind /\ r.wal = o.wal /\ r.buf = o.buf
          /\ r.held = o.held /\ r.mem = o.mem /\ r.seg = id
      BY <1>2, <3>2 DEF ProcState
    <3>4. id \in Nat /\ id > 0 /\ id \notin DOMAIN files /\ NewFile.records = <<>>
      BY <1>2, NumberAfterAll DEF TypeOK, NewFile
    <3>5. DiskKept
      BY <1>1, <3>1, <3>4, EmptyFileKept
    <3>6. Good(proc[p])' /\ r.pc \notin {"idle", "import", "seedwal"}
      BY <2>3, <2>5, <3>3, <3>4, <3>5
    <3> QED
      BY <1>1, <1>3, <3>1, <3>2, <3>3, <3>6, NewSegment
  <2> QED
    BY <2>4, <2>5
<1>6. CASE SeedSegment(p)
  <2>1. o.pc = "seedwal" /\ o.kind = "seed" /\ ~o.held
    BY <1>2, <1>6 DEF SeedSegment, Good, Stage, Shown
  <2>2. /\ r = [o EXCEPT !.pc = "shutdown", !.wal = "FlushOnFsync", !.seg = 1,
                         !.buf = <<RootUpdate(o.mem)>>]
        /\ \A q \in Procs : q # p => proc'[q] = proc[q]
    BY <1>2, <1>6, OthersStay DEF SeedSegment
  <2>3. /\ r.pc = "shutdown" /\ r.kind = o.kind /\ r.wal = "FlushOnFsync"
        /\ r.buf = <<RootUpdate(o.mem)>> /\ r.held = o.held /\ r.mem = o.mem /\ r.seg = 1
    BY <1>2, <2>2 DEF ProcState
  <2>4. DOMAIN files = {}
    BY <1>1, <2>1 DEF IInv, Segments
  <2>5. 1 \in NumberAfter(DOMAIN files) /\ files' = Put(files, 1, NewFile)
        /\ NewFile.records = <<>>
    BY <1>6, <2>4 DEF NumberAfter, SeedSegment, NewFile
  <2>6. DiskKept
    BY <1>1, <2>4, <2>5, EmptyFileKept
  <2>7. Roots' = Roots /\ Roots = {}
    BY <2>4, <2>6, KeptFacts DEF Roots, RootPositions, Positions
  <2>8. Stage(proc[p])'
    BY <1>1, <1>2, <2>1, <2>3 DEF Good, Stage, Shown, MountKinds
  <2>9. Memory(proc[p])'
    BY <1>1, <1>3, <2>1, <2>3, <2>7 DEF Memory, Shown, Loaded, Switched
  <2>10. Queue(proc[p])'
    BY <2>1, <2>3 DEF Queue, Switched
  <2>11. r.pc \notin {"idle", "import", "seedwal"} /\ Good(proc[p])'
    BY <2>3, <2>8, <2>9, <2>10 DEF Good
  <2> QED
    BY <1>1, <1>3, <2>2, <2>3, <2>5, <2>11, NewSegment
<1> QED
  BY <1>5, <1>6

\* A command starts on a store on which none runs.
LEMMA Starting ==
    ASSUME IInv, SafeInv', Orderly, NEW p \in Procs, NEW k \in Kinds, Start(p, k),
           k # "seed" => DOMAIN files # {},
           \A q \in Procs : q # p => proc'[q] = proc[q],
           proc'[p].pc # "idle", Good(proc[p])', proc'[p].seg = 0,
           proc'[p].pc \in {"import", "seedwal"} <=> k = "seed"
    PROVE  IInv'
<1>1. TypeOK /\ UNCHANGED <<files, blobs, states, lastDurable>>
  BY DEF IInv, SafeInv, Start, disk, history
<1>2. \A q \in Procs : ~Busy(q) /\ proc[q] = IdleProc
  BY DEF Start, Orderly, Busy, IInv, Alone
<1>3. k # "gc" /\ budget[k] > 0 /\ budget \in [Bounded -> Nat]
      /\ budget' = [budget EXCEPT ![k] = @ - 1]
  BY <1>1 DEF Start, IInv, Alone, TypeOK
<1>4. Left(budget') = Left(budget) - 1 /\ budget'["gc"] = 0
  <2>1. \A j \in Bounded : budget[j] \in Nat /\ budget'[j] = IF j = k THEN budget[j] - 1 ELSE budget[j]
    BY <1>3 DEF Bounded
  <2>2. budget["gc"] = 0
    BY DEF IInv, Alone
  <2> QED
    BY <1>3, <2>1, <2>2 DEF Left, Bounded, Kinds
<1>5. budget'["seed"] = 0 /\ (k = "seed" <=> DOMAIN files = {})
  <2>1. budget["seed"] <= 1 /\ (budget["seed"] = 1 => DOMAIN files = {}) /\ budget["seed"] \in Nat
    BY <1>3 DEF IInv, Segments, Bounded, Kinds
  <2>2. CASE k = "seed"
    BY <1>3, <2>1, <2>2 DEF Bounded, Kinds
  <2>3. CASE k # "seed"
    BY <1>3, <2>1, <2>3 DEF Bounded, Kinds
  <2> QED
    BY <2>2, <2>3
<1>6. DiskKept
  BY <1>1, SameFilesKept
<1>7. Roots' = Roots /\ Saved' = Saved /\ Order'
  BY <1>6, KeptFacts DEF IInv
<1>8. Alone'
  BY <1>2, <1>4 DEF Alone, Busy
<1>9. Disk'
  BY <1>1, <1>7 DEF IInv, Disk
<1>10. \A q \in Procs : Good(proc[q])'
  <2>1. ASSUME NEW q \in Procs, proc'[q] = IdleProc PROVE Good(proc[q])'
    BY <2>1, IdleGood
  <2> QED
    BY <1>2, <2>1
<1>11. Segments'
  <2>1. \A i \in DOMAIN files' : i # 0 /\ (files'[i].header \/ files'[i].records = <<>>)
    BY <1>1 DEF IInv, Segments
  <2>2. ASSUME NEW i \in DOMAIN files' \cup {0}
        PROVE  i + Left(budget') + (IF Expecting' THEN 1 ELSE 0) <= Left(Budget)
    <3>1. ~Expecting
      BY <1>2 DEF Expecting
    <3>2. i \in Nat /\ i + Left(budget) + 0 <= Left(Budget)
      BY <1>1, <3>1 DEF IInv, Segments, TypeOK
    <3>3. Left(budget) \in Nat /\ Left(Budget) \in Nat
      BY <1>1, LeftType, ConstantsAssumption DEF TypeOK
    <3> QED
      BY <1>4, <3>2, <3>3
  <2>3. \A q \in Procs : proc'[q].seg = 0
    BY <1>2 DEF IdleProc
  <2>4. \A q \in Procs : (proc'[q].pc # "idle") =>
           DOMAIN files' = {} <=> proc'[q].pc \in {"import", "seedwal"}
    BY <1>1, <1>2, <1>5 DEF IdleProc
  <2> QED
    BY <1>5, <2>1, <2>2, <2>3, <2>4 DEF Segments, Busy
<1> QED
  BY <1>7, <1>8, <1>9, <1>10, <1>11 DEF IInv

\* The four kinds of command start; none has anything in memory yet.
LEMMA StartStep ==
    ASSUME IInv, SafeInv', Orderly, NEW p \in Procs,
           StartMount(p) \/ StartSnapshot(p) \/ StartGc(p) \/ StartSeed(p)
    PROVE  IInv'
<1> DEFINE r == proc'[p]
<1>1. TypeOK
  BY DEF IInv, SafeInv
<1>2. ASSUME NEW k \in Kinds \ {"gc"}, Start(p, k), k # "seed" => DOMAIN files # {},
             \A q \in Procs : q # p => proc'[q] = proc[q],
             r.kind = k, r.seg = 0, r.buf = <<>>, ~r.held,
             \/ k \in MountKinds /\ r.pc = "acquire" /\ r.wal \in Strategies
             \/ k \in {"create", "switch"} /\ r.pc = "check"
             \/ k = "seed" /\ r.pc = "import"
      PROVE  IInv'
  <2>1. Stage(proc[p])'
    BY <1>2 DEF Stage, Shown, MountKinds
  <2>2. Memory(proc[p])' /\ Queue(proc[p])'
    BY <1>2 DEF Memory, Shown, Queue, Loaded, Switched, MountKinds
  <2>3. Good(proc[p])' /\ r.pc # "idle" /\ (r.pc \in {"import", "seedwal"} <=> k = "seed")
    BY <1>2, <2>1, <2>2 DEF Good, MountKinds
  <2> QED
    BY <1>2, <2>3, Starting
<1>3. CASE StartMount(p)
  <2>1. PICK k \in MountKinds, w \in Strategies :
          /\ Start(p, k) /\ DOMAIN files # {}
          /\ Become(p, [IdleProc EXCEPT !.pc = "acquire", !.kind = k, !.wal = w])
    BY <1>3 DEF StartMount
  <2>2. r = [IdleProc EXCEPT !.pc = "acquire", !.kind = k, !.wal = w]
        /\ \A q \in Procs : q # p => proc'[q] = proc[q]
    BY <1>1, <2>1, OthersStay
  <2>3. /\ r.kind = k /\ r.seg = 0 /\ r.buf = <<>> /\ ~r.held /\ r.pc = "acquire" /\ r.wal = w
    BY <2>2 DEF IdleProc
  <2>4. k \in Kinds \ {"gc"} /\ k # "seed"
    BY DEF MountKinds, Kinds
  <2> QED
    BY <1>2, <2>1, <2>2, <2>3, <2>4
<1>4. CASE StartSnapshot(p)
  <2>1. PICK k \in {"create", "switch"}, n \in Names \cup {NoName} :
          /\ Start(p, k) /\ DOMAIN files # {}
          /\ Become(p, [IdleProc EXCEPT !.pc = "check", !.kind = k, !.wal = "PerOp", !.name = n])
    BY <1>4 DEF StartSnapshot
  <2>2. r = [IdleProc EXCEPT !.pc = "check", !.kind = k, !.wal = "PerOp", !.name = n]
        /\ \A q \in Procs : q # p => proc'[q] = proc[q]
    BY <1>1, <2>1, OthersStay
  <2>3. r.kind = k /\ r.seg = 0 /\ r.buf = <<>> /\ ~r.held /\ r.pc = "check"
    BY <2>2 DEF IdleProc
  <2>4. k \in Kinds \ {"gc"} /\ k # "seed"
    BY DEF Kinds
  <2> QED
    BY <1>2, <2>1, <2>2, <2>3, <2>4
<1>5. CASE StartGc(p)
  <2>1. budget["gc"] > 0 /\ budget["gc"] = 0
    BY <1>5 DEF StartGc, Start, IInv, Alone
  <2> QED
    BY <2>1
<1>6. CASE StartSeed(p)
  <2>1. /\ Start(p, "seed") /\ r = [IdleProc EXCEPT !.pc = "import", !.kind = "seed"]
        /\ \A q \in Procs : q # p => proc'[q] = proc[q]
    BY <1>1, <1>6, OthersStay DEF StartSeed
  <2>2. r.kind = "seed" /\ r.seg = 0 /\ r.buf = <<>> /\ ~r.held /\ r.pc = "import"
    BY <2>1 DEF IdleProc
  <2>3. "seed" \in Kinds \ {"gc"}
    BY DEF Kinds
  <2> QED
    BY <1>2, <2>1, <2>2, <2>3
<1> QED
  BY <1>3, <1>4, <1>5, <1>6

\* Steps of none of the processes.
LEMMA RestStep ==
    ASSUME IInv, SafeInv', UNCHANGED vars \/ CleanMountLock
    PROVE  IInv'
<1>1. UNCHANGED <<files, blobs, proc, states, budget, lastDurable>>
  BY DEF vars, CleanMountLock, history
<1>2. DiskKept
  BY <1>1, SameFilesKept
<1>3. Roots' = Roots /\ Saved' = Saved /\ Order'
  BY <1>2, KeptFacts DEF IInv
<1>4. Alone' /\ Disk'
  BY <1>1, <1>3 DEF IInv, Alone, Disk, Busy
<1>5. Segments'
  BY <1>1 DEF IInv, Segments, Busy, Expecting
<1>6. \A p \in Procs : Good(proc[p])'
  BY <1>1, <1>2, StaysGood DEF IInv
<1> QED
  BY <1>3, <1>4, <1>5, <1>6 DEF IInv

-----------------------------------------------------------------------------
(* A record reaches the disk.                                              *)

\* A record appended to the segment with the largest number comes last.
LEMMA AppendedLast ==
    ASSUME TypeOK, NEW id \in DOMAIN files, files[id].header, NEW rec \in Record,
           files' = [files EXCEPT ![id].records = Append(@, rec)],
           \A i \in DOMAIN files : i <= id /\ i < PadLimit
    PROVE  \E x0 :
             /\ x0 \notin Positions /\ Positions' = Positions \cup {x0} /\ x0[1] = id
             /\ At(x0)' = rec /\ \A x \in Positions : At(x)' = At(x)
             /\ \A x \in Positions : Before(x, x0) /\ ~Before(x0, x)
             /\ ~Before(x0, x0)
<1> DEFINE s == files[id].records
           x0 == <<id, Len(s) + 1>>
<1>1. s \in Seq(Record) /\ id \in Nat /\ id < PadLimit
  BY DEF TypeOK, File
<1>2. /\ DOMAIN s = 1 .. Len(s) /\ Len(s) \in Nat
      /\ DOMAIN Append(s, rec) = 1 .. Len(s) + 1
      /\ \A k \in DOMAIN s : Append(s, rec)[k] = s[k]
      /\ Append(s, rec)[Len(s) + 1] = rec
  BY <1>1, AppendAt
<1>3. /\ DOMAIN files' = DOMAIN files
      /\ \A i \in DOMAIN files : i # id => files'[i] = files[i]
      /\ files'[id] = [files[id] EXCEPT !.records = Append(s, rec)]
  OBVIOUS
<1>4. files'[id].header /\ files'[id].records = Append(s, rec)
  <2>1. files[id] \in File
    BY DEF TypeOK
  <2> QED
    BY <1>3, <2>1 DEF File
<1>5. ASSUME NEW x \in Positions
      PROVE  /\ x \in Positions' /\ x # x0 /\ At(x)' = At(x)
             /\ x[1] \in Nat /\ x[2] \in Nat /\ x[1] < PadLimit /\ x[1] <= id
             /\ x[1] = id => x[2] < Len(s) + 1
  <2>1. /\ x = <<x[1], x[2]>> /\ x[1] \in DOMAIN files /\ files[x[1]].header
        /\ x[2] \in DOMAIN files[x[1]].records /\ x[1] \in Nat /\ x[2] \in Nat
    BY PositionFacts
  <2>2. x[1] = id => x[2] < Len(s) + 1
    BY <1>2, <2>1
  <2>3. x # x0
    BY <1>1, <1>2, <2>1, <2>2
  <2>4. /\ files'[x[1]].header /\ x[2] \in DOMAIN files'[x[1]].records
        /\ files'[x[1]].records[x[2]] = files[x[1]].records[x[2]]
    <3>1. CASE x[1] = id
      <4>1. x[2] \in DOMAIN s
        BY <2>1, <3>1
      <4>2. x[2] \in DOMAIN Append(s, rec) /\ Append(s, rec)[x[2]] = s[x[2]]
        BY <1>2, <4>1
      <4> QED
        BY <1>4, <3>1, <4>2
    <3>2. CASE x[1] # id
      BY <1>3, <2>1, <3>2
    <3> QED
      BY <3>1, <3>2
  <2>5. x \in {x[1]} \X DOMAIN files'[x[1]].records
    BY <2>1, <2>4
  <2>6. x \in Positions'
    BY <1>3, <2>1, <2>4, <2>5 DEF Positions
  <2> QED
    BY <2>1, <2>2, <2>3, <2>4, <2>6 DEF At
<1>6. x0 \in Positions'
  <2>1. id \in DOMAIN files' /\ x0 \in {id} \X DOMAIN files'[id].records
    BY <1>2, <1>3, <1>4
  <2> QED
    BY <1>4, <2>1 DEF Positions
<1>7. ASSUME NEW x \in Positions', x # x0 PROVE x \in Positions
  <2>1. PICK j \in DOMAIN files' : files'[j].header /\ x \in {j} \X DOMAIN files'[j].records
    BY DEF Positions
  <2>2. CASE j = id
    <3>1. x = <<id, x[2]>> /\ x[2] \in 1 .. Len(s) + 1
      BY <1>2, <1>4, <2>1, <2>2
    <3>2. x[2] \in DOMAIN s
      BY <1>2, <1>7, <3>1
    <3>3. x \in {id} \X DOMAIN files[id].records
      BY <3>1, <3>2
    <3> QED
      BY <3>3 DEF Positions
  <2>3. CASE j # id
    BY <1>3, <2>1, <2>3 DEF Positions
  <2> QED
    BY <2>2, <2>3
<1>8. Positions' = Positions \cup {x0} /\ x0 \notin Positions
  BY <1>5, <1>6, <1>7
<1>9. x0[1] = id /\ x0[2] = Len(s) + 1
  OBVIOUS
<1>10. ASSUME NEW x \in Positions PROVE Before(x, x0) /\ ~Before(x0, x)
  BY <1>1, <1>2, <1>5, <1>9, OrderOfNames DEF Before
<1>11. ~Before(x0, x0)
  BY <1>1, <1>2, <1>9, OrderOfNames DEF Before
<1>12. files'[id].records[Len(s) + 1] = rec
  BY <1>2, <1>4
<1>13. PICK y : y = x0
  OBVIOUS
<1>14. At(y)' = rec
  BY <1>9, <1>12, <1>13 DEF At
<1> QED
  BY <1>5, <1>8, <1>9, <1>10, <1>11, <1>13, <1>14

\* A root that is written is the one that replay gives, and a snapshot that is
\* written is added.
LEMMA AppendedFacts ==
    ASSUME TypeOK, Order, NEW id \in DOMAIN files, files[id].header, NEW rec \in Record,
           files' = [files EXCEPT ![id].records = Append(@, rec)],
           \A i \in DOMAIN files : i <= id /\ i < PadLimit,
           lastDurable' = IF rec.type = "root" THEN rec.root ELSE lastDurable,
           rec.type = "snap" => \A s \in Saved : s.version < rec.version
    PROVE  /\ Order'
           /\ rec.type = "root" => Roots' = Roots \cup {rec.root} /\ Saved' = Saved
           /\ rec.type = "snap" => Roots' = Roots /\ Saved' = Saved \cup {rec}
<1>1. PICK x0 :
         /\ x0 \notin Positions /\ Positions' = Positions \cup {x0}
         /\ At(x0)' = rec /\ \A x \in Positions : At(x)' = At(x)
         /\ \A x \in Positions : Before(x, x0) /\ ~Before(x0, x)
         /\ ~Before(x0, x0)
  BY AppendedLast
<1>2. RootPositions \subseteq Positions /\ SnapPositions \subseteq Positions
  BY DEF RootPositions, SnapPositions
<1>3. rec.type \in {"root", "snap"}
  BY DEF Record
<1>4. CASE rec.type = "root"
  <2>1. RootPositions' = RootPositions \cup {x0} /\ SnapPositions' = SnapPositions
    BY <1>1, <1>4 DEF RootPositions, SnapPositions
  <2>2. Roots' = Roots \cup {rec.root} /\ Saved' = Saved
    BY <1>1, <1>2, <2>1 DEF Roots, Saved
  <2>3. x0 \in RootPositions' /\ \A y \in RootPositions' \ {x0} : Before(y, x0)
    BY <1>1, <1>2, <2>1
  <2>4. At(x0)'.root = lastDurable'
    BY <1>1, <1>4
  <2>5. \A x, y \in SnapPositions' : Before(x, y) => At(x)'.version < At(y)'.version
    BY <1>1, <1>2, <2>1 DEF Order
  <2>7. Order'
    BY <2>3, <2>4, <2>5 DEF Order, IsLast, Before
  <2> QED
    BY <1>4, <2>2, <2>7
<1>5. CASE rec.type = "snap"
  <2>1. RootPositions' = RootPositions /\ SnapPositions' = SnapPositions \cup {x0}
    BY <1>1, <1>5 DEF RootPositions, SnapPositions
  <2>2. Roots' = Roots /\ Saved' = Saved \cup {rec}
    BY <1>1, <1>2, <2>1 DEF Roots, Saved
  <2>3. lastDurable' = lastDurable
    BY <1>5
  <2>4. \/ RootPositions' = {} /\ lastDurable' = 0
        \/ \E x \in RootPositions' : /\ x \in RootPositions'
                                     /\ \A y \in RootPositions' \ {x} : Before(y, x)
                                     /\ At(x)'.root = lastDurable'
    BY <1>1, <1>2, <2>1, <2>3 DEF Order, IsLast
  <2>5. ASSUME NEW x \in SnapPositions', NEW y \in SnapPositions', Before(x, y)
        PROVE  At(x)'.version < At(y)'.version
    <3>1. x # x0
      BY <1>1, <1>2, <2>1, <2>5
    <3>2. CASE y = x0
      BY <1>1, <1>2, <1>5, <2>1, <3>1, <3>2 DEF Saved
    <3>3. CASE y # x0
      BY <1>1, <1>2, <2>1, <2>5, <3>1, <3>3 DEF Order
    <3> QED
      BY <3>2, <3>3
  <2>7. Order'
    BY <2>4, <2>5 DEF Order, IsLast, Before
  <2> QED
    BY <1>5, <2>2, <2>7
<1> QED
  BY <1>3, <1>4, <1>5

\* What is written, and by whom: the state in memory, the snapshot of it, or
\* the target of a switch.
LEMMA WriteFacts ==
    ASSUME IInv, Orderly, NEW p \in Procs, WriteRecord(p)
    PROVE  LET o   == proc[p]
               rec == o.buf[1]
           IN  /\ TypeOK /\ Busy(p) /\ o \in ProcState /\ Good(o)
               /\ o.buf # <<>> /\ 1 \in DOMAIN o.buf /\ rec \in Record
               /\ o.pc \in {"commit", "log", "snap", "target", "shutdown"} /\ o.wal # "NoWal"
               /\ ~Switched(o) /\ ~Shown(o) /\ o.mem \in Nat \ {0} /\ o.target \in Nat
               /\ o.seg \in DOMAIN files /\ files[o.seg].header
               /\ files' = [files EXCEPT ![o.seg].records = Append(@, rec)]
               /\ proc'[p] = [o EXCEPT !.buf = Tail(o.buf)]
               /\ \A q \in Procs : q # p => proc'[q] = proc[q]
               /\ UNCHANGED <<blobs, states, budget>>
               /\ lastDurable' = IF rec.type = "root" THEN rec.root ELSE lastDurable
               /\ Order'
               /\ \/ /\ rec = RootUpdate(o.mem) /\ rec.type = "root" /\ rec.root = o.mem
                     /\ Roots' = Roots \cup {o.mem} /\ Saved' = Saved
                  \/ /\ rec.type = "snap" /\ rec.root = o.mem /\ o.mem = lastDurable
                     /\ \A s \in Saved : s.version < rec.version
                     /\ o.pc \in {"target", "shutdown"}
                     /\ \A j \in DOMAIN o.buf : j > 1 => o.buf[j] = RootUpdate(o.target)
                     /\ Roots' = Roots /\ Saved' = Saved \cup {rec}
                  \/ /\ rec = RootUpdate(o.target) /\ rec.type = "root" /\ rec.root = o.target
                     /\ o.kind = "switch" /\ o.pc = "shutdown" /\ Len(o.buf) = 1
                     /\ o.mem = lastDurable /\ \E s \in Saved : s.root = o.mem
                     /\ \E s \in Saved : s.root = o.target
                     /\ Roots' = Roots /\ Saved' = Saved
<1> DEFINE o == proc[p]
           rec == o.buf[1]
<1>1. Busy(p) /\ o.buf # <<>>
  BY DEF WriteRecord, IInv, Alone, IdleProc
<1>2. TypeOK /\ o \in ProcState /\ Good(o)
  BY <1>1, Running
<1>3. o.buf \in Seq(Record) /\ o.mem \in Nat /\ o.target \in Nat /\ o.seg \in Nat
  BY <1>2 DEF ProcState
<1>4. DOMAIN o.buf = 1 .. Len(o.buf) /\ Len(o.buf) \in Nat /\ Len(o.buf) > 0
  BY <1>1, <1>3
<1>5. 1 \in DOMAIN o.buf /\ rec \in Record /\ Head(o.buf) = rec
  BY <1>1, <1>3, <1>4
<1>6. o.pc \in {"commit", "log", "snap", "target", "shutdown"} /\ o.wal # "NoWal"
      /\ ~Switched(o) /\ ~Shown(o)
  BY <1>1, <1>2 DEF Good, Stage, Switched
<1>7. o.mem # 0
  <2>1. o.mem \in 1 .. states
    BY <1>2, <1>6 DEF Good, Memory, Shown, Loaded
  <2> QED
    BY <2>1
<1>8. o.seg # 0 /\ o.seg \in DOMAIN files /\ \A i \in DOMAIN files : i <= o.seg
  BY <1>2, <1>6 DEF Good, Stage, Shown, IInv, Segments
<1>9. /\ files[o.seg].header
      /\ files' = [files EXCEPT ![o.seg].records = Append(@, rec)]
      /\ lastDurable' = IF rec.type = "root" THEN rec.root ELSE lastDurable
      /\ UNCHANGED <<blobs, states, budget>>
  BY <1>5, <1>8 DEF WriteRecord
<1>10. proc'[p] = [o EXCEPT !.buf = Tail(o.buf)] /\ \A q \in Procs : q # p => proc'[q] = proc[q]
  BY <1>2, OthersStay DEF WriteRecord
<1>11. o.mem # lastDurable /\ o.pc \in {"snap", "target", "shutdown"} => rec = RootUpdate(o.mem)
  BY <1>2, <1>6 DEF Good, Queue
<1>12. \/ /\ rec = RootUpdate(o.mem) /\ rec.type = "root" /\ rec.root = o.mem
       \/ /\ rec.type = "snap" /\ rec.root = o.mem /\ o.mem = lastDurable
          /\ \A s \in Saved : s.version < rec.version
          /\ o.pc \in {"target", "shutdown"}
          /\ \A j \in DOMAIN o.buf : j > 1 => o.buf[j] = RootUpdate(o.target)
       \/ /\ rec = RootUpdate(o.target) /\ rec.type = "root" /\ rec.root = o.target
          /\ rec # RootUpdate(o.mem)
          /\ o.kind = "switch" /\ o.pc = "shutdown" /\ Len(o.buf) = 1
          /\ o.mem = lastDurable
  <2>1. \A m : RootUpdate(m).type = "root" /\ RootUpdate(m).root = m
    BY DEF RootUpdate
  <2>2. \/ rec = RootUpdate(o.mem)
        \/ /\ rec.type = "snap" /\ rec.root = o.mem
           /\ \A s \in Saved : s.version < rec.version
           /\ o.pc \in {"target", "shutdown"}
           /\ \A j \in DOMAIN o.buf : j > 1 => o.buf[j] = RootUpdate(o.target)
        \/ /\ rec = RootUpdate(o.target) /\ o.kind = "switch" /\ o.pc = "shutdown"
           /\ 1 = Len(o.buf)
    BY <1>2, <1>5 DEF Good, Queue
  <2>3. CASE rec = RootUpdate(o.mem)
    BY <2>1, <2>3
  <2>4. CASE rec # RootUpdate(o.mem)
    BY <1>11, <2>1, <2>2, <2>4
  <2> QED
    BY <2>3, <2>4
<1>13. /\ Order'
       /\ rec.type = "root" => Roots' = Roots \cup {rec.root} /\ Saved' = Saved
       /\ rec.type = "snap" => Roots' = Roots /\ Saved' = Saved \cup {rec}
  <2>1. \A i \in DOMAIN files : i <= o.seg /\ i < PadLimit
    BY <1>8, Padded
  <2>2. rec.type = "snap" => \A s \in Saved : s.version < rec.version
    BY <1>12
  <2> QED
    BY <1>2, <1>5, <1>8, <1>9, <2>1, <2>2, AppendedFacts DEF IInv
<1>14. ASSUME rec = RootUpdate(o.target), rec.type = "root", rec.root = o.target,
              rec # RootUpdate(o.mem), o.kind = "switch", o.pc = "shutdown", Len(o.buf) = 1
       PROVE  /\ \E s \in Saved : s.root = o.mem
              /\ \E s \in Saved : s.root = o.target
              /\ Roots' = Roots /\ Saved' = Saved
  <2>1. PICK s \in Saved : s.root = o.target
    BY <1>2, <1>14 DEF Good, Memory, Shown
  <2>2. o.target \in Roots
    BY <2>1 DEF IInv, Disk
  <2>3. \A k \in DOMAIN o.buf : k = 1
    BY <1>4, <1>14
  <2>4. \E t \in Saved : t.root = o.mem
    BY <1>2, <1>6, <1>14, <2>3 DEF Good, Queue
  <2> QED
    BY <1>13, <1>14, <2>1, <2>2, <2>4
<1> QED
  BY <1>1, <1>2, <1>3, <1>5, <1>6, <1>7, <1>8, <1>9, <1>10, <1>12, <1>13, <1>14

\* The elements of a sequence without its first.
LEMMA TailAt ==
    ASSUME NEW S, NEW s \in Seq(S), s # <<>>
    PROVE  /\ DOMAIN s = 1 .. Len(s) /\ Len(s) \in Nat
           /\ Len(Tail(s)) = Len(s) - 1 /\ DOMAIN Tail(s) = 1 .. Len(s) - 1
           /\ \A k \in DOMAIN Tail(s) : k + 1 \in DOMAIN s /\ Tail(s)[k] = s[k + 1]
           /\ \A k \in DOMAIN s : k # 1 => k - 1 \in DOMAIN Tail(s) /\ Tail(s)[k - 1] = s[k]
           /\ Tail(s) = <<>> <=> Len(s) = 1
<1>1. /\ DOMAIN s = 1 .. Len(s) /\ Len(s) \in Nat /\ Len(s) > 0 /\ Tail(s) \in Seq(S)
      /\ Len(Tail(s)) = Len(s) - 1 /\ DOMAIN Tail(s) = 1 .. Len(Tail(s))
  OBVIOUS
<1>2. ASSUME NEW k \in DOMAIN Tail(s) PROVE k + 1 \in DOMAIN s /\ Tail(s)[k] = s[k + 1]
  BY <1>1
<1>3. ASSUME NEW k \in DOMAIN s, k # 1 PROVE k - 1 \in DOMAIN Tail(s) /\ Tail(s)[k - 1] = s[k]
  <2>1. k - 1 \in DOMAIN Tail(s) /\ (k - 1) + 1 = k
    BY <1>1, <1>3
  <2> QED
    BY <1>2, <2>1
<1>4. Tail(s) = <<>> <=> Len(s) = 1
  BY <1>1, SMTT(30)
<1> QED
  BY <1>1, <1>2, <1>3, <1>4

\* A record reaches the disk.
LEMMA WriteStep ==
    ASSUME IInv, SafeInv', Orderly, NEW p \in Procs, WriteRecord(p)
    PROVE  IInv'
<1> DEFINE r == proc'[p]
           o == proc[p]
           rec == o.buf[1]
<1>1. /\ TypeOK /\ Busy(p) /\ o \in ProcState /\ Good(o)
      /\ o.buf # <<>> /\ 1 \in DOMAIN o.buf /\ rec \in Record
      /\ o.pc \in {"commit", "log", "snap", "target", "shutdown"} /\ o.wal # "NoWal"
      /\ ~Switched(o) /\ ~Shown(o) /\ o.mem \in Nat \ {0} /\ o.target \in Nat
      /\ o.seg \in DOMAIN files /\ files[o.seg].header
      /\ files' = [files EXCEPT ![o.seg].records = Append(@, rec)]
      /\ proc'[p] = [o EXCEPT !.buf = Tail(o.buf)]
      /\ \A q \in Procs : q # p => proc'[q] = proc[q]
      /\ UNCHANGED <<blobs, states, budget>>
      /\ lastDurable' = IF rec.type = "root" THEN rec.root ELSE lastDurable
      /\ Order'
  BY WriteFacts
<1>2. \/ /\ rec = RootUpdate(o.mem) /\ rec.type = "root" /\ rec.root = o.mem
         /\ Roots' = Roots \cup {o.mem} /\ Saved' = Saved
      \/ /\ rec.type = "snap" /\ rec.root = o.mem /\ o.mem = lastDurable
         /\ o.pc \in {"target", "shutdown"}
         /\ \A j \in DOMAIN o.buf : j > 1 => o.buf[j] = RootUpdate(o.target)
         /\ Roots' = Roots /\ Saved' = Saved \cup {rec}
      \/ /\ rec = RootUpdate(o.target) /\ rec.type = "root" /\ rec.root = o.target
         /\ o.kind = "switch" /\ o.pc = "shutdown" /\ Len(o.buf) = 1
         /\ Roots' = Roots /\ Saved' = Saved
  BY WriteFacts
<1>3. /\ r.pc = o.pc /\ r.known = o.known /\ r.kind = o.kind /\ r.wal = o.wal /\ r.seg = o.seg
      /\ r.held = o.held /\ r.mem = o.mem /\ r.target = o.target /\ r.buf = Tail(o.buf)
  BY <1>1 DEF ProcState
<1>4. /\ o.buf \in Seq(Record) /\ DOMAIN o.buf = 1 .. Len(o.buf) /\ Len(o.buf) \in Nat
      /\ Len(r.buf) = Len(o.buf) - 1 /\ DOMAIN r.buf = 1 .. Len(o.buf) - 1
      /\ \A k \in DOMAIN r.buf : k + 1 \in DOMAIN o.buf /\ r.buf[k] = o.buf[k + 1]
      /\ \A k \in DOMAIN o.buf : k # 1 => k - 1 \in DOMAIN r.buf /\ r.buf[k - 1] = o.buf[k]
      /\ r.buf = <<>> <=> Len(o.buf) = 1
  <2>1. o.buf \in Seq(Record)
    BY <1>1 DEF ProcState
  <2> QED
    BY <1>1, <1>3, <2>1, TailAt, SMTT(30)
<1>5. \A m \in Roots : m \in Nat
  BY <1>1, PositionFacts DEF Roots, RootPositions, Record
<1>6. lastDurable # 0 => lastDurable \in Roots
  BY DEF IInv, Order, Roots
<1>7. o.mem = lastDurable \/ \A m \in Roots : m < o.mem
  BY <1>1 DEF Good, Memory
<1>8. Disk'
  <2>1. \/ Roots' = Roots
        \/ (\A m \in Roots : m < o.mem) /\ Roots' = Roots \cup {o.mem}
    <3>1. o.mem # 0
      BY <1>1
    <3>2. CASE o.mem = lastDurable
      BY <1>2, <1>6, <3>1, <3>2
    <3>3. Roots' = Roots \/ Roots' = Roots \cup {o.mem}
      BY <1>2
    <3> QED
      BY <1>7, <3>2, <3>3
  <2>2. o.mem <= states
    <3>1. o.mem \in 1 .. states
      BY <1>1 DEF Good, Memory, Shown, Loaded
    <3> QED
      BY <3>1
  <2>3. Roots' # {} => \E m \in Roots' : \A n \in Roots' : n <= m
    <3>1. CASE Roots' = Roots
      BY <3>1 DEF IInv, Disk
    <3>2. CASE (\A m \in Roots : m < o.mem) /\ Roots' = Roots \cup {o.mem}
      <4>1. o.mem \in Nat /\ o.mem \in Roots'
        BY <1>1, <3>2
      <4>2. \A n \in Roots' : n <= o.mem
        BY <1>5, <3>2, <4>1
      <4> QED
        BY <4>1, <4>2
    <3> QED
      BY <2>1, <3>1, <3>2
  <2>4. \A m \in Roots' : m <= states'
    BY <1>1, <2>1, <2>2 DEF IInv, Disk
  <2>5. \A s \in Saved' : s.root \in Roots'
    BY <1>1, <1>2, <1>6 DEF IInv, Disk
  <2> QED
    BY <1>1, <2>3, <2>4, <2>5 DEF IInv, Disk
<1>9. \A q \in Procs : q # p => proc'[q] = IdleProc
  BY <1>1, Running
<1>10. Alone'
  <2>1. r.pc # "idle" /\ IdleProc.pc = "idle" /\ budget' = budget
    BY <1>1, <1>3 DEF IdleProc
  <2> QED
    BY <1>9, <2>1 DEF IInv, Alone, Busy
<1>11. Segments'
  <2>1. /\ DOMAIN files' = DOMAIN files /\ \A i \in DOMAIN files : i # o.seg => files'[i] = files[i]
        /\ files'[o.seg].header
    <3>1. files[o.seg] \in File /\ files'[o.seg] = [files[o.seg] EXCEPT !.records = Append(@, rec)]
      BY <1>1 DEF TypeOK
    <3> QED
      BY <1>1, <3>1 DEF File
  <2>2. Expecting' <=> Expecting
    <3>1. r.pc # "idle" /\ r.seg = o.seg /\ IdleProc.pc = "idle"
      BY <1>1, <1>3 DEF IdleProc
    <3>2. Expecting' <=> o.seg = 0
      BY <1>9, <3>1 DEF Expecting, Busy
    <3> QED
      BY <1>1, <3>2, Running
  <2>3. \A i \in DOMAIN files' : i # 0 /\ (files'[i].header \/ files'[i].records = <<>>)
    BY <2>1 DEF IInv, Segments
  <2>4. \A i \in DOMAIN files' \cup {0} :
           i + Left(budget') + (IF Expecting' THEN 1 ELSE 0) <= Left(Budget)
    BY <1>1, <2>1, <2>2 DEF IInv, Segments
  <2>5. \A q \in Procs : proc'[q].seg # 0 =>
           proc'[q].seg \in DOMAIN files' /\ \A i \in DOMAIN files' : i <= proc'[q].seg
    BY <1>3, <1>9, <2>1 DEF IInv, Segments, IdleProc
  <2>6. \A q \in Procs : (proc'[q].pc # "idle") =>
           /\ budget'["seed"] = 0
           /\ DOMAIN files' = {} <=> proc'[q].pc \in {"import", "seedwal"}
    BY <1>1, <1>3, <1>9, <2>1, Running DEF IInv, Segments, Busy, IdleProc
  <2> QED
    BY <1>1, <2>1, <2>3, <2>4, <2>5, <2>6 DEF IInv, Segments, Busy
<1>12. Stage(proc[p])'
  BY <1>1, <1>3 DEF Good, Stage, Shown
<1>13. Memory(proc[p])'
  <2>1. Saved \subseteq Saved' /\ (r.pc \in Loaded => r.known = Saved')
    BY <1>1, <1>2, <1>3 DEF Good, Memory, Loaded
  <2>2. r.mem \in 1 .. states'
    BY <1>1, <1>3 DEF Good, Memory, Shown, Loaded
  <2>3. Switched(r) \/ r.mem = lastDurable' \/ \A m \in Roots' : m < r.mem
    BY <1>1, <1>2, <1>3, <1>4, <1>7 DEF Switched
  <2>4. r.kind = "switch" => \E s \in Saved' : s.root = r.target
    BY <1>1, <1>3, <2>1 DEF Good, Memory, Shown
  <2> QED
    BY <1>1, <1>3, <2>1, <2>2, <2>3, <2>4 DEF Memory, Shown, Switched
<1>14. Queue(proc[p])'
  <2>1. \A k \in DOMAIN r.buf :
          \/ r.buf[k] = RootUpdate(r.mem)
          \/ /\ r.buf[k].type = "snap" /\ r.buf[k].root = r.mem
             /\ \A s \in Saved' : s.version < r.buf[k].version
             /\ r.pc \in {"target", "shutdown"}
             /\ \A j \in DOMAIN r.buf : j < k => r.buf[j] = RootUpdate(r.mem)
             /\ \A j \in DOMAIN r.buf : j > k => /\ r.buf[j] = RootUpdate(r.target)
                                                 /\ r.kind = "switch" /\ r.pc = "shutdown"
          \/ /\ r.buf[k] = RootUpdate(r.target) /\ r.kind = "switch" /\ r.pc = "shutdown"
             /\ k = Len(r.buf)
    <3> SUFFICES ASSUME NEW k \in DOMAIN r.buf, r.buf[k] # RootUpdate(r.mem),
                        ~ /\ r.buf[k] = RootUpdate(r.target) /\ r.kind = "switch"
                          /\ r.pc = "shutdown" /\ k = Len(r.buf)
                 PROVE  /\ r.buf[k].type = "snap" /\ r.buf[k].root = r.mem
                        /\ \A s \in Saved' : s.version < r.buf[k].version
                        /\ r.pc \in {"target", "shutdown"}
                        /\ \A j \in DOMAIN r.buf : j < k => r.buf[j] = RootUpdate(r.mem)
                        /\ \A j \in DOMAIN r.buf : j > k =>
                              /\ r.buf[j] = RootUpdate(r.target)
                              /\ r.kind = "switch" /\ r.pc = "shutdown"
      OBVIOUS
    <3>1. k + 1 \in DOMAIN o.buf /\ r.buf[k] = o.buf[k + 1] /\ k \in Nat /\ k + 1 > 1
          /\ (k + 1 = Len(o.buf) => k = Len(r.buf))
      <4>1. k \in 1 .. Len(o.buf) - 1 /\ Len(o.buf) \in Nat /\ Len(r.buf) = Len(o.buf) - 1
        BY <1>4
      <4>2. k + 1 \in DOMAIN o.buf /\ r.buf[k] = o.buf[k + 1]
        BY <1>4
      <4>3. k \in Nat /\ k + 1 > 1 /\ (k + 1 = Len(o.buf) => k = Len(r.buf))
        BY <4>1
      <4> QED
        BY <4>2, <4>3
    <3>2. /\ o.buf[k + 1].type = "snap" /\ o.buf[k + 1].root = o.mem
          /\ \A s \in Saved : s.version < o.buf[k + 1].version
          /\ o.pc \in {"target", "shutdown"}
          /\ \A j \in DOMAIN o.buf : j < k + 1 => o.buf[j] = RootUpdate(o.mem)
          /\ \A j \in DOMAIN o.buf : j > k + 1 => /\ o.buf[j] = RootUpdate(o.target)
                                                  /\ o.kind = "switch" /\ o.pc = "shutdown"
      BY <1>1, <1>3, <3>1 DEF Good, Queue
    <3>3. Saved' = Saved
      <4>1. RootUpdate(o.target).type # "snap" /\ Len(o.buf) # 1
        BY <1>4, <3>1 DEF RootUpdate
      <4> QED
        BY <1>2, <3>1, <3>2, <4>1
    <3>4. \A j \in DOMAIN r.buf :
             /\ j \in Nat /\ j + 1 \in DOMAIN o.buf /\ r.buf[j] = o.buf[j + 1]
             /\ (j < k => j + 1 < k + 1) /\ (j > k => j + 1 > k + 1)
      <4> SUFFICES ASSUME NEW j \in DOMAIN r.buf
                   PROVE  /\ j \in Nat /\ j + 1 \in DOMAIN o.buf /\ r.buf[j] = o.buf[j + 1]
                          /\ (j < k => j + 1 < k + 1) /\ (j > k => j + 1 > k + 1)
        OBVIOUS
      <4>1. j \in 1 .. Len(o.buf) - 1 /\ Len(o.buf) \in Nat
        BY <1>4
      <4>2. j \in Nat /\ (j < k => j + 1 < k + 1) /\ (j > k => j + 1 > k + 1)
        BY <3>1, <4>1
      <4> QED
        BY <1>4, <4>2
    <3> QED
      BY <1>3, <3>1, <3>2, <3>3, <3>4
  <2>2. Switched(r) \/ r.mem = lastDurable' \/ r.pc \notin {"snap", "target", "shutdown"}
    BY <1>1, <1>2, <1>3, <1>4 DEF Switched
  <2>3. r.pc \in {"target", "shutdown"} /\ r.kind = "switch" /\ ~Switched(r)
        => \/ \E s \in Saved' : s.root = r.mem
           \/ \E k \in DOMAIN r.buf : r.buf[k].type = "snap"
    <3> SUFFICES ASSUME r.pc \in {"target", "shutdown"}, r.kind = "switch", ~Switched(r)
                 PROVE  \/ \E s \in Saved' : s.root = r.mem
                        \/ \E k \in DOMAIN r.buf : r.buf[k].type = "snap"
      OBVIOUS
    <3>1. \/ \E s \in Saved : s.root = o.mem
          \/ \E k \in DOMAIN o.buf : o.buf[k].type = "snap"
      BY <1>1, <1>3 DEF Good, Queue
    <3>2. Saved \subseteq Saved'
      BY <1>2
    <3>3. CASE \E s \in Saved : s.root = o.mem
      BY <1>3, <3>2, <3>3
    <3>4. CASE \E k \in DOMAIN o.buf : o.buf[k].type = "snap"
      <4>1. PICK k \in DOMAIN o.buf : o.buf[k].type = "snap"
        BY <3>4
      <4>2. CASE k = 1
        BY <1>2, <1>3, <4>1, <4>2
      <4>3. CASE k # 1
        BY <1>4, <4>1, <4>3
      <4> QED
        BY <4>2, <4>3
    <3> QED
      BY <3>1, <3>3, <3>4
  <2>4. r.pc # "exit"
    BY <1>1, <1>3
  <2> QED
    BY <2>1, <2>2, <2>3, <2>4 DEF Queue, Switched
<1>15. \A q \in Procs : Good(proc[q])'
  <2>1. ASSUME NEW q \in Procs, proc'[q] = IdleProc PROVE Good(proc[q])'
    BY <2>1, IdleGood
  <2> QED
    BY <1>9, <1>12, <1>13, <1>14, <2>1 DEF Good
<1> QED
  BY <1>1, <1>8, <1>10, <1>11, <1>15 DEF IInv

-----------------------------------------------------------------------------
(* The invariant holds.                                                    *)

\* The initial states.
LEMMA InitIInv ==
    ASSUME Orderly, Init
    PROVE  IInv
<1>1. SafeInv
  BY InitSafe
<1>2. /\ files = [i \in {} |-> NewFile] /\ DOMAIN files = {} /\ blobs = {}
      /\ states = 0 /\ lastDurable = 0 /\ budget = Budget
      /\ \A p \in Procs : proc[p] = IdleProc
  BY DEF Init
<1>3. Budget["seed"] \in Nat /\ Left(Budget) \in Nat
  BY ConstantsAssumption, LeftType DEF Bounded, Kinds
<1>4. Alone
  <2>1. \A p \in Procs : ~Busy(p)
    BY <1>2 DEF Busy, IdleProc
  <2> QED
    BY <1>2, <2>1 DEF Alone, Orderly
<1>5. ~Expecting
  BY <1>2 DEF Expecting, Busy, IdleProc
<1>6. Segments
  BY <1>2, <1>3, <1>5 DEF Segments, Busy, IdleProc, Orderly
<1>7. Positions = {} /\ RootPositions = {} /\ SnapPositions = {}
  BY <1>2 DEF Positions, RootPositions, SnapPositions
<1>8. Order /\ Disk
  BY <1>2, <1>7 DEF Order, Disk, Roots, Saved
<1>9. \A p \in Procs : Good(proc[p])
  BY <1>2, IdleGood
<1> QED
  BY <1>1, <1>4, <1>6, <1>8, <1>9 DEF IInv

\* No collection runs.
LEMMA NoCollection ==
    ASSUME IInv, NEW p \in Procs
    PROVE  ~GcList(p) /\ ~GcDone(p) /\ \A i : ~GcCompact(p, i) /\ ~GcFail(p, i)
<1>1. proc[p].pc \notin {"list", "compact"}
  BY DEF IInv, Good, Stage, Shown
<1> QED
  BY <1>1 DEF GcList, GcDone, GcCompact, GcFail

\* Every step keeps the invariant.
LEMMA NextIInv ==
    ASSUME Orderly, IInv, [Next]_vars
    PROVE  IInv'
<1>1. SafeInv'
  BY StepSafe DEF IInv
<1>2. ASSUME NEW p \in Procs,
             \/ StartMount(p) \/ StartSnapshot(p) \/ StartGc(p) \/ StartSeed(p)
      PROVE  IInv'
  BY <1>1, <1>2, StartStep
<1>3. ASSUME NEW p \in Procs, Mutate(p) \/ Fsync(p) \/ Unmount(p) \/ Crash(p)
      PROVE  IInv'
  BY <1>1, <1>3, MutateStep, LabelStep, LockStep
<1>4. ASSUME NEW p \in Procs, Progress(p)
      PROVE  IInv'
  <2>1. CASE \/ Acquire(p) \/ RemoveStale(p) \/ Reacquire(p) \/ LockWrite(p)
             \/ CheckUnmounted(p)
    BY <1>1, <2>1, LockStep
  <2>2. CASE Load(p) \/ CreateWal(p) \/ FindSnapshot(p) \/ CommitBlobs(p)
    BY <1>1, <2>2, LoadStep, CreateStep, FindStep, CommitStep
  <2>3. CASE LogRoot(p) \/ LogSnapshot(p) \/ LogTarget(p)
    BY <1>1, <2>3, LogRootStep, LogSnapshotStep, LogTargetStep
  <2>4. CASE WriteHeader(p) \/ WriteRecord(p) \/ FsyncDone(p) \/ ShutdownWal(p) \/ Exit(p)
    BY <1>1, <2>4, HeaderStep, WriteStep, LabelStep
  <2>5. CASE SeedImport(p) \/ SeedSegment(p)
    BY <1>1, <2>5, ImportStep, CreateStep
  <2> QED
    BY <1>4, <2>1, <2>2, <2>3, <2>4, <2>5, NoCollection DEF Progress
<1>5. ASSUME CleanMountLock \/ UNCHANGED vars
      PROVE  IInv'
  BY <1>1, <1>5, RestStep
<1> QED
  BY <1>2, <1>3, <1>4, <1>5 DEF Next, Rest

\* In every reachable state.
LEMMA IInvHolds ==
    ASSUME Orderly
    PROVE  Spec => []IInv
<1>1. Init => IInv
  BY InitIInv
<1>2. IInv /\ [Next]_vars => IInv'
  BY NextIInv
<1> QED
  BY <1>1, <1>2, PTL DEF Spec

\* Only a record that is written changes what replay sees.
LEMMA OnlyWritesShow ==
    ASSUME IInv, [Next]_vars
    PROVE  DiskKept \/ \E p \in Procs : WriteRecord(p)
<1>1. ASSUME UNCHANGED <<files, lastDurable>> PROVE DiskKept
  BY <1>1, SameFilesKept
<1>2. ASSUME NEW p \in Procs,
             \/ StartMount(p) \/ StartSnapshot(p) \/ StartGc(p) \/ StartSeed(p)
      PROVE  DiskKept
  BY <1>1, <1>2 DEF StartMount, StartSnapshot, StartGc, StartSeed, Start, disk, history
<1>3. ASSUME NEW p \in Procs, Mutate(p) \/ Fsync(p) \/ Unmount(p) \/ Crash(p)
      PROVE  DiskKept
  BY <1>1, <1>3 DEF Mutate, Fsync, Unmount, Crash, disk, history
<1>4. ASSUME NEW p \in Procs, Progress(p), ~WriteRecord(p)
      PROVE  DiskKept
  <2>1. CASE \/ Acquire(p) \/ RemoveStale(p) \/ Reacquire(p) \/ LockWrite(p)
             \/ CheckUnmounted(p) \/ Load(p) \/ FindSnapshot(p)
    BY <1>1, <2>1 DEF Acquire, RemoveStale, Reacquire, LockWrite, CheckUnmounted, Load,
       FindSnapshot, disk, history
  <2>2. CASE CommitBlobs(p) \/ LogRoot(p) \/ LogSnapshot(p) \/ LogTarget(p)
    BY <1>1, <2>2 DEF CommitBlobs, LogRoot, LogSnapshot, LogTarget, disk, history
  <2>3. CASE FsyncDone(p) \/ ShutdownWal(p) \/ SeedImport(p)
    BY <1>1, <2>3 DEF FsyncDone, ShutdownWal, SeedImport, disk, history
  <2>4. CASE WriteHeader(p) \/ Exit(p)
    BY <2>4, HeaderKept
  <2>5. CASE CreateWal(p) \/ SeedSegment(p)
    <3>1. UNCHANGED files \/ \E id \in NumberAfter(DOMAIN files) : files' = Put(files, id, NewFile)
      <4>1. CASE CreateWal(p)
        BY <4>1 DEF CreateWal
      <4>2. CASE SeedSegment(p)
        <5>1. DOMAIN files = {}
          BY <4>2 DEF SeedSegment, IInv, Segments, Busy
        <5> QED
          BY <4>2, <5>1 DEF SeedSegment, NumberAfter
      <4> QED
        BY <2>5, <4>1, <4>2
    <3>2. lastDurable' = lastDurable /\ DOMAIN files \subseteq Nat
      BY <2>5 DEF CreateWal, SeedSegment, history, IInv, SafeInv, TypeOK
    <3>3. ASSUME NEW id \in NumberAfter(DOMAIN files), files' = Put(files, id, NewFile)
          PROVE  DiskKept
      <4>1. id \notin DOMAIN files /\ NewFile.records = <<>>
        BY <3>2, NumberAfterAll DEF NewFile
      <4> QED
        BY <3>2, <3>3, <4>1, EmptyFileKept
    <3> QED
      BY <1>1, <3>1, <3>2, <3>3
  <2> QED
    BY <1>4, <2>1, <2>2, <2>3, <2>4, <2>5, NoCollection DEF Progress
<1>5. ASSUME CleanMountLock \/ UNCHANGED vars
      PROVE  DiskKept
  BY <1>1, <1>5 DEF CleanMountLock, vars, history
<1> QED
  BY <1>2, <1>3, <1>4, <1>5 DEF Next, Rest

\* The invariant, and what replay gives.
Replayed == IInv /\ ReplayRoot = lastDurable

\* In every reachable state.
LEMMA ReplayedHolds ==
    ASSUME Orderly
    PROVE  Spec => []Replayed
<1>1. IInv => Replayed
  BY Padded, ReplayIsLast DEF IInv, SafeInv, Replayed
<1> QED
  BY <1>1, IInvHolds, PTL

-----------------------------------------------------------------------------
(* The theorems.                                                           *)

\* On a store that is used by one command at a time, replay of the segments
\* gives the root that was written last: after any number of commands, each of
\* which may crash at any point, a mount never comes up with an older root.
THEOREM ReplayGivesLastCommit ==
    ASSUME Orderly
    PROVE  Spec => []RecoversLastCommit
<1>1. Replayed => RecoversLastCommit
  BY DEF Replayed, RecoversLastCommit
<1> QED
  BY <1>1, ReplayedHolds, PTL

\* No two snapshots on disk have the same version, commands that crashed
\* between numbering a snapshot and writing it included.
THEOREM VersionsNotReused ==
    ASSUME Orderly
    PROVE  Spec => []VersionsUnique
<1>1. IInv => VersionsUnique
  <2> SUFFICES ASSUME IInv, NEW s \in Saved, NEW u \in Saved, s.version = u.version
               PROVE  s = u
    BY DEF VersionsUnique
  <2>1. PICK x \in SnapPositions, y \in SnapPositions : s = At(x) /\ u = At(y)
    BY DEF Saved
  <2>2. TypeOK /\ Order
    BY DEF IInv, SafeInv
  <2>3. /\ x[1] \in Nat /\ y[1] \in Nat /\ x[2] \in Nat /\ y[2] \in Nat
        /\ x[1] < PadLimit /\ y[1] < PadLimit
        /\ x = <<x[1], x[2]>> /\ y = <<y[1], y[2]>>
        /\ At(x).version \in Nat /\ At(y).version \in Nat
    BY <2>2, PositionFacts, Padded DEF SnapPositions, Record
  <2>4. ~Before(x, y) /\ ~Before(y, x)
    BY <2>1, <2>2, <2>3 DEF Order
  <2>5. x = y
    BY <2>3, <2>4, BeforeStrict
  <2> QED
    BY <2>1, <2>5
<1> QED
  BY <1>1, IInvHolds, PTL

\* On such a store no command and no crash takes a snapshot away that replay
\* sees.  (Collections are left to the run gc.)
THEOREM SnapshotsNeverLost ==
    ASSUME Orderly
    PROVE  Spec => SnapshotsKept
<1>1. IInv /\ [Next]_vars
         => [crashes = 0 \/ budget["gc"] = Budget["gc"] => Saved \subseteq Saved']_vars
  <2> SUFFICES ASSUME IInv, [Next]_vars PROVE Saved \subseteq Saved'
    OBVIOUS
  <2>1. CASE DiskKept
    BY <2>1, KeptFacts
  <2>2. ASSUME NEW p \in Procs, WriteRecord(p) PROVE Saved \subseteq Saved'
    BY <2>2, WriteFacts
  <2> QED
    BY <2>1, <2>2, OnlyWritesShow
<1> QED
  BY <1>1, IInvHolds, PTL DEF Spec, SnapshotsKept

\* No step of a snapshot mount changes what replay gives: not the segment it opens
\* for the live store, not the commit destroy makes of the state it shows, nor the
\* snapshot of that state that --auto-snapshot asks for, nor a crash between them.
THEOREM SnapshotMountsLeaveNoTrace ==
    ASSUME Orderly
    PROVE  Spec => SnapshotMountInvisible
<1> DEFINE A == \A p \in Procs :
                   proc[p].kind = "snapmount" /\ proc'[p] # proc[p]
                      => ReplayRoot' = ReplayRoot /\ Saved' = Saved
<1>1. Replayed /\ Replayed' /\ [Next]_vars => [A]_vars
  <2> SUFFICES ASSUME Replayed, Replayed', [Next]_vars, NEW p \in Procs,
                      proc[p].kind = "snapmount", proc'[p] # proc[p]
               PROVE  ReplayRoot' = ReplayRoot /\ Saved' = Saved
    OBVIOUS
  <2>1. IInv /\ ReplayRoot = lastDurable /\ ReplayRoot' = lastDurable'
    BY DEF Replayed
  <2>2. CASE DiskKept
    BY <2>1, <2>2, KeptFacts DEF DiskKept
  <2>3. ASSUME NEW q \in Procs, WriteRecord(q) PROVE FALSE
    <3>1. /\ \A i \in Procs : i # q => proc'[i] = proc[i]
          /\ proc[q].pc \in {"commit", "log", "snap", "target", "shutdown"}
          /\ Good(proc[q]) /\ ~Shown(proc[q])
      BY <2>1, <2>3, WriteFacts
    <3>2. q = p
      BY <3>1
    <3> QED
      BY <3>1, <3>2 DEF Good, Stage, Shown
  <2> QED
    BY <2>1, <2>2, <2>3, OnlyWritesShow
<1> QED
  BY <1>1, ReplayedHolds, PTL DEF Spec, SnapshotMountInvisible

\* With a WAL, a mount that ends by itself, or by the next crash after it has
\* logged, leaves on disk the state it had in memory.
THEOREM CleanUnmountsPersist ==
    ASSUME Orderly, "NoWal" \notin Strategies
    PROVE  Spec => CleanUnmountPersists
<1> DEFINE A == \A p \in Procs :
                   Leaves(p) /\ proc[p].held /\ proc[p].kind # "snapmount"
                      => ReplayRoot' = proc[p].mem
<1>1. Replayed /\ Replayed' /\ [Next]_vars => [A]_vars
  <2> SUFFICES ASSUME Replayed, Replayed', [Next]_vars, NEW p \in Procs,
                      Leaves(p), proc[p].held, proc[p].kind # "snapmount"
               PROVE  ReplayRoot' = proc[p].mem
    OBVIOUS
  <2>1. IInv /\ ReplayRoot = lastDurable /\ ReplayRoot' = lastDurable'
    BY DEF Replayed
  <2>2. proc[p].pc = "exit" /\ Good(proc[p]) /\ Busy(p)
    BY <2>1 DEF IInv, Leaves, Busy
  <2>3. proc[p].mem = lastDurable
    <3>1. proc[p].kind \in {"mount", "create"} /\ proc[p].wal # "NoWal"
      BY <2>2 DEF Good, Stage, Shown
    <3> QED
      BY <2>2, <3>1 DEF Good, Queue
  <2>4. CASE DiskKept
    BY <2>1, <2>3, <2>4 DEF DiskKept
  <2>5. ASSUME NEW q \in Procs, WriteRecord(q) PROVE FALSE
    <3>1. proc[q].pc \in {"commit", "log", "snap", "target", "shutdown"} /\ Busy(q)
      BY <2>1, <2>5, WriteFacts
    <3>2. q = p
      BY <2>1, <2>2, <3>1 DEF IInv, Alone
    <3> QED
      BY <2>2, <3>1, <3>2
  <2> QED
    BY <2>1, <2>4, <2>5, OnlyWritesShow
<1> QED
  BY <1>1, ReplayedHolds, PTL DEF Spec, CleanUnmountPersists

-----------------------------------------------------------------------------
(* Refinement.                                                             *)

\* The largest of a set of numbers.
LEMMA LargestIs ==
    ASSUME NEW S, S \subseteq Nat, NEW m \in S, \A n \in S : n <= m
    PROVE  Largest(S) = m
<1>1. S # {}
  OBVIOUS
<1>2. \A x \in S : (\A y \in S : y <= x) => x = m
  OBVIOUS
<1> QED
  BY <1>1, <1>2 DEF Largest

\* The initial states are initial states of the abstract store.
LEMMA InitDurable == Init => Durable!Init
<1> SUFFICES ASSUME Init PROVE Durable!Init
  OBVIOUS
<1>1. Positions = {}
  BY DEF Init, Positions
<1>2. RootPositions = {} /\ SnapPositions = {}
  BY <1>1 DEF RootPositions, SnapPositions
<1>3. ReplayRoot = 0 /\ Saved = {}
  BY <1>2 DEF ReplayRoot, Saved
<1>4. {At(x).root : x \in RootPositions} = {}
  BY <1>2
<1>5. Largest({At(x).root : x \in RootPositions}) = 0
  BY <1>4 DEF Largest
<1> QED
  BY <1>3, <1>5 DEF Durable!Init

\* A step is one of the abstract store, or none: a root is committed, or the
\* live one is committed again, a snapshot is added, or a switch ends.
LEMMA StepDurable ==
    ASSUME Orderly, Replayed, Replayed', [Next]_vars
    PROVE  [Durable!Next]_Durable!store
<1> DEFINE newest == Largest({At(x).root : x \in RootPositions})
<1>1. IInv /\ ReplayRoot = lastDurable /\ ReplayRoot' = lastDurable'
  BY DEF Replayed
<1>2. newest = Largest(Roots) /\ newest' = Largest(Roots')
  BY DEF Roots
<1>3. Roots \subseteq Nat
  BY <1>1, PositionFacts DEF Roots, RootPositions, Record, IInv, SafeInv
<1>4. lastDurable # 0 => lastDurable \in Roots
  BY <1>1 DEF IInv, Order, Roots
<1>5. CASE DiskKept
  <2>1. ReplayRoot' = ReplayRoot /\ newest' = newest /\ Saved' = Saved
    BY <1>1, <1>2, <1>5, KeptFacts DEF DiskKept
  <2> QED
    BY <2>1 DEF Durable!store
<1>6. ASSUME NEW p \in Procs, WriteRecord(p) PROVE [Durable!Next]_Durable!store
  <2> DEFINE o == proc[p]
             rec == o.buf[1]
  <2>1. /\ o.mem \in Nat \ {0} /\ rec \in Record /\ Good(o)
        /\ ~Switched(o) /\ ~Shown(o)
        /\ o.pc \in {"commit", "log", "snap", "target", "shutdown"}
        /\ lastDurable' = IF rec.type = "root" THEN rec.root ELSE lastDurable
    BY <1>1, <1>6, WriteFacts
  <2>2. \/ /\ rec.type = "root" /\ rec.root = o.mem
           /\ Roots' = Roots \cup {o.mem} /\ Saved' = Saved
        \/ /\ rec.type = "snap" /\ rec.root = o.mem /\ o.mem = lastDurable
           /\ \A s \in Saved : s.version < rec.version
           /\ Roots' = Roots /\ Saved' = Saved \cup {rec}
        \/ /\ rec.type = "root" /\ rec.root = o.target
           /\ o.mem = lastDurable /\ \E s \in Saved : s.root = o.mem
           /\ \E s \in Saved : s.root = o.target
           /\ Roots' = Roots /\ Saved' = Saved
    BY <1>1, <1>6, WriteFacts
  <2>3. CASE /\ rec.type = "root" /\ rec.root = o.mem
             /\ Roots' = Roots \cup {o.mem} /\ Saved' = Saved
    <3>1. ReplayRoot' = o.mem
      BY <1>1, <2>1, <2>3
    <3>2. CASE o.mem = lastDurable
      <4>1. ReplayRoot' = ReplayRoot /\ newest' = newest /\ Saved' = Saved
        BY <1>1, <1>2, <1>4, <2>1, <2>3, <3>1, <3>2
      <4> QED
        BY <4>1 DEF Durable!store
    <3>3. CASE \A m \in Roots : m < o.mem
      <4>1. newest' = o.mem
        <5>1. Roots' \subseteq Nat /\ o.mem \in Roots' /\ \A n \in Roots' : n <= o.mem
          <6>1. o.mem \in Nat /\ Roots' = Roots \cup {o.mem}
            BY <2>1, <2>3
          <6>2. ASSUME NEW n \in Roots PROVE n \in Nat /\ n <= o.mem
            <7>1. n \in Nat /\ n < o.mem
              BY <1>3, <3>3
            <7> QED
              BY <6>1, <7>1
          <6>3. ASSUME NEW n \in Roots' PROVE n \in Nat /\ n <= o.mem
            BY <6>1, <6>2
          <6> QED
            BY <6>1, <6>3
        <5>2. Largest(Roots') = o.mem
          BY <5>1, LargestIs
        <5> QED
          BY <1>2, <5>2
      <4>2. newest < o.mem
        <5>1. CASE Roots = {}
          <6>1. Largest(Roots) = 0
            BY <5>1 DEF Largest
          <6> QED
            BY <1>2, <2>1, <6>1
        <5>2. CASE Roots # {}
          <6>1. PICK m \in Roots : \A n \in Roots : n <= m
            BY <1>1, <5>2 DEF IInv, Disk
          <6>2. Largest(Roots) = m
            BY <1>3, <6>1, LargestIs
          <6> QED
            BY <1>2, <3>3, <6>2
        <5> QED
          BY <5>1, <5>2
      <4>3. Durable!Commit
        BY <2>1, <2>3, <3>1, <4>1, <4>2 DEF Durable!Commit
      <4> QED
        BY <4>3 DEF Durable!Next
    <3>4. o.mem = lastDurable \/ \A m \in Roots : m < o.mem
      BY <2>1 DEF Good, Memory
    <3> QED
      BY <3>2, <3>3, <3>4
  <2>4. CASE /\ rec.type = "snap" /\ rec.root = o.mem /\ o.mem = lastDurable
             /\ \A s \in Saved : s.version < rec.version
             /\ Roots' = Roots /\ Saved' = Saved \cup {rec}
    <3>1. rec.version \in Nat /\ rec \notin Saved
      BY <2>1, <2>4 DEF Record
    <3>2. rec \in Saved' \ Saved /\ rec.root = ReplayRoot
      BY <1>1, <2>4, <3>1
    <3>3. ReplayRoot' = ReplayRoot /\ newest' = newest
      BY <1>1, <1>2, <2>1, <2>4
    <3>4. Durable!TakeSnapshot
      BY <2>4, <3>2, <3>3 DEF Durable!TakeSnapshot
    <3> QED
      BY <3>4 DEF Durable!Next
  <2>5. CASE /\ rec.type = "root" /\ rec.root = o.target
             /\ o.mem = lastDurable /\ \E s \in Saved : s.root = o.mem
             /\ \E s \in Saved : s.root = o.target
             /\ Roots' = Roots /\ Saved' = Saved
    <3>1. ReplayRoot' = o.target /\ ReplayRoot = o.mem /\ newest' = newest
      BY <1>1, <1>2, <2>1, <2>5
    <3>2. Durable!Switch
      BY <2>5, <3>1 DEF Durable!Switch
    <3> QED
      BY <3>2 DEF Durable!Next
  <2> QED
    BY <2>2, <2>3, <2>4, <2>5
<1> QED
  BY <1>1, <1>5, <1>6, OnlyWritesShow

\* The store as replay shows it implements DurableStore: the live root moves
\* to a newer commit, or from a root that has a snapshot to a snapshot;
\* snapshots are added, of the live root and with a version above all others;
\* nothing else a command or a crash does can be seen.
THEOREM StoreImplementsDurable ==
    ASSUME Orderly
    PROVE  Spec => ImplementsDurableStore
<1>1. Init => Durable!Init
  BY InitDurable
<1>2. Replayed /\ Replayed' /\ [Next]_vars => [Durable!Next]_Durable!store
  BY StepDurable
<1> QED
  BY <1>1, <1>2, ReplayedHolds, PTL DEF Spec, ImplementsDurableStore, Durable!Spec

-----------------------------------------------------------------------------
(***************************************************************************)
(* What scrub and stats report, while commands run beside them.            *)
(***************************************************************************)

\* Every step of the store beside scans is one of the store, or none.
LEMMA InspectSteps == InspectNext => [Next]_vars
BY DEF InspectNext, StoreStep

\* What holds of the store holds of it beside scans too.
LEMMA InspectSafe == InspectSpec => []SafeInv
<1>1. InspectInit => SafeInv
  BY InitSafe DEF InspectInit
<1>2. SafeInv /\ [InspectNext]_<<vars, scan, scans>> => SafeInv'
  BY InspectSteps, StepSafe
<1> QED
  BY <1>1, <1>2, PTL DEF InspectSpec

\* Blobs are never removed.
LEMMA BlobsStay == [Next]_vars => blobs \subseteq blobs'
<1> SUFFICES ASSUME [Next]_vars PROVE blobs \subseteq blobs'
  OBVIOUS
<1>1. ASSUME NEW p \in Procs, Progress(p) PROVE blobs \subseteq blobs'
  BY <1>1 DEF Progress, Acquire, RemoveStale, Reacquire, LockWrite, CheckUnmounted, Load,
     CreateWal, FindSnapshot, CommitBlobs, LogRoot, LogSnapshot, LogTarget, WriteHeader,
     WriteRecord, FsyncDone, ShutdownWal, Exit, SeedImport, SeedSegment, GcList, GcDone,
     GcCompact, GcFail, disk
<1>2. ASSUME NEW p \in Procs,
             \/ StartMount(p) \/ StartSnapshot(p) \/ StartGc(p) \/ StartSeed(p)
             \/ Mutate(p) \/ Fsync(p) \/ Unmount(p) \/ Crash(p)
      PROVE  blobs \subseteq blobs'
  BY <1>2 DEF StartMount, StartSnapshot, StartGc, StartSeed, Start, Mutate, Fsync, Unmount,
     Crash, disk
<1>3. ASSUME CleanMountLock \/ Rest \/ UNCHANGED vars PROVE blobs \subseteq blobs'
  BY <1>3 DEF CleanMountLock, Rest, vars
<1> QED
  BY <1>1, <1>2, <1>3 DEF Next

\* What a scan holds; the history of the roots is any set.
ScanState ==
    [pc : {"none", "read", "verify", "report"}, kind : {"none", "scrub", "stats"},
     mounted : BOOLEAN, listing : SUBSET Nat, root : Nat, snaps : SUBSET Record,
     todo : SUBSET Nat, errors : SUBSET Nat, since : {scan.since}, before : SUBSET Record]

\* What a scan has collected has its blobs on disk, and it reads files that exist.
ScanResolves ==
    /\ scan \in ScanState
    /\ scan.listing \subseteq DOMAIN files
    /\ scan.root \in blobs \cup {0}
    /\ \A s \in scan.snaps : s.root \in blobs
    /\ scan.todo \subseteq blobs
    /\ scan.errors = {}

\* Files stay in the directory.
LEMMA FilesStay ==
    ASSUME TypeOK, [Next]_vars
    PROVE  DOMAIN files \subseteq DOMAIN files'
<1>1. ASSUME NEW p \in Procs, Progress(p) PROVE DOMAIN files \subseteq DOMAIN files'
  BY <1>1 DEF Progress, Acquire, RemoveStale, Reacquire, LockWrite, CheckUnmounted, Load,
     CreateWal, FindSnapshot, CommitBlobs, LogRoot, LogSnapshot, LogTarget, WriteHeader,
     WriteRecord, FsyncDone, ShutdownWal, Exit, SeedImport, SeedSegment, GcList, GcDone,
     GcCompact, GcFail, disk, Put
<1>2. ASSUME NEW p \in Procs,
             \/ StartMount(p) \/ StartSnapshot(p) \/ StartGc(p) \/ StartSeed(p)
             \/ Mutate(p) \/ Fsync(p) \/ Unmount(p) \/ Crash(p)
      PROVE  DOMAIN files \subseteq DOMAIN files'
  BY <1>2 DEF StartMount, StartSnapshot, StartGc, StartSeed, Start, Mutate, Fsync, Unmount,
     Crash, disk
<1>3. ASSUME CleanMountLock \/ Rest \/ UNCHANGED vars PROVE DOMAIN files \subseteq DOMAIN files'
  BY <1>3 DEF CleanMountLock, Rest, vars
<1> QED
  BY <1>1, <1>2, <1>3 DEF Next

\* The records of a segment that a scan reads, and which of them are roots.
Entries(i) == IF files[i].header THEN files[i].records ELSE <<>>
RootsIn(i) == {k \in DOMAIN Entries(i) : Entries(i)[k].type = "root"}

\* They are the records at the positions of that segment; the last root is one.
LEMMA SegmentRead ==
    ASSUME TypeOK, NEW i \in DOMAIN files
    PROVE  /\ \A k \in DOMAIN Entries(i) :
                 /\ k \in Nat /\ <<i, k>> \in Positions /\ Entries(i)[k] = At(<<i, k>>)
                 /\ Entries(i)[k] \in Record
                 /\ k \in DOMAIN files[i].records /\ Entries(i)[k] = files[i].records[k]
           /\ \A x \in Positions : x[1] = i =>
                 x[2] \in DOMAIN Entries(i) /\ Entries(i)[x[2]] = At(x)
           /\ RootsIn(i) # {} => /\ Largest(RootsIn(i)) \in RootsIn(i)
                                 /\ \A k \in RootsIn(i) : k <= Largest(RootsIn(i))
<1> DEFINE es == Entries(i)
           roots == RootsIn(i)
<1>1. files[i] \in File
  BY DEF TypeOK
<1>2. es \in Seq(Record)
  BY <1>1 DEF File, Entries
<1>3. \A k \in DOMAIN es : /\ files[i].header /\ k \in DOMAIN files[i].records
                          /\ es[k] = files[i].records[k] /\ es[k] \in Record
  <2>1. CASE files[i].header
    BY <1>2, <2>1, ElementOfSeq DEF Entries
  <2>2. CASE ~files[i].header
    BY <2>2 DEF Entries
  <2> QED
    BY <2>1, <2>2
<1>4. DOMAIN es = 1 .. Len(es) /\ Len(es) \in Nat
  BY <1>2
<1>5. ASSUME NEW k \in DOMAIN es
      PROVE  k \in Nat /\ <<i, k>> \in Positions /\ es[k] = At(<<i, k>>)
  <2>1. k \in Nat
    BY <1>4
  <2>2. <<i, k>> \in Positions
    BY <1>3, PositionFacts
  <2>3. PICK x : x = <<i, k>>
    OBVIOUS
  <2>4. x[1] = i /\ x[2] = k
    BY <2>3
  <2>5. At(x) = es[k]
    BY <1>3, <2>4 DEF At
  <2> QED
    BY <2>1, <2>2, <2>3, <2>5
<1>6. ASSUME NEW x \in Positions, x[1] = i
      PROVE  x[2] \in DOMAIN es /\ es[x[2]] = At(x)
  BY <1>6, PositionFacts DEF At, Entries
<1>7. ASSUME roots # {}
      PROVE  Largest(roots) \in roots /\ \A k \in roots : k <= Largest(roots)
  <2>1. roots \subseteq DOMAIN es
    BY DEF RootsIn
  <2> HIDE DEF roots
  <2>2. roots \in SUBSET Nat /\ \A k \in roots : k <= Len(es)
    BY <1>4, <2>1
  <2>3. PICK m \in roots : \A n \in roots : n <= m
    BY <1>4, <1>7, <2>2, HasLargest
  <2>4. Largest(roots) = m
    BY <2>2, <2>3, LargestIs
  <2> QED
    BY <2>3, <2>4
<1> QED
  BY <1>3, <1>5, <1>6, <1>7

\* What ScanSegment does, in these terms.
LEMMA SegmentStep ==
    ASSUME ScanSegment
    PROVE  \E i \in scan.listing :
             /\ scan.pc = "read"
             /\ \A j \in scan.listing : j # i => LexLess(i, j)
             /\ scan' = [scan EXCEPT
                   !.listing = scan.listing \ {i},
                   !.root = IF RootsIn(i) = {} THEN scan.root
                            ELSE Entries(i)[Largest(RootsIn(i))].root,
                   !.snaps = scan.snaps \cup
                                {Entries(i)[k] : k \in DOMAIN Entries(i) \ RootsIn(i)}]
  BY DEF ScanSegment, NextPath, Entries, RootsIn

\* A scan resolves what it collects.
LEMMA ScanResolvesNext ==
    ASSUME SafeInv, SafeInv', ScanResolves, [InspectNext]_<<vars, scan, scans>>
    PROVE  ScanResolves'
<1>0. TypeOK /\ RootsResolve /\ TypeOK'
  BY DEF SafeInv
<1>1. CASE StoreStep
  <2>1. blobs \subseteq blobs' /\ DOMAIN files \subseteq DOMAIN files'
    BY <1>0, <1>1, BlobsStay, FilesStay DEF StoreStep
  <2>2. scan' \in ScanState' /\ \E S : scan' = [scan EXCEPT !.since = S]
    BY <1>1 DEF StoreStep, ScanResolves, ScanState
  <2>4. /\ scan'.listing = scan.listing /\ scan'.root = scan.root
        /\ scan'.snaps = scan.snaps /\ scan'.todo = scan.todo /\ scan'.errors = scan.errors
    BY <2>2 DEF ScanResolves, ScanState
  <2> QED
    BY <2>1, <2>2, <2>4 DEF ScanResolves
<1>2. ASSUME NEW k \in {"scrub", "stats"}, ScanStart(k), UNCHANGED vars
      PROVE  ScanResolves'
  <2>1. Saved \subseteq Record /\ DOMAIN files \subseteq Nat /\ lock \in BOOLEAN
    BY <1>0, PositionFacts DEF TypeOK, Saved, SnapPositions
  <2>2. scan' = [NoScan EXCEPT !.pc = "read", !.kind = k, !.mounted = lock,
                               !.listing = DOMAIN files, !.since = {ReplayRoot},
                               !.before = Saved]
        /\ files' = files
    BY <1>2 DEF ScanStart, vars
  <2> QED
    BY <2>1, <2>2 DEF NoScan, ScanResolves, ScanState
<1>3. CASE ScanSegment /\ UNCHANGED vars
  <2>1. PICK i \in scan.listing :
           scan' = [scan EXCEPT
                   !.listing = scan.listing \ {i},
                   !.root = IF RootsIn(i) = {} THEN scan.root
                            ELSE Entries(i)[Largest(RootsIn(i))].root,
                   !.snaps = scan.snaps \cup
                                {Entries(i)[k] : k \in DOMAIN Entries(i) \ RootsIn(i)}]
    BY <1>3, SegmentStep
  <2> DEFINE root == IF RootsIn(i) = {} THEN scan.root
                     ELSE Entries(i)[Largest(RootsIn(i))].root
             snaps == scan.snaps \cup
                         {Entries(i)[k] : k \in DOMAIN Entries(i) \ RootsIn(i)}
  <2>2. i \in DOMAIN files /\ files' = files /\ blobs' = blobs
    BY <1>3 DEF ScanResolves, vars
  <2>3. /\ \A k \in DOMAIN Entries(i) :
              /\ Entries(i)[k] \in Record
              /\ k \in DOMAIN files[i].records /\ Entries(i)[k] = files[i].records[k]
        /\ RootsIn(i) # {} => Largest(RootsIn(i)) \in RootsIn(i)
    BY <1>0, <2>2, SegmentRead
  <2>4. \A k \in DOMAIN Entries(i) : Entries(i)[k].root \in blobs /\ Entries(i)[k].root \in Nat
    BY <1>0, <2>2, <2>3 DEF RootsResolve, Record
  <2>5. scan' = [scan EXCEPT !.listing = scan.listing \ {i}, !.root = root, !.snaps = snaps]
    BY <2>1
  <2>6. root \in Nat /\ root \in blobs \cup {0}
    <3>1. RootsIn(i) \subseteq DOMAIN Entries(i)
      BY DEF RootsIn
    <3> QED
      BY <2>3, <2>4, <3>1 DEF ScanResolves, ScanState
  <2>7. snaps \in SUBSET Record /\ \A s \in snaps : s.root \in blobs
    BY <2>3, <2>4 DEF ScanResolves, ScanState
  <2> HIDE DEF root, snaps
  <2> QED
    BY <2>2, <2>5, <2>6, <2>7 DEF ScanResolves, ScanState
<1>4. CASE ScanCollect /\ UNCHANGED vars
  <2> DEFINE todo == IF scan.kind = "stats" THEN {}
                     ELSE ({scan.root} \ {0}) \cup {s.root : s \in scan.snaps}
  <2>1. scan' = [scan EXCEPT !.pc = "verify", !.todo = todo] /\ files' = files /\ blobs' = blobs
    BY <1>4 DEF ScanCollect, vars
  <2>2. todo \subseteq blobs /\ blobs \subseteq Nat
    BY <1>0 DEF ScanResolves, TypeOK
  <2> HIDE DEF todo
  <2> QED
    BY <2>1, <2>2 DEF ScanResolves, ScanState
<1>5. CASE ScanVerify /\ UNCHANGED vars
  <2>1. PICK r \in scan.todo :
           scan' = [scan EXCEPT !.todo = @ \ {r}, !.errors = @ \cup ({r} \ blobs)]
    BY <1>5 DEF ScanVerify
  <2>2. scan' = [scan EXCEPT !.todo = scan.todo \ {r}, !.errors = {}]
    BY <2>1 DEF ScanResolves
  <2>3. files' = files /\ blobs' = blobs
    BY <1>5 DEF vars
  <2> QED
    BY <2>2, <2>3 DEF ScanResolves, ScanState
<1>6. CASE ScanReload /\ UNCHANGED vars
  <2>1. scan' = [scan EXCEPT !.pc = "report", !.errors = {}]
    BY <1>6 DEF ScanReload, ScanResolves
  <2>2. files' = files /\ blobs' = blobs
    BY <1>6 DEF vars
  <2> QED
    BY <2>1, <2>2 DEF ScanResolves, ScanState
<1>7. CASE ScanReport /\ UNCHANGED vars
  BY <1>7 DEF ScanReport, ScanResolves, ScanState, NoScan, vars
<1>8. CASE UNCHANGED <<vars, scan, scans>>
  BY <1>8 DEF vars, ScanResolves, ScanState
<1> QED
  BY <1>1, <1>2, <1>3, <1>4, <1>5, <1>6, <1>7, <1>8 DEF InspectNext, ScanStep

\* No scan reports an error.
NoFalseAlarm == scan.pc = "report" => scan.errors = {}

\* scrub and stats never report a root whose blobs are missing, whatever runs at
\* the same time, at whatever step it crashes, and however often the store was
\* seeded and collected.
THEOREM NoFalseAlarms == InspectSpec => []NoFalseAlarm
<1>1. InspectInit => ScanResolves
  BY DEF InspectInit, NoScan, ScanResolves, ScanState
<1>2. SafeInv /\ SafeInv' /\ ScanResolves /\ [InspectNext]_<<vars, scan, scans>>
      => ScanResolves'
  BY ScanResolvesNext
<1>3. ScanResolves => NoFalseAlarm
  BY DEF ScanResolves, NoFalseAlarm
<1> QED
  BY <1>1, <1>2, <1>3, InspectSafe, PTL DEF InspectSpec

-----------------------------------------------------------------------------
(* ReportTruthful.  Segments are read in the order of replay, and only the *)
(* one with the largest number is written to.                              *)

\* The roots in the segments up to m but for the listed ones.
RootsUpTo(L, m) == {x \in RootPositions : x[1] <= m /\ x[1] \notin L}

\* r is the last of them, or 0 if there is none.
GivesRoot(L, m, r) ==
    \/ RootsUpTo(L, m) = {} /\ r = 0
    \/ \E x \in RootsUpTo(L, m) : IsLast(RootsUpTo(L, m), x) /\ At(x).root = r

\* A scan that reads the segments up to m: it has yet to read the last of them;
\* what it has read gives its root, and all of them give one that was live; a
\* snapshot it has not seen is in a segment it has yet to read.
Reading(m) ==
    /\ \A j \in scan.listing : j <= m
    /\ \A j \in scan.listing : \A i \in DOMAIN files : j < i /\ i <= m => i \in scan.listing
    /\ scan.listing # {} => GivesRoot(scan.listing, m, scan.root)
    /\ scan.listing = {} => scan.root \in scan.since
    /\ \E r \in scan.since : GivesRoot({}, m, r)
    /\ \A s \in scan.before :
          \/ s \in scan.snaps
          \/ \E x \in SnapPositions : x[1] \in scan.listing /\ At(x) = s

ScanGood ==
    /\ scan.snaps \subseteq Saved
    /\ scan.pc = "read" => \E m \in DOMAIN files : Reading(m)
    /\ scan.pc \in {"verify", "report"} =>
          scan.root \in scan.since /\ scan.before \subseteq scan.snaps

\* Segments give one root.
LEMMA GivesOne ==
    ASSUME IInv, Orderly, NEW L, NEW m, NEW q, NEW r, GivesRoot(L, m, q), GivesRoot(L, m, r)
    PROVE  q = r
<1> DEFINE S == RootsUpTo(L, m)
<1>1. \A x, y \in S : ~(Before(x, y) /\ Before(y, x))
  <2>1. TypeOK
    BY DEF IInv, SafeInv
  <2>2. S \subseteq Positions
    BY DEF RootsUpTo, RootPositions
  <2> HIDE DEF S
  <2>3. \A x \in S : x[1] \in Nat /\ x[2] \in Nat /\ x[1] < PadLimit
    BY <2>1, <2>2, PositionFacts, Padded
  <2> QED
    BY <2>3, BeforeStrict
<1>2. CASE S = {}
  BY <1>2 DEF GivesRoot
<1>3. CASE S # {}
  <2>1. PICK x \in S : IsLast(S, x) /\ At(x).root = q
    BY <1>3 DEF GivesRoot
  <2>2. PICK y \in S : IsLast(S, y) /\ At(y).root = r
    BY <1>3 DEF GivesRoot
  <2> HIDE DEF S
  <2>3. x = y
    BY <1>1, <2>1, <2>2 DEF IsLast
  <2> QED
    BY <2>1, <2>2, <2>3
<1> QED
  BY <1>2, <1>3

\* Segments that stay give the root they gave.
LEMMA GivesKept ==
    ASSUME NEW L, NEW m, NEW r, GivesRoot(L, m, r),
           RootsUpTo(L, m)' = RootsUpTo(L, m),
           \A x \in RootsUpTo(L, m) : At(x)' = At(x)
    PROVE  GivesRoot(L, m, r)'
<1>1. CASE RootsUpTo(L, m) = {} /\ r = 0
  BY <1>1 DEF GivesRoot
<1>2. ASSUME NEW x \in RootsUpTo(L, m), IsLast(RootsUpTo(L, m), x), At(x).root = r
      PROVE  GivesRoot(L, m, r)'
  <2>1. At(x)'.root = r
    BY <1>2
  <2>2. IsLast(RootsUpTo(L, m), x)'
    BY <1>2 DEF IsLast, Before
  <2> QED
    BY <2>1, <2>2 DEF GivesRoot
<1> QED
  BY <1>1, <1>2 DEF GivesRoot

\* There is a segment with the largest number.
LEMMA LastSegment ==
    ASSUME IInv, Orderly, DOMAIN files # {}
    PROVE  \E m \in DOMAIN files : \A i \in DOMAIN files : i <= m
<1>1. DOMAIN files \in SUBSET Nat /\ \A i \in DOMAIN files : i <= PadLimit
  BY Padded, ConstantsAssumption
<1>2. PadLimit \in Nat
  BY ConstantsAssumption
<1> QED
  BY <1>1, <1>2, HasLargest

\* New segments come behind the others.
LEMMA NewSegmentsLast ==
    ASSUME IInv, [Next]_vars
    PROVE  \A i \in DOMAIN files' : i \in DOMAIN files \/ \A j \in DOMAIN files : j < i
<1> SUFFICES ASSUME DOMAIN files' # DOMAIN files
             PROVE  \E id \in NumberAfter(DOMAIN files) : files' = Put(files, id, NewFile)
  <2>1. DOMAIN files \subseteq Nat
    BY DEF IInv, SafeInv, TypeOK
  <2> QED
    BY <2>1, NumberAfterAll DEF Put
<1>1. ASSUME NEW p \in Procs,
             \/ StartMount(p) \/ StartSnapshot(p) \/ StartGc(p) \/ StartSeed(p)
             \/ Mutate(p) \/ Fsync(p) \/ Unmount(p) \/ Crash(p)
      PROVE  FALSE
  BY <1>1 DEF StartMount, StartSnapshot, StartGc, StartSeed, Start, Mutate, Fsync, Unmount,
     Crash, disk
<1>2. ASSUME NEW p \in Procs, Progress(p), ~CreateWal(p), ~SeedSegment(p)
      PROVE  FALSE
  BY <1>2, NoCollection DEF Progress, Acquire, RemoveStale, Reacquire, LockWrite,
     CheckUnmounted, Load, FindSnapshot, CommitBlobs, LogRoot, LogSnapshot, LogTarget,
     WriteHeader, WriteRecord, FsyncDone, ShutdownWal, Exit, SeedImport, disk
<1>3. ASSUME NEW p \in Procs, CreateWal(p)
      PROVE  \E id \in NumberAfter(DOMAIN files) : files' = Put(files, id, NewFile)
  BY <1>3 DEF CreateWal
<1>4. ASSUME NEW p \in Procs, SeedSegment(p)
      PROVE  \E id \in NumberAfter(DOMAIN files) : files' = Put(files, id, NewFile)
  <2>1. DOMAIN files = {}
    BY <1>4 DEF SeedSegment, IInv, Segments, Busy
  <2> QED
    BY <1>4, <2>1 DEF SeedSegment, NumberAfter
<1>5. ASSUME CleanMountLock \/ Rest \/ UNCHANGED vars PROVE FALSE
  BY <1>5 DEF CleanMountLock, Rest, vars
<1> QED
  BY <1>1, <1>2, <1>3, <1>4, <1>5 DEF Next

\* What a step does to the segments up to m: nothing, or it writes a root to m,
\* behind all others, and replay gives it.
LEMMA UpToStep ==
    ASSUME Orderly, Replayed, Replayed', [Next]_vars, NEW m \in DOMAIN files
    PROVE  /\ \A x \in Positions : x \in Positions' /\ At(x)' = At(x)
           /\ \A i \in DOMAIN files' : i <= m => i \in DOMAIN files
           /\ \/ \A L : RootsUpTo(L, m)' = RootsUpTo(L, m)
              \/ /\ \A L : m \in L => RootsUpTo(L, m)' = RootsUpTo(L, m)
                 /\ \E r : r = ReplayRoot' /\ GivesRoot({}, m, r)'
<1>0. IInv /\ TypeOK /\ ReplayRoot' = lastDurable'
  BY DEF Replayed, IInv, SafeInv
<1>1. m \in Nat /\ DOMAIN files \subseteq Nat /\ DOMAIN files' \subseteq Nat
  BY DEF Replayed, IInv, SafeInv, TypeOK
<1>2. \A i \in DOMAIN files' : i <= m => i \in DOMAIN files
  BY <1>0, <1>1, NewSegmentsLast
<1>3. CASE DiskKept
  <2>1. \A x \in Positions : x \in Positions' /\ At(x)' = At(x)
    BY <1>3 DEF DiskKept
  <2>2. \A L : RootsUpTo(L, m)' = RootsUpTo(L, m)
    BY <1>3, KeptFacts DEF RootsUpTo
  <2> QED
    BY <1>2, <2>1, <2>2
<1>4. ASSUME NEW p \in Procs, WriteRecord(p)
      PROVE  /\ \A x \in Positions : x \in Positions' /\ At(x)' = At(x)
             /\ \/ \A L : RootsUpTo(L, m)' = RootsUpTo(L, m)
                \/ /\ \A L : m \in L => RootsUpTo(L, m)' = RootsUpTo(L, m)
                   /\ \E r : r = ReplayRoot' /\ GivesRoot({}, m, r)'
  <2> DEFINE o == proc[p]
  <2>0. /\ o.seg \in DOMAIN files /\ files[o.seg].header /\ o.buf[1] \in Record
        /\ files' = [files EXCEPT ![o.seg].records = Append(@, o.buf[1])]
        /\ lastDurable' = IF o.buf[1].type = "root" THEN o.buf[1].root ELSE lastDurable
    BY <1>0, <1>4, WriteFacts
  <2>1. PICK id \in DOMAIN files, rec \in Record :
           /\ id = proc[p].seg /\ files[id].header
           /\ files' = [files EXCEPT ![id].records = Append(@, rec)]
           /\ lastDurable' = IF rec.type = "root" THEN rec.root ELSE lastDurable
    BY <2>0
  <2>2. \A i \in DOMAIN files : i <= id /\ i < PadLimit
    <3>1. id # 0
      BY <1>0, <2>1 DEF IInv, Segments
    <3>2. \A i \in DOMAIN files : i <= id
      BY <1>0, <2>1, <3>1 DEF IInv, Segments
    <3> QED
      BY <1>0, <3>2, Padded
  <2>3. PICK x0 :
           /\ x0 \notin Positions /\ Positions' = Positions \cup {x0} /\ x0[1] = id
           /\ At(x0)' = rec /\ \A x \in Positions : At(x)' = At(x)
           /\ \A x \in Positions : Before(x, x0) /\ ~Before(x0, x)
    <3>1. TypeOK /\ files[id].header
          /\ files' = [files EXCEPT ![id].records = Append(@, rec)]
      BY <1>0, <2>1
    <3> QED
      BY ONLY id \in DOMAIN files, rec \in Record, <2>2, <3>1, AppendedLast
  <2>4. RootPositions' = RootPositions \cup (IF rec.type = "root" THEN {x0} ELSE {})
    BY <2>3 DEF RootPositions
  <2>5. CASE rec.type # "root" \/ id # m
    <3>1. \A L : RootsUpTo(L, m)' = RootsUpTo(L, m)
      BY <1>1, <2>1, <2>2, <2>3, <2>4, <2>5 DEF RootsUpTo
    <3> QED
      BY <2>3, <3>1
  <2>6. CASE rec.type = "root" /\ id = m
    <3>1. \A L : m \in L => RootsUpTo(L, m)' = RootsUpTo(L, m)
      BY <2>3, <2>4, <2>6 DEF RootsUpTo
    <3>2. RootsUpTo({}, m)' = RootsUpTo({}, m) \cup {x0}
      BY <1>1, <2>3, <2>4, <2>6 DEF RootsUpTo
    <3>3. RootsUpTo({}, m) \subseteq Positions
      BY DEF RootsUpTo, RootPositions
    <3>4. IsLast(RootsUpTo({}, m), x0)'
      BY <2>3, <3>2, <3>3 DEF IsLast, Before
    <3>5. At(x0)'.root = ReplayRoot'
      BY <1>0, <2>1, <2>3, <2>6
    <3>6. \E r : r = ReplayRoot' /\ GivesRoot({}, m, r)'
      <4>1. PICK r : r = ReplayRoot'
        OBVIOUS
      <4>2. \E x \in RootsUpTo({}, m)' : IsLast(RootsUpTo({}, m), x)' /\ At(x)'.root = r
        BY <3>2, <3>4, <3>5, <4>1
      <4>3. GivesRoot({}, m, r)'
        BY <4>2 DEF GivesRoot
      <4> QED
        BY <4>1, <4>3
    <3> QED
      BY <2>3, <3>1, <3>6
  <2> QED
    BY <2>5, <2>6
<1> QED
  BY <1>0, <1>2, <1>3, <1>4, OnlyWritesShow

\* A step of another command leaves a scan that reads on its way.
LEMMA ReadingKept ==
    ASSUME Orderly, Replayed, Replayed', [Next]_vars, NEW m \in DOMAIN files, Reading(m),
           scan.listing \subseteq DOMAIN files,
           scan'.listing = scan.listing, scan'.root = scan.root, scan'.snaps = scan.snaps,
           scan'.before = scan.before, scan'.since = scan.since \cup {ReplayRoot'}
    PROVE  m \in DOMAIN files' /\ Reading(m)'
<1>0. TypeOK /\ m \in Nat /\ DOMAIN files \subseteq Nat /\ DOMAIN files \subseteq DOMAIN files'
  BY FilesStay DEF Replayed, IInv, SafeInv, TypeOK
<1>1. /\ \A x \in Positions : x \in Positions' /\ At(x)' = At(x)
      /\ \A i \in DOMAIN files' : i <= m => i \in DOMAIN files
  BY UpToStep
<1>2. \/ \A L : RootsUpTo(L, m)' = RootsUpTo(L, m)
      \/ /\ \A L : m \in L => RootsUpTo(L, m)' = RootsUpTo(L, m)
         /\ \E r : r = ReplayRoot' /\ GivesRoot({}, m, r)'
  BY UpToStep
<1>3. \A L : \A x \in RootsUpTo(L, m) : At(x)' = At(x)
  BY <1>1 DEF RootsUpTo, RootPositions
<1>4. PICK L, q : L = scan.listing /\ q = scan.root
  OBVIOUS
<1>5. \A j \in L : j <= m /\ j \in Nat
  BY <1>0, <1>4 DEF Reading
<1>6. ASSUME L # {} PROVE GivesRoot(L, m, q)'
  <2>1. m \in L
    <3>1. PICK j \in L : TRUE
      BY <1>6
    <3>2. j < m \/ j = m
      BY <1>0, <1>5
    <3>3. j < m /\ m <= m => m \in L
      BY <1>4 DEF Reading
    <3> QED
      BY <1>0, <3>2, <3>3
  <2>2. GivesRoot(L, m, q)
    BY <1>4, <1>6 DEF Reading
  <2>3. RootsUpTo(L, m)' = RootsUpTo(L, m)
    BY <1>2, <2>1
  <2> QED
    BY <1>3, <2>2, <2>3, GivesKept
<1>7. (scan.listing # {} => GivesRoot(scan.listing, m, scan.root))'
  BY <1>4, <1>6 DEF GivesRoot, RootsUpTo, IsLast
<1>8. \E r \in scan'.since : GivesRoot({}, m, r)'
  <2>1. CASE RootsUpTo({}, m)' = RootsUpTo({}, m)
    <3>1. PICK r \in scan.since : GivesRoot({}, m, r)
      BY DEF Reading
    <3>2. GivesRoot({}, m, r)'
      BY <1>3, <2>1, <3>1, GivesKept
    <3> QED
      BY <3>2
  <2>2. CASE \E r : r = ReplayRoot' /\ GivesRoot({}, m, r)'
    BY <2>2
  <2> QED
    BY <1>2, <2>1, <2>2
<1>9. (\A s \in scan.before :
          \/ s \in scan.snaps
          \/ \E x \in SnapPositions : x[1] \in scan.listing /\ At(x) = s)'
  <2>1. \A x \in SnapPositions : x \in SnapPositions' /\ At(x)' = At(x)
    BY <1>1 DEF SnapPositions
  <2> QED
    BY <2>1 DEF Reading
<1>10. (/\ \A j \in scan.listing : j <= m
        /\ \A j \in scan.listing : \A i \in DOMAIN files :
              j < i /\ i <= m => i \in scan.listing)'
  BY <1>1 DEF Reading
<1>11. (scan.listing = {} => scan.root \in scan.since)'
  BY DEF Reading
<1> QED
  BY <1>0, <1>7, <1>8, <1>9, <1>10, <1>11 DEF Reading

\* A scan that reads the next segment stays on its way.
LEMMA ReadingOn ==
    ASSUME Orderly, Replayed, ScanResolves, NEW m \in DOMAIN files, Reading(m),
           ScanSegment, UNCHANGED vars
    PROVE  Reading(m)' /\ scan'.snaps \subseteq scan.snaps \cup Saved
<1>0. IInv /\ TypeOK /\ m \in Nat /\ DOMAIN files \subseteq Nat /\ files' = files
  BY DEF Replayed, IInv, SafeInv, TypeOK, vars
<1>1. PICK i \in scan.listing :
         /\ \A j \in scan.listing : j # i => LexLess(i, j)
         /\ scan' = [scan EXCEPT
                   !.listing = scan.listing \ {i},
                   !.root = IF RootsIn(i) = {} THEN scan.root
                            ELSE Entries(i)[Largest(RootsIn(i))].root,
                   !.snaps = scan.snaps \cup
                                {Entries(i)[k] : k \in DOMAIN Entries(i) \ RootsIn(i)}]
  BY SegmentStep
<1> DEFINE snaps == scan.snaps \cup {Entries(i)[k] : k \in DOMAIN Entries(i) \ RootsIn(i)}
           root == IF RootsIn(i) = {} THEN scan.root
                   ELSE Entries(i)[Largest(RootsIn(i))].root
           L == scan.listing
<1>2. /\ scan'.listing = L \ {i} /\ scan'.root = root /\ scan'.snaps = snaps
      /\ scan'.since = scan.since /\ scan'.before = scan.before
  BY <1>1 DEF ScanResolves, ScanState
<1>3. i \in DOMAIN files /\ i \in Nat /\ i <= m /\ L \subseteq DOMAIN files
  BY <1>0, <1>1 DEF ScanResolves, Reading
<1>4. \A j \in L : j # i => i < j
  BY <1>0, <1>1, <1>3, Padded, OrderOfNames
<1>5. /\ \A k \in DOMAIN Entries(i) :
            /\ k \in Nat /\ <<i, k>> \in Positions /\ Entries(i)[k] = At(<<i, k>>)
            /\ Entries(i)[k] \in Record
      /\ \A x \in Positions : x[1] = i =>
            x[2] \in DOMAIN Entries(i) /\ Entries(i)[x[2]] = At(x)
      /\ RootsIn(i) # {} => /\ Largest(RootsIn(i)) \in RootsIn(i)
                            /\ \A k \in RootsIn(i) : k <= Largest(RootsIn(i))
  BY <1>0, <1>3, SegmentRead
<1>6. GivesRoot(L \ {i}, m, root)
  <2> DEFINE S == RootsUpTo(L, m)
             T == RootsUpTo(L \ {i}, m)
  <2>1. \A x \in RootPositions : x[1] \in DOMAIN files /\ x[1] \in Nat /\ x[2] \in Nat
                                 /\ x \in Positions /\ x = <<x[1], x[2]>> /\ x[1] < PadLimit
    BY <1>0, PositionFacts, Padded DEF RootPositions
  <2>2. T = S \cup {x \in RootPositions : x[1] = i}
    BY <1>1, <1>3 DEF RootsUpTo
  <2>3. \A x \in S : x[1] < i
    <3> SUFFICES ASSUME NEW x \in S PROVE x[1] < i
      OBVIOUS
    <3>1. x \in RootPositions /\ x[1] <= m /\ x[1] \notin L
      BY DEF RootsUpTo
    <3>2. ~(i < x[1]) /\ x[1] # i
      BY <1>1, <2>1, <3>1 DEF Reading
    <3> QED
      BY <1>3, <2>1, <3>1, <3>2
  <2>4. \A x \in RootPositions : x[1] = i <=> x[1] = i /\ x[2] \in RootsIn(i)
    BY <1>5, <2>1 DEF RootsIn, RootPositions
  <2>5. CASE RootsIn(i) = {}
    <3>1. T = S /\ root = scan.root
      BY <2>2, <2>4, <2>5
    <3>2. GivesRoot(L, m, scan.root)
      BY <1>1 DEF Reading
    <3> HIDE DEF L, root
    <3> QED
      BY <3>1, <3>2 DEF GivesRoot
  <2>6. CASE RootsIn(i) # {}
    <3>1. PICK k \in RootsIn(i) : k = Largest(RootsIn(i)) /\ \A j \in RootsIn(i) : j <= k
      BY <1>5, <2>6
    <3>2. k \in DOMAIN Entries(i) /\ Entries(i)[k].type = "root"
      BY DEF RootsIn
    <3>3. PICK x : x = <<i, k>>
      OBVIOUS
    <3>4. x[1] = i /\ x[2] = k /\ x \in RootPositions /\ At(x).root = root /\ k \in Nat
      BY <1>5, <2>6, <3>1, <3>2, <3>3 DEF RootPositions
    <3>5. x \in T
      BY <2>2, <3>4
    <3>6. ASSUME NEW y \in T, y # x PROVE Before(y, x)
      <4>1. y \in RootPositions /\ (y[1] < i \/ (y[1] = i /\ y[2] \in RootsIn(i)))
        <5>1. y \in RootPositions /\ (y \in S \/ y[1] = i)
          BY <2>2 DEF RootsUpTo
        <5> HIDE DEF S
        <5> QED
          BY <2>3, <2>4, <5>1
      <4>2. CASE y[1] < i
        BY <1>0, <1>3, <2>1, <3>4, <4>1, <4>2, Padded, OrderOfNames DEF Before
      <4>3. CASE y[1] = i /\ y[2] \in RootsIn(i)
        <5>1. y[2] <= k /\ y[2] # k /\ y[2] \in Nat
          BY <2>1, <3>1, <3>3, <3>6, <4>1, <4>3
        <5> QED
          BY <3>4, <4>3, <5>1 DEF Before
      <4> QED
        BY <4>1, <4>2, <4>3
    <3>7. IsLast(T, x)
      BY <3>5, <3>6 DEF IsLast
    <3> HIDE DEF L, root
    <3> QED
      BY <3>4, <3>5, <3>7 DEF GivesRoot
  <2> QED
    BY <2>5, <2>6
<1>7. PICK M, q : M = L \ {i} /\ q = root
  OBVIOUS
<1>8. \A N, r : GivesRoot(N, m, r)' <=> GivesRoot(N, m, r)
  BY <1>0 DEF GivesRoot, RootsUpTo, RootPositions, Positions, At, IsLast, Before
<1>9. GivesRoot(M, m, q)'
  BY <1>6, <1>7, <1>8
<1>10. (scan.listing # {} => GivesRoot(scan.listing, m, scan.root))'
  <2>1. scan'.listing = M /\ scan'.root = q
    BY <1>2, <1>7
  <2> QED
    BY <1>9, <2>1 DEF GivesRoot, RootsUpTo, IsLast
<1>11. PICK r \in scan.since : GivesRoot({}, m, r)
  BY DEF Reading
<1>12. \E r0 \in scan'.since : GivesRoot({}, m, r0)'
  BY <1>2, <1>8, <1>11
<1>13. (scan.listing = {} => scan.root \in scan.since)'
  <2> SUFFICES ASSUME L \ {i} = {} PROVE root \in scan.since
    BY <1>2
  <2>1. GivesRoot({}, m, root)
    BY <1>6
  <2>2. root = r
    BY <1>0, <1>11, <2>1, GivesOne
  <2> QED
    BY <2>2
<1>14. (\A s \in scan.before :
          \/ s \in scan.snaps
          \/ \E x \in SnapPositions : x[1] \in scan.listing /\ At(x) = s)'
  <2> SUFFICES ASSUME NEW s \in scan.before, s \notin snaps
               PROVE  \E x \in SnapPositions : x[1] \in L \ {i} /\ At(x) = s
    BY <1>0, <1>2 DEF SnapPositions, Positions, At
  <2>1. PICK x \in SnapPositions : x[1] \in L /\ At(x) = s
    BY DEF Reading
  <2>2. ASSUME x[1] = i PROVE FALSE
    <3>1. x[2] \in DOMAIN Entries(i) /\ Entries(i)[x[2]] = s /\ s.type = "snap"
      BY <1>5, <2>1, <2>2 DEF SnapPositions
    <3>2. x[2] \notin RootsIn(i)
      BY <3>1 DEF RootsIn
    <3> QED
      BY <3>1, <3>2
  <2> QED
    BY <2>1, <2>2
<1>15. (/\ \A j \in scan.listing : j <= m
        /\ \A j \in scan.listing : \A n \in DOMAIN files :
              j < n /\ n <= m => n \in scan.listing)'
  <2> SUFFICES ASSUME NEW j \in L \ {i}
               PROVE  j <= m /\ \A n \in DOMAIN files : j < n /\ n <= m => n \in L \ {i}
    BY <1>0, <1>2
  <2>1. i < j /\ j \in Nat /\ j <= m
    BY <1>0, <1>3, <1>4 DEF Reading
  <2> QED
    BY <1>0, <1>3, <2>1 DEF Reading
<1>16. snaps \subseteq scan.snaps \cup Saved
  <2> SUFFICES ASSUME NEW k \in DOMAIN Entries(i) \ RootsIn(i)
               PROVE  Entries(i)[k] \in Saved
    OBVIOUS
  <2>1. PICK x : x = <<i, k>>
    OBVIOUS
  <2>2. x \in Positions /\ Entries(i)[k] = At(x) /\ Entries(i)[k] \in Record
    BY <1>5, <2>1
  <2>3. At(x).type # "root"
    BY <2>2 DEF RootsIn
  <2> QED
    BY <2>2, <2>3 DEF Saved, SnapPositions, Record
<1> QED
  BY <1>2, <1>10, <1>12, <1>13, <1>14, <1>15, <1>16 DEF Reading

\* A step of another command changes no more of a scan than its history.
LEMMA StoreScan ==
    ASSUME Orderly, Replayed, Replayed', ScanResolves, ScanGood, StoreStep
    PROVE  ScanGood'
<1>1. Saved \subseteq Saved'
  <2>1. CASE DiskKept
    BY <2>1, KeptFacts
  <2>2. ASSUME NEW p \in Procs, WriteRecord(p) PROVE Saved \subseteq Saved'
    BY <2>2, WriteFacts DEF Replayed
  <2> QED
    BY <2>1, <2>2, OnlyWritesShow DEF Replayed, StoreStep
<1>2. CASE scan.pc = "none"
  BY <1>1, <1>2 DEF StoreStep, ScanGood
<1>3. CASE scan.pc # "none"
  <2>1. /\ scan'.listing = scan.listing /\ scan'.root = scan.root /\ scan'.snaps = scan.snaps
        /\ scan'.before = scan.before /\ scan'.since = scan.since \cup {ReplayRoot'}
        /\ scan'.pc = scan.pc
    BY <1>3 DEF StoreStep, ScanResolves, ScanState
  <2>2. ASSUME scan.pc = "read" PROVE \E m \in DOMAIN files' : Reading(m)'
    <3>1. PICK m \in DOMAIN files : Reading(m)
      BY <2>2 DEF ScanGood
    <3>2. m \in DOMAIN files' /\ Reading(m)'
      BY <2>1, <3>1, ReadingKept DEF StoreStep, ScanResolves
    <3> QED
      BY <3>2
  <2> QED
    BY <1>1, <2>1, <2>2 DEF ScanGood
<1> QED
  BY <1>2, <1>3

\* A listing begins with everything yet to be read.
LEMMA StartScan ==
    ASSUME Orderly, Replayed, NEW k, ScanStart(k), UNCHANGED vars
    PROVE  ScanGood'
<1>0. IInv /\ TypeOK /\ Order /\ ReplayRoot = lastDurable /\ files' = files /\ DOMAIN files # {}
  BY DEF Replayed, IInv, SafeInv, ScanStart, vars
<1>1. /\ scan'.pc = "read" /\ scan'.listing = DOMAIN files /\ scan'.root = 0
      /\ scan'.snaps = {} /\ scan'.since = {ReplayRoot} /\ scan'.before = Saved
  BY DEF ScanStart, NoScan
<1>2. PICK m \in DOMAIN files : \A i \in DOMAIN files : i <= m
  BY <1>0, LastSegment
<1>3. \A x \in Positions : x[1] \in DOMAIN files
  BY <1>0, PositionFacts
<1>4. GivesRoot(DOMAIN files, m, 0)
  BY <1>3 DEF GivesRoot, RootsUpTo, RootPositions
<1>5. GivesRoot({}, m, ReplayRoot)
  <2>1. RootsUpTo({}, m) = RootPositions
    BY <1>2, <1>3 DEF RootsUpTo, RootPositions
  <2> QED
    BY <1>0, <2>1 DEF GivesRoot, Order
<1>6. \A N, r : GivesRoot(N, m, r)' <=> GivesRoot(N, m, r)
  BY <1>0 DEF GivesRoot, RootsUpTo, RootPositions, Positions, At, IsLast, Before
<1>7. PICK D, r : D = DOMAIN files /\ r = ReplayRoot
  OBVIOUS
<1>8. (scan.listing # {} => GivesRoot(scan.listing, m, scan.root))'
  <2>1. GivesRoot(D, m, 0)' /\ scan'.listing = D /\ scan'.root = 0
    BY <1>1, <1>4, <1>6, <1>7
  <2> QED
    BY <2>1 DEF GivesRoot, RootsUpTo, IsLast
<1>9. \E q \in scan'.since : GivesRoot({}, m, q)'
  <2>1. GivesRoot({}, m, r)' /\ r \in scan'.since
    BY <1>1, <1>5, <1>6, <1>7
  <2> QED
    BY <2>1
<1>10. (\A s \in scan.before :
          \/ s \in scan.snaps
          \/ \E x \in SnapPositions : x[1] \in scan.listing /\ At(x) = s)'
  <2> SUFFICES ASSUME NEW s \in Saved
               PROVE  \E x \in SnapPositions : x[1] \in DOMAIN files /\ At(x) = s
    BY <1>0, <1>1 DEF SnapPositions, Positions, At
  <2> QED
    BY <1>3 DEF Saved, SnapPositions
<1>11. Reading(m)'
  BY <1>0, <1>1, <1>2, <1>8, <1>9, <1>10 DEF Reading
<1> QED
  BY <1>0, <1>1, <1>11 DEF ScanGood

\* Every step keeps what a scan has found true of the store.
LEMMA ScanGoodNext ==
    ASSUME Orderly, Replayed, Replayed', ScanResolves, ScanGood,
           [InspectNext]_<<vars, scan, scans>>
    PROVE  ScanGood'
<1>1. CASE StoreStep
  BY <1>1, StoreScan
<1>2. ASSUME NEW k \in {"scrub", "stats"}, ScanStart(k), UNCHANGED vars
      PROVE  ScanGood'
  BY <1>2, StartScan
<1>3. ASSUME UNCHANGED vars
      PROVE  files' = files /\ Saved' = Saved
  BY <1>3 DEF vars, Saved, SnapPositions, Positions, At
<1>4. CASE ScanSegment /\ UNCHANGED vars
  <2>1. scan.pc = "read" /\ scan'.pc = "read"
    BY <1>4, SegmentStep DEF ScanResolves, ScanState
  <2>2. PICK m \in DOMAIN files : Reading(m)
    BY <2>1 DEF ScanGood
  <2>3. Reading(m)' /\ scan'.snaps \subseteq scan.snaps \cup Saved
    BY <1>4, <2>2, ReadingOn
  <2> QED
    BY <1>3, <1>4, <2>1, <2>3 DEF ScanGood
<1>5. CASE ScanCollect /\ UNCHANGED vars
  <2>1. /\ scan.pc = "read" /\ scan.listing = {} /\ scan'.pc = "verify"
        /\ scan'.root = scan.root /\ scan'.since = scan.since
        /\ scan'.before = scan.before /\ scan'.snaps = scan.snaps
    BY <1>5 DEF ScanCollect, ScanResolves, ScanState
  <2>2. scan.root \in scan.since /\ scan.before \subseteq scan.snaps
    BY <2>1 DEF ScanGood, Reading
  <2> QED
    BY <1>3, <1>5, <2>1, <2>2 DEF ScanGood
<1>6. CASE (ScanVerify \/ ScanReload) /\ UNCHANGED vars
  <2>1. /\ scan.pc = "verify" /\ scan'.pc \in {"verify", "report"}
        /\ scan'.root = scan.root /\ scan'.since = scan.since
        /\ scan'.before = scan.before /\ scan'.snaps = scan.snaps
    BY <1>6 DEF ScanVerify, ScanReload, ScanResolves, ScanState
  <2> QED
    BY <1>3, <1>6, <2>1 DEF ScanGood
<1>7. CASE ScanReport /\ UNCHANGED vars
  BY <1>7 DEF ScanReport, NoScan, ScanGood
<1>8. CASE UNCHANGED <<vars, scan, scans>>
  <2>1. scan' = scan /\ files' = files
    BY <1>8 DEF vars
  <2>2. ASSUME NEW m \in DOMAIN files, Reading(m) PROVE Reading(m)'
    <3>1. RootPositions' = RootPositions /\ SnapPositions' = SnapPositions
          /\ \A x : At(x)' = At(x)
      BY <2>1 DEF RootPositions, SnapPositions, Positions, At
    <3>2. \A N, r : GivesRoot(N, m, r)' <=> GivesRoot(N, m, r)
      BY <3>1 DEF GivesRoot, RootsUpTo, IsLast, Before
    <3>3. PICK L, q : L = scan.listing /\ q = scan.root
      OBVIOUS
    <3>4. L # {} => GivesRoot(L, m, q)'
      BY <2>2, <3>2, <3>3 DEF Reading
    <3>5. (scan.listing # {} => GivesRoot(scan.listing, m, scan.root))'
      BY <2>1, <3>3, <3>4 DEF GivesRoot, RootsUpTo, IsLast
    <3>6. \E r \in scan'.since : GivesRoot({}, m, r)'
      BY <2>1, <2>2, <3>2 DEF Reading
    <3> QED
      BY <2>1, <2>2, <3>1, <3>5, <3>6 DEF Reading
  <2>3. Saved' = Saved
    BY <1>3, <1>8
  <2> QED
    BY <2>1, <2>2, <2>3 DEF ScanGood
<1> QED
  BY <1>1, <1>2, <1>4, <1>5, <1>6, <1>7, <1>8 DEF InspectNext, ScanStep

\* What holds of a store used by one command at a time holds beside scans.
LEMMA InspectReplayed ==
    ASSUME Orderly
    PROVE  InspectSpec => []Replayed
<1>1. InspectInit => IInv
  BY InitIInv DEF InspectInit
<1>2. IInv /\ [InspectNext]_<<vars, scan, scans>> => IInv'
  BY InspectSteps, NextIInv
<1>3. IInv => Replayed
  BY Padded, ReplayIsLast DEF IInv, SafeInv, Replayed
<1> QED
  BY <1>1, <1>2, <1>3, PTL DEF InspectSpec

\* On a store that was seeded once and never collected, and on which one command at
\* a time mounts, commits, makes a snapshot, switches or crashes, whatever a scrub or
\* a stats beside it reports was true of the store at a moment of the scan: its root
\* was live, it has all snapshots there were when it began, and no others.  A scan
\* beside a collection is left to the run gc, but for NoFalseAlarms above.
THEOREM ReportsTruthful ==
    ASSUME Orderly
    PROVE  InspectSpec => []ReportTruthful
<1>1. InspectInit => ScanResolves /\ ScanGood
  BY DEF InspectInit, NoScan, ScanResolves, ScanState, ScanGood
<1>2. SafeInv /\ SafeInv' /\ ScanResolves /\ [InspectNext]_<<vars, scan, scans>>
      => ScanResolves'
  BY ScanResolvesNext
<1>3. Replayed /\ Replayed' /\ ScanResolves /\ ScanGood /\ [InspectNext]_<<vars, scan, scans>>
      => ScanGood'
  BY ScanGoodNext
<1>4. ScanResolves /\ ScanGood => ReportTruthful
  BY DEF ScanResolves, ScanGood, ReportTruthful
<1> QED
  BY <1>1, <1>2, <1>3, <1>4, InspectSafe, InspectReplayed, PTL DEF InspectSpec
=============================================================================
