---------------------------- MODULE SegmentStore ----------------------------
(***************************************************************************)
(* The on-disk store of SliceFS and the commands that run against it.      *)
(*                                                                         *)
(* On disk: content-addressed blobs, numbered segment files (the WAL of    *)
(* each mount or offline command, and the copies garbage collection        *)
(* makes), and mount.lock.  Every command is an operating system process   *)
(* that replays the segments into memory, works there, and appends         *)
(* RootUpdate and Snapshot records to a new segment of its own.            *)
(*                                                                         *)
(* A filesystem state is a number and stands for its root digest too (the  *)
(* store is content addressed): committing state r writes the blobs of r.  *)
(* Process crashes lose memory only; what was written stays in the page    *)
(* cache.  Loss of power is in PowerLoss.tla.                              *)
(***************************************************************************)
EXTENDS Integers, Sequences, FiniteSets

CONSTANTS
    Procs,        \* the processes that run slicefs commands
    UserNames,    \* snapshot names a user may pick
    Strategies,   \* the --wal-strategy values mounts are started with
    Serial,       \* TRUE: the user starts no command while another one runs
    GcStride,     \* a compacted segment's id is its source's id + GcStride
    PadLimit,     \* ids below it are padded to one width in file names
    Budget,       \* Budget[k]: how many commands of kind k are run
    MaxStates,    \* bound on the number of distinct filesystem states
    MaxCrashes    \* bound on the number of process crashes

AutoNames == {"auto-unmount", "auto-before-switch"}
Names == UserNames \cup AutoNames
NoName == "-"
Kinds == {"seed", "mount", "automount", "snapmount", "create", "switch", "gc"}
Bounded == Kinds \cup {"fsync", "unmount"}
MountKinds == {"mount", "automount", "snapmount"}

ASSUME ConstantsAssumption ==
    /\ NoName \notin Names
    /\ Strategies \subseteq {"PerOp", "FlushOnFsync", "Periodic", "NoWal"}
    /\ Serial \in BOOLEAN
    /\ GcStride \in Nat \ {0}
    /\ PadLimit \in Nat \ {0}
    /\ Budget \in [Bounded -> Nat]
    /\ MaxStates \in Nat
    /\ MaxCrashes \in Nat

VARIABLES
    files,        \* segments/: segment id -> [header, records]
    lock,         \* mount.lock exists
    blobs,        \* states whose blobs are all on disk
    proc,         \* process -> what it holds in memory
    cleaning,     \* an unmount --store command has yet to remove mount.lock
    states,       \* number of filesystem states made so far
    budget,       \* commands that may still be started
    crashes,      \* number of crashes so far
    lastDurable,  \* history: the last RootUpdate that reached a segment file
    fsynced       \* history: the last state a mounted process fsync'ed

disk == <<files, lock, blobs>>
history == <<lastDurable, fsynced>>
vars == <<files, lock, blobs, proc, cleaning, states, budget, crashes,
          lastDurable, fsynced>>

-----------------------------------------------------------------------------
(* Segment files and their replay.                                         *)

Record ==
    [type : {"root", "snap"}, root : Nat, version : Nat,
     name : Names \cup {NoName}]

RootUpdate(r) ==
    [type |-> "root", root |-> r, version |-> 0, name |-> NoName]

\* Mutation of Snapshot: the version is taken two too low.
SnapshotUnderflow(v, r, n) ==
    [type |-> "snap", root |-> r, version |-> v - 2, name |-> n]

Snapshot(v, r, n) == [type |-> "snap", root |-> r, version |-> v, name |-> n]

\* A file SegmentWriter::new has just created or truncated: the header is
\* still in the BufWriter.
NewFile == [header |-> FALSE, records |-> <<>>]

Put(fs, id, f) ==
    [i \in DOMAIN fs \cup {id} |-> IF i = id THEN f ELSE fs[i]]

\* Position of segment i in the sorted directory listing.  Names compare as
\* strings: an id of one more digit sorts by its leading digits.  Ids are
\* below 10 * PadLimit.
SortKey(i) == IF i < PadLimit THEN 10 * i ELSE i

LexLess(i, j) ==
    \/ SortKey(i) < SortKey(j)
    \/ SortKey(i) = SortKey(j) /\ i < j

\* The records replay sees: a file with no header is skipped.
Positions ==
    UNION {{i} \X DOMAIN files[i].records :
              i \in {j \in DOMAIN files : files[j].header}}

At(x) == files[x[1]].records[x[2]]

Before(x, y) == LexLess(x[1], y[1]) \/ (x[1] = y[1] /\ x[2] < y[2])

\* The last of a set of positions in replay order.
LastOf(S) == CHOOSE x \in S : \A y \in S \ {x} : Before(y, x)

RootPositions == {x \in Positions : At(x).type = "root"}
SnapPositions == {x \in Positions : At(x).type = "snap"}

\* The root load_store_from_segments returns; 0 when there is none.
ReplayRoot == IF RootPositions = {} THEN 0 ELSE At(LastOf(RootPositions)).root

\* The snapshot list it returns, as set_snapshots indexes it: for each version,
\* and for each name, the entry replayed last.
LastAmong(S) == {At(x) : x \in {y \in S : \A z \in S \ {y} : Before(z, y)}}

ByVersion ==
    UNION {LastAmong({x \in SnapPositions : At(x).version = v}) :
              v \in {At(x).version : x \in SnapPositions}}

\* Mutation of ByName: the first entry of a name wins.
ByNameFirst ==
    UNION {{At(x) : x \in {y \in SnapPositions :
                             /\ At(y).name = n
                             /\ \A z \in SnapPositions \ {y} :
                                   At(z).name = n => Before(y, z)}} : n \in Names}

ByName == UNION {LastAmong({x \in SnapPositions : At(x).name = n}) : n \in Names}

\* Mutation of NumberAfter: the last number is used again.
ReuseNumber(S) == IF S = {} THEN {1} ELSE {x \in S : \A z \in S : z <= x}

\* The number after the largest of S, or 1: a set of one element.
NumberAfter(S) ==
    IF S = {} THEN {1} ELSE {x + 1 : x \in {y \in S : \A z \in S : z <= y}}

-----------------------------------------------------------------------------
(* Processes.                                                              *)

\* What a process keeps in memory.  mem is the state of its store (0: none),
\* known and named the snapshot indexes, seg the segment its WAL writes to
\* (0: none), buf the records not yet written, held its MountLock guard,
\* target the root a switch goes to, todo the segments GC has yet to compact.
IdleProc ==
    [pc |-> "idle", kind |-> "none", wal |-> "NoWal", name |-> NoName,
     mem |-> 0, known |-> {}, named |-> {}, seg |-> 0, buf |-> <<>>, held |-> FALSE,
     target |-> 0, todo |-> {}]

Pcs == {"idle", "acquire", "stale", "reacquire", "lockwrite", "check", "load",
        "wal", "find", "mounted", "fsync", "commit", "log", "snap", "target",
        "shutdown", "exit", "list", "compact", "import", "seedwal"}

ProcState ==
    [pc : Pcs, kind : Kinds \cup {"none"},
     wal : {"PerOp", "FlushOnFsync", "Periodic", "NoWal"},
     name : Names \cup {NoName}, mem : Nat, known : SUBSET Record,
     named : SUBSET Record, seg : Nat, buf : Seq(Record), held : BOOLEAN,
     target : Nat, todo : SUBSET Nat]

Become(p, r) == proc' = [proc EXCEPT ![p] = r]

Goto(p, l) == Become(p, [proc[p] EXCEPT !.pc = l])

\* The process ends: its guard's drop removes mount.lock.
End(p) ==
    /\ Become(p, IdleProc)
    /\ lock' = (lock /\ ~proc[p].held)

Init ==
    /\ files = [i \in {} |-> NewFile]
    /\ lock = FALSE
    /\ blobs = {}
    /\ proc = [p \in Procs |-> IdleProc]
    /\ cleaning = FALSE
    /\ states = 0
    /\ budget = Budget
    /\ crashes = 0
    /\ lastDurable = 0
    /\ fsynced = 0

-----------------------------------------------------------------------------
(* Starting a command.  Every command but seed needs segments/ to exist.   *)

Start(p, k) ==
    /\ proc[p].pc = "idle"
    /\ budget[k] > 0
    /\ Serial => ~cleaning /\ \A q \in Procs : proc[q].pc = "idle"
    /\ budget' = [budget EXCEPT ![k] = @ - 1]
    /\ UNCHANGED <<disk, cleaning, states, crashes, history>>

StartMount(p) ==
    \E k \in MountKinds, w \in Strategies :
        /\ Start(p, k)
        /\ DOMAIN files # {}
        /\ Become(p, [IdleProc EXCEPT !.pc = "acquire", !.kind = k, !.wal = w])

\* snapshot create and snapshot switch log with PerOp.  The name is the one
\* to give, or the one to look up (NoName: the switch is by version number).
StartSnapshot(p) ==
    \E k \in {"create", "switch"}, n \in Names \cup {NoName} :
        /\ Start(p, k)
        /\ DOMAIN files # {}
        /\ k = "create" => n \notin AutoNames
        /\ Become(p, [IdleProc EXCEPT !.pc = "check", !.kind = k,
                                      !.wal = "PerOp", !.name = n])

StartGc(p) ==
    /\ Start(p, "gc")
    /\ DOMAIN files # {}
    /\ Become(p, [IdleProc EXCEPT !.pc = "check", !.kind = "gc"])

StartSeed(p) ==
    /\ Start(p, "seed")
    /\ Become(p, [IdleProc EXCEPT !.pc = "import", !.kind = "seed"])

-----------------------------------------------------------------------------
(* mount.lock.                                                             *)

\* acquire_mount_lock, first call: the existence check.
Acquire(p) ==
    /\ proc[p].pc = "acquire"
    /\ Goto(p, IF lock THEN "stale" ELSE "lockwrite")
    /\ UNCHANGED <<disk, cleaning, states, budget, crashes, history>>

\* Mutation of RemoveStale: the stale lock file is left in place.
KeepStale(p) ==
    /\ proc[p].pc = "stale"
    /\ Goto(p, "reacquire")
    /\ UNCHANGED <<disk, cleaning, states, budget, crashes, history>>

\* DirtyMount: load_store removes the lock file it takes for stale.
RemoveStale(p) ==
    /\ proc[p].pc = "stale"
    /\ lock' = FALSE
    /\ Goto(p, "reacquire")
    /\ UNCHANGED <<files, blobs, cleaning, states, budget, crashes, history>>

\* acquire_mount_lock, second call: a second DirtyMount is an error.
Reacquire(p) ==
    /\ proc[p].pc = "reacquire"
    /\ IF lock THEN Become(p, IdleProc) ELSE Goto(p, "lockwrite")
    /\ UNCHANGED <<disk, cleaning, states, budget, crashes, history>>

LockWrite(p) ==
    /\ proc[p].pc = "lockwrite"
    /\ lock' = TRUE
    /\ Become(p, [proc[p] EXCEPT !.pc = "load", !.held = TRUE])
    /\ UNCHANGED <<files, blobs, cleaning, states, budget, crashes, history>>

\* The offline commands refuse to run while mount.lock exists; they do not
\* take it themselves.
CheckUnmounted(p) ==
    /\ proc[p].pc = "check"
    /\ IF lock THEN Become(p, IdleProc) ELSE Goto(p, "load")
    /\ UNCHANGED <<disk, cleaning, states, budget, crashes, history>>

-----------------------------------------------------------------------------
(* Loading the store.                                                      *)

\* load_store_from_segments and load_from_root.  gc only needs the replay to
\* succeed; the others fail when there is no root or its blobs are missing.
Load(p) ==
    /\ proc[p].pc = "load"
    /\ IF proc[p].kind = "gc" THEN Goto(p, "list") /\ UNCHANGED lock
       ELSE IF ReplayRoot \notin blobs THEN End(p)
       ELSE /\ Become(p, [proc[p] EXCEPT !.pc = "wal", !.mem = ReplayRoot,
                              !.known = ByVersion, !.named = ByName])
            /\ UNCHANGED lock
    /\ UNCHANGED <<files, blobs, cleaning, states, budget, crashes, history>>

\* next_segment_id and create_wal.  Scanning the directory and creating the
\* file are one step here.
CreateWal(p) ==
    /\ proc[p].pc = "wal"
    /\ LET l == CASE proc[p].kind \in {"mount", "automount"} -> "mounted"
                  [] proc[p].kind \in {"snapmount", "switch"} -> "find"
                  [] OTHER -> "commit"
       IN  IF proc[p].wal = "NoWal" THEN Goto(p, l) /\ UNCHANGED files
           ELSE \E id \in NumberAfter(DOMAIN files) :
                   /\ files' = Put(files, id, NewFile)
                   /\ Become(p, [proc[p] EXCEPT !.pc = l, !.seg = id])
    /\ UNCHANGED <<lock, blobs, cleaning, states, budget, crashes, history>>

\* The entries find_snapshot can return: any version, or the one a name has.
Findable(proc_p) ==
    {s \in proc_p.known :
        proc_p.name \in Names =>
            \E t \in proc_p.named : t.name = proc_p.name /\ t.version = s.version}

\* Mutation of FindSnapshot: the snapshot is served with the live store's WAL.
FindSnapshotLive(p) ==
    /\ proc[p].pc = "find"
    /\ \/ \E s \in Findable(proc[p]) :
            IF proc[p].kind = "switch"
            THEN Become(p, [proc[p] EXCEPT !.pc = "commit", !.target = s.root])
            ELSE /\ s.root \in blobs
                 /\ Become(p, [proc[p] EXCEPT !.pc = "mounted", !.mem = s.root])
       \/ Goto(p, "exit")
    /\ UNCHANGED <<disk, cleaning, states, budget, crashes, history>>

\* The snapshot a snapshot mount shows or a switch goes to; an unknown
\* reference, or (for a mount) missing blobs, is an error.  The mount serves a
\* second store, loaded from the snapshot's root, with no WAL and no list of
\* snapshots; the live one stays as it is, with its segment open, until the end.
FindSnapshot(p) ==
    /\ proc[p].pc = "find"
    /\ \/ \E s \in Findable(proc[p]) :
            IF proc[p].kind = "switch"
            THEN Become(p, [proc[p] EXCEPT !.pc = "commit", !.target = s.root])
            ELSE /\ s.root \in blobs
                 /\ Become(p, [proc[p] EXCEPT !.pc = "mounted", !.mem = s.root,
                                  !.wal = "NoWal", !.known = {}, !.named = {}])
       \/ Goto(p, "exit")
    /\ UNCHANGED <<disk, cleaning, states, budget, crashes, history>>

-----------------------------------------------------------------------------
(* A mounted filesystem.                                                   *)

\* Any mutating callback: the state changes in memory only, nothing is logged.
\* A snapshot is mounted read-only: the kernel makes none of these calls.
Mutate(p) ==
    /\ proc[p].pc = "mounted"
    /\ proc[p].kind # "snapmount"
    /\ states < MaxStates
    /\ states' = states + 1
    /\ Become(p, [proc[p] EXCEPT !.mem = states + 1])
    /\ UNCHANGED <<disk, cleaning, budget, crashes, history>>

\* The fsync callback: flush_wal, which syncs what the WAL holds.
Fsync(p) ==
    /\ proc[p].pc = "mounted"
    /\ proc[p].kind # "snapmount"
    /\ budget["fsync"] > 0
    /\ budget' = [budget EXCEPT !["fsync"] = @ - 1]
    /\ Goto(p, "fsync")
    /\ UNCHANGED <<disk, cleaning, states, crashes, history>>

\* The session ends and fuser calls destroy.  When it was ended by
\* `slicefs unmount --store`, that command will remove mount.lock.
Unmount(p) ==
    /\ proc[p].pc = "mounted"
    /\ Goto(p, "commit")
    /\ \/ UNCHANGED <<cleaning, budget>>
       \/ /\ budget["unmount"] > 0
          /\ budget' = [budget EXCEPT !["unmount"] = @ - 1]
          /\ cleaning' = TRUE
    /\ UNCHANGED <<disk, states, crashes, history>>

CleanMountLock ==
    /\ cleaning
    /\ cleaning' = FALSE
    /\ lock' = FALSE
    /\ UNCHANGED <<files, blobs, proc, states, budget, crashes, history>>

-----------------------------------------------------------------------------
(* Committing, logging and writing the WAL.                                *)

\* Mutation of CommitBlobs: the root is logged without its blobs flushed.
CommitUnflushed(p) ==
    /\ proc[p].pc = "commit"
    /\ Goto(p, "log")
    /\ UNCHANGED <<disk, cleaning, states, budget, crashes, history>>

\* commit(), first half: serialise the state and flush its blobs.
CommitBlobs(p) ==
    /\ proc[p].pc = "commit"
    /\ blobs' = blobs \cup {proc[p].mem}
    /\ Goto(p, "log")
    /\ UNCHANGED <<files, lock, cleaning, states, budget, crashes, history>>

\* Mutation of Logged: the buffer is flushed newest first.
LoggedFirst(proc_p, rec) ==
    IF proc_p.wal = "NoWal" THEN proc_p.buf ELSE <<rec>> \o proc_p.buf

\* log_wal_entry.  A PerOp WAL syncs the record before it returns, so the
\* process goes on only once its buffer is empty.
Logged(proc_p, rec) ==
    IF proc_p.wal = "NoWal" THEN proc_p.buf ELSE Append(proc_p.buf, rec)

Returned(proc_p) == proc_p.wal = "PerOp" => proc_p.buf = <<>>

\* commit(), second half: log the root.  destroy goes on to create_snapshot
\* (which commits again) when --auto-snapshot is set, for a snapshot mount too.
LogRoot(p) ==
    LET logged == [proc[p] EXCEPT !.buf = Logged(proc[p], RootUpdate(proc[p].mem))]
        again == [logged EXCEPT !.pc = "commit", !.name = "auto-unmount"]
        shown == proc[p].kind = "snapmount" /\ proc[p].name = NoName
    IN  /\ proc[p].pc = "log"
        /\ Returned(proc[p])
        /\ \/ /\ proc[p].kind = "mount" \/ shown
              /\ Become(p, [logged EXCEPT !.pc = "shutdown"])
           \/ /\ proc[p].kind = "automount"
              /\ Become(p, [again EXCEPT !.kind = "create"])
           \/ /\ shown
              /\ Become(p, again)
           \/ /\ proc[p].kind \notin {"mount", "automount"} /\ ~shown
              /\ Become(p, [logged EXCEPT !.pc = "snap"])
        /\ UNCHANGED <<disk, cleaning, states, budget, crashes, history>>

\* create_snapshot, after its commit: number, log and index the entry.
LogSnapshot(p) ==
    LET switching == proc[p].kind = "switch"
        n == IF switching THEN "auto-before-switch" ELSE proc[p].name
    IN  /\ proc[p].pc = "snap"
        /\ Returned(proc[p])
        /\ \E v \in NumberAfter({t.version : t \in proc[p].known}) :
             LET s == Snapshot(v, proc[p].mem, n)
             IN  Become(p, [proc[p] EXCEPT
                    !.pc = IF switching THEN "target" ELSE "shutdown",
                    !.buf = Logged(proc[p], s),
                    !.known = @ \cup {s},
                    !.named = IF n = NoName THEN @
                              ELSE {t \in @ : t.name # n} \cup {s}])
        /\ UNCHANGED <<disk, cleaning, states, budget, crashes, history>>

\* write_root_update: the switch logs the root of its target.
LogTarget(p) ==
    /\ proc[p].pc = "target"
    /\ Returned(proc[p])
    /\ Become(p, [proc[p] EXCEPT
           !.pc = "shutdown",
           !.buf = Logged(proc[p], RootUpdate(proc[p].target))])
    /\ UNCHANGED <<disk, cleaning, states, budget, crashes, history>>

\* A WAL is being synced: by every PerOp record, by fsync, by shutdown_wal.
Syncing(proc_p) ==
    \/ proc_p.wal = "PerOp" /\ proc_p.buf # <<>>
    \/ proc_p.wal # "NoWal" /\ proc_p.pc \in {"fsync", "shutdown"}

\* One step of a sync: the header, then the records one by one, so that a
\* crash can leave any prefix.  Writes to a segment that was replaced under
\* the process (seg = 0) are lost.
WriteHeader(p) ==
    LET id == proc[p].seg
    IN  /\ Syncing(proc[p])
        /\ id # 0
        /\ ~files[id].header
        /\ files' = [files EXCEPT ![id].header = TRUE]
        /\ UNCHANGED <<lock, blobs, proc, cleaning, states, budget, crashes,
                       history>>

WriteRecord(p) ==
    LET id == proc[p].seg
        rec == Head(proc[p].buf)
    IN  /\ Syncing(proc[p])
        /\ proc[p].buf # <<>>
        /\ id # 0 => files[id].header
        /\ IF id = 0 THEN UNCHANGED <<files, lastDurable>>
           ELSE /\ files' = [files EXCEPT ![id].records = Append(@, rec)]
                /\ lastDurable' = IF rec.type = "root" THEN rec.root ELSE lastDurable
        /\ Become(p, [proc[p] EXCEPT !.buf = Tail(@)])
        /\ UNCHANGED <<lock, blobs, cleaning, states, budget, crashes, fsynced>>

Synced(proc_p) ==
    /\ proc_p.buf = <<>>
    /\ proc_p.wal # "NoWal" /\ proc_p.seg # 0 => files[proc_p.seg].header

FsyncDone(p) ==
    /\ proc[p].pc = "fsync"
    /\ Synced(proc[p])
    /\ fsynced' = proc[p].mem
    /\ Goto(p, "mounted")
    /\ UNCHANGED <<disk, cleaning, states, budget, crashes, lastDurable>>

\* Mutation of ShutdownWal: the WAL is dropped without the final sync.
ShutdownUnsynced(p) ==
    /\ proc[p].pc = "shutdown"
    /\ Goto(p, "exit")
    /\ UNCHANGED <<disk, cleaning, states, budget, crashes, history>>

ShutdownWal(p) ==
    /\ proc[p].pc = "shutdown"
    /\ Synced(proc[p])
    /\ Goto(p, "exit")
    /\ UNCHANGED <<disk, cleaning, states, budget, crashes, history>>

\* The command returns: dropping the WAL flushes a header still buffered,
\* dropping the MountLock removes mount.lock.
Exit(p) ==
    /\ proc[p].pc = "exit"
    /\ files' = IF proc[p].seg = 0 THEN files
                ELSE [files EXCEPT ![proc[p].seg].header = TRUE]
    /\ End(p)
    /\ UNCHANGED <<blobs, cleaning, states, budget, crashes, history>>

-----------------------------------------------------------------------------
(* seed and gc.                                                            *)

\* run_seed imports a tree (a new state) and commits it; no lock is looked at.
SeedImport(p) ==
    /\ proc[p].pc = "import"
    /\ states' = states + 1
    /\ blobs' = blobs \cup {states + 1}
    /\ Become(p, [proc[p] EXCEPT !.pc = "seedwal", !.mem = states + 1])
    /\ UNCHANGED <<files, lock, cleaning, budget, crashes, history>>

\* It then creates (truncates) segment 1 and writes the root to it.
SeedSegment(p) ==
    /\ proc[p].pc = "seedwal"
    /\ files' = Put(files, 1, NewFile)
    /\ Become(p, [proc[p] EXCEPT !.pc = "shutdown", !.wal = "FlushOnFsync",
                      !.seg = 1, !.buf = <<RootUpdate(proc[p].mem)>>])
    /\ UNCHANGED <<lock, blobs, cleaning, states, budget, crashes, history>>

\* Mutation of GcList: the newest segment is passed over.
GcListOlder(p) ==
    /\ proc[p].pc = "list"
    /\ Become(p, [proc[p] EXCEPT !.pc = "compact",
           !.todo = {i \in DOMAIN files : \E j \in DOMAIN files : i < j}])
    /\ UNCHANGED <<disk, cleaning, states, budget, crashes, history>>

\* run_gc_inner lists the segments once.
GcList(p) ==
    /\ proc[p].pc = "list"
    /\ Become(p, [proc[p] EXCEPT !.pc = "compact", !.todo = DOMAIN files])
    /\ UNCHANGED <<disk, cleaning, states, budget, crashes, history>>

\* compact_segment copies the records of segment i to i + GcStride by a rename,
\* which detaches a process that was writing to the old file of that name.  The
\* source stays.  A segment with no header is an error that ends the pass.
GcCompact(p, i) ==
    LET out == i + GcStride
    IN  /\ proc[p].pc = "compact"
        /\ i \in proc[p].todo
        /\ files[i].header
        /\ files' = Put(files, out, files[i])
        /\ proc' = [q \in Procs |->
               IF q = p THEN [proc[p] EXCEPT !.todo = @ \ {i}]
               ELSE IF proc[q].seg = out THEN [proc[q] EXCEPT !.seg = 0]
               ELSE proc[q]]
        /\ UNCHANGED <<lock, blobs, cleaning, states, budget, crashes, history>>

GcFail(p, i) ==
    /\ proc[p].pc = "compact"
    /\ i \in proc[p].todo
    /\ ~files[i].header
    /\ Become(p, IdleProc)
    /\ UNCHANGED <<disk, cleaning, states, budget, crashes, history>>

GcDone(p) ==
    /\ proc[p].pc = "compact"
    /\ proc[p].todo = {}
    /\ Become(p, IdleProc)
    /\ UNCHANGED <<disk, cleaning, states, budget, crashes, history>>

-----------------------------------------------------------------------------
\* A process dies: memory and the WAL buffer are lost, mount.lock stays.
Crash(p) ==
    /\ proc[p].pc # "idle"
    /\ crashes < MaxCrashes
    /\ crashes' = crashes + 1
    /\ Become(p, IdleProc)
    /\ UNCHANGED <<disk, cleaning, states, budget, history>>

\* The steps a running process takes by itself.
Progress(p) ==
    \/ Acquire(p) \/ RemoveStale(p) \/ Reacquire(p) \/ LockWrite(p)
    \/ CheckUnmounted(p) \/ Load(p) \/ CreateWal(p) \/ FindSnapshot(p)
    \/ CommitBlobs(p) \/ LogRoot(p) \/ LogSnapshot(p) \/ LogTarget(p)
    \/ WriteHeader(p) \/ WriteRecord(p) \/ FsyncDone(p) \/ ShutdownWal(p)
    \/ Exit(p) \/ SeedImport(p) \/ SeedSegment(p) \/ GcList(p) \/ GcDone(p)
    \/ \E i \in proc[p].todo : GcCompact(p, i) \/ GcFail(p, i)

\* Nobody runs anything: the store rests.
Rest ==
    /\ \A p \in Procs : proc[p].pc = "idle"
    /\ UNCHANGED vars

Next ==
    \/ \E p \in Procs :
        \/ StartMount(p) \/ StartSnapshot(p) \/ StartGc(p) \/ StartSeed(p)
        \/ Mutate(p) \/ Fsync(p) \/ Unmount(p) \/ Crash(p)
        \/ Progress(p)
    \/ CleanMountLock
    \/ Rest

Spec == Init /\ [][Next]_vars

\* A started command keeps running; users and crashes owe nothing.
FairSpec == Spec /\ \A p \in Procs : WF_vars(Progress(p))
-----------------------------------------------------------------------------
(* Properties.                                                             *)

File == [header : BOOLEAN, records : Seq(Record)]

\* Types of the variables.
TypeOK ==
    /\ DOMAIN files \subseteq Nat
    /\ files \in [DOMAIN files -> File]
    /\ lock \in BOOLEAN
    /\ blobs \subseteq Nat
    /\ proc \in [Procs -> ProcState]
    /\ cleaning \in BOOLEAN
    /\ states \in Nat
    /\ budget \in [Bounded -> Nat]
    /\ crashes \in Nat
    /\ lastDurable \in Nat
    /\ fsynced \in Nat

\* Every root and every snapshot that any segment names, GC copies and
\* half-written segments included, has its blobs on disk: whatever
\* interleaving of commands and crashes led here, scrub finds nothing missing
\* and load_from_root cannot fail with "missing root node".
RootsResolve ==
    \A i \in DOMAIN files : \A k \in DOMAIN files[i].records :
        files[i].records[k].root \in blobs

\* The segments a garbage collection has listed and not compacted yet exist.
TodoExists == \A p \in Procs : proc[p].todo \subseteq DOMAIN files

\* Everything process state r may still write to a segment is in B.
Resolves(r, B) ==
    /\ \A k \in DOMAIN r.buf : r.buf[k].root \in B
    /\ \A s \in r.known : s.root \in B
    /\ r.pc \in {"log", "snap", "seedwal"} => r.mem \in B
    /\ r.kind = "switch" /\ r.pc \in {"commit", "log", "snap"} => r.target \in B
    /\ r.pc = "target" => r.target \in B
    /\ r.pc \in {"mounted", "fsync"} => r.kind # "switch"

\* What makes RootsResolve inductive: a process logs only what it has flushed.
PendingResolve == \A p \in Procs : Resolves(proc[p], blobs)

GcRunning == \E p \in Procs : proc[p].pc = "compact"

\* Segment replay returns the RootUpdate that was written to disk last, the
\* order of the file names notwithstanding: a mount never comes up with a
\* superseded state.
RecoversLastCommit == ~GcRunning => ReplayRoot = lastDurable

Leaves(p) == proc[p].pc = "exit" /\ proc'[p].pc = "idle"

\* When destroy has run to its end, the state the mount had in memory is the
\* one the next mount will load.
CleanUnmountPersists ==
    [][\A p \in Procs :
         Leaves(p) /\ proc[p].held /\ proc[p].kind # "snapmount"
            => ReplayRoot' = proc[p].mem]_vars

Saved == {At(x) : x \in SnapPositions}

\* A version number names one snapshot: a later command never gets a version that
\* a snapshot on disk has, whatever was copied behind it by garbage collections.
VersionsUnique ==
    \A s, t \in Saved : s.version = t.version => s = t

\* A snapshot that replay can see stays visible, unchanged, through every later
\* commit, switch, re-mount and garbage collection, which renames copies over
\* segments, and through crashes too, as long as nothing is collected.  (A crash
\* and a collection break it: a segment made after a killed collection gets a
\* number that the next collection renames a copy over.)
SnapshotsKept ==
    [][crashes = 0 \/ budget["gc"] = Budget["gc"] => Saved \subseteq Saved']_vars

\* find_snapshot by name gives the newest snapshot of that name, however
\* often garbage collection has copied the older ones behind it.
NameIsNewest ==
    \A p \in Procs : \A s \in proc[p].known :
        s.name # NoName =>
            \E t \in proc[p].named : t.name = s.name /\ t.version >= s.version

\* A snapshot mount is invisible to the next mount.  It opens a segment for the
\* live store before it looks the snapshot up, destroy commits the old state and
\* may make a snapshot of it, and the live store's segment is flushed when it is
\* dropped; yet no step changes the live root or the snapshots that replay gives.
SnapshotMountInvisible ==
    [][\A p \in Procs :
         proc[p].kind = "snapmount" /\ proc'[p] # proc[p]
            => ReplayRoot' = ReplayRoot /\ Saved' = Saved]_vars

\* After the last crash a mount of a store with a commit in it always comes up,
\* stale mount.lock and half-written segments or not.
DirtyMountRecovers ==
    \A p \in Procs :
        (/\ proc[p].pc = "acquire"
         /\ proc[p].kind # "snapmount"
         /\ crashes = MaxCrashes
         /\ lastDurable # 0) ~> proc[p].pc = "mounted"

Largest(S) == IF S = {} THEN 0 ELSE CHOOSE x \in S : \A y \in S : y <= x

\* What a mount would find on disk now, as the abstract store sees it.
Durable == INSTANCE DurableStore WITH
    root <- ReplayRoot,
    newest <- Largest({At(x).root : x \in RootPositions}),
    snapshots <- Saved

\* Seen through segment replay, commands and crashes implement DurableStore:
\* the live root moves only to a newer commit or, once it has a snapshot
\* itself, to a snapshot; snapshots only accumulate, each of the root that was
\* live; nothing else a process does or fails to do is visible.
ImplementsDurableStore == Durable!Spec

-----------------------------------------------------------------------------
(* What the documentation says and the code does not keep.                 *)

\* fsync makes the state durable: with no process left running, replay gives
\* the last fsync'ed state or one made after it.
FsyncDurable ==
    (\A p \in Procs : proc[p].pc = "idle") => ReplayRoot >= fsynced

=============================================================================
