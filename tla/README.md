# A verification project for SliceFS

TLA+ specifications of SliceFS (`src/`), TLC configurations that check them on
small instances, and TLAPS proofs of the properties that matter most. SliceFS
is a content-addressed, deduplicating file system served through FUSE; its
state is a set of content-addressed blobs, a directory of numbered segment
files, and a lock file.

## 1. The system

| Part | State | Operations | Interacts with |
|---|---|---|---|
| Segment files (`metadata/src/segment/`) | `segments/segment-NNNNNN.seg`: a header and RootUpdate / Snapshot records | create, append, sync, close, read, replay of all files in name order | WAL writes them, every command replays them, GC copies them |
| WAL (`metadata/src/wal/`) | the open segment and, for two strategies, a buffer | log, flush_and_sync, shutdown; PerOp, FlushOnFsync, Periodic, NoWal | called by the metadata store |
| Metadata store (`metadata/src/store.rs`) | maps inode → inode, directory, manifest, xattr digests; refcounts; counters; snapshot list; WAL | inode, directory, manifest and xattr calls, commit, load_from_root, create/find snapshot | blobs through `StoreIo`, WAL |
| Mount lock (`metadata/src/mount_lock.rs`) | `mount.lock` | acquire (check, then write), drop, removal when stale or by `unmount --store` | mount takes it; snapshot and gc only look, scrub and stats only mention it |
| Garbage collection (`metadata/src/gc/`) | none | copies every segment to id + 100000; a background thread in each mount | segments, metadata store |
| Commands (`slicefs-cli/src/`) | a process each | seed, mount (also of a snapshot, also with auto-snapshot), unmount, snapshot create/list/switch, gc, scrub, stats | all of the above |
| FUSE adapter (`filesystem.rs`, `handlers.rs`, `fuse_callbacks.rs`) | open write handles, each streaming or buffered | one callback per request | metadata store, blobs |
| `cas-local` | a block store on disk, a dedup index with a bloom filter, a chunker | put, get, delete, lookup, insert, save, load, chunk | a library that the `slicefs` command does not use |
| `slicefs-compression` | none | wrappers of zstd and lz4 | not used by the command either |

What makes it hard:

- *Crashes.* A command is a series of writes: blobs, then records, then the
  lock file. A crash can fall between any two, between the records of one
  command and inside a record.
- *Order.* Which root is live depends on how file names sort, while ids come
  from three places (seed: 1, next id, GC: + 100000).
- *Processes and threads.* `mount.lock` is advisory, checked and written in two
  steps, and removed by other processes; a background thread shares the store
  with the mount that ends; scrub and stats read while others write.
- *Errors that are dropped.* `log_wal_entry` ignores a failed write.
- *Long sequences of legal calls.* Handles keep content, size, count and last
  committed root in different places; every change of an attribute stores a
  whole inode again; link counts and entries are kept by separate calls; inode
  numbers must not be reused, across mounts; a listing carries an index from
  call to call while its directory changes.

What makes each part correct is stated by the properties in section 4; every
hazard is listed, at its line, under `hazards` in `PROJECT.json`.

## 2. Modules

| Module | What it is |
|---|---|
| `SegmentStore` | the on-disk store and every command that writes to it, as processes that interleave and crash |
| `DurableStore` | abstract: a live root and a growing set of snapshots; `SegmentStore` implements it |
| `Inspection` | `SegmentStore` composed with scrub and stats |
| `PowerLoss` | `SegmentStore` on a machine that loses power |
| `SegmentFile` | one segment file cell by cell: format, buffered writer, write errors, torn writes, tolerant reader, compaction |
| `LogFile` | abstract: the file of whole records that `SegmentStore` is about; `SegmentFile` implements it |
| `MountSession` | run_mount and run_unmount with the background collection and the kernel's mount table |
| `WritePath` | file content: handles, manifests, reference counts, sizes |
| `Namespace` | inodes, directories, link counts, inode numbers, and what a commit and the next mount keep of them |
| `Attributes` | modes, owners, times, sizes, `logical_bytes`, xattrs, listings |
| `BlockPipeline` | `cas-local`: block store, index with filter, chunker |
| `SegmentStoreProofs` | theorems about `SegmentStore` and `Inspection` |
| `SegmentFileProofs`, `MountSessionProofs`, `WritePathProofs`, `NamespaceProofs`, `AttributesProofs`, `BlockPipelineProofs` | theorems about the module of that name |
| `SequenceLemmas` | what these proofs need of numbers and sequences: induction, prefixes, and where the parts of a flattened sequence lie |
| `MC...` | the instances TLC checks |

The modules open the system at different depths. `SegmentStore` takes the
content of the file system as a number per state and a segment file as whole
records. `SegmentFile` shows that the bytes on disk are such a file.
`WritePath`, `Namespace` and `Attributes` open up the state of one mount, where
fuser serves one request at a time (`mount2` with the default configuration),
so that a callback is one step. `MountSession` has the life of mounts with
errors and threads that `SegmentStore`, which has the data they write, leaves
out.

### SegmentStore and Inspection

`files` is `segments/`; a file is whether its header was written and its
records. `lock` is `mount.lock`, `blobs` the states all of whose blobs are on
disk, `proc` what each process holds in memory. A process has a program counter
whose labels are the places where other processes or a crash can be seen:

    mount:   acquire [stale reacquire] lockwrite load wal [find] mounted commit log [commit log snap] shutdown exit
    create:  check load wal commit log snap shutdown exit
    switch:  check load wal find commit log snap target shutdown exit
    gc:      check load list compact ...
    seed:    import seedwal shutdown exit

| Action | Code |
|---|---|
| `Acquire`, `LockWrite`, `RemoveStale`, `Reacquire` | `acquire_mount_lock`, the DirtyMount arm of `load_store` |
| `CheckUnmounted` | the `mount.lock` check of snapshot and gc |
| `Load` | `load_store_from_segments`, `load_from_root`, `set_snapshots` |
| `CreateWal` | `next_segment_id`, `create_wal` |
| `FindSnapshot` | `find_snapshot` in mount and switch |
| `Mutate`, `Fsync`, `FsyncDone`, `Unmount` | the callbacks of a mount, `flush_wal`, `destroy` |
| `CommitBlobs`, `LogRoot` | the two halves of `commit` |
| `LogSnapshot`, `LogTarget` | `create_snapshot`, `commit_root` |
| `WriteHeader`, `WriteRecord` | `SegmentWriter::sync`, one step per record |
| `ShutdownWal`, `Exit` | `shutdown_wal`, the end of the command and its drops |
| `GcList`, `GcCompact`, `GcFail`, `GcDone` | `run_gc_inner`, `compact_segment` |
| `SeedImport`, `SeedSegment` | `run_seed` |
| `CleanMountLock` | `clean_mount_lock` |
| `Crash` | a process dies |
| `ScanStart` .. `ScanReport` | `run_scrub`, `run_stats`, one step per segment and per root |

`SortKey` is what sorting file names does to ids: below `PadLimit` (10^6) all
names have one width and sort like numbers, from there on they sort by their
leading digits. `lastDurable`, `fsynced` and the `since` and `before` of a scan
are history; no action reads them.

A snapshot mount opens a segment for the live store, then loads a second store
from the snapshot's root, which has no WAL and no list of snapshots
(`FindSnapshot`, `mount.rs:486`). It is mounted read-only, so the kernel sends
no `Mutate` and no `Fsync`; destroy commits, makes its auto-snapshot and shuts
down as in any mount, but on that second store.

### SegmentFile

`file` is the file as a sequence of cells, where a number of the format or a
digest is one cell; `buf` is the `BufWriter`, `queue` the buffer of
FlushOnFsync. `Encode` and `Entries` are the writer's and the reader's formats.
A sync writes one cell per step and may fail or be cut off at each, and once
everything is written `sync_all` may still fail; the compaction may copy the file at any of these moments. The refinement maps
`header` to `HasHeader(file)` and `records` to `Entries(file)`.

### MountSession

`proc[m].at` is where a mount command is: check, backend, acquire .. create,
load, mount2, serving, destroy, stop, join, unlock, exit, with `detached` for a
lazily unmounted session that still has open files. `gc[m]` is its thread, `fs`
whether the file system and the store it owns are alive (the thread holds them
weakly), `command` the unmount command. An error anywhere takes the exit that
the drops of `run_mount` give it. The kernel's mount table is `InUse`.

### WritePath

`open` holds the `OpenFileState` of each write handle with its content as a
sequence of bytes (in streaming mode the code keeps a Merkle state instead,
whose `end` is the digest of that content), `manifest` the committed content,
`refs` the counts, `live` the sizes, `posix` what a POSIX file would hold after
the same calls. A behaviour begins with the files `slicefs seed` left, whose
blocks nothing has counted (`seed.rs:94`).

Applications may make any call on any file. Some calls the code accepts and
answers with success although the outcome is not POSIX's; three more histories
remember exactly those, and no action reads them:

- `stale`: files emptied through a handle, by O_TRUNC or ftruncate to 0. The size
  becomes 0 and the manifest stays until the next commit or truncate(2).
- `astray`: files that two handles hold content of, that a handle without
  content was written or resized as if they were empty (`StartsOver`) or from a
  stale manifest (`Resurrects`), or that were truncated by path under a handle
  that holds content. A file is back on its way when it is emptied with no other
  handle holding content.
- `short`: blocks of seeded files, and blocks whose count was taken back by an
  unlink or a truncate(2) while a handle had it or was to replace it (`Settled`).

### Namespace

`inodes`, `dirs`, `attached` are the store's maps keyed by inode number,
`nextIno` the allocator, `count` the inode counter behind statfs, `saved` the
last committed root record. `Below`, `InTree`, `Parents`, `KernelRenames` are
what the kernel checks before it sends a request and are external.

### Attributes

`inodes` has mode, owner, time and size, `bytes` is `logical_bytes`, `xattrs`
the encoded lists as sequences of bytes, `listing` a reader of the directory
with its offset. Each action is one callback with every load and store of an
inode in it. `want` and `xwant` are what was asked for last, as far as the code
takes it up: a request with a size asks for nothing else, and a commit of bytes
asks for the time of the commit.

### BlockPipeline

Paths name files with identities of their own, so that a writer goes on writing
to a file that another one has renamed. `put` is check, create, write byte by
byte, rename; `insert` sets bits one at a time and then the set; `Crash` may
tear the saved index. Nothing keeps two writers from putting one chunk through
the one temporary path at the same time. Of such chunks `raced` is the history,
and `torn` has the blocks that a crash left unfinished under their final name
because another writer had already renamed the file. The order lookup, put, insert, and remove, save, delete is
that of callers which are not in the repository; the traits' documentation
gives it.

## 3. Runs that pass

All take less than about two minutes with two workers.

| Run | Instance | Question |
|---|---|---|
| `crash` | one process: seed, mount, mount with auto-snapshot, snapshot mount with and without one, switch; FlushOnFsync; 2 crashes, 3 states (89,622 distinct states) | does recovery always give the last root written, is a clean unmount kept, is a snapshot mount invisible, is the disk a `DurableStore`, does a dirty mount come up |
| `gc` | seed, mount, 2 creates, switch, 2 collections; PerOp; and, with one create and one collection, scrubs and stats at any moment; no crash (462,131) | do the copies GC makes change anything that replay gives; is what scrub and stats report true |
| `concurrent` | two processes: seed, 2 mounts, create, GC, unmount --store, fsync, a crash (3,457,270) | does every root that any segment names have its blobs |
| `segment_file` | 3 records of both types, 2 failing writes or syncs, a crash, compactions; PerOp and FlushOnFsync (120,549) | does a reader always see whole records in order, acknowledged ones for ever, and does somebody hear of a failed write |
| `mount_session` | 2 processes; 3 mounts, 2 unmounts, a crash; Linux and macOS; impatient users and `--store` | is the lock there while the store is open and gone after, does the collection stop in time, does a session that ended exit |
| `write_path` | 2 inodes, seeded or not, 2 handles on one file or two, length ≤ 2, any 9 calls (3,730,237) | of which files are reads POSIX, when do size and content agree, which blocks are never undercounted |
| `namespace` | 3 names, 3 links; inodes 1..4 in one mount or 1..3 in three | do entries resolve, do link counts count names, are inode numbers never reused, is the count exact |
| `attributes` | four workloads (285,768): setattr, with and without a size, on open files and closed ones, and writes; two files, nodes and writes; xattrs; a listing of up to four names | are attributes kept, is `logical_bytes` exact, are xattrs maps, how much does a listing suffer |
| `block_pipeline` | 2 writers, data 1 1 and 1 1 2 in blocks of 2, filter of 2 bits with a false positive, a crash, a collection (3,383,397) | which blocks are whole, is the filter sound, is what is indexed stored, is what is stored readable |

*Bounds.* `Budget` bounds the commands of each kind, `MaxStates` the distinct
states and `MaxCrashes` the crashes; one crash meets every step of every
command, a second one the recovery from the first. Two collections make copies
of copies. Two processes suffice for every pairwise race over the lock file and
a segment; a third mount command in `MountSession` finds what the first two have
left. In `WritePath` two bytes make a hole, an append, an overwrite in the
buffer and a truncation to the middle; the filler byte 0 differs from the one
that is written. `MaxCalls` bounds the calls, because leaked counts grow without
bound (section 5); in nine calls a file is made, written, closed, opened again by
two handles, written, truncated or unlinked, and closed. In `BlockPipeline` the
shared chunk is two bytes long, so that a writer can be overtaken between
them. In `SegmentFile` the root and the names have cells that
look like an end marker, a type or a length, so that a reader that lost its
place would notice nothing. In `Attributes` one xattr name is the beginning of
the other. Where one instance cannot afford every bound at once, a behaviour
begins by choosing one of several (`Bounds`, `Workloads`, `Scenarios`,
`scans`): TLC checks the union.

Deadlock is checked in `SegmentStore` and `BlockPipeline`. In `WritePath`,
`Namespace` and `Attributes` bounded inode numbers run out, in `SegmentFile` the
process ends, in `MountSession` nobody has to mount again.

*Symmetry* is used for processes, inodes, handles, names and writers, which are
model values no action compares except for equality; never with temporal
properties.

*Fairness.* `FairSpec` of `SegmentStore` assumes that a started command takes
its next step (weak fairness of `Progress`): it is a sequential program that
waits for nothing but the disk. `MountSession` assumes the same, of each mount
process, of its thread, which sleeps in bounded pieces, and of the unmount
command, by weak fairness of their steps. Nothing is assumed of users,
applications, crashes or the end of a session.

## 4. Properties

The disk:

- `RecoversLastCommit`: replay order is write order, for roots.
- `CleanUnmountPersists`: what a mount had in memory when destroy ended is what
  the next mount loads.
- `ImplementsDurableStore`: seen through replay, every step of every command
  and every crash is a commit of a newer state, a new snapshot of the live
  root, a switch from a root that has a snapshot, or nothing.
- `DirtyMountRecovers` (liveness): after the last crash a mount comes up.
- `VersionsUnique`, `SnapshotsKept`, `NameIsNewest`: snapshots are immutable,
  numbered once and found by name. `SnapshotsKept` is claimed as long as there was
  no crash or no collection; with both it fails (section 5). The run `gc` has the
  collections; the crashes are in `ImplementsDurableStore`, which the run `crash`
  checks and whose snapshots only grow, and in the theorem `SnapshotsNeverLost`.
- `SnapshotMountInvisible`: the commit and the snapshot that destroy makes of a
  snapshot mount, and the live store's segment it keeps open, change nothing that
  replay gives.
- `RootsResolve`: no segment names a root without blobs.
- `ReportTruthful`: scrub and stats report what was true at some moment of
  their scan, although they read file by file without a lock.
- `ImplementsLogFile`, `AckedIsRead`, `ErrorsSurface`, `CopyReadsSame`: a file
  reads as a prefix of what was logged, with everything that was acknowledged;
  a log that was shut down without an error is complete; a copy reads as its
  source. (The error that shutdown_wal reports ends with its caller: destroy
  discards it, `filesystem.rs:1475`.)

Mounts:

- `LockedWhileOpen`, `LockLeftMeansCrash`, `CollectsUnderLock`: the lock stands
  for an open store, no error path leaves it, and collections end before it
  goes.
- `EndedSessionExits` (liveness): the join of the thread always ends.

Files:

- `PosixContent`: reads are POSIX's for every file that is not astray. Of a stale
  file the store still gives the old content and stat says 0, which bounds what
  the kernel reads.
- `SizeIsLength`: a closed file has the size of its content, or 0 if it is stale;
  this holds of files that went astray, too.
- `RefcountsCover`: with all files closed, blocks that are not short count at
  least the files that have them.
- `EntriesResolve`, `LinksAreNames`, `NumbersSpent`, `CountIsExact`: the tree.
- `AttributesKept`, `LogicalBytesExact`, `XattrsAreMaps`,
  `ListingDamageBounded`: what getattr, stats, getxattr and readdir answer.

Blocks: `NoFalseNegatives` and `IndexedIsStored` without exception;
`BlocksWhole` and `StoredIsReadable` but for a chunk that two writers have put at
the same time and one of them, overtaken by the other's rename, is still
writing, or was when the process crashed.

The exceptions are exact in the sense that none can be dropped: without any one
of `stale`, `astray`, `short`, `raced` with `torn`, or the premise of
`SnapshotsKept` TLC finds a violation (section 5 has them).

Every property has a mutant: a small change of the model of the kind a bug in
the code would be (operators commented "Mutation of ..."), under which TLC finds
the property violated.

## 5. Where the code and its documentation disagree

Three disagreements are runs that TLC ends with a counterexample; `findings` in
`PROJECT.json` quotes the line.

| Run | What TLC shows |
|---|---|
| `gc_abort` | gc stops at a segment without a header; the copies it already made bring back an old root |
| `fsync` | fsync syncs a WAL into which nothing was logged |
| `power_loss` | the record is synced, its blobs are not |

The same models show more of the kind under other values of the constants. For
`SegmentStore`:

- `PadLimit` reached, by ten collections or a smaller limit, violates
  `RecoversLastCommit`: ids of seven digits sort before ids of six, against
  `segment/mod.rs:55` ("sort by name (which encodes segment_id numerically)").
- `Strategies = {"NoWal"}` violates `CleanUnmountPersists`: with no-wal the
  commit of a clean unmount is not logged either (`cli.rs:52` warns of crashes
  only).
- `MaxCrashes = 1` with two collections and a create between them violates
  `SnapshotsKept`: a collection that dies after its first copy leaves numbers it
  would have used to the next commands, and the next collection renames a copy
  over the segment that the create has made (`compact_segment` does not look at
  its target).
- A second seed in the budget violates `RecoversLastCommit`: `seed` truncates
  segment 1, and later segments keep older roots in front of the user.
- `Serial = FALSE`: an offline command may run while a mount commits
  (`snapshot.rs:11` asks for an unmounted store, but the lock is looked at once
  and `unmount --store` removes it while destroy may still run).

For `MountSession`, `LockedWhileOpen` is claimed of users who wait. Without
that premise TLC shows two mounts with one store open:

- `impatient`: `umount` returns before `destroy` has committed; a mount started
  at once finds the mountpoint free and takes the lock of the one that is
  ending for a crashed one's. The code would do so for a second mountpoint too,
  of which the module has none.
- `store_flag`: `unmount --store` removes the lock while the session writes.
- When `mount2` fails the thread is not joined, as it is at the end of a
  session: `CollectsUnderLock` excludes the case.
- `run_mount` passes 1000 as the threshold of the background collection and the
  thread compares it with a constant 1: it never collects. The run has
  `Threshold = 0`, for which it would.
- The backend that is selected on macOS does not reach `mount2`
  (`build_mount_options` leaves it out); the default and the effect of a forced
  backend differ from what the head of `backend.rs` says.

For the files:

- A file opened with O_TRUNC (which `fuse_callbacks.rs:42` asks the kernel to
  leave to `open`) or emptied by ftruncate keeps its manifest (`stale`): closed
  without a write, it has size 0 and its old content, which a later truncate(2) to
  a larger size or a write past its start brings back.
- A file goes `astray`: a write at offset 0 of a reopened file drops what is
  behind it; of two writers one is lost; a truncate(2) beside a handle with
  content is undone by its release; an ftruncate to n > 0 of a handle nothing
  was written through makes the file n zeros.
- Counts are `short`: `seed` sets manifests without counting their blocks, so the
  first unlink or truncation of a copy takes away a count of somebody else's; and
  the block of a file unlinked while open is counted down by unlink
  (`filesystem.rs:1036`) and by release.
- Counts leak: a handle on an existing file does not know the root it replaces,
  so appending leaves the old block counted, against `filesystem.rs:71`
  ("preventing refcount leaks").
- In `Namespace`, `Rename` over a directory with entries takes them out of the
  tree, and renaming a directory to another parent leaves the link counts of
  both parents as they were.
- A setattr with a size and a mode loses the mode, because the inode is loaded
  again after the truncation. A utimes of an open file that was written is
  replaced by the time of the flush or release. `AttributesKept` says when a
  setting is kept, and not that these are right.
- A listing that is undisturbed is exact, one that is not misses entries that
  were there all the time, as `ListingDamageBounded` says. getxattr and
  listxattr never answer ERANGE.

For the commands that read and the block library:

- A collection keeps the segments it copies, so that `snapshot list` and `stats`
  show a snapshot once per copy. scrub announces closed segments only and reads
  all of them.
- Two writers of one chunk share a temporary path, and one may rename the file
  which the other has just emptied (`disk_block_store.rs:94`, against
  `block_store.rs:26`, which promises implementations that synchronize): put
  reports success while a part of the block is under its name, until the other
  writer is done, and for good if the process dies before. put then finds the
  file and never repairs it.
- `save_to_writer` writes no header while `load_from_reader` expects one; the
  model saves with the header.

## 6. Proofs

`SegmentStoreProofs`, for any set of processes, names, strategies, budgets and
any stride (assumption `ConstantsAssumption` of `SegmentStore`, evaluated by TLC
in every run):

- `TypeCorrect`: `Spec => []TypeOK`.
- `RootsAlwaysResolve`: `Spec => []RootsResolve`.
- both from `Safety`: `Spec => []SafeInv`, where

      SafeInv == TypeOK /\ TodoExists /\ RootsResolve /\ PendingResolve

`RootsResolve` alone is not inductive: a process appends to a segment what it
decided on several steps ago. `PendingResolve` says that everything a process
may still write (its buffer, the snapshots it knows, the root it is about to
log, the target of its switch) has its blobs on disk; `TodoExists` that GC
compacts only files that exist. Blobs are never removed, so whatever resolves
keeps resolving: the proof has one lemma for the records of a file, one for a
process, and one step per action.

About replay, for any processes, names, strategies, stride and bounds under the
hypothesis

    Orderly == Serial /\ Budget["seed"] <= 1 /\ Budget["gc"] = 0 /\ Left(Budget) < PadLimit

one command runs at a time, the store is seeded once, it is not collected, and
there are fewer commands than numbers of six digits. That is a store in use
between two collections, and the theorems claim no more. The run `crash` is an
instance of it. Section 5 has the counterexample for a second seed and for
numbers that are too wide, the run `gc_abort` the one for a collection that
fails; collections that end are checked by the run `gc` and not proved. Crashes
are not restricted.

- `ReplayGivesLastCommit`: `Spec => []RecoversLastCommit`.
- `CleanUnmountsPersist`: `Spec => CleanUnmountPersists`, with
  `"NoWal" \notin Strategies` besides (section 5).
- `VersionsNotReused`: `[]VersionsUnique`.
- `SnapshotsNeverLost`: the action property `SnapshotsKept`, here with any number
  of crashes; its premise holds because nothing is collected.
- `SnapshotMountsLeaveNoTrace`: the action property `SnapshotMountInvisible`. Its
  argument is that the store which a snapshot mount shows has no WAL (`Shown` in
  `Stage`), so that its buffer stays empty through destroy's commits.
- `StoreImplementsDurable`: `Spec => ImplementsDurableStore`, the refinement;
  initial states map to initial states, and every step to a step of
  `DurableStore` or to a stutter.

All rest on one inductive invariant,

    IInv == SafeInv /\ Alone /\ Segments /\ Order /\ Disk /\ \A p \in Procs : Good(proc[p])

`RecoversLastCommit` speaks of the disk only, and whether the next record keeps
it depends on what a process decided steps ago. So `Good` says what a process
at each label has in memory and in its buffer: `Stage`, which commands come
there; `Memory`, that what it knows of the snapshots is what is on disk and that
a state which is not on disk is newer than all that are; `Queue`, that the
buffer holds commits of the state in memory, then a snapshot of it with a new
version, then the target of a switch. `Segments` says that the running command
writes to the segment with the largest number and that a number is left for
every command to come, which is where `PadLimit` enters; `Order` that the root
written last is last in replay order, and that versions rise with it. Two lemmas carry
the proof: `OnlyWritesShow` (of all steps only the write of a record changes
what replay sees) and `AppendedLast` (a record appended to the segment with the
largest number comes last). TLC checked the invariant on the instance of `crash`
without its temporal properties before it was proved.

About scrub and stats beside the commands, `InspectSpec` of `Inspection`:

- `NoFalseAlarms`: `InspectSpec => []NoFalseAlarm`, no root is reported missing.
  No hypothesis: it rests on `SafeInv`, files that stay, and `ScanResolves`
  (what a scan has collected has its blobs on disk).
- `ReportsTruthful`: `InspectSpec => []ReportTruthful` under `Orderly`, which leaves
  scans beside a collection or a second seed out; the run `gc` has the former. A
  scan reads while the running command writes, and goes on when that one has ended
  and others have opened segments that are not in its listing.

`ScanGood` is the invariant of the second: while a scan reads there is a segment
`m`, the last of its listing, such that what is left of the listing is the upper
part of the segments up to `m` (`Reading`), what it has read gives its root,
*all* segments up to `m` give a root that was live since the listing, and a
snapshot it has not seen is in a segment it has yet to read. The root it has
read need not have been live; once nothing is left it is the one that all give,
because segments give one root (`GivesOne`). A write shows in the segments up to
`m` only if it is a record of `m` itself, which is the last one to be read, and
a root that it writes is live (`UpToStep`).

`MountSessionProofs`, for any mounts, scenarios and numbers of commands and
crashes (assumption `ConstantsAssumption` of `MountSession`):

- `TypeCorrect`, `LockKeptWhileOpen` (`LockedWhileOpen`),
  `NoLockLeftWithoutCrash` (`LockLeftMeansCrash`), `CollectionIsLocked`
  (`CollectsUnderLock`).

That the lock is there while a mount has the store open is not inductive: the
next mount command removes a lock it finds, if it takes it for a crashed one's.
`AloneInv` says that with users who wait this cannot happen while the store is
open: two mount processes meet only where one looks at the mountpoint which the
other serves, and finds it in use. `HolderInv` says that a lock has a holder
until there is a crash, for all users; `ThreadInv` that a session which did not
fail has joined its thread before it unlocks.

`WritePathProofs`, for any inodes, handles, bytes and bounds:

- `TypeCorrect`, `ReadsArePosix` (`PosixContent`), `ClosedSizeExact`
  (`SizeIsLength`), `CountsCoverFiles` (`RefcountsCover`), for every sequence of
  calls on any seeded store.

    IInv == Typed /\ Clean /\ ContentInv /\ Covers(refs, Own, short)

`Clean` says what the flag `cas_committed` means. `ContentInv` has two parts per
file. `SizeKept`: unless a handle has something to commit, the size is that of the
manifest, or 0 if the file is stale. `Kept`: of a file that is not astray one
handle at most holds content, which is all of the POSIX content; when none does
it is in the manifest. For the counts, `RefcountsCover` speaks of closed files
only; in between a handle gives up the count of its last root before it takes
that of the next. `Own` is the block each handle and each file has a count of at
a moment: a handle the one it committed last, a file its manifest while it is
`Settled`. `Covers` says that every count is at least the number of its owners,
short blocks apart.

`NamespaceProofs`, for any names, bounds and number of mounts:

- `TypeCorrect`, `NoDanglingEntries` (`EntriesResolve`), `LinkCountsExact`
  (`LinksAreNames`), `NumbersNotReused` (`NumbersSpent`), `FileCountExact`
  (`CountIsExact`).

A crash brings back the maps of the last commit, so the invariant is a predicate
`Good` on maps that holds of those in memory and of those committed. It has to
speak of deleted directories too, whose empty entry lists stay in the map, and
of directories, which have one name at most: otherwise a rename could delete an
inode that another name still leads to.

`AttributesProofs`, for any files, handles, owners, times and workloads:

- `TypeCorrect` (`TypeOK`) and `LogicalBytesAlwaysExact` (`LogicalBytesExact`),
  whatever applications do. `TypeInv` has both: that a difference does not go
  below zero is a fact about the sum. The sum is a recursion over a set; how it
  changes when one file does is proved by induction on the size of the set
  (`SumTake`, `SumAgrees`).
- `SettingsKept`: `Spec => []AttributesKept`, for the same requests. The invariant
  says it of the inodes in memory and of those committed, which a crash brings
  back.
- `XattrsAlwaysMaps`: `Spec => []XattrsAreMaps`, for lists and values of any
  length. The lemma `RoundTrip` says that `Deserialize(Serialize(list)) = list`;
  the invariant says that every stored list, in memory and committed, is the
  encoding of a list with one entry per name.
- `ListingsBounded`: `Spec => []ListingDamageBounded`. `ListingDamageBounded`
  speaks of what was missed and repeated when the listing is over; the invariant
  `ListingOK` bounds, at every call, the entries which the offset is past and
  that were not given (`Skipped`) and those given twice or given and ahead again
  (`Again`). A name that comes or goes changes the rank of the others by one,
  and so at most one entry's side of the offset.

`SegmentFileProofs`, for any roots, names, number of records and errors
(assumption `ConstantsAssumption` of `SegmentFile`):

- `AckedAlwaysRead` (`AckedIsRead`), `ErrorsAlwaysSurface` (`ErrorsSurface`),
  `CopiesReadSame` (`CopyReadsSame`).
- `FileImplementsLog`: `Spec => ImplementsLogFile`, the refinement. A cell that
  is written maps to `WriteHeader`, to `WriteRecord` or to a stutter.

The lemma `ReadBack` says that a header, the encodings of any records and an end
at which the reader stops are read as these records. `Torn` says where the file
ends: within the header, or after the records `es` and a part `tail` of the
first of the records `q`, so that with the buffer behind it the file would hold
`q` too. The invariant `FileInv` says that the records logged are `es`, `q` and
the queue; after a crash, that they once were. A part of a record is never a
whole one (`TornRead`), and the cell that completes it makes it the next record
read (`TornStep`).

`BlockPipelineProofs`, for any writers, data, block size and filter (assumption
`ConstantsAssumption` of `BlockPipeline`), with any number of them at one chunk:

- `TypeCorrect`: `Spec => []TypeOK`, by `TypeInv`, which adds that a writer past
  its lookup has a chunk and one that writes has a file and bytes left. That a
  chunk has a byte at all is the arithmetic of `FixedChunker` (lemmas `Blocks`
  and `PiecesType`).
- `FilterSound`: `Spec => []NoFalseNegatives`, by `FilterInv`, which adds
  `BitsInserted`: a writer in the middle of insert has set all of its bits but
  those still to do. Bits are shared, and only a crash takes any away, together
  with the writers.
- `IndexSound`: `Spec => []IndexedIsStored`, by `IndexInv`, which adds that a
  writer inserts what is at its final path and that nobody writes while a block
  is collected, which is out of both indexes before it is deleted.
- `BlocksAlwaysWhole`: `Spec => []BlocksWhole`, by `WholeInv` and `RacedInv`. Two
  writers may hold the same file, or one a file that the other has renamed, so
  that no writer knows what its file holds. What is invariant is that a file is
  written for one chunk only (`PathsApart`, `FilesApart`), never grows longer
  than it (`NeverLonger`), and that of its writers the last one to empty it is
  still filling it or has filled it (`TmpUnderway`, `FinalUnderway`). `RacedInv`
  says that a writer is overtaken only in a race.
- `StoredAlwaysReadable`: `Spec => []StoredIsReadable`, from these and `StoredInv`:
  all chunks of stored data are in the store, and all that a writer is done with
  are; a chunk that is collected is none of them. That the chunks of data, put
  together, are the data is `FlattenCells` of `SequenceLemmas`.

Properties of recursive functions (encode and decode, sums, chunks) need
induction over data. The library's induction theorems take an operator as a
parameter, which the provers cannot instantiate; `NatInduct` of `SequenceLemmas`
is induction for a set of numbers instead, from the library's theorem that every
set of numbers has a least one.

Left to TLC:

- Liveness, which is out of the prover's reach: `DirtyMountRecovers`,
  `EndedSessionExits`.
- `NameIsNewest`, which is about the copies of a collection.
- Replay of a store that was collected: the copies bring every record a second
  time, so that `Order` does not hold as it stands. `ReportTruthful` beside a
  collection is checked by the run `gc` for the same reason.

## 7. Plan

Done: all modules of section 2 and the proofs of section 6.

Left, in this order:

1. Proofs: `SnapshotsKept` and `VersionsUnique` of a store that is collected,
   which do not depend on the order of the copies; then `RecoversLastCommit`
   and `ReportTruthful` with collections that end.
2. `SegmentStore`: next id and file creation as two steps, with two writers on
   one file.
3. The store's calls under several threads, lock by lock, with the lost updates
   of link, unlink and update_inode. fuser calls them from one thread, so the
   program does not meet this today.

## 8. Not modelled

- `slicefs-compression`: wrappers of third-party codecs without state.
- The fixed layouts of inodes, the inode map, manifests and directory entries;
  digests (content stands for its digest).
- `spawn_watchdog`, `register_signal_handlers`, `with_fuse_t_ini_backend` and
  `confirm_fallback`: nothing calls them.
- access, getlk, setlk and fallocate, which answer without state; the `..`
  entry, which only listings read.
- Argument parsing, the text of reports, sizes of directories on the host.
- `MemBlockStore`: the interface of the disk store on a locked map.
- The saturation of counts at 2^64 - 1.
- The loss of power inside `cas-local`: put renames without fsync.
