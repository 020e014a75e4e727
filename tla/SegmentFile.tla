---------------------------- MODULE SegmentFile ----------------------------
(***************************************************************************)
(* One segment file, cell by cell: SegmentWriter with its BufWriter under  *)
(* the two kinds of WAL, write errors that log_wal_entry ignores, a crash  *)
(* at any cell, the tolerant SegmentReader and the copy that compaction    *)
(* makes of what it can read.                                              *)
(*                                                                         *)
(* A number of the format is one cell, as is a digest.  A writer holds the *)
(* few records of one command, far fewer than a BufWriter's 8 KiB, so that *)
(* only a sync writes.                                                     *)
(***************************************************************************)
EXTENDS Integers, Sequences, SequencesExt

CONSTANTS
    Strategies, \* kinds of WAL: "PerOp", "FlushOnFsync"
    Roots,      \* digests
    SnapNames,  \* names of snapshots as sequences of cells, <<>> for none
    MaxLogged,  \* bound on records
    MaxErrors   \* bound on failing writes and syncs

\* RecordType
RootUpdate == 2
SnapshotRecord == 3
EofMarker == 255

Versions == 1 .. MaxLogged

\* SegmentEntry, without the time.
RootEntry(r) == [type |-> RootUpdate, version |-> 0, root |-> r, name |-> <<>>]
SnapEntry(v, r, n) == [type |-> SnapshotRecord, version |-> v, root |-> r, name |-> n]

Entry ==
    {RootEntry(r) : r \in Roots}
        \cup {SnapEntry(v, r, n) : v \in Versions, r \in Roots, n \in SnapNames}

ASSUME ConstantsAssumption ==
    /\ Strategies \subseteq {"PerOp", "FlushOnFsync"}
    /\ Roots \subseteq Nat
    /\ SnapNames \subseteq Seq(Nat)
    /\ MaxLogged \in Nat /\ MaxErrors \in Nat

VARIABLES
    wal,      \* the kind of the WAL
    queue,    \* FlushOnFsyncWal.buffer: records not handed to the writer
    buf,      \* BufWriter: cells not written
    file,     \* the cells in the file
    at,       \* what the writer is doing
    call,     \* the call that syncs
    errors,   \* number of failed writes and syncs
    surfaced, \* did flush_wal or shutdown_wal report one?
    copy,     \* the file that compaction has made last
    source,   \* history: what there was to read when it did
    logged,   \* history: the records that were logged
    acked     \* history: how many of them a successful sync covered

vars == <<wal, queue, buf, file, at, call, errors, surfaced, copy, source, logged, acked>>

-----------------------------------------------------------------------------
(* The format.                                                             *)

\* SegmentHeader::to_bytes: magic and version.
Header == <<83, 1>>

\* payload_bytes
Payload(e) ==
    IF e.type = RootUpdate THEN <<e.root>>
    ELSE <<e.version, e.root, Len(e.name)>> \o e.name

\* write_entry: type, length, payload.
Encode(e) == <<e.type, Len(Payload(e))>> \o Payload(e)

EncodeAll(es) == FlattenSeq([k \in DOMAIN es |-> Encode(es[k])])

\* parse_root_update: the entry, as a sequence of at most one.
ParseRootUpdate(p) == IF Len(p) < 1 THEN <<>> ELSE <<RootEntry(p[1])>>

\* parse_snapshot_record
ParseSnapshotRecord(p) ==
    IF Len(p) < 3 THEN <<>>
    ELSE IF Len(p) < 3 + p[3] THEN <<>>
    ELSE <<SnapEntry(p[1], p[2], SubSeq(p, 4, 3 + p[3]))>>

\* SegmentReader::open
HasHeader(cells) == Len(cells) >= Len(Header) /\ SubSeq(cells, 1, Len(Header)) = Header

\* SegmentReader::next until it gives None: it stops at a marker, at a record
\* that is cut short and at one that does not parse, and skips unknown types.
Entries(cells) ==
    LET from[k \in 1 .. Len(cells) + 1] ==
            IF k + 1 > Len(cells) THEN <<>>
            ELSE LET next == k + 2 + cells[k + 1]
                     payload == SubSeq(cells, k + 2, next - 1)
                     parsed == IF cells[k] = RootUpdate THEN ParseRootUpdate(payload)
                               ELSE ParseSnapshotRecord(payload)
                 IN  IF next - 1 > Len(cells) \/ cells[k] = EofMarker THEN <<>>
                     ELSE IF cells[k] \notin {RootUpdate, SnapshotRecord} THEN from[next]
                     ELSE IF parsed = <<>> THEN <<>>
                     ELSE parsed \o from[next]
    IN  IF HasHeader(cells) THEN from[Len(Header) + 1] ELSE <<>>

-----------------------------------------------------------------------------
(* The writer.                                                             *)

\* SegmentWriter::new: the header is in the buffer.
Init ==
    /\ wal \in Strategies
    /\ queue = <<>> /\ buf = Header /\ file = <<>>
    /\ at = "open" /\ call = "none"
    /\ errors = 0 /\ surfaced = FALSE
    /\ copy = <<>> /\ source = <<>>
    /\ logged = <<>> /\ acked = 0

\* log_mutation, through log_wal_entry.  Versions are new ones.
LogMutation(e) ==
    /\ at = "open" /\ Len(logged) < MaxLogged
    /\ e.version \in {0, Len(logged) + 1}
    /\ logged' = Append(logged, e)
    /\ IF wal = "PerOp"
       THEN buf' = buf \o Encode(e) /\ at' = "sync" /\ call' = "log" /\ UNCHANGED queue
       ELSE queue' = Append(queue, e) /\ UNCHANGED <<buf, at, call>>
    /\ UNCHANGED <<wal, file, errors, surfaced, copy, source, acked>>

\* flush_wal and shutdown_wal: the queue is drained into the writer.
FlushAndSync(c) ==
    /\ at = "open"
    /\ buf' = buf \o EncodeAll(queue)
    /\ queue' = <<>>
    /\ at' = "sync" /\ call' = c
    /\ UNCHANGED <<wal, file, errors, surfaced, copy, source, logged, acked>>

\* sync writes the buffer, in pieces of any size.
WriteCell ==
    /\ at \in {"sync", "drop"} /\ buf # <<>>
    /\ file' = Append(file, Head(buf))
    /\ buf' = Tail(buf)
    /\ UNCHANGED <<wal, queue, at, call, errors, surfaced, copy, source, logged, acked>>

\* After a shutdown, failed or not, the writer is dropped.
Resume == at' = IF call = "shutdown" THEN "drop" ELSE "open"

\* Mutation of SyncReturns: nothing waits for the buffer.
SyncUnwritten ==
    /\ at = "sync"
    /\ Resume
    /\ acked' = Len(logged)
    /\ UNCHANGED <<wal, queue, buf, file, call, errors, surfaced, copy, source, logged>>

SyncReturns ==
    /\ at = "sync" /\ buf = <<>>
    /\ Resume
    /\ acked' = Len(logged)
    /\ UNCHANGED <<wal, queue, buf, file, call, errors, surfaced, copy, source, logged>>

\* Mutation of AfterError: what was not written is thrown away.
BufferLost == <<>>

\* BufWriter keeps what was not written for the next flush.
AfterError == buf

\* Mutation of Reports: an error of shutdown is ignored too.
ReportsFlush(c) == c = "flush"

\* log_wal_entry ignores the error, the other two return it.
Reports(c) == c \in {"flush", "shutdown"}

\* A write of sync fails or, with the buffer written, sync_all does.
WriteFails ==
    /\ at = "sync" /\ errors < MaxErrors
    /\ errors' = errors + 1
    /\ buf' = AfterError
    /\ surfaced' = (surfaced \/ Reports(call))
    /\ Resume
    /\ UNCHANGED <<wal, queue, file, call, copy, source, logged, acked>>

\* BufWriter::drop flushes once more, and nobody hears of an error.
DropDone ==
    /\ at = "drop"
    /\ \/ buf = <<>> /\ UNCHANGED errors
       \/ buf # <<>> /\ errors < MaxErrors /\ errors' = errors + 1
    /\ at' = "closed"
    /\ UNCHANGED <<wal, queue, buf, file, call, surfaced, copy, source, logged, acked>>

\* The process is killed.
Crash ==
    /\ at \notin {"closed", "dead"}
    /\ at' = "dead"
    /\ queue' = <<>> /\ buf' = <<>>
    /\ UNCHANGED <<wal, file, call, errors, surfaced, copy, source, logged, acked>>

-----------------------------------------------------------------------------
(* Compaction, by another process, at any time.                            *)

\* Mutation of Compacted: snapshots are left out.
CompactedRoots(es) ==
    Header \o EncodeAll(SelectSeq(es, LAMBDA e : e.type = RootUpdate)) \o <<EofMarker, 0>>

\* compact_segment: all entries that can be read, and the marker of close.
Compacted(es) == Header \o EncodeAll(es) \o <<EofMarker, 0>>

\* A file without a header is an error and leaves no copy.
CompactSegment ==
    /\ HasHeader(file)
    /\ source' = Entries(file)
    /\ copy' = Compacted(Entries(file))
    /\ copy' # copy
    /\ UNCHANGED <<wal, queue, buf, file, at, call, errors, surfaced, logged, acked>>

Next ==
    \/ \E e \in Entry : LogMutation(e)
    \/ \E c \in {"flush", "shutdown"} : FlushAndSync(c)
    \/ WriteCell \/ SyncReturns \/ WriteFails \/ DropDone
    \/ Crash
    \/ CompactSegment

Spec == Init /\ [][Next]_vars
-----------------------------------------------------------------------------
(* Properties.                                                             *)

Whole == INSTANCE LogFile WITH header <- HasHeader(file), records <- Entries(file)

\* Whatever was written when the process died or a write failed, and whatever
\* came after, the reader sees whole records in the order they were logged: the
\* file implements the one SegmentStore is about.
ImplementsLogFile == Whole!Spec

\* What a sync covered that returned without an error is read back for ever,
\* also when later writes fail or are cut short.
AckedIsRead == acked <= Len(Entries(file))

\* The comment of log_wal_entry: errors it ignores are not lost.  A log that was
\* shut down and reported nothing holds every record.
ErrorsSurface == at = "closed" /\ ~surfaced => Entries(file) = logged

\* A copy gives a reader what its source gave when it was made, a source with a
\* torn end included.
CopyReadsSame == Entries(copy) = source
=============================================================================
