---------------------------- MODULE BlockPipeline ----------------------------
(***************************************************************************)
(* The content addressed block library: LocalDiskStore, MemDedupIndex and  *)
(* FixedChunker, driven by writers as the documentation of the traits says *)
(* a caller does: cut the data into chunks, look every chunk up in the     *)
(* index, put the ones that are not there into the store and then insert   *)
(* them into the index.  The writers and the collector are callers that    *)
(* are not in the repository.                                              *)
(*                                                                         *)
(* A hash is injective here: a chunk is its own hash.  A file is a         *)
(* sequence of bytes with an identity of its own, which paths name and     *)
(* open descriptors keep, so that a writer goes on writing to a file that  *)
(* another one has renamed.  0 is the byte of a hole.                      *)
(***************************************************************************)
EXTENDS Integers, Sequences, FiniteSets, SequencesExt

CONSTANTS
    Writers,      \* threads that store data
    Data,         \* the data they store: sequences of bytes
    BlockSize,    \* FixedChunker.block_size
    Positions,    \* positions of the bloom filter's bits
    BitsOf,       \* chunk -> its positions
    MaxCrashes,   \* bound on crashes
    MaxCollects   \* bound on collected blocks

\* FixedChunker::chunk: pieces of BlockSize bytes, the last one may be shorter.
Pieces(data) ==
    LET count == (Len(data) + BlockSize - 1) \div BlockSize
        end(k) == IF k * BlockSize < Len(data) THEN k * BlockSize ELSE Len(data)
    IN  [k \in 1 .. count |-> SubSeq(data, (k - 1) * BlockSize + 1, end(k))]

Chunks == UNION {ToSet(Pieces(d)) : d \in Data}

ASSUME ConstantsAssumption ==
    /\ BlockSize \in Nat \ {0}
    /\ \A d \in Data : d \in Seq(Nat \ {0})
    /\ \A c \in Chunks : BitsOf[c] \subseteq Positions
    /\ MaxCrashes \in Nat /\ MaxCollects \in Nat

VARIABLES
    files,     \* identity -> content
    tmp,       \* chunk -> the file at its temporary path, where there is one
    final,     \* chunk -> the file at its path, where there is one
    bits,      \* MemDedupIndex.bloom: the positions that are set
    present,   \* MemDedupIndex.present
    stream,    \* the saved index: [count, entries], or torn
    writer,    \* writer -> what it is doing
    collector, \* what the collector is doing
    stored,    \* history: data whose storing has ended without an error
    raced,     \* history: chunks that two writers have put at the same time
    torn,      \* history: blocks a crash has cut off, see Crash
    crashes,
    collects

disk == <<files, tmp, final>>
index == <<bits, present>>
history == <<raced, torn>>
vars == <<disk, index, stream, writer, collector, stored, history, crashes, collects>>

With(f, x, v) == [y \in DOMAIN f \cup {x} |-> IF y = x THEN v ELSE f[y]]
Without(f, x) == [y \in DOMAIN f \ {x} |-> f[y]]
Empty == [x \in {} |-> <<>>]

Idle == [at |-> "idle", data |-> <<>>, todo |-> <<>>, fd |-> 0, pos |-> 0, unset |-> {}]

\* The chunk a writer is at.
Chunk(w) == writer[w].todo[1]

To(w, at) == writer' = [writer EXCEPT ![w].at = at]

\* One chunk is done.
NextChunk(w) ==
    writer' = [writer EXCEPT ![w].at = "lookup", ![w].todo = Tail(@), ![w].fd = 0]

Init ==
    /\ files = Empty /\ tmp = Empty /\ final = Empty
    /\ bits = {} /\ present = {}
    /\ stream = [count |-> 0, entries |-> {}]
    /\ writer = [w \in Writers |-> Idle]
    /\ collector = [at |-> "idle", chunk |-> <<>>]
    /\ stored = {} /\ raced = {} /\ torn = {}
    /\ crashes = 0 /\ collects = 0

-----------------------------------------------------------------------------
(* Writers.                                                                *)

Start(w, d) ==
    /\ writer[w].at = "idle" /\ collector.at = "idle"
    /\ writer' = [writer EXCEPT ![w] = [Idle EXCEPT !.at = "lookup", !.data = d,
                                                    !.todo = Pieces(d)]]
    /\ UNCHANGED <<disk, index, stream, collector, stored, history, crashes, collects>>

\* All chunks are stored.
Finish(w) ==
    /\ writer[w].at = "lookup" /\ writer[w].todo = <<>>
    /\ stored' = stored \cup {writer[w].data}
    /\ writer' = [writer EXCEPT ![w] = Idle]
    /\ UNCHANGED <<disk, index, stream, collector, history, crashes, collects>>

\* bloom_check
BloomCheck(c) == BitsOf[c] \subseteq bits

\* lookup, its fast path: DefinitelyAbsent without a look at the set.
Lookup(w) ==
    /\ writer[w].at = "lookup" /\ writer[w].todo # <<>>
    /\ To(w, IF BloomCheck(Chunk(w)) THEN "confirm" ELSE "put")
    /\ UNCHANGED <<disk, index, stream, collector, stored, history, crashes, collects>>

\* Mutation of Confirm: what the filter says is taken for the answer.
ConfirmByFilter(w) ==
    /\ writer[w].at = "confirm"
    /\ NextChunk(w)
    /\ UNCHANGED <<disk, index, stream, collector, stored, history, crashes, collects>>

\* lookup, its slow path: Present, and the chunk is done, or Absent.
Confirm(w) ==
    /\ writer[w].at = "confirm"
    /\ IF Chunk(w) \in present THEN NextChunk(w) ELSE To(w, "put")
    /\ UNCHANGED <<disk, index, stream, collector, stored, history, crashes, collects>>

\* Mutation of Exists: a file at the temporary path counts.
ExistsInPart(c) == c \in DOMAIN final \cup DOMAIN tmp

Exists(c) == c \in DOMAIN final

\* CasError, in the place of data.
NotFound == <<0>>

\* get, with verify_on_read: the data hashes to what was asked for.
Get(c) == IF Exists(c) /\ files[final[c]] = c THEN files[final[c]] ELSE NotFound

\* put: a file that is there is left alone.  Nothing keeps two writers from
\* putting the same chunk at once.
PutExists(w) ==
    /\ writer[w].at = "put"
    /\ IF Exists(Chunk(w))
       THEN writer' = [writer EXCEPT ![w].at = "insert", ![w].unset = BitsOf[Chunk(w)]]
       ELSE To(w, "create")
    /\ UNCHANGED <<disk, index, stream, collector, stored, history, crashes, collects>>

\* Mutation of TmpPath: the file is written under its final path.
InPlace(c) == final' = With(final, c, 1 + Cardinality(DOMAIN files)) /\ UNCHANGED tmp

\* The temporary path of c names a new file.
TmpPath(c) == tmp' = With(tmp, c, 1 + Cardinality(DOMAIN files)) /\ UNCHANGED final

\* fs::write opens the temporary path, and empties a file that is there.
PutCreate(w) ==
    LET c == Chunk(w)
        old == c \in DOMAIN tmp
        id == IF old THEN tmp[c] ELSE 1 + Cardinality(DOMAIN files)
    IN  /\ writer[w].at = "create"
        /\ files' = With(files, id, <<>>)
        /\ IF old THEN UNCHANGED <<tmp, final>> ELSE TmpPath(c)
        /\ writer' = [writer EXCEPT ![w].at = "write", ![w].fd = id, ![w].pos = 0]
        /\ raced' = IF \E v \in Writers : writer[v].at \in {"write", "rename"} /\ Chunk(v) = c
                    THEN raced \cup {c} ELSE raced
        /\ UNCHANGED <<index, stream, collector, stored, torn, crashes, collects>>

\* write at the descriptor's own offset; a gap before it reads as 0.
WriteAt(content, k, b) ==
    [i \in 1 .. (IF k > Len(content) THEN k ELSE Len(content)) |->
        IF i = k THEN b ELSE IF i <= Len(content) THEN content[i] ELSE 0]

\* fs::write, one byte.
PutWrite(w) ==
    LET k == writer[w].pos + 1
    IN  /\ writer[w].at = "write"
        /\ files' = [files EXCEPT ![writer[w].fd] = WriteAt(@, k, Chunk(w)[k])]
        /\ writer' = [writer EXCEPT ![w].pos = k,
                                    ![w].at = IF k = Len(Chunk(w)) THEN "rename" ELSE @]
        /\ UNCHANGED <<tmp, final, index, stream, collector, stored, history, crashes, collects>>

\* fs::rename: whatever is at the temporary path goes to the final one.  When
\* nothing is there any more put fails, and the writer gives up.
PutRename(w) ==
    LET c == Chunk(w)
    IN  /\ writer[w].at = "rename"
        /\ IF c \in DOMAIN tmp
           THEN /\ final' = With(final, c, tmp[c])
                /\ tmp' = Without(tmp, c)
                /\ writer' = [writer EXCEPT ![w].at = "insert", ![w].fd = 0,
                                            ![w].unset = BitsOf[c]]
           ELSE writer' = [writer EXCEPT ![w] = Idle] /\ UNCHANGED <<tmp, final>>
        /\ UNCHANGED <<files, index, stream, collector, stored, history, crashes, collects>>

\* Mutation of InsertBit: the position is one too high.
InsertNextBit(w, p) ==
    /\ writer[w].at = "insert"
    /\ p \in writer[w].unset
    /\ bits' = bits \cup {p + 1}
    /\ writer' = [writer EXCEPT ![w].unset = @ \ {p}]
    /\ UNCHANGED <<disk, present, stream, collector, stored, history, crashes, collects>>

\* insert, first half: the bits are set one at a time.
InsertBit(w, p) ==
    /\ writer[w].at = "insert"
    /\ p \in writer[w].unset
    /\ bits' = bits \cup {p}
    /\ writer' = [writer EXCEPT ![w].unset = @ \ {p}]
    /\ UNCHANGED <<disk, present, stream, collector, stored, history, crashes, collects>>

\* Mutation of InsertReady: the set comes before the filter.
InsertAnyTime(w) == writer[w].at = "insert"

InsertReady(w) == writer[w].at = "insert" /\ writer[w].unset = {}

\* insert, second half: the authoritative set.
InsertSet(w) ==
    /\ InsertReady(w)
    /\ present' = present \cup {Chunk(w)}
    /\ NextChunk(w)
    /\ UNCHANGED <<disk, bits, stream, collector, stored, history, crashes, collects>>

-----------------------------------------------------------------------------
(* The saved index.                                                        *)

\* save_to_writer_with_header, under the read lock of the set.
Saved == [count |-> Cardinality(present), entries |-> present]

Save ==
    /\ stream # Saved
    /\ stream' = Saved
    /\ UNCHANGED <<disk, index, writer, collector, stored, history, crashes, collects>>

\* load_from_reader: read_exact fails when entries are missing.
Readable(s) == Cardinality(s.entries) = s.count

\* A writer that another put of the same chunk has overtaken: it is writing
\* the file that the other one has already renamed.
Overtaken(w) ==
    /\ writer[w].at = "write"
    /\ Chunk(w) \in DOMAIN final /\ final[Chunk(w)] = writer[w].fd

\* A crash, possibly in the middle of a save, and a restart: the index is the
\* one that loads, with a filter built from its entries, or a new one.  What an
\* overtaken writer had yet to write is never written.
Crash(part) ==
    /\ crashes < MaxCrashes
    /\ crashes' = crashes + 1
    /\ stream' = IF part \subseteq present /\ part # present
                 THEN [count |-> Cardinality(present), entries |-> part] ELSE stream
    /\ present' = IF Readable(stream') THEN stream'.entries ELSE {}
    /\ bits' = UNION {BitsOf[c] : c \in present'}
    /\ writer' = [w \in Writers |-> Idle]
    /\ collector' = [at |-> "idle", chunk |-> <<>>]
    /\ torn' = torn \cup {Chunk(w) : w \in {v \in Writers : Overtaken(v)}}
    /\ UNCHANGED <<disk, stored, raced, collects>>

-----------------------------------------------------------------------------
(* The collector takes a block out of the index, saves the index and then  *)
(* deletes the block; nothing is stored meanwhile.                         *)

\* remove: the filter keeps its bits.
RemoveFromSet(c) == present' = present \ {c} /\ UNCHANGED bits

Collect(c) ==
    /\ collects < MaxCollects
    /\ collector.at = "idle" /\ \A w \in Writers : writer[w].at = "idle"
    /\ c \in present
    /\ RemoveFromSet(c)
    /\ collector' = [at |-> "save", chunk |-> c]
    /\ collects' = collects + 1
    /\ stored' = {d \in stored : c \notin ToSet(Pieces(d))}
    /\ UNCHANGED <<disk, stream, writer, history, crashes>>

CollectSave ==
    /\ collector.at = "save"
    /\ stream' = Saved
    /\ collector' = [collector EXCEPT !.at = "delete"]
    /\ UNCHANGED <<disk, index, writer, stored, history, crashes, collects>>

\* delete: a block that is not there is no error.
Delete ==
    /\ collector.at = "delete"
    /\ final' = Without(final, collector.chunk)
    /\ collector' = [at |-> "idle", chunk |-> <<>>]
    /\ torn' = torn \ {collector.chunk}
    /\ UNCHANGED <<files, tmp, index, stream, writer, stored, raced, crashes, collects>>

-----------------------------------------------------------------------------
WriterStep(w) ==
    \/ Lookup(w) \/ Confirm(w) \/ Finish(w)
    \/ PutExists(w) \/ PutCreate(w) \/ PutWrite(w) \/ PutRename(w)
    \/ \E p \in Positions : InsertBit(w, p)
    \/ InsertSet(w)

Next ==
    \/ \E w \in Writers : WriterStep(w) \/ \E d \in Data : Start(w, d)
    \/ Save
    \/ \E part \in SUBSET present : Crash(part)
    \/ \E c \in Chunks : Collect(c)
    \/ CollectSave
    \/ Delete

Spec == Init /\ [][Next]_vars
-----------------------------------------------------------------------------
(* Properties.                                                             *)

\* Types of the variables.
TypeOK ==
    /\ \A i \in DOMAIN files : files[i] \in Seq(Nat)
    /\ DOMAIN tmp \subseteq Chunks /\ \A c \in DOMAIN tmp : tmp[c] \in DOMAIN files
    /\ DOMAIN final \subseteq Chunks /\ \A c \in DOMAIN final : final[c] \in DOMAIN files
    /\ bits \subseteq Positions /\ present \subseteq Chunks
    /\ stream.entries \subseteq Chunks
    /\ \A w \in Writers : writer[w].todo \in Seq(Chunks) /\ writer[w].unset \subseteq Positions
    /\ stored \subseteq Data /\ raced \subseteq Chunks /\ torn \subseteq Chunks

\* The file of chunk c is not finished: of two writers that put c at the same
\* time one has been overtaken and is still at it, or was when the process
\* crashed.
Unfinished(c) ==
    c \in raced /\ (c \in torn \/ \E w \in Writers : Overtaken(w) /\ Chunk(w) = c)

\* A file at a final path holds all of the bytes its name is the hash of, with
\* any number of writers putting the same chunk through one temporary path at
\* once, one starting over after another's crash, and one renaming what another
\* has just emptied: only while such a writer is still writing, or for good
\* when a crash stops it, is a part of a block found under its name.
BlocksWhole == \A c \in DOMAIN final : files[final[c]] = c \/ Unfinished(c)

\* The filter has no false negatives, whatever other threads insert at the same
\* moment and after every restart: DefinitelyAbsent is authoritative.
NoFalseNegatives == \A c \in present : BloomCheck(c)

\* What the index calls present, in memory or saved, is in the store: a writer
\* that skips a chunk does not lose it.
IndexedIsStored ==
    /\ present \subseteq DOMAIN final
    /\ Readable(stream) /\ collector.at = "idle" => stream.entries \subseteq DOMAIN final

\* Data that was stored stays in the store, although most of its chunks may
\* have been skipped as duplicates of other data or put by other writers at the
\* same time, and get gives it back byte by byte, except for chunks whose file
\* an overtaken writer has not finished.
StoredIsReadable ==
    \A d \in stored :
        LET read == [k \in DOMAIN Pieces(d) |-> Get(Pieces(d)[k])]
        IN  /\ \A c \in ToSet(Pieces(d)) : Exists(c) /\ (Get(c) = c \/ Unfinished(c))
            /\ NotFound \notin ToSet(read) => FlattenSeq(read) = d
=============================================================================
