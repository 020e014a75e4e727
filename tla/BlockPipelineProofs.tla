------------------------ MODULE BlockPipelineProofs ------------------------
(***************************************************************************)
(* Theorems about the block library for any writers, data, block size and  *)
(* filter, with any number of writers putting the same chunk at once.      *)
(***************************************************************************)
EXTENDS BlockPipeline, FiniteSetTheorems, SequenceTheorems, SequenceLemmas, TLAPS

\* A piece of a sequence that has a first and a last element is one.
LEMMA SubSeqType ==
    ASSUME NEW S, NEW s \in Seq(S), NEW a \in Nat, NEW z \in Nat,
           1 <= a, a <= z, z <= Len(s)
    PROVE  SubSeq(s, a, z) \in Seq(S) /\ SubSeq(s, a, z) # <<>>
<1>1. SubSeq(s, a, z) \in Seq(S) /\ Len(SubSeq(s, a, z)) = z - a + 1
  OBVIOUS
<1>2. z - a + 1 # 0
  OBVIOUS
<1>3. Len(<<>>) = 0
  OBVIOUS
<1> QED
  BY <1>1, <1>2, <1>3

USE ConstantsAssumption

\* What a writer's state is made of.
WriterState ==
    [at : {"idle", "lookup", "confirm", "put", "create", "write", "rename", "insert"},
     data : Data \cup {<<>>}, todo : Seq(Chunks), fd : Nat, pos : Nat,
     unset : SUBSET Positions]

\* A writer works on data, and past its first look on a chunk of them; while it
\* writes it has a file and bytes left.
WriterOK(w) ==
    /\ writer[w].at # "idle" => writer[w].data \in Data
    /\ writer[w].at \notin {"idle", "lookup"} => writer[w].todo # <<>>
    /\ writer[w].at = "write" => /\ writer[w].fd \in DOMAIN files
                                 /\ writer[w].pos < Len(Chunk(w))

\* The type invariant with what makes it inductive.
TypeInv ==
    /\ IsFiniteSet(DOMAIN files) /\ DOMAIN files \subseteq Nat
    /\ files \in [DOMAIN files -> Seq(Nat)]
    /\ DOMAIN tmp \subseteq Chunks /\ tmp \in [DOMAIN tmp -> DOMAIN files]
    /\ DOMAIN final \subseteq Chunks /\ final \in [DOMAIN final -> DOMAIN files]
    /\ bits \subseteq Positions /\ present \subseteq Chunks
    /\ stream.entries \subseteq Chunks
    /\ writer \in [Writers -> WriterState]
    /\ \A w \in Writers : WriterOK(w)
    /\ collector \in [at : {"idle", "save", "delete"}, chunk : Chunks \cup {<<>>}]
    /\ stored \subseteq Data /\ raced \subseteq Chunks /\ torn \subseteq Chunks
-----------------------------------------------------------------------------
\* Division as FixedChunker uses it: the blocks cover the data, and the last one
\* begins before its end.
LEMMA Blocks ==
    ASSUME NEW n \in Nat
    PROVE  /\ (n + BlockSize - 1) \div BlockSize \in Nat
           /\ \A k \in 1 .. (n + BlockSize - 1) \div BlockSize :
                  /\ (k - 1) * BlockSize \in Nat
                  /\ (k - 1) * BlockSize < n
                  /\ (k - 1) * BlockSize < k * BlockSize
                  /\ k * BlockSize \in Nat
<1> DEFINE q == (n + BlockSize - 1) \div BlockSize
<1>1. q \in Int /\ q >= 0 /\ q * BlockSize <= n + BlockSize - 1
  OBVIOUS
<1>2. ASSUME NEW k \in 1 .. q
      PROVE  /\ (k - 1) * BlockSize \in Nat
             /\ (k - 1) * BlockSize < n
             /\ (k - 1) * BlockSize < k * BlockSize
             /\ k * BlockSize \in Nat
  <2> HIDE DEF q
  <2>1. k \in Nat /\ k >= 1 /\ k <= q /\ q \in Nat
    BY <1>1
  <2>2. q * BlockSize = k * BlockSize + (q - k) * BlockSize
    BY <2>1
  <2>3. (q - k) * BlockSize >= 0 /\ (k - 1) * BlockSize >= 0
    BY <2>1
  <2>4. k * BlockSize = (k - 1) * BlockSize + BlockSize
    BY <2>1
  <2> QED
    BY <1>1, <2>1, <2>2, <2>3, <2>4
<1> QED
  BY <1>1, <1>2

\* Data are cut into chunks that are not empty.
LEMMA PiecesType ==
    ASSUME NEW d \in Data
    PROVE  /\ Pieces(d) \in Seq(Chunks)
           /\ \A c \in ToSet(Pieces(d)) : c \in Seq(Nat \ {0}) /\ c # <<>>
<1> DEFINE q == (Len(d) + BlockSize - 1) \div BlockSize
<1> DEFINE end(k) == IF k * BlockSize < Len(d) THEN k * BlockSize ELSE Len(d)
<1> DEFINE piece(k) == SubSeq(d, (k - 1) * BlockSize + 1, end(k))
<1>1. d \in Seq(Nat \ {0}) /\ Len(d) \in Nat
  OBVIOUS
<1>2. q \in Nat /\ \A k \in 1 .. q : /\ (k - 1) * BlockSize \in Nat
                                     /\ (k - 1) * BlockSize < Len(d)
                                     /\ (k - 1) * BlockSize < k * BlockSize
                                     /\ k * BlockSize \in Nat
  BY <1>1, Blocks
<1>3. Pieces(d) = [k \in 1 .. q |-> piece(k)]
  BY DEF Pieces
<1>4. ASSUME NEW k \in 1 .. q
      PROVE  piece(k) \in Seq(Nat \ {0}) /\ piece(k) # <<>>
  <2> DEFINE a == (k - 1) * BlockSize + 1
             z == end(k)
  <2>1. a \in Nat /\ z \in Nat /\ 1 <= a /\ a <= z /\ z <= Len(d)
    <3> HIDE DEF q
    <3> DEFINE x == (k - 1) * BlockSize
               y == k * BlockSize
    <3>1. x \in Nat /\ y \in Nat /\ x < Len(d) /\ x < y
      BY <1>2
    <3>2. a = x + 1 /\ z = IF y < Len(d) THEN y ELSE Len(d)
      OBVIOUS
    <3> HIDE DEF x, y, a, z
    <3> QED
      BY <1>1, <3>1, <3>2
  <2> HIDE DEF a, z
  <2>2. SubSeq(d, a, z) \in Seq(Nat \ {0}) /\ SubSeq(d, a, z) # <<>>
    BY <1>1, <2>1, SubSeqType
  <2>3. piece(k) = SubSeq(d, a, z)
    BY DEF a, z
  <2> HIDE DEF piece
  <2> QED
    BY <2>2, <2>3
<1> HIDE DEF q, end, piece
<1>5. Pieces(d) \in [1 .. q -> ToSet(Pieces(d))]
  BY <1>3 DEF ToSet
<1>6. ToSet(Pieces(d)) \subseteq Chunks
  BY DEF Chunks
<1>7. Pieces(d) \in Seq(Chunks)
  BY <1>2, <1>5, <1>6
<1>8. ASSUME NEW c \in ToSet(Pieces(d)) PROVE c \in Seq(Nat \ {0}) /\ c # <<>>
  <2>1. PICK k \in 1 .. q : c = piece(k)
    BY <1>3 DEF ToSet
  <2> QED
    BY <1>4, <2>1
<1> QED
  BY <1>7, <1>8

\* A chunk is a sequence of at least one byte, and its bits are positions.
LEMMA ChunkType ==
    ASSUME NEW c \in Chunks
    PROVE  c \in Seq(Nat) /\ Len(c) \in Nat \ {0} /\ BitsOf[c] \subseteq Positions
<1>1. PICK d \in Data : c \in ToSet(Pieces(d))
  BY DEF Chunks
<1>2. c \in Seq(Nat \ {0}) /\ c # <<>>
  BY <1>1, PiecesType
<1> QED
  BY <1>2
-----------------------------------------------------------------------------
\* A function with one more value.
LEMMA WithType ==
    ASSUME NEW S, NEW f, f \in [DOMAIN f -> S], NEW x, NEW v \in S
    PROVE  /\ DOMAIN With(f, x, v) = DOMAIN f \cup {x}
           /\ With(f, x, v) \in [DOMAIN With(f, x, v) -> S]
  BY DEF With

\* A file with a byte written to it is a file.
LEMMA WriteAtType ==
    ASSUME NEW content \in Seq(Nat), NEW k \in Nat \ {0}, NEW b \in Nat
    PROVE  WriteAt(content, k, b) \in Seq(Nat)
<1> DEFINE n == IF k > Len(content) THEN k ELSE Len(content)
<1>1. n \in Nat
  OBVIOUS
<1>2. \A i \in 1 .. n : WriteAt(content, k, b)[i] \in Nat
  BY DEF WriteAt
<1>3. WriteAt(content, k, b) = [i \in 1 .. n |-> WriteAt(content, k, b)[i]]
  BY DEF WriteAt
<1> HIDE DEF n
<1>4. WriteAt(content, k, b) \in [1 .. n -> Nat]
  BY <1>2, <1>3
<1>5. PICK g \in [1 .. n -> Nat] : g = WriteAt(content, k, b)
  BY <1>4
<1>6. g \in Seq(Nat)
  BY <1>1
<1> QED
  BY <1>5, <1>6

\* The chunk of a writer with work left.
LEMMA ChunkOfWriter ==
    ASSUME TypeInv, NEW w \in Writers, writer[w].todo # <<>>
    PROVE  /\ Chunk(w) \in Chunks
           /\ Tail(writer[w].todo) \in Seq(Chunks)
  BY DEF TypeInv, WriterState, Chunk

\* The next file's identity is new.
LEMMA NewFile ==
    ASSUME TypeInv
    PROVE  1 + Cardinality(DOMAIN files) \in Nat
  BY FS_CardinalityType DEF TypeInv

\* The types hold at first.
LEMMA TypeInit == Init => TypeInv
  BY FS_EmptySet DEF Init, TypeInv, WriterOK, WriterState, Idle, Empty, Chunk

\* A step of a writer that leaves the disk and the indexes alone keeps the types
\* when the writer's new state is one.
LEMMA WriterMoves ==
    ASSUME TypeInv, NEW w \in Writers, NEW r \in WriterState,
           writer' = [writer EXCEPT ![w] = r], WriterOK(w)',
           UNCHANGED <<disk, index, stream, collector, history>>, stored' \subseteq Data
    PROVE  TypeInv'
<1>1. \A v \in Writers : WriterOK(v)'
  <2> SUFFICES ASSUME NEW v \in Writers, v # w PROVE WriterOK(v)'
    OBVIOUS
  <2>1. writer'[v] = writer[v] /\ files' = files
    BY DEF TypeInv, disk
  <2> QED
    BY <2>1 DEF TypeInv, WriterOK, Chunk
<1> QED
  BY <1>1 DEF TypeInv, disk, index, history

\* Looking up and confirming.
LEMMA TypeLookup ==
    ASSUME TypeInv, NEW w \in Writers, Lookup(w) \/ Confirm(w) \/ Finish(w)
    PROVE  TypeInv'
<1>0. writer[w] \in WriterState /\ w \in DOMAIN writer /\ stored \subseteq Data
  BY DEF TypeInv
<1>1. CASE Lookup(w)
  <2> DEFINE r == [writer[w] EXCEPT !.at = IF BloomCheck(Chunk(w)) THEN "confirm" ELSE "put"]
  <2>1. writer' = [writer EXCEPT ![w] = r] /\ r \in WriterState
    BY <1>0, <1>1 DEF Lookup, To, WriterState
  <2>2. WriterOK(w)'
    BY <1>0, <1>1, <2>1 DEF Lookup, WriterOK, WriterState, TypeInv
  <2> QED
    BY <1>0, <1>1, <2>1, <2>2, WriterMoves DEF Lookup
<1>2. CASE Confirm(w)
  <2>0. writer[w].todo # <<>> /\ writer[w].data \in Data
    BY <1>2 DEF Confirm, TypeInv, WriterOK
  <2>1. CASE Chunk(w) \in present
    <3> DEFINE r == [writer[w] EXCEPT !.at = "lookup", !.todo = Tail(@), !.fd = 0]
    <3>1. writer' = [writer EXCEPT ![w] = r]
      BY <1>0, <1>2, <2>1 DEF Confirm, NextChunk
    <3>2. r \in WriterState
      BY <1>0, <2>0, ChunkOfWriter DEF WriterState
    <3>3. writer'[w].at = "lookup" /\ writer'[w].data \in Data
      BY <1>0, <2>0, <3>1 DEF WriterState
    <3>4. WriterOK(w)'
      BY <3>3 DEF WriterOK
    <3> QED
      BY <1>0, <1>2, <3>1, <3>2, <3>4, WriterMoves DEF Confirm
  <2>2. CASE Chunk(w) \notin present
    <3> DEFINE r == [writer[w] EXCEPT !.at = "put"]
    <3>1. writer' = [writer EXCEPT ![w] = r] /\ r \in WriterState
      BY <1>0, <1>2, <2>2 DEF Confirm, To, WriterState
    <3>2. WriterOK(w)'
      BY <1>0, <2>0, <3>1 DEF WriterOK, WriterState
    <3> QED
      BY <1>0, <1>2, <3>1, <3>2, WriterMoves DEF Confirm
  <2> QED
    BY <2>1, <2>2
<1>3. CASE Finish(w)
  <2>1. writer' = [writer EXCEPT ![w] = Idle] /\ Idle \in WriterState
    BY <1>3 DEF Finish, Idle, WriterState
  <2>2. WriterOK(w)' /\ stored' \subseteq Data
    BY <1>0, <1>3, <2>1 DEF Finish, WriterOK, Idle, TypeInv
  <2> QED
    BY <1>3, <2>1, <2>2, WriterMoves DEF Finish
<1> QED
  BY <1>1, <1>2, <1>3

\* put and its existence check.
LEMMA TypePutExists ==
    ASSUME TypeInv, NEW w \in Writers, PutExists(w)
    PROVE  TypeInv'
<1>0. writer[w] \in WriterState /\ w \in DOMAIN writer /\ stored \subseteq Data
  BY DEF TypeInv
<1>1. writer[w].todo # <<>> /\ writer[w].data \in Data
  BY DEF PutExists, TypeInv, WriterOK
<1>2. BitsOf[Chunk(w)] \subseteq Positions
  BY <1>1, ChunkOfWriter, ChunkType
<1>3. CASE Exists(Chunk(w))
  <2> DEFINE u == BitsOf[Chunk(w)]
             r == [writer[w] EXCEPT !.at = "insert", !.unset = u]
  <2>1. writer' = [writer EXCEPT ![w] = r]
    BY <1>0, <1>3 DEF PutExists
  <2> HIDE DEF u
  <2>2. r \in WriterState /\ writer'[w] = r
    BY <1>0, <1>2, <2>1 DEF WriterState, u
  <2>3. WriterOK(w)'
    BY <1>0, <1>1, <2>2 DEF WriterOK, WriterState
  <2> QED
    BY <1>0, <2>1, <2>2, <2>3, WriterMoves DEF PutExists
<1>4. CASE ~ Exists(Chunk(w))
  <2> DEFINE r == [writer[w] EXCEPT !.at = "create"]
  <2>1. writer' = [writer EXCEPT ![w] = r] /\ r \in WriterState
    BY <1>0, <1>4 DEF PutExists, To, WriterState
  <2>2. WriterOK(w)'
    BY <1>0, <1>1, <2>1 DEF WriterOK, WriterState
  <2> QED
    BY <1>0, <2>1, <2>2, WriterMoves DEF PutExists
<1> QED
  BY <1>3, <1>4

\* put opens its temporary file.
LEMMA TypePutCreate ==
    ASSUME TypeInv, NEW w \in Writers, PutCreate(w)
    PROVE  TypeInv'
<1> DEFINE c == Chunk(w)
           id == IF c \in DOMAIN tmp THEN tmp[c] ELSE 1 + Cardinality(DOMAIN files)
           r == [writer[w] EXCEPT !.at = "write", !.fd = id, !.pos = 0]
<1>0. writer[w] \in WriterState /\ w \in DOMAIN writer
  BY DEF TypeInv
<1>1. writer[w].todo # <<>> /\ writer[w].data \in Data
  BY DEF PutCreate, TypeInv, WriterOK
<1>2. c \in Chunks /\ Len(c) \in Nat \ {0}
  BY <1>1, ChunkOfWriter, ChunkType
<1>3. id \in Nat
  BY NewFile DEF TypeInv
<1>4. writer' = [writer EXCEPT ![w] = r]
  BY <1>0 DEF PutCreate
<1>5. files' = With(files, id, <<>>)
  BY DEF PutCreate
<1>6. \/ UNCHANGED <<tmp, final>>
      \/ tmp' = With(tmp, c, id) /\ UNCHANGED final
  <2>1. CASE c \in DOMAIN tmp
    BY <2>1 DEF PutCreate
  <2>2. CASE c \notin DOMAIN tmp
    BY <2>2 DEF PutCreate, TmpPath
  <2> QED
    BY <2>1, <2>2
<1> HIDE DEF id
<1>7. /\ DOMAIN files' = DOMAIN files \cup {id}
      /\ files' \in [DOMAIN files' -> Seq(Nat)]
      /\ IsFiniteSet(DOMAIN files') /\ DOMAIN files' \subseteq Nat
  <2>1. files \in [DOMAIN files -> Seq(Nat)] /\ <<>> \in Seq(Nat)
    BY DEF TypeInv
  <2>2. /\ DOMAIN With(files, id, <<>>) = DOMAIN files \cup {id}
        /\ With(files, id, <<>>) \in [DOMAIN With(files, id, <<>>) -> Seq(Nat)]
    BY <2>1, WithType
  <2>3. IsFiniteSet(DOMAIN files \cup {id})
    BY FS_AddElement DEF TypeInv
  <2> QED
    BY <1>3, <1>5, <2>2, <2>3 DEF TypeInv
<1>8. DOMAIN tmp' \subseteq Chunks /\ tmp' \in [DOMAIN tmp' -> DOMAIN files']
  <2>1. tmp \in [DOMAIN tmp -> DOMAIN files'] /\ DOMAIN tmp \subseteq Chunks
    BY <1>7 DEF TypeInv
  <2>2. CASE UNCHANGED <<tmp, final>>
    BY <2>1, <2>2
  <2>3. CASE tmp' = With(tmp, c, id)
    <3> HIDE DEF c
    <3>1. /\ DOMAIN With(tmp, c, id) = DOMAIN tmp \cup {c}
          /\ With(tmp, c, id) \in [DOMAIN With(tmp, c, id) -> DOMAIN files']
      BY <1>7, <2>1, WithType
    <3> QED
      BY <1>2, <2>1, <2>3, <3>1
  <2> QED
    BY <1>6, <2>2, <2>3
<1>9. r \in WriterState
  BY <1>0, <1>3 DEF WriterState
<1>10. \A v \in Writers : WriterOK(v)'
  <2>1. writer'[w] = r /\ r.at = "write" /\ r.data \in Data /\ r.todo = writer[w].todo
        /\ r.fd = id /\ r.pos = 0
    BY <1>0, <1>1, <1>4 DEF WriterState
  <2>2. WriterOK(w)'
    BY <1>1, <1>2, <1>7, <2>1 DEF WriterOK, Chunk
  <2>3. ASSUME NEW v \in Writers, v # w PROVE WriterOK(v)'
    <3>1. writer'[v] = writer[v] /\ DOMAIN files \subseteq DOMAIN files'
      BY <1>4, <1>7, <2>3 DEF TypeInv
    <3> QED
      BY <3>1 DEF TypeInv, WriterOK, Chunk
  <2> QED
    BY <2>2, <2>3
<1>11. UNCHANGED <<index, stream, collector, stored, torn>> /\ UNCHANGED final
  BY <1>6 DEF PutCreate
<1>12. final' \in [DOMAIN final' -> DOMAIN files'] /\ DOMAIN final' \subseteq Chunks
  BY <1>7, <1>11 DEF TypeInv
<1>13. writer' \in [Writers -> WriterState]
  BY <1>4, <1>9 DEF TypeInv
<1>14. raced' \subseteq Chunks
  BY <1>2 DEF PutCreate, TypeInv
<1> QED
  BY <1>7, <1>8, <1>10, <1>11, <1>12, <1>13, <1>14 DEF TypeInv, index

\* put writes a byte.
LEMMA TypePutWrite ==
    ASSUME TypeInv, NEW w \in Writers, PutWrite(w)
    PROVE  TypeInv'
<1> DEFINE k == writer[w].pos + 1
           fd == writer[w].fd
           r == [writer[w] EXCEPT !.pos = k,
                                  !.at = IF k = Len(Chunk(w)) THEN "rename" ELSE @]
           content == WriteAt(files[fd], k, Chunk(w)[k])
<1>0. writer[w] \in WriterState /\ w \in DOMAIN writer
  BY DEF TypeInv
<1>1. /\ writer[w].at = "write" /\ writer[w].todo # <<>> /\ writer[w].data \in Data
      /\ fd \in DOMAIN files /\ writer[w].pos < Len(Chunk(w))
  BY DEF PutWrite, TypeInv, WriterOK
<1>2. Chunk(w) \in Seq(Nat) /\ k \in Nat \ {0} /\ k <= Len(Chunk(w))
  <2>1. Chunk(w) \in Seq(Nat) /\ Len(Chunk(w)) \in Nat
    BY <1>1, ChunkOfWriter, ChunkType
  <2>2. writer[w].pos \in Nat
    BY <1>0 DEF WriterState
  <2> QED
    BY <1>1, <2>1, <2>2
<1>3. content \in Seq(Nat)
  <2>1. files[fd] \in Seq(Nat)
    BY <1>1 DEF TypeInv
  <2>2. Chunk(w)[k] \in Nat
    BY <1>2
  <2> QED
    BY <1>2, <2>1, <2>2, WriteAtType
<1>4. files' = [files EXCEPT ![fd] = content] /\ writer' = [writer EXCEPT ![w] = r]
  BY <1>0 DEF PutWrite
<1> HIDE DEF content
<1>5. DOMAIN files' = DOMAIN files /\ files' \in [DOMAIN files -> Seq(Nat)]
  BY <1>1, <1>3, <1>4 DEF TypeInv
<1>6. r \in WriterState /\ writer'[w] = r
  BY <1>0, <1>2, <1>4 DEF WriterState
<1>7. \A v \in Writers : WriterOK(v)'
  <2>1. /\ r.data = writer[w].data /\ r.todo = writer[w].todo /\ r.fd = fd /\ r.pos = k
        /\ r.at = (IF k = Len(Chunk(w)) THEN "rename" ELSE "write")
    BY <1>0, <1>1 DEF WriterState
  <2>2. WriterOK(w)'
    <3>1. Len(Chunk(w)) \in Nat /\ Chunk(w)' = Chunk(w)
      BY <1>2, <1>6, <2>1 DEF Chunk
    <3>2. r.at = "write" => k < Len(Chunk(w))
      BY <1>2, <2>1, <3>1
    <3> HIDE DEF r
    <3> QED
      BY <1>1, <1>5, <1>6, <2>1, <3>1, <3>2 DEF WriterOK
  <2>3. ASSUME NEW v \in Writers, v # w PROVE WriterOK(v)'
    <3>1. writer'[v] = writer[v]
      BY <1>4, <2>3 DEF TypeInv
    <3> QED
      BY <1>5, <3>1 DEF TypeInv, WriterOK, Chunk
  <2> QED
    BY <2>2, <2>3
<1>8. writer' \in [Writers -> WriterState]
  BY <1>4, <1>6 DEF TypeInv
<1>9. UNCHANGED <<tmp, final, index, stream, collector, stored, history>>
  BY DEF PutWrite
<1> QED
  BY <1>5, <1>7, <1>8, <1>9 DEF TypeInv, index, history

\* put renames its file, or fails.
LEMMA TypePutRename ==
    ASSUME TypeInv, NEW w \in Writers, PutRename(w)
    PROVE  TypeInv'
<1> DEFINE c == Chunk(w)
           u == BitsOf[c]
<1>0. writer[w] \in WriterState /\ w \in DOMAIN writer
  BY DEF TypeInv
<1>1. writer[w].todo # <<>> /\ writer[w].data \in Data
  BY DEF PutRename, TypeInv, WriterOK
<1>2. c \in Chunks /\ u \subseteq Positions
  BY <1>1, ChunkOfWriter, ChunkType
<1>3. CASE c \notin DOMAIN tmp
  <2>1. writer' = [writer EXCEPT ![w] = Idle] /\ Idle \in WriterState
    BY <1>3 DEF PutRename, Idle, WriterState
  <2>2. WriterOK(w)'
    BY <1>0, <2>1 DEF WriterOK, Idle
  <2>3. UNCHANGED <<disk, index, stream, collector, history>> /\ stored' \subseteq Data
    BY <1>3 DEF PutRename, disk, TypeInv
  <2> QED
    BY <2>1, <2>2, <2>3, WriterMoves
<1>4. CASE c \in DOMAIN tmp
  <2> DEFINE r == [writer[w] EXCEPT !.at = "insert", !.fd = 0, !.unset = u]
  <2>1. writer' = [writer EXCEPT ![w] = r]
    BY <1>0, <1>4 DEF PutRename
  <2>2. final' = With(final, c, tmp[c]) /\ tmp' = Without(tmp, c) /\ UNCHANGED files
    BY <1>4 DEF PutRename
  <2> HIDE DEF u
  <2>3. r \in WriterState
    BY <1>0, <1>2 DEF WriterState
  <2>4. \A v \in Writers : WriterOK(v)'
    <3>1. writer'[w] = r /\ r.at = "insert" /\ r.data \in Data /\ r.todo = writer[w].todo
      BY <1>0, <1>1, <2>1 DEF WriterState
    <3>2. WriterOK(w)'
      BY <1>1, <3>1 DEF WriterOK
    <3>3. ASSUME NEW v \in Writers, v # w PROVE WriterOK(v)'
      <4>1. writer'[v] = writer[v]
        BY <2>1, <3>3 DEF TypeInv
      <4> QED
        BY <2>2, <4>1 DEF TypeInv, WriterOK, Chunk
    <3> QED
      BY <3>2, <3>3
  <2>5. writer' \in [Writers -> WriterState]
    BY <2>1, <2>3 DEF TypeInv
  <2>6. DOMAIN final' \subseteq Chunks /\ final' \in [DOMAIN final' -> DOMAIN files']
    <3> HIDE DEF c
    <3>1. tmp[c] \in DOMAIN files /\ final \in [DOMAIN final -> DOMAIN files]
      BY <1>4 DEF TypeInv
    <3>2. /\ DOMAIN With(final, c, tmp[c]) = DOMAIN final \cup {c}
          /\ With(final, c, tmp[c]) \in [DOMAIN With(final, c, tmp[c]) -> DOMAIN files]
      BY <3>1, WithType
    <3> QED
      BY <1>2, <2>2, <3>2 DEF TypeInv
  <2>7. DOMAIN tmp' \subseteq Chunks /\ tmp' \in [DOMAIN tmp' -> DOMAIN files']
    BY <2>2 DEF TypeInv, Without
  <2>8. UNCHANGED <<index, stream, collector, stored, history>>
    BY DEF PutRename
  <2> QED
    BY <2>2, <2>4, <2>5, <2>6, <2>7, <2>8 DEF TypeInv, index, history
<1> QED
  BY <1>3, <1>4

\* insert, both halves.
LEMMA TypeInsert ==
    ASSUME TypeInv, NEW w \in Writers,
           InsertSet(w) \/ \E p \in Positions : InsertBit(w, p)
    PROVE  TypeInv'
<1>0. writer[w] \in WriterState /\ w \in DOMAIN writer
  BY DEF TypeInv
<1>1. writer[w].at = "insert" /\ writer[w].todo # <<>> /\ writer[w].data \in Data
  BY DEF InsertSet, InsertReady, InsertBit, TypeInv, WriterOK
<1>2. ASSUME NEW r \in WriterState, writer' = [writer EXCEPT ![w] = r],
             r.at \in {"lookup", "insert"}, r.data \in Data,
             r.at = "insert" => r.todo # <<>>,
             bits' \subseteq Positions, present' \subseteq Chunks,
             UNCHANGED <<disk, stream, collector, stored, history>>
      PROVE  TypeInv'
  <2>1. WriterOK(w)'
    BY <1>0, <1>2 DEF WriterOK
  <2>2. ASSUME NEW v \in Writers, v # w PROVE WriterOK(v)'
    <3>1. writer'[v] = writer[v] /\ files' = files
      BY <1>2, <2>2 DEF TypeInv, disk
    <3> QED
      BY <3>1 DEF TypeInv, WriterOK, Chunk
  <2>3. writer' \in [Writers -> WriterState]
    BY <1>2 DEF TypeInv
  <2> QED
    BY <1>2, <2>1, <2>2, <2>3 DEF TypeInv, disk, history
<1>3. CASE InsertSet(w)
  <2> DEFINE r == [writer[w] EXCEPT !.at = "lookup", !.todo = Tail(@), !.fd = 0]
  <2>1. writer' = [writer EXCEPT ![w] = r]
    BY <1>0, <1>3 DEF InsertSet, NextChunk
  <2>2. r \in WriterState /\ r.at = "lookup" /\ r.data \in Data
    BY <1>0, <1>1, ChunkOfWriter DEF WriterState
  <2>3. bits' \subseteq Positions /\ present' \subseteq Chunks
        /\ UNCHANGED <<disk, stream, collector, stored, history>>
    BY <1>1, <1>3, ChunkOfWriter DEF InsertSet, TypeInv
  <2> HIDE DEF r
  <2> QED
    BY <1>2, <2>1, <2>2, <2>3
<1>4. ASSUME NEW p \in Positions, InsertBit(w, p) PROVE TypeInv'
  <2> DEFINE u == writer[w].unset \ {p}
             r == [writer[w] EXCEPT !.unset = u]
  <2>1. writer' = [writer EXCEPT ![w] = r]
    BY <1>0, <1>4 DEF InsertBit
  <2>2. u \subseteq Positions
    BY <1>0 DEF WriterState
  <2> HIDE DEF u
  <2>3. r \in WriterState /\ r.at = "insert" /\ r.data \in Data /\ r.todo # <<>>
    BY <1>0, <1>1, <2>2 DEF WriterState
  <2>4. bits' \subseteq Positions /\ present' \subseteq Chunks
        /\ UNCHANGED <<disk, stream, collector, stored, history>>
    BY <1>4 DEF InsertBit, TypeInv
  <2> HIDE DEF r
  <2> QED
    BY <1>2, <2>1, <2>3, <2>4
<1> QED
  BY <1>3, <1>4

\* A writer starts.
LEMMA TypeStart ==
    ASSUME TypeInv, NEW w \in Writers, NEW d \in Data, Start(w, d)
    PROVE  TypeInv'
<1> DEFINE p == Pieces(d)
           r == [Idle EXCEPT !.at = "lookup", !.data = d, !.todo = p]
<1>1. Idle \in WriterState
  BY DEF Idle, WriterState
<1>2. writer' = [writer EXCEPT ![w] = r]
  BY DEF Start
<1>3. p \in Seq(Chunks)
  BY PiecesType
<1> HIDE DEF p
<1>4. r \in WriterState /\ r.at = "lookup" /\ r.data = d
  BY <1>1, <1>3 DEF WriterState
<1> HIDE DEF r
<1>5. WriterOK(w)'
  BY <1>2, <1>4 DEF WriterOK, TypeInv
<1>6. UNCHANGED <<disk, index, stream, collector, history>> /\ stored' \subseteq Data
  BY DEF Start, TypeInv
<1> QED
  BY <1>2, <1>4, <1>5, <1>6, WriterMoves

\* A crash and the index that comes up after it.
LEMMA TypeCrash ==
    ASSUME TypeInv, NEW part \in SUBSET present, Crash(part)
    PROVE  TypeInv'
<1>1. stream'.entries \subseteq Chunks
  BY DEF Crash, TypeInv
<1>2. present' \subseteq Chunks
  BY <1>1 DEF Crash
<1>3. bits' \subseteq Positions
  <2>1. bits' = UNION {BitsOf[c] : c \in present'}
    BY DEF Crash
  <2> SUFFICES ASSUME NEW b \in bits' PROVE b \in Positions
    OBVIOUS
  <2>2. PICK c \in present' : b \in BitsOf[c]
    BY <2>1
  <2> QED
    BY <1>2, <2>2, ChunkType
<1>4. writer' \in [Writers -> WriterState] /\ \A w \in Writers : WriterOK(w)'
  BY DEF Crash, WriterState, WriterOK, Idle
<1>5. collector' \in [at : {"idle", "save", "delete"}, chunk : Chunks \cup {<<>>}]
  BY DEF Crash
<1>6. UNCHANGED <<files, tmp, final, stored, raced>>
  BY DEF Crash, disk
<1>7. torn' \subseteq Chunks
  <2>1. ASSUME NEW w \in Writers, Overtaken(w) PROVE Chunk(w) \in Chunks
    BY <2>1, ChunkOfWriter DEF Overtaken, TypeInv, WriterOK
  <2> QED
    BY <2>1 DEF Crash, TypeInv
<1> QED
  BY <1>1, <1>2, <1>3, <1>4, <1>5, <1>6, <1>7 DEF TypeInv

\* Saving the index, and the collector.
LEMMA TypeCollector ==
    ASSUME TypeInv,
           Save \/ CollectSave \/ Delete \/ \E c \in Chunks : Collect(c)
    PROVE  TypeInv'
<1>1. CASE Save
  BY <1>1 DEF Save, Saved, TypeInv, WriterOK, Chunk, disk, index, history
<1>2. CASE CollectSave
  BY <1>2 DEF CollectSave, Saved, TypeInv, WriterOK, Chunk, disk, index, history
<1>3. CASE Delete
  <2>1. DOMAIN final' \subseteq Chunks /\ final' \in [DOMAIN final' -> DOMAIN files']
    BY <1>3 DEF Delete, Without, TypeInv
  <2>2. UNCHANGED <<files, tmp, bits, present, stream, writer, stored, raced>>
    BY <1>3 DEF Delete, index
  <2>3. collector' \in [at : {"idle", "save", "delete"}, chunk : Chunks \cup {<<>>}]
    BY <1>3 DEF Delete
  <2>4. torn' \subseteq Chunks
    BY <1>3 DEF Delete, TypeInv
  <2> QED
    BY <2>1, <2>2, <2>3, <2>4 DEF TypeInv, WriterOK, Chunk
<1>4. ASSUME NEW c \in Chunks, Collect(c) PROVE TypeInv'
  BY <1>4 DEF Collect, RemoveFromSet, TypeInv, WriterOK, Chunk, disk, history
<1> QED
  BY <1>1, <1>2, <1>3, <1>4

\* Every step keeps the types.
LEMMA TypeNext == TypeInv /\ [Next]_vars => TypeInv'
<1> SUFFICES ASSUME TypeInv, [Next]_vars PROVE TypeInv'
  OBVIOUS
<1>1. ASSUME NEW w \in Writers, WriterStep(w) PROVE TypeInv'
  BY <1>1, TypeLookup, TypePutExists, TypePutCreate, TypePutWrite, TypePutRename,
     TypeInsert DEF WriterStep
<1>2. CASE UNCHANGED vars
  BY <1>2 DEF vars, disk, index, TypeInv, WriterOK, Chunk, history
<1> QED
  BY <1>1, <1>2, TypeStart, TypeCrash, TypeCollector DEF Next

\* The variables keep their types, for any writers, data and block size: in
\* particular put never writes past the end of a chunk and never to a file
\* that is gone.
THEOREM TypeCorrect == Spec => []TypeOK
<1>1. TypeInv => TypeOK
  BY DEF TypeInv, TypeOK, WriterState
<1> QED
  BY <1>1, TypeInit, TypeNext, PTL DEF Spec
-----------------------------------------------------------------------------
\* A writer in the middle of insert has set all bits but those it still has to.
BitsInserted ==
    \A w \in Writers : writer[w].at = "insert" =>
        BitsOf[Chunk(w)] \subseteq bits \cup writer[w].unset

\* The inductive invariant of the filter.
FilterInv == TypeInv /\ BitsInserted /\ NoFalseNegatives

\* The bits only grow, but for a crash, and the set grows by InsertSet only.
LEMMA FilterGrows ==
    ASSUME FilterInv, bits \subseteq bits', present' \subseteq present
    PROVE  NoFalseNegatives'
  BY DEF FilterInv, NoFalseNegatives, BloomCheck

\* A step of a writer that does not end in insert keeps what the others have set.
LEMMA BitsKept ==
    ASSUME FilterInv, NEW w \in Writers, bits \subseteq bits',
           \A v \in Writers : v # w => writer'[v] = writer[v],
           writer'[w].at # "insert"
    PROVE  BitsInserted'
<1> SUFFICES ASSUME NEW v \in Writers, writer'[v].at = "insert"
             PROVE  (BitsOf[Chunk(v)] \subseteq bits \cup writer[v].unset)'
  BY DEF BitsInserted
<1>1. writer'[v] = writer[v]
  OBVIOUS
<1> QED
  BY <1>1 DEF FilterInv, BitsInserted, Chunk

\* Every step of a writer keeps the filter ahead of the set.
LEMMA FilterWriter ==
    ASSUME FilterInv, NEW w \in Writers, WriterStep(w)
    PROVE  (BitsInserted /\ NoFalseNegatives)'
<1>0. writer \in [Writers -> WriterState] /\ writer[w] \in WriterState
  BY DEF FilterInv, TypeInv
<1>1. CASE Lookup(w) \/ Confirm(w) \/ Finish(w) \/ PutCreate(w) \/ PutWrite(w)
  <2>1. \A v \in Writers : v # w => writer'[v] = writer[v]
    BY <1>0, <1>1 DEF Lookup, Confirm, Finish, PutCreate, PutWrite, To, NextChunk
  <2>2. writer'[w].at # "insert"
    BY <1>0, <1>1 DEF Lookup, Confirm, Finish, PutCreate, PutWrite, To, NextChunk, Idle,
                      WriterState
  <2>3. bits' = bits /\ present' = present
    BY <1>1 DEF Lookup, Confirm, Finish, PutCreate, PutWrite, index
  <2> QED
    BY <2>1, <2>2, <2>3, BitsKept, FilterGrows
<1>2. CASE PutExists(w) \/ PutRename(w)
  <2>1. bits' = bits /\ present' = present
    BY <1>2 DEF PutExists, PutRename, index
  <2>2. \A v \in Writers : v # w => writer'[v] = writer[v]
    BY <1>0, <1>2 DEF PutExists, PutRename, To
  <2>3. CASE writer'[w].at # "insert"
    BY <2>1, <2>2, <2>3, BitsKept, FilterGrows
  <2>4. CASE writer'[w].at = "insert"
    <3>1. writer'[w].unset = BitsOf[Chunk(w)] /\ writer'[w].todo = writer[w].todo
      BY <1>0, <1>2, <2>4 DEF PutExists, PutRename, To, Idle, WriterState
    <3>2. Chunk(w)' = Chunk(w)
      BY <3>1 DEF Chunk
    <3>3. ASSUME NEW v \in Writers, writer'[v].at = "insert"
          PROVE  (BitsOf[Chunk(v)] \subseteq bits \cup writer[v].unset)'
      <4>1. CASE v = w
        BY <3>1, <3>2, <4>1
      <4>2. CASE v # w
        BY <2>1, <2>2, <3>3, <4>2 DEF FilterInv, BitsInserted, Chunk
      <4> QED
        BY <4>1, <4>2
    <3> QED
      BY <2>1, <3>3, FilterGrows DEF BitsInserted
  <2> QED
    BY <2>3, <2>4
<1>3. ASSUME NEW p \in Positions, InsertBit(w, p)
      PROVE  (BitsInserted /\ NoFalseNegatives)'
  <2>1. bits' = bits \cup {p} /\ present' = present
    BY <1>3 DEF InsertBit
  <2>2. /\ writer'[w].unset = writer[w].unset \ {p} /\ writer'[w].todo = writer[w].todo
        /\ writer[w].at = "insert"
        /\ \A v \in Writers : v # w => writer'[v] = writer[v]
    BY <1>0, <1>3 DEF InsertBit, WriterState
  <2>3. ASSUME NEW v \in Writers, writer'[v].at = "insert"
        PROVE  (BitsOf[Chunk(v)] \subseteq bits \cup writer[v].unset)'
    <3>1. CASE v = w
      BY <2>1, <2>2, <3>1 DEF FilterInv, BitsInserted, Chunk
    <3>2. CASE v # w
      BY <2>1, <2>2, <2>3, <3>2 DEF FilterInv, BitsInserted, Chunk
    <3> QED
      BY <3>1, <3>2
  <2> QED
    BY <2>1, <2>3, FilterGrows DEF BitsInserted
<1>4. CASE InsertSet(w)
  <2>1. bits' = bits /\ present' = present \cup {Chunk(w)}
    BY <1>4 DEF InsertSet
  <2>2. writer'[w].at # "insert" /\ \A v \in Writers : v # w => writer'[v] = writer[v]
    BY <1>0, <1>4 DEF InsertSet, NextChunk, WriterState
  <2>3. BitsOf[Chunk(w)] \subseteq bits
    BY <1>4 DEF InsertSet, InsertReady, FilterInv, BitsInserted
  <2> QED
    BY <2>1, <2>2, <2>3, BitsKept DEF FilterInv, NoFalseNegatives, BloomCheck
<1> QED
  BY <1>1, <1>2, <1>3, <1>4 DEF WriterStep

\* Every step keeps the invariant of the filter.
LEMMA FilterNext == FilterInv /\ [Next]_vars => FilterInv'
<1> SUFFICES ASSUME FilterInv, [Next]_vars PROVE FilterInv'
  OBVIOUS
<1>0. TypeInv'
  BY TypeNext DEF FilterInv
<1>1. ASSUME NEW w \in Writers, WriterStep(w) PROVE FilterInv'
  BY <1>0, <1>1, FilterWriter DEF FilterInv
<1>2. ASSUME NEW w \in Writers, NEW d \in Data, Start(w, d) PROVE FilterInv'
  <2>1. writer'[w].at # "insert" /\ \A v \in Writers : v # w => writer'[v] = writer[v]
    BY <1>2 DEF Start, Idle, FilterInv, TypeInv, WriterState
  <2>2. bits' = bits /\ present' = present
    BY <1>2 DEF Start, index
  <2> QED
    BY <1>0, <2>1, <2>2, BitsKept, FilterGrows DEF FilterInv
<1>3. ASSUME NEW part \in SUBSET present, Crash(part) PROVE FilterInv'
  <2>1. bits' = UNION {BitsOf[c] : c \in present'}
    BY <1>3 DEF Crash
  <2>2. \A w \in Writers : writer'[w].at = "idle"
    BY <1>3 DEF Crash, Idle
  <2> QED
    BY <1>0, <2>1, <2>2 DEF FilterInv, BitsInserted, NoFalseNegatives, BloomCheck
<1>4. CASE Save \/ CollectSave \/ Delete \/ UNCHANGED vars \/ \E c \in Chunks : Collect(c)
  <2>1. bits' = bits /\ present' \subseteq present /\ writer' = writer
    BY <1>4 DEF Save, CollectSave, Delete, Collect, RemoveFromSet, vars, index
  <2> QED
    BY <1>0, <2>1, FilterGrows DEF FilterInv, BitsInserted, Chunk
<1> QED
  BY <1>1, <1>2, <1>3, <1>4 DEF Next

\* The bloom filter has no false negatives, for any number of writers that set
\* their bits one by one, any filter and any saves, crashes and collections.
THEOREM FilterSound == Spec => []NoFalseNegatives
<1>1. Init => FilterInv
  BY TypeInit DEF Init, FilterInv, BitsInserted, NoFalseNegatives, Idle
<1>2. FilterInv => NoFalseNegatives
  BY DEF FilterInv
<1> QED
  BY <1>1, <1>2, FilterNext, PTL DEF Spec
-----------------------------------------------------------------------------
\* A writer inserts what it, or another one, has put.
PutBeforeInsert ==
    \A w \in Writers : writer[w].at = "insert" => Chunk(w) \in DOMAIN final

\* While a block is collected nobody writes, and the block is in neither index
\* by the time it is deleted.
CollectorOK ==
    /\ collector.at # "idle" => /\ \A w \in Writers : writer[w].at = "idle"
                                /\ collector.chunk \notin present
    /\ collector.at = "delete" => collector.chunk \notin stream.entries

\* The inductive invariant of the index.  It says more than IndexedIsStored of
\* the saved index: what it names is stored whether it is whole or torn.
IndexInv ==
    /\ TypeInv /\ PutBeforeInsert /\ CollectorOK
    /\ present \subseteq DOMAIN final
    /\ stream.entries \subseteq DOMAIN final

\* Every step of a writer happens while nothing is collected, deletes nothing
\* and inserts what is stored.
LEMMA IndexWriter ==
    ASSUME IndexInv, NEW w \in Writers, WriterStep(w)
    PROVE  /\ PutBeforeInsert' /\ CollectorOK'
           /\ present' \subseteq DOMAIN final' /\ stream'.entries \subseteq DOMAIN final'
<1>0. writer \in [Writers -> WriterState] /\ writer[w] \in WriterState
  BY DEF IndexInv, TypeInv
<1>1. collector.at = "idle"
  BY DEF IndexInv, CollectorOK, WriterStep, Lookup, Confirm, Finish, PutExists, PutCreate,
         PutWrite, PutRename, InsertBit, InsertSet, InsertReady
<1>2. collector' = collector /\ stream' = stream
  BY DEF WriterStep, Lookup, Confirm, Finish, PutExists, PutCreate,
         PutWrite, PutRename, InsertBit, InsertSet
<1>3. CollectorOK'
  BY <1>1, <1>2 DEF CollectorOK
<1>4. ASSUME DOMAIN final \subseteq DOMAIN final',
             present' \subseteq present \cup {Chunk(w)},
             Chunk(w) \in DOMAIN final' \/ present' \subseteq present,
             \A v \in Writers : v # w => writer'[v] = writer[v],
             writer'[w].at = "insert" =>
                 Chunk(w) \in DOMAIN final' /\ writer'[w].todo = writer[w].todo
      PROVE  /\ PutBeforeInsert'
             /\ present' \subseteq DOMAIN final' /\ stream'.entries \subseteq DOMAIN final'
  <2>1. PutBeforeInsert'
    <3> SUFFICES ASSUME NEW v \in Writers, writer'[v].at = "insert"
                 PROVE  Chunk(v)' \in DOMAIN final'
      BY DEF PutBeforeInsert
    <3>1. CASE v = w
      BY <1>4, <3>1 DEF Chunk
    <3>2. CASE v # w
      BY <1>4, <3>2 DEF IndexInv, PutBeforeInsert, Chunk
    <3> QED
      BY <3>1, <3>2
  <2>2. present' \subseteq DOMAIN final' /\ stream'.entries \subseteq DOMAIN final'
    BY <1>2, <1>4 DEF IndexInv
  <2> QED
    BY <2>1, <2>2
<1>5. CASE Lookup(w) \/ Confirm(w) \/ Finish(w) \/ PutWrite(w)
  <2>1. final' = final /\ present' = present
    BY <1>5 DEF Lookup, Confirm, Finish, PutWrite, disk, index
  <2>2. writer'[w].at # "insert" /\ \A v \in Writers : v # w => writer'[v] = writer[v]
    BY <1>0, <1>5 DEF Lookup, Confirm, Finish, PutWrite, To, NextChunk, Idle, WriterState
  <2> QED
    BY <1>3, <1>4, <2>1, <2>2
<1>6. CASE PutCreate(w)
  <2>1. final' = final /\ present' = present
    BY <1>6 DEF PutCreate, TmpPath, index
  <2>2. writer'[w].at # "insert" /\ \A v \in Writers : v # w => writer'[v] = writer[v]
    BY <1>0, <1>6 DEF PutCreate, WriterState
  <2> QED
    BY <1>3, <1>4, <2>1, <2>2
<1>7. CASE PutExists(w)
  <2>1. final' = final /\ present' = present
    BY <1>7 DEF PutExists, disk, index
  <2>2. /\ writer'[w].at = "insert" =>
              Chunk(w) \in DOMAIN final /\ writer'[w].todo = writer[w].todo
        /\ \A v \in Writers : v # w => writer'[v] = writer[v]
    BY <1>0, <1>7 DEF PutExists, Exists, To, WriterState
  <2> QED
    BY <1>3, <1>4, <2>1, <2>2
<1>8. CASE PutRename(w)
  <2>1. present' = present /\ \A v \in Writers : v # w => writer'[v] = writer[v]
    BY <1>0, <1>8 DEF PutRename, index
  <2>2. CASE Chunk(w) \in DOMAIN tmp
    <3>1. DOMAIN final' = DOMAIN final \cup {Chunk(w)}
      BY <1>8, <2>2 DEF PutRename, With
    <3>2. writer'[w].todo = writer[w].todo
      BY <1>0, <1>8, <2>2 DEF PutRename, WriterState
    <3> QED
      BY <1>3, <1>4, <2>1, <3>1, <3>2
  <2>3. CASE Chunk(w) \notin DOMAIN tmp
    <3>1. final' = final /\ writer'[w].at # "insert"
      BY <1>0, <1>8, <2>3 DEF PutRename, Idle, WriterState
    <3> QED
      BY <1>3, <1>4, <2>1, <3>1
  <2> QED
    BY <2>2, <2>3
<1>9. ASSUME writer[w].at = "insert" PROVE Chunk(w) \in DOMAIN final
  BY <1>9 DEF IndexInv, PutBeforeInsert
<1>10. ASSUME NEW p \in Positions, InsertBit(w, p)
       PROVE  /\ PutBeforeInsert' /\ CollectorOK' /\ present' \subseteq DOMAIN final'
              /\ stream'.entries \subseteq DOMAIN final'
  <2>1. final' = final /\ present' = present /\ writer[w].at = "insert"
    BY <1>10 DEF InsertBit, disk
  <2>2. /\ writer'[w].todo = writer[w].todo
        /\ \A v \in Writers : v # w => writer'[v] = writer[v]
    BY <1>0, <1>10 DEF InsertBit, WriterState
  <2> QED
    BY <1>3, <1>4, <1>9, <2>1, <2>2
<1>11. CASE InsertSet(w)
  <2>1. final' = final /\ present' = present \cup {Chunk(w)} /\ writer[w].at = "insert"
    BY <1>11 DEF InsertSet, InsertReady, disk
  <2>2. writer'[w].at # "insert" /\ \A v \in Writers : v # w => writer'[v] = writer[v]
    BY <1>0, <1>11 DEF InsertSet, NextChunk, WriterState
  <2> QED
    BY <1>3, <1>4, <1>9, <2>1, <2>2
<1> QED
  BY <1>5, <1>6, <1>7, <1>8, <1>10, <1>11 DEF WriterStep

\* Every step keeps the invariant of the index.
LEMMA IndexNext == IndexInv /\ [Next]_vars => IndexInv'
<1> SUFFICES ASSUME IndexInv, [Next]_vars PROVE IndexInv'
  OBVIOUS
<1>0. TypeInv'
  BY TypeNext DEF IndexInv
<1>1. ASSUME NEW w \in Writers, WriterStep(w) PROVE IndexInv'
  BY <1>0, <1>1, IndexWriter DEF IndexInv
<1>2. ASSUME NEW w \in Writers, NEW d \in Data, Start(w, d) PROVE IndexInv'
  <2>1. writer'[w].at # "insert" /\ \A v \in Writers : v # w => writer'[v] = writer[v]
    BY <1>2 DEF Start, Idle, IndexInv, TypeInv, WriterState
  <2>2. UNCHANGED <<final, present, stream, collector>> /\ collector.at = "idle"
    BY <1>2 DEF Start, disk, index
  <2>3. PutBeforeInsert' /\ CollectorOK'
    BY <2>1, <2>2 DEF IndexInv, PutBeforeInsert, CollectorOK, Chunk
  <2> QED
    BY <1>0, <2>2, <2>3 DEF IndexInv
<1>3. ASSUME NEW part \in SUBSET present, Crash(part) PROVE IndexInv'
  <2>1. final' = final /\ stream'.entries \subseteq DOMAIN final
    BY <1>3 DEF Crash, disk, IndexInv
  <2>2. present' \subseteq DOMAIN final
    BY <1>3, <2>1 DEF Crash
  <2>3. PutBeforeInsert' /\ CollectorOK'
    BY <1>3 DEF Crash, Idle, PutBeforeInsert, CollectorOK
  <2> QED
    BY <1>0, <2>1, <2>2, <2>3 DEF IndexInv
<1>4. CASE Save \/ CollectSave
  <2>1. UNCHANGED <<final, present, writer>> /\ stream'.entries = present
    BY <1>4 DEF Save, CollectSave, Saved, disk, index
  <2>2. collector'.chunk = collector.chunk
        /\ (collector'.at # "idle" => collector.at # "idle")
    BY <1>4 DEF Save, CollectSave, IndexInv, TypeInv
  <2>3. PutBeforeInsert' /\ CollectorOK'
    BY <2>1, <2>2 DEF IndexInv, PutBeforeInsert, CollectorOK, Chunk
  <2> QED
    BY <1>0, <2>1, <2>3 DEF IndexInv
<1>5. ASSUME NEW c \in Chunks, Collect(c) PROVE IndexInv'
  <2>1. UNCHANGED <<final, stream, writer>> /\ present' = present \ {c}
    BY <1>5 DEF Collect, RemoveFromSet, disk
  <2>2. collector' = [at |-> "save", chunk |-> c] /\ \A w \in Writers : writer[w].at = "idle"
    BY <1>5 DEF Collect
  <2>3. PutBeforeInsert' /\ CollectorOK'
    BY <2>1, <2>2 DEF IndexInv, PutBeforeInsert, CollectorOK
  <2> QED
    BY <1>0, <2>1, <2>3 DEF IndexInv
<1>6. CASE Delete
  <2>1. UNCHANGED <<present, stream, writer>> /\ collector'.at = "idle"
        /\ DOMAIN final' = DOMAIN final \ {collector.chunk}
    BY <1>6 DEF Delete, Without, index
  <2>2. /\ collector.chunk \notin present /\ collector.chunk \notin stream.entries
        /\ \A w \in Writers : writer[w].at = "idle"
    BY <1>6 DEF Delete, IndexInv, CollectorOK
  <2>3. PutBeforeInsert' /\ CollectorOK'
    BY <2>1, <2>2 DEF PutBeforeInsert, CollectorOK
  <2> QED
    BY <1>0, <2>1, <2>2, <2>3 DEF IndexInv
<1>7. CASE UNCHANGED vars
  BY <1>0, <1>7 DEF vars, disk, index, IndexInv, PutBeforeInsert, CollectorOK, Chunk
<1> QED
  BY <1>1, <1>2, <1>3, <1>4, <1>5, <1>6, <1>7 DEF Next

\* What the index calls present is in the store, for any number of writers and
\* any saves, crashes and collections, also when writers put the same chunk at
\* once: a skipped chunk is never a lost one.
THEOREM IndexSound == Spec => []IndexedIsStored
<1>1. Init => IndexInv
  BY TypeInit DEF Init, IndexInv, PutBeforeInsert, CollectorOK, Idle
<1>2. IndexInv => IndexedIsStored
  BY DEF IndexInv, IndexedIsStored
<1> QED
  BY <1>1, <1>2, IndexNext, PTL DEF Spec
-----------------------------------------------------------------------------
\* Files are numbered, so that the next one is new.
FilesNumbered == \E n \in Nat : DOMAIN files = 1 .. n

\* No file has two paths.
PathsApart ==
    /\ \A c, d \in DOMAIN tmp : tmp[c] = tmp[d] => c = d
    /\ \A c, d \in DOMAIN final : final[c] = final[d] => c = d
    /\ \A c \in DOMAIN tmp, d \in DOMAIN final : tmp[c] # final[d]

Writing(w) == writer[w].at = "write"

\* A file is written for one chunk only, whichever path it has by now.
FilesApart ==
    \A w \in Writers : Writing(w) =>
        /\ \A c \in DOMAIN tmp : tmp[c] = writer[w].fd => c = Chunk(w)
        /\ \A c \in DOMAIN final : final[c] = writer[w].fd => c = Chunk(w)
        /\ \A v \in Writers : Writing(v) /\ writer[v].fd = writer[w].fd => Chunk(v) = Chunk(w)

\* No file is longer than its chunk.
NeverLonger ==
    /\ \A c \in DOMAIN tmp : Len(files[tmp[c]]) <= Len(c)
    /\ \A c \in DOMAIN final : Len(files[final[c]]) <= Len(c)
    /\ \A w \in Writers : Writing(w) => Len(files[writer[w].fd]) <= Len(Chunk(w))

\* Writer w is filling file id with chunk c, and nobody has emptied the file
\* since w did: all it has written is there.
Filling(w, id, c) ==
    /\ Writing(w) /\ writer[w].fd = id /\ Chunk(w) = c
    /\ writer[w].pos <= Len(files[id])
    /\ \A i \in 1 .. writer[w].pos : files[id][i] = c[i]

\* File id is chunk c, or somebody will make it so.
Underway(id, c) == files[id] = c \/ \E w \in Writers : Filling(w, id, c)

\* What a rename would move is underway: the last writer to empty the file is
\* still filling it, or has filled it.  Leftovers of a crash are not, but
\* nobody renames them before emptying them.
TmpUnderway ==
    \A c \in DOMAIN tmp, w \in Writers :
        writer[w].at \in {"write", "rename"} /\ Chunk(w) = c => Underway(tmp[c], c)

FinalUnderway == \A c \in DOMAIN final : c \in torn \/ Underway(final[c], c)

\* The inductive invariant of the block store.
WholeParts == FilesNumbered /\ PathsApart /\ FilesApart /\ NeverLonger
              /\ TmpUnderway /\ FinalUnderway

WholeInv == TypeInv /\ WholeParts

\* A step that leaves the paths and the files alone, and of the writers only w,
\* which does not write before or after it.
LEMMA WholeMoves ==
    ASSUME WholeInv, NEW w \in Writers, UNCHANGED <<disk, history>>,
           \A v \in Writers : v # w => writer'[v] = writer[v],
           writer[w].at # "write", writer'[w].at \notin {"write", "rename"}
    PROVE  WholeParts'
<1>0. UNCHANGED <<files, tmp, final, torn>>
  BY DEF disk, history
<1>1. \A v \in Writers : Writing(v)' => v # w /\ Writing(v)
  BY DEF Writing
<1>2. \A v \in Writers : v # w => Chunk(v)' = Chunk(v) /\ writer'[v] = writer[v]
  BY DEF Chunk
<1>3. (FilesNumbered /\ PathsApart)'
  BY <1>0 DEF WholeInv, WholeParts, FilesNumbered, PathsApart
<1>4. FilesApart'
  BY <1>0, <1>1, <1>2 DEF WholeInv, WholeParts, FilesApart
<1>5. NeverLonger'
  BY <1>0, <1>1, <1>2 DEF WholeInv, WholeParts, NeverLonger
<1>6. ASSUME NEW id, NEW c, Underway(id, c) PROVE Underway(id, c)'
  <2>1. CASE files[id] = c
    BY <1>0, <2>1 DEF Underway
  <2>2. ASSUME NEW v \in Writers, Filling(v, id, c) PROVE Underway(id, c)'
    <3>1. v # w
      BY <2>2 DEF Filling, Writing
    <3>2. Filling(v, id, c)'
      BY <1>0, <1>2, <2>2, <3>1 DEF Filling, Writing
    <3> QED
      BY <3>2 DEF Underway
  <2> QED
    BY <1>6, <2>1, <2>2 DEF Underway
<1>7. TmpUnderway'
  <2> SUFFICES ASSUME NEW c \in DOMAIN tmp', NEW v \in Writers,
                      writer'[v].at \in {"write", "rename"}, Chunk(v)' = c
               PROVE  Underway(tmp[c], c)'
    BY <1>0 DEF TmpUnderway
  <2>1. v # w /\ writer[v].at \in {"write", "rename"} /\ Chunk(v) = c /\ c \in DOMAIN tmp
    BY <1>0, <1>2
  <2>2. Underway(tmp[c], c)
    BY <2>1 DEF WholeInv, WholeParts, TmpUnderway
  <2> QED
    BY <1>0, <1>6, <2>2
<1>8. FinalUnderway'
  <2> SUFFICES ASSUME NEW c \in DOMAIN final', c \notin torn' PROVE Underway(final[c], c)'
    BY <1>0 DEF FinalUnderway
  <2>1. Underway(final[c], c)
    BY <1>0 DEF WholeInv, WholeParts, FinalUnderway
  <2> QED
    BY <1>0, <1>6, <2>1
<1> QED
  BY <1>3, <1>4, <1>5, <1>7, <1>8 DEF WholeParts

\* A sequence that begins as another one, and is as long, is that one.
LEMMA SameSeq ==
    ASSUME NEW s \in Seq(Nat), NEW t \in Seq(Nat), Len(s) = Len(t),
           \A i \in 1 .. Len(t) : s[i] = t[i]
    PROVE  s = t
  BY SeqEqual

\* A byte written to a file changes no other byte and makes the file no longer
\* than the byte's position.
LEMMA WriteAtGives ==
    ASSUME NEW content \in Seq(Nat), NEW k \in Nat \ {0}, NEW b \in Nat
    PROVE  /\ WriteAt(content, k, b) \in Seq(Nat)
           /\ Len(WriteAt(content, k, b)) = (IF k > Len(content) THEN k ELSE Len(content))
           /\ WriteAt(content, k, b)[k] = b
           /\ \A i \in 1 .. Len(content) : i # k => WriteAt(content, k, b)[i] = content[i]
<1> DEFINE n == IF k > Len(content) THEN k ELSE Len(content)
<1>1. n \in Nat /\ k \in 1 .. n /\ 1 .. Len(content) \subseteq 1 .. n
  OBVIOUS
<1>2. WriteAt(content, k, b) \in Seq(Nat)
  BY WriteAtType
<1>3. DOMAIN WriteAt(content, k, b) = 1 .. n
  BY DEF WriteAt
<1>4. Len(WriteAt(content, k, b)) = n
  <2> HIDE DEF n
  <2> QED
    BY <1>1, <1>2, <1>3
<1>5. WriteAt(content, k, b)[k] = b
  BY <1>1 DEF WriteAt
<1>6. \A i \in 1 .. Len(content) : i # k => WriteAt(content, k, b)[i] = content[i]
  BY <1>1 DEF WriteAt
<1> QED
  BY <1>2, <1>4, <1>5, <1>6

\* Opening the temporary file: a new one, one of a writer that crashed, or one
\* that others are writing at the moment, which then have nothing in it.
LEMMA WholeCreate ==
    ASSUME WholeInv, NEW w \in Writers, PutCreate(w)
    PROVE  WholeParts'
<1> DEFINE c == Chunk(w)
           id == IF c \in DOMAIN tmp THEN tmp[c] ELSE 1 + Cardinality(DOMAIN files)
<1>0. writer \in [Writers -> WriterState] /\ writer[w] \in WriterState /\ TypeInv
  BY DEF WholeInv, TypeInv
<1>1. c \in Chunks /\ Len(c) \in Nat \ {0} /\ writer[w].at = "create"
  <2>1. writer[w].todo # <<>>
    BY <1>0 DEF PutCreate, TypeInv, WriterOK
  <2> QED
    BY <1>0, <2>1, ChunkOfWriter, ChunkType DEF PutCreate
<1>2. PICK n \in Nat : DOMAIN files = 1 .. n
  BY DEF WholeInv, WholeParts, FilesNumbered
<1>3. Cardinality(DOMAIN files) = n
  BY <1>2, FS_Interval
<1>4. /\ writer'[w].at = "write" /\ writer'[w].fd = id /\ writer'[w].pos = 0
      /\ writer'[w].todo = writer[w].todo
      /\ \A v \in Writers : v # w => writer'[v] = writer[v]
  BY <1>0 DEF PutCreate, WriterState
<1>5. final' = final /\ files' = With(files, id, <<>>) /\ torn' = torn
  BY DEF PutCreate, TmpPath
<1>6. \/ c \in DOMAIN tmp /\ tmp' = tmp /\ id = tmp[c] /\ id \in DOMAIN files
      \/ c \notin DOMAIN tmp /\ tmp' = With(tmp, c, id) /\ id = n + 1
  <2>1. CASE c \in DOMAIN tmp
    BY <1>0, <2>1 DEF PutCreate, TypeInv
  <2>2. CASE c \notin DOMAIN tmp
    BY <1>3, <2>2 DEF PutCreate, TmpPath
  <2> QED
    BY <2>1, <2>2
<1> HIDE DEF id
<1>7. /\ DOMAIN files' = DOMAIN files \cup {id} /\ files'[id] = <<>>
      /\ \A j \in DOMAIN files : j # id => files'[j] = files[j]
  BY <1>5 DEF With
<1>8. FilesNumbered'
  <2>1. DOMAIN files' = 1 .. n \/ DOMAIN files' = 1 .. (n + 1)
    BY <1>2, <1>6, <1>7
  <2> QED
    BY <2>1 DEF FilesNumbered
<1>9. /\ c \in DOMAIN tmp' /\ tmp'[c] = id
      /\ DOMAIN tmp' = DOMAIN tmp \cup {c}
      /\ \A d \in DOMAIN tmp : d # c => tmp'[d] = tmp[d]
  BY <1>6 DEF With
<1>10. c \notin DOMAIN tmp => id \notin DOMAIN files
  BY <1>2, <1>6
<1>11. \A d \in DOMAIN tmp : tmp[d] \in DOMAIN files /\ (d # c => tmp[d] # id)
  BY <1>0, <1>6, <1>10 DEF WholeInv, WholeParts, PathsApart, TypeInv
<1>12. \A d \in DOMAIN final : final[d] # id /\ final[d] \in DOMAIN files
  BY <1>0, <1>6, <1>10 DEF WholeInv, WholeParts, PathsApart, TypeInv
<1>13. PathsApart'
  BY <1>5, <1>9, <1>11, <1>12 DEF WholeInv, WholeParts, PathsApart
<1>14. \A v \in Writers : /\ Chunk(v)' = Chunk(v)
                          /\ Writing(v)' => v = w \/ (v # w /\ Writing(v))
  BY <1>4 DEF Chunk, Writing
\* Whoever writes to the file puts the same chunk.
<1>15. \A v \in Writers : Writing(v) => /\ writer[v].fd \in DOMAIN files
                                        /\ writer[v].fd = id => Chunk(v) = c
  <2> SUFFICES ASSUME NEW v \in Writers, Writing(v)
               PROVE  writer[v].fd \in DOMAIN files /\ (writer[v].fd = id => Chunk(v) = c)
    OBVIOUS
  <2>1. writer[v].fd \in DOMAIN files
    BY <1>0 DEF TypeInv, WriterOK, Writing
  <2> QED
    BY <1>6, <1>10, <2>1 DEF WholeInv, WholeParts, FilesApart
<1>16. FilesApart'
  <2> SUFFICES ASSUME NEW v \in Writers, Writing(v)'
               PROVE  /\ \A d \in DOMAIN tmp' : tmp'[d] = writer'[v].fd => d = Chunk(v)'
                      /\ \A d \in DOMAIN final' : final'[d] = writer'[v].fd => d = Chunk(v)'
                      /\ \A u \in Writers : Writing(u)' /\ writer'[u].fd = writer'[v].fd
                                              => Chunk(u)' = Chunk(v)'
    BY DEF FilesApart
  <2>1. CASE v = w
    BY <1>4, <1>5, <1>9, <1>11, <1>12, <1>14, <1>15, <2>1
  <2>2. CASE v # w
    <3>1. Writing(v) /\ writer'[v] = writer[v] /\ Chunk(v)' = Chunk(v)
      BY <1>4, <1>14, <2>2
    <3>2. \A d \in DOMAIN tmp' : tmp'[d] = writer[v].fd => d = Chunk(v)
      BY <1>9, <1>15, <3>1 DEF WholeInv, WholeParts, FilesApart
    <3>3. \A d \in DOMAIN final' : final'[d] = writer[v].fd => d = Chunk(v)
      BY <1>5, <3>1 DEF WholeInv, WholeParts, FilesApart
    <3>4. \A u \in Writers : Writing(u)' /\ writer'[u].fd = writer[v].fd
                               => Chunk(u)' = Chunk(v)
      BY <1>4, <1>14, <1>15, <3>1 DEF WholeInv, WholeParts, FilesApart
    <3> QED
      BY <3>1, <3>2, <3>3, <3>4
  <2> QED
    BY <2>1, <2>2
<1>17. NeverLonger'
  <2>0. Len(files'[id]) = 0
    BY <1>7
  <2>1. \A d \in DOMAIN tmp' : Len(files'[tmp'[d]]) <= Len(d)
    <3> SUFFICES ASSUME NEW d \in DOMAIN tmp' PROVE Len(files'[tmp'[d]]) <= Len(d)
      OBVIOUS
    <3>1. CASE d = c
      BY <1>1, <1>9, <2>0, <3>1
    <3>2. CASE d # c
      BY <1>7, <1>9, <1>11, <3>2 DEF WholeInv, WholeParts, NeverLonger
    <3> QED
      BY <3>1, <3>2
  <2>2. \A d \in DOMAIN final' : Len(files'[final'[d]]) <= Len(d)
    BY <1>5, <1>7, <1>12 DEF WholeInv, WholeParts, NeverLonger
  <2>3. ASSUME NEW v \in Writers, Writing(v)' PROVE Len(files'[writer'[v].fd]) <= Len(Chunk(v)')
    <3>1. CASE writer'[v].fd = id
      <4>1. Chunk(v)' = c
        BY <1>4, <1>14, <1>15, <2>3, <3>1
      <4> QED
        BY <1>1, <2>0, <3>1, <4>1
    <3>2. CASE writer'[v].fd # id
      <4>1. Writing(v) /\ writer'[v] = writer[v] /\ Chunk(v)' = Chunk(v)
        BY <1>4, <1>14, <2>3, <3>2
      <4> QED
        BY <1>7, <1>15, <3>2, <4>1 DEF WholeInv, WholeParts, NeverLonger
    <3> QED
      BY <3>1, <3>2
  <2> QED
    BY <2>1, <2>2, <2>3 DEF NeverLonger
\* What is not the emptied file is still underway.
<1>18. ASSUME NEW j \in DOMAIN files, j # id, NEW d, Underway(j, d) PROVE Underway(j, d)'
  <2>1. files'[j] = files[j]
    BY <1>7, <1>18
  <2>2. ASSUME NEW v \in Writers, Filling(v, j, d) PROVE Filling(v, j, d)'
    <3>1. v # w
      BY <1>1, <2>2 DEF Filling, Writing
    <3> QED
      BY <1>4, <1>14, <2>1, <2>2, <3>1 DEF Filling, Writing
  <2> QED
    BY <1>18, <2>1, <2>2 DEF Underway
<1>19. ASSUME NEW j, j = id, NEW d, d = c PROVE Underway(j, d)'
  <2>1. Writing(w)' /\ Chunk(w)' = c
    BY <1>4, <1>14 DEF Writing
  <2>2. writer'[w].pos <= Len(files'[id])
    BY <1>4, <1>7
  <2>3. \A i \in 1 .. writer'[w].pos : files'[id][i] = c[i]
    BY <1>4
  <2>4. writer'[w].fd = id
    BY <1>4
  <2>5. Filling(w, j, d)'
    BY <1>19, <2>1, <2>2, <2>3, <2>4 DEF Filling
  <2> QED
    BY <2>5 DEF Underway
<1>20. TmpUnderway'
  <2> SUFFICES ASSUME NEW d \in DOMAIN tmp', NEW v \in Writers,
                      writer'[v].at \in {"write", "rename"}, Chunk(v)' = d
               PROVE  Underway(tmp[d], d)'
    BY DEF TmpUnderway
  <2>1. CASE d = c
    <3>1. PICK j : j = id
      OBVIOUS
    <3>2. tmp'[d] = j /\ Underway(j, d)'
      BY <1>9, <1>19, <2>1, <3>1
    <3> QED
      BY <3>2 DEF Underway, Filling
  <2>2. CASE d # c
    <3>1. v # w /\ writer[v].at \in {"write", "rename"} /\ Chunk(v) = d /\ d \in DOMAIN tmp
      BY <1>4, <1>9, <1>14, <2>2
    <3>2. Underway(tmp[d], d) /\ tmp[d] \in DOMAIN files /\ tmp[d] # id /\ tmp'[d] = tmp[d]
      BY <1>9, <1>11, <2>2, <3>1 DEF WholeInv, WholeParts, TmpUnderway
    <3>3. PICK j : j = tmp[d]
      OBVIOUS
    <3>4. Underway(j, d)'
      BY <1>18, <3>2, <3>3
    <3> QED
      BY <3>2, <3>3, <3>4 DEF Underway, Filling
  <2> QED
    BY <2>1, <2>2
<1>21. FinalUnderway'
  <2> SUFFICES ASSUME NEW d \in DOMAIN final', d \notin torn' PROVE Underway(final[d], d)'
    BY DEF FinalUnderway
  <2>1. Underway(final[d], d) /\ final[d] \in DOMAIN files /\ final[d] # id /\ final'[d] = final[d]
    BY <1>5, <1>12 DEF WholeInv, WholeParts, FinalUnderway
  <2>2. PICK j : j = final[d]
    OBVIOUS
  <2>3. Underway(j, d)'
    BY <1>18, <2>1, <2>2
  <2> QED
    BY <2>1, <2>2, <2>3 DEF Underway, Filling
<1> QED
  BY <1>8, <1>13, <1>16, <1>17, <1>20, <1>21 DEF WholeParts

\* Writing a byte to a file, whichever path it has: right bytes stay right.
LEMMA WholeWrite ==
    ASSUME WholeInv, NEW w \in Writers, PutWrite(w)
    PROVE  WholeParts'
<1> DEFINE c == Chunk(w)
           fd == writer[w].fd
           k == writer[w].pos + 1
           old == files[fd]
           content == WriteAt(old, k, c[k])
<1>0. writer \in [Writers -> WriterState] /\ writer[w] \in WriterState /\ TypeInv
  BY DEF WholeInv, TypeInv
<1>1. /\ writer[w].at = "write" /\ writer[w].pos \in Nat /\ writer[w].todo # <<>>
      /\ fd \in DOMAIN files /\ old \in Seq(Nat) /\ writer[w].pos < Len(c)
  BY <1>0 DEF PutWrite, TypeInv, WriterOK, WriterState
<1>2. c \in Seq(Nat) /\ Len(c) \in Nat /\ k \in 1 .. Len(c) /\ c[k] \in Nat
  <2>1. c \in Seq(Nat) /\ Len(c) \in Nat
    BY <1>0, <1>1, ChunkOfWriter, ChunkType
  <2> HIDE DEF c
  <2> QED
    BY <1>1, <2>1
<1>3. Len(old) <= Len(c) /\ Len(old) \in Nat
  BY <1>1 DEF WholeInv, WholeParts, NeverLonger, Writing
<1>4. /\ files' = [files EXCEPT ![fd] = content]
      /\ UNCHANGED <<tmp, final, torn>>
  BY DEF PutWrite, history
<1>5. /\ writer'[w].pos = k /\ writer'[w].fd = fd /\ writer'[w].todo = writer[w].todo
      /\ writer'[w].at = (IF k = Len(c) THEN "rename" ELSE "write")
      /\ \A v \in Writers : v # w => writer'[v] = writer[v]
  BY <1>0, <1>1 DEF PutWrite, WriterState
<1>6. \A v \in Writers : Chunk(v)' = Chunk(v) /\ (Writing(v)' => Writing(v))
                         /\ writer'[v].fd = writer[v].fd
  BY <1>1, <1>5 DEF Chunk, Writing
<1> HIDE DEF c, fd, k, old
<1>7. /\ content \in Seq(Nat) /\ Len(content) = (IF k > Len(old) THEN k ELSE Len(old))
      /\ content[k] = c[k]
      /\ \A i \in 1 .. Len(old) : i # k => content[i] = old[i]
  <2>1. PICK b \in Nat : b = c[k]
    BY <1>2
  <2>2. content = WriteAt(old, k, b) /\ old \in Seq(Nat) /\ k \in Nat \ {0}
    BY <1>1, <1>2, <2>1
  <2> HIDE DEF content
  <2> QED
    BY <2>1, <2>2, WriteAtGives
<1>8. Len(content) <= Len(c) /\ Len(content) \in Nat /\ k <= Len(content) /\ Len(old) <= Len(content)
  <2> HIDE DEF content
  <2> QED
    BY <1>2, <1>3, <1>7
<1> HIDE DEF content
<1>9. /\ DOMAIN files' = DOMAIN files /\ files'[fd] = content
      /\ \A j \in DOMAIN files : j # fd => files'[j] = files[j]
  BY <1>1, <1>4
<1>10. (FilesNumbered /\ PathsApart)'
  BY <1>4, <1>9 DEF WholeInv, WholeParts, FilesNumbered, PathsApart
<1>11. FilesApart'
  BY <1>4, <1>6 DEF WholeInv, WholeParts, FilesApart
\* The file belongs to c, whoever names it or writes to it.
<1>12. /\ \A d \in DOMAIN tmp : tmp[d] \in DOMAIN files /\ (tmp[d] = fd => d = c)
       /\ \A d \in DOMAIN final : final[d] \in DOMAIN files /\ (final[d] = fd => d = c)
       /\ \A v \in Writers : Writing(v) => writer[v].fd \in DOMAIN files
                                           /\ (writer[v].fd = fd => Chunk(v) = c)
  <2>1. Writing(w)
    BY <1>1 DEF Writing
  <2>2. \A v \in Writers : Writing(v) => writer[v].fd \in DOMAIN files
    BY <1>0 DEF TypeInv, WriterOK, Writing
  <2> QED
    BY <1>0, <2>1, <2>2 DEF WholeInv, WholeParts, FilesApart, TypeInv, c, fd
<1>13. NeverLonger'
  <2>1. ASSUME NEW j \in DOMAIN files, NEW d, j = fd => d = c, Len(files[j]) <= Len(d)
        PROVE  Len(files'[j]) <= Len(d)
    BY <1>8, <1>9, <2>1
  <2>2. \A d \in DOMAIN tmp : Len(files'[tmp[d]]) <= Len(d)
    BY <1>12, <2>1 DEF WholeInv, WholeParts, NeverLonger
  <2>3. \A d \in DOMAIN final : Len(files'[final[d]]) <= Len(d)
    BY <1>12, <2>1 DEF WholeInv, WholeParts, NeverLonger
  <2>4. \A v \in Writers : Writing(v) => Len(files'[writer[v].fd]) <= Len(Chunk(v))
    BY <1>12, <2>1 DEF WholeInv, WholeParts, NeverLonger
  <2>5. \A v \in Writers : Writing(v)' => Len(files'[writer'[v].fd]) <= Len(Chunk(v)')
    BY <1>6, <2>4
  <2> QED
    BY <1>4, <2>2, <2>3, <2>5 DEF NeverLonger
<1>14. ASSUME NEW j \in DOMAIN files, NEW d, j = fd => d = c, Underway(j, d)
       PROVE  Underway(j, d)'
  <2>1. CASE files[j] = d
    <3>1. CASE j = fd
      <4>1. d = c /\ old = c
        BY <1>14, <2>1, <3>1 DEF old, fd
      <4>2. Len(content) = Len(c)
        BY <1>2, <1>3, <1>7, <4>1
      <4>3. \A i \in 1 .. Len(c) : content[i] = c[i]
        BY <1>7, <4>1
      <4>4. content = c
        BY <1>2, <1>7, <4>2, <4>3, SameSeq
      <4> QED
        BY <1>9, <3>1, <4>1, <4>4 DEF Underway
    <3>2. CASE j # fd
      BY <1>9, <2>1, <3>2 DEF Underway
    <3> QED
      BY <3>1, <3>2
  <2>2. ASSUME NEW v \in Writers, Filling(v, j, d) PROVE Underway(j, d)'
    <3>0. /\ Writing(v) /\ writer[v].fd = j /\ Chunk(v) = d /\ writer[v].pos \in Nat
          /\ writer[v].pos <= Len(files[j])
          /\ \A i \in 1 .. writer[v].pos : files[j][i] = d[i]
      BY <1>0, <2>2 DEF Filling, WriterState
    <3>1. CASE j # fd
      <4>1. v # w /\ files'[j] = files[j]
        BY <1>9, <3>0, <3>1 DEF fd
      <4>2. Filling(v, j, d)'
        BY <1>5, <1>6, <2>2, <4>1 DEF Filling, Writing
      <4> QED
        BY <4>2 DEF Underway
    <3>2. CASE j = fd /\ v # w
      <4>1. d = c /\ files[j] = old /\ files'[j] = content
        BY <1>9, <1>14, <3>2 DEF old
      <4>2. writer'[v] = writer[v] /\ Chunk(v)' = d /\ writer[v].pos <= Len(content)
        BY <1>3, <1>5, <1>6, <1>8, <3>0, <3>2, <4>1
      <4>3. ASSUME NEW i \in 1 .. writer[v].pos PROVE content[i] = d[i]
        <5>1. i \in 1 .. Len(old)
          BY <1>3, <3>0, <4>1
        <5> QED
          BY <1>7, <3>0, <4>1, <5>1
      <4>4. Filling(v, j, d)'
        BY <3>0, <4>1, <4>2, <4>3 DEF Filling, Writing
      <4> QED
        BY <4>4 DEF Underway
    <3>3. CASE j = fd /\ v = w
      <4>1. d = c /\ files[j] = old /\ files'[j] = content /\ k = writer[w].pos + 1
        BY <1>9, <1>14, <3>3 DEF old, k
      <4>2. ASSUME NEW i \in 1 .. k PROVE content[i] = c[i]
        <5>1. CASE i = k
          BY <1>7, <5>1
        <5>2. CASE i # k
          <6>1. i \in 1 .. writer[w].pos /\ i \in 1 .. Len(old)
            BY <1>1, <1>3, <3>0, <3>3, <4>1, <5>2
          <6> QED
            BY <1>7, <3>0, <3>3, <4>1, <5>2, <6>1
        <5> QED
          BY <5>1, <5>2
      <4>3. CASE k = Len(c)
        <5>1. Len(content) = Len(c)
          BY <1>2, <1>3, <1>7, <4>3
        <5>2. content = c
          BY <1>2, <1>7, <4>2, <4>3, <5>1, SameSeq
        <5> QED
          BY <4>1, <5>2 DEF Underway
      <4>4. CASE k # Len(c)
        <5>1. Writing(w)' /\ writer'[w].fd = j /\ Chunk(w)' = d /\ writer'[w].pos = k
          BY <1>5, <1>6, <3>0, <3>3, <4>4 DEF Writing, fd
        <5>2. Filling(w, j, d)'
          BY <1>8, <4>1, <4>2, <5>1 DEF Filling
        <5> QED
          BY <5>2 DEF Underway
      <4> QED
        BY <4>3, <4>4
    <3> QED
      BY <3>1, <3>2, <3>3
  <2> QED
    BY <1>14, <2>1, <2>2 DEF Underway
<1>15. TmpUnderway'
  <2> SUFFICES ASSUME NEW d \in DOMAIN tmp', NEW v \in Writers,
                      writer'[v].at \in {"write", "rename"}, Chunk(v)' = d
               PROVE  Underway(tmp[d], d)'
    BY DEF TmpUnderway
  <2>1. writer[v].at \in {"write", "rename"} /\ Chunk(v) = d /\ d \in DOMAIN tmp
    BY <1>1, <1>4, <1>5, <1>6
  <2>2. PICK j : j = tmp[d]
    OBVIOUS
  <2>3. Underway(j, d) /\ j \in DOMAIN files /\ (j = fd => d = c)
    BY <1>12, <2>1, <2>2 DEF WholeInv, WholeParts, TmpUnderway
  <2>4. Underway(j, d)' /\ tmp'[d] = j
    BY <1>4, <1>14, <2>2, <2>3
  <2> QED
    BY <2>4 DEF Underway, Filling
<1>16. FinalUnderway'
  <2> SUFFICES ASSUME NEW d \in DOMAIN final', d \notin torn' PROVE Underway(final[d], d)'
    BY DEF FinalUnderway
  <2>1. PICK j : j = final[d]
    OBVIOUS
  <2>2. Underway(j, d) /\ j \in DOMAIN files /\ (j = fd => d = c)
    BY <1>4, <1>12, <2>1 DEF WholeInv, WholeParts, FinalUnderway
  <2>3. Underway(j, d)' /\ final'[d] = j
    BY <1>4, <1>14, <2>1, <2>2
  <2> QED
    BY <2>3 DEF Underway, Filling
<1> QED
  BY <1>10, <1>11, <1>13, <1>15, <1>16 DEF WholeParts

\* The rename moves the file, whoever is at it, and gives nothing up.
LEMMA WholeRename ==
    ASSUME WholeInv, NEW w \in Writers, PutRename(w), Chunk(w) \in DOMAIN tmp
    PROVE  WholeParts'
<1> DEFINE c == Chunk(w)
<1>0. writer \in [Writers -> WriterState] /\ writer[w] \in WriterState /\ TypeInv
  BY DEF WholeInv, TypeInv
<1>1. writer[w].at = "rename" /\ Underway(tmp[c], c)
  BY DEF PutRename, WholeInv, WholeParts, TmpUnderway
<1>2. UNCHANGED <<files, torn>> /\ final' = With(final, c, tmp[c]) /\ tmp' = Without(tmp, c)
  BY DEF PutRename, history
<1>3. writer'[w].at = "insert" /\ \A v \in Writers : v # w => writer'[v] = writer[v]
  BY <1>0 DEF PutRename, WriterState
<1>4. /\ DOMAIN final' = DOMAIN final \cup {c} /\ final'[c] = tmp[c]
      /\ \A d \in DOMAIN final : d # c => final'[d] = final[d]
      /\ DOMAIN tmp' = DOMAIN tmp \ {c}
      /\ \A d \in DOMAIN tmp : d # c => tmp'[d] = tmp[d]
  BY <1>2 DEF With, Without
<1>5. \A v \in Writers : /\ Writing(v)' => v # w /\ Writing(v)
                         /\ v # w => Chunk(v)' = Chunk(v) /\ writer'[v] = writer[v]
  BY <1>3 DEF Writing, Chunk
<1>6. FilesNumbered'
  BY <1>2 DEF WholeInv, WholeParts, FilesNumbered
<1>7. PathsApart'
  BY <1>4 DEF WholeInv, WholeParts, PathsApart
<1>8. FilesApart'
  BY <1>4, <1>5 DEF WholeInv, WholeParts, FilesApart
<1>9. NeverLonger'
  BY <1>2, <1>4, <1>5 DEF WholeInv, WholeParts, NeverLonger
<1>10. ASSUME NEW j, NEW d, Underway(j, d) PROVE Underway(j, d)'
  <2>1. ASSUME NEW v \in Writers, Filling(v, j, d) PROVE Filling(v, j, d)'
    <3>1. v # w
      BY <1>1, <2>1 DEF Filling, Writing
    <3> QED
      BY <1>2, <1>5, <2>1, <3>1 DEF Filling, Writing
  <2> QED
    BY <1>2, <1>10, <2>1 DEF Underway
<1>11. TmpUnderway'
  <2> SUFFICES ASSUME NEW d \in DOMAIN tmp', NEW v \in Writers,
                      writer'[v].at \in {"write", "rename"}, Chunk(v)' = d
               PROVE  Underway(tmp[d], d)'
    BY DEF TmpUnderway
  <2>1. v # w /\ writer[v].at \in {"write", "rename"} /\ Chunk(v) = d
        /\ d \in DOMAIN tmp /\ tmp'[d] = tmp[d]
    BY <1>3, <1>4, <1>5
  <2>2. PICK j : j = tmp[d]
    OBVIOUS
  <2>3. Underway(j, d)'
    BY <1>10, <2>1, <2>2 DEF WholeInv, WholeParts, TmpUnderway
  <2> QED
    BY <2>1, <2>2, <2>3 DEF Underway, Filling
<1>12. FinalUnderway'
  <2> SUFFICES ASSUME NEW d \in DOMAIN final', d \notin torn' PROVE Underway(final[d], d)'
    BY DEF FinalUnderway
  <2>1. PICK j : j = final'[d]
    OBVIOUS
  <2>2. Underway(j, d)
    BY <1>1, <1>2, <1>4, <2>1 DEF WholeInv, WholeParts, FinalUnderway
  <2>3. Underway(j, d)'
    BY <1>10, <2>2
  <2> QED
    BY <2>1, <2>3 DEF Underway, Filling
<1> QED
  BY <1>6, <1>7, <1>8, <1>9, <1>11, <1>12 DEF WholeParts

\* Every step of a writer.
LEMMA WholeWriter ==
    ASSUME WholeInv, NEW w \in Writers, WriterStep(w)
    PROVE  WholeParts'
<1>0. writer \in [Writers -> WriterState] /\ writer[w] \in WriterState
  BY DEF WholeInv, TypeInv
<1>1. CASE Lookup(w) \/ Confirm(w) \/ Finish(w) \/ InsertSet(w) \/ PutExists(w)
           \/ \E p \in Positions : InsertBit(w, p)
  <2>1. UNCHANGED <<disk, history>> /\ \A v \in Writers : v # w => writer'[v] = writer[v]
    BY <1>0, <1>1 DEF Lookup, Confirm, Finish, InsertSet, InsertBit, PutExists, To, NextChunk
  <2>2. /\ writer[w].at # "write"
        /\ writer'[w].at \in {"confirm", "put", "lookup", "idle", "insert", "create"}
    BY <1>0, <1>1 DEF Lookup, Confirm, Finish, InsertSet, InsertReady, InsertBit, PutExists,
                      To, NextChunk, Idle, WriterState
  <2> QED
    BY <2>1, <2>2, WholeMoves
<1>2. CASE PutRename(w) /\ Chunk(w) \notin DOMAIN tmp
  <2>1. UNCHANGED <<disk, history>> /\ \A v \in Writers : v # w => writer'[v] = writer[v]
    BY <1>0, <1>2 DEF PutRename, disk
  <2>2. writer[w].at # "write" /\ writer'[w].at = "idle"
    BY <1>0, <1>2 DEF PutRename, Idle
  <2> QED
    BY <2>1, <2>2, WholeMoves
<1> QED
  BY <1>1, <1>2, WholeCreate, WholeWrite, WholeRename DEF WriterStep

\* Every step keeps the invariant of the files.
LEMMA WholeNext == WholeInv /\ [Next]_vars => WholeInv'
<1> SUFFICES ASSUME WholeInv, [Next]_vars PROVE WholeInv'
  OBVIOUS
<1>0. TypeInv'
  BY TypeNext DEF WholeInv
<1>1. ASSUME NEW w \in Writers, WriterStep(w) PROVE WholeInv'
  BY <1>0, <1>1, WholeWriter DEF WholeInv
<1>2. ASSUME NEW w \in Writers, NEW d \in Data, Start(w, d) PROVE WholeInv'
  <2>1. UNCHANGED <<disk, history>> /\ \A v \in Writers : v # w => writer'[v] = writer[v]
    BY <1>2 DEF Start, WholeInv, TypeInv
  <2>2. writer[w].at = "idle" /\ writer'[w].at = "lookup"
    BY <1>2 DEF Start, Idle, WholeInv, TypeInv
  <2> QED
    BY <1>0, <2>1, <2>2, WholeMoves DEF WholeInv
<1>3. ASSUME NEW part \in SUBSET present, Crash(part) PROVE WholeInv'
  <2>1. /\ UNCHANGED <<files, tmp, final>> /\ \A w \in Writers : writer'[w].at = "idle"
        /\ torn' = torn \cup {Chunk(w) : w \in {v \in Writers : Overtaken(v)}}
    BY <1>3 DEF Crash, Idle, disk
  <2>2. (FilesNumbered /\ PathsApart /\ FilesApart /\ NeverLonger /\ TmpUnderway)'
    BY <2>1 DEF WholeInv, WholeParts, FilesNumbered, PathsApart, FilesApart, NeverLonger,
                TmpUnderway, Writing
  <2>3. FinalUnderway'
    <3> SUFFICES ASSUME NEW c \in DOMAIN final, c \notin torn' PROVE Underway(final[c], c)'
      BY <2>1 DEF FinalUnderway
    <3>1. Underway(final[c], c)
      BY <2>1 DEF WholeInv, WholeParts, FinalUnderway
    <3>2. ASSUME NEW w \in Writers, Filling(w, final[c], c) PROVE FALSE
      <4>1. Overtaken(w) /\ Chunk(w) = c
        BY <3>2 DEF Filling, Writing, Overtaken
      <4> QED
        BY <2>1, <4>1
    <3>3. files[final[c]] = c
      BY <3>1, <3>2 DEF Underway
    <3> QED
      BY <2>1, <3>3 DEF Underway
  <2> QED
    BY <1>0, <2>2, <2>3 DEF WholeInv, WholeParts
<1>4. CASE Save \/ CollectSave \/ UNCHANGED vars \/ \E c \in Chunks : Collect(c)
  <2>1. UNCHANGED <<files, tmp, final, writer, torn>>
    BY <1>4 DEF Save, CollectSave, Collect, vars, disk, history
  <2>2. (FilesNumbered /\ PathsApart /\ FilesApart /\ NeverLonger)'
    BY <2>1 DEF WholeInv, WholeParts, FilesNumbered, PathsApart, FilesApart, NeverLonger,
                Writing, Chunk
  <2>3. (TmpUnderway /\ FinalUnderway)'
    BY <2>1 DEF WholeInv, WholeParts, TmpUnderway, FinalUnderway, Underway, Filling, Writing,
                Chunk
  <2> QED
    BY <1>0, <2>2, <2>3 DEF WholeInv, WholeParts
<1>5. CASE Delete
  <2>1. /\ UNCHANGED <<files, tmp, writer>> /\ final' = Without(final, collector.chunk)
        /\ torn' = torn \ {collector.chunk}
    BY <1>5 DEF Delete
  <2>2. /\ DOMAIN final' = DOMAIN final \ {collector.chunk}
        /\ \A d \in DOMAIN final' : final'[d] = final[d]
    BY <2>1 DEF Without
  <2>3. (FilesNumbered /\ PathsApart /\ FilesApart /\ NeverLonger)'
    BY <2>1, <2>2 DEF WholeInv, WholeParts, FilesNumbered, PathsApart, FilesApart, NeverLonger,
                      Writing, Chunk
  <2>4. TmpUnderway'
    BY <2>1 DEF WholeInv, WholeParts, TmpUnderway, Underway, Filling, Writing, Chunk
  <2>5. FinalUnderway'
    BY <2>1, <2>2 DEF WholeInv, WholeParts, FinalUnderway, Underway, Filling, Writing, Chunk
  <2> QED
    BY <1>0, <2>3, <2>4, <2>5 DEF WholeInv, WholeParts
<1> QED
  BY <1>1, <1>2, <1>3, <1>4, <1>5 DEF Next

\* The store begins empty.
LEMMA WholeInit == Init => WholeInv
<1> SUFFICES ASSUME Init PROVE WholeInv
  OBVIOUS
<1>1. DOMAIN files = 1 .. 0 /\ DOMAIN tmp = {} /\ DOMAIN final = {}
  BY DEF Init, Empty
<1>2. \A w \in Writers : writer[w].at = "idle"
  BY DEF Init, Idle
<1> QED
  BY <1>1, <1>2, TypeInit DEF WholeInv, WholeParts, FilesNumbered, PathsApart, FilesApart,
                              NeverLonger, TmpUnderway, FinalUnderway, Writing

\* A writer that has opened the temporary file and not renamed it.
Active(w) == writer[w].at \in {"write", "rename"}

\* A writer is overtaken only by another one that puts the same chunk at the
\* same time.
RacedInv ==
    /\ WholeInv /\ torn \subseteq raced
    /\ \A v, w \in Writers : v # w /\ Active(v) /\ Active(w) /\ Chunk(v) = Chunk(w)
                               => Chunk(w) \in raced
    /\ \A w \in Writers : Overtaken(w) => Chunk(w) \in raced

\* A step after which no writer is active that was not, and no file has come to
\* a final path, keeps that.
LEMMA RacedMoves ==
    ASSUME RacedInv, WholeInv', UNCHANGED raced, torn' \subseteq raced,
           \A w \in Writers : Active(w)' => Active(w) /\ Chunk(w)' = Chunk(w),
           \A w \in Writers : Overtaken(w)' => Overtaken(w)
    PROVE  RacedInv'
<1>1. \A w \in Writers : Overtaken(w)' => Chunk(w)' = Chunk(w)
  BY DEF Overtaken, Active
<1> QED
  BY <1>1 DEF RacedInv

\* Every step keeps it.
LEMMA RacedNext == RacedInv /\ [Next]_vars => RacedInv'
<1> SUFFICES ASSUME RacedInv, [Next]_vars PROVE RacedInv'
  OBVIOUS
<1>0. WholeInv' /\ TypeInv /\ writer \in [Writers -> WriterState]
  BY WholeNext DEF RacedInv, WholeInv, TypeInv
<1>1. ASSUME NEW w \in Writers,
             Lookup(w) \/ Confirm(w) \/ Finish(w) \/ PutExists(w) \/ InsertSet(w)
             \/ (\E p \in Positions : InsertBit(w, p)) \/ (\E d \in Data : Start(w, d))
             \/ (PutRename(w) /\ Chunk(w) \notin DOMAIN tmp)
      PROVE  RacedInv'
  <2>1. UNCHANGED <<final, raced, torn>> /\ \A v \in Writers : v # w => writer'[v] = writer[v]
    BY <1>0, <1>1 DEF Lookup, Confirm, Finish, PutExists, InsertSet, InsertBit, Start, PutRename,
                      To, NextChunk, disk, history
  <2>2. writer'[w].at \in {"idle", "lookup", "confirm", "put", "create", "insert"}
    <3>1. CASE Lookup(w) \/ Confirm(w) \/ Finish(w) \/ PutExists(w) \/ InsertSet(w)
               \/ \E p \in Positions : InsertBit(w, p)
      BY <1>0, <3>1 DEF Lookup, Confirm, Finish, PutExists, InsertSet, InsertReady, InsertBit,
                        To, NextChunk, Idle, WriterState
    <3>2. ASSUME NEW d \in Data, Start(w, d) PROVE writer'[w].at = "lookup"
      BY <1>0, <3>2 DEF Start, Idle
    <3>3. CASE PutRename(w) /\ Chunk(w) \notin DOMAIN tmp
      BY <1>0, <3>3 DEF PutRename, Idle
    <3> QED
      BY <1>1, <3>1, <3>2, <3>3
  <2>3. \A v \in Writers : Active(v)' => Active(v) /\ Chunk(v)' = Chunk(v)
    BY <2>1, <2>2 DEF Active, Chunk
  <2>4. \A v \in Writers : Overtaken(v)' => Overtaken(v)
    BY <2>1, <2>2 DEF Overtaken, Chunk
  <2> QED
    BY <1>0, <2>1, <2>3, <2>4, RacedMoves DEF RacedInv
<1>2. ASSUME NEW w \in Writers, PutCreate(w) PROVE RacedInv'
  <2> DEFINE c == Chunk(w)
             id == IF c \in DOMAIN tmp THEN tmp[c] ELSE 1 + Cardinality(DOMAIN files)
  <2>1. /\ writer'[w].at = "write" /\ writer'[w].fd = id /\ writer[w].at = "create"
        /\ writer'[w].todo = writer[w].todo
        /\ \A v \in Writers : v # w => writer'[v] = writer[v]
    BY <1>0, <1>2 DEF PutCreate, WriterState
  <2>2. UNCHANGED <<final, torn>>
    BY <1>2 DEF PutCreate, TmpPath
  <2>3. raced' = IF \E v \in Writers : Active(v) /\ Chunk(v) = c
                 THEN raced \cup {c} ELSE raced
    BY <1>2 DEF PutCreate, Active
  <2>4. \A v \in Writers : Chunk(v)' = Chunk(v) /\ (Active(v)' => v = w \/ Active(v))
    BY <2>1 DEF Chunk, Active
  <2>5. \A d \in DOMAIN final : final[d] # id
    <3>1. CASE c \in DOMAIN tmp
      BY <3>1 DEF RacedInv, WholeInv, WholeParts, PathsApart
    <3>2. CASE c \notin DOMAIN tmp
      <4>1. PICK n \in Nat : DOMAIN files = 1 .. n
        BY DEF RacedInv, WholeInv, WholeParts, FilesNumbered
      <4>2. Cardinality(DOMAIN files) = n /\ id = 1 + Cardinality(DOMAIN files)
        BY <3>2, <4>1, FS_Interval
      <4>3. id \notin DOMAIN files
        BY <4>1, <4>2
      <4> QED
        BY <1>0, <4>3 DEF TypeInv
    <3> QED
      BY <3>1, <3>2
  <2>6. \A v \in Writers : Overtaken(v)' => v # w /\ Overtaken(v)
    BY <2>1, <2>2, <2>4, <2>5 DEF Overtaken
  <2>7. ASSUME NEW u \in Writers, NEW v \in Writers, u # v, Active(u)', Active(v)',
               Chunk(u)' = Chunk(v)'
        PROVE  Chunk(v) \in raced'
    <3>1. CASE u # w /\ v # w
      BY <2>3, <2>4, <2>7, <3>1 DEF RacedInv
    <3>2. CASE u = w \/ v = w
      BY <2>3, <2>4, <2>7, <3>2
    <3> QED
      BY <3>1, <3>2
  <2> QED
    BY <1>0, <2>2, <2>3, <2>4, <2>6, <2>7 DEF RacedInv
<1>3. ASSUME NEW w \in Writers, PutWrite(w) PROVE RacedInv'
  <2>1. UNCHANGED <<final, raced, torn>> /\ \A v \in Writers : v # w => writer'[v] = writer[v]
    BY <1>0, <1>3 DEF PutWrite, history
  <2>2. writer[w].at = "write" /\ writer'[w].todo = writer[w].todo /\ writer'[w].fd = writer[w].fd
    BY <1>0, <1>3 DEF PutWrite, WriterState
  <2>3. \A v \in Writers : Chunk(v)' = Chunk(v) /\ (Active(v)' => Active(v))
    BY <2>1, <2>2 DEF Active, Chunk
  <2>4. \A v \in Writers : Overtaken(v)' => Overtaken(v)
    BY <2>1, <2>2, <2>3 DEF Overtaken
  <2> QED
    BY <1>0, <2>1, <2>3, <2>4, RacedMoves DEF RacedInv
<1>4. ASSUME NEW w \in Writers, PutRename(w), Chunk(w) \in DOMAIN tmp PROVE RacedInv'
  <2>1. /\ UNCHANGED <<raced, torn>> /\ final' = With(final, Chunk(w), tmp[Chunk(w)])
        /\ writer[w].at = "rename" /\ writer'[w].at = "insert"
        /\ \A v \in Writers : v # w => writer'[v] = writer[v]
    BY <1>0, <1>4 DEF PutRename, history, WriterState
  <2>2. \A v \in Writers : Active(v)' => v # w /\ Active(v) /\ Chunk(v)' = Chunk(v)
    BY <2>1 DEF Active, Chunk
  <2>3. ASSUME NEW v \in Writers, Overtaken(v)' PROVE Chunk(v)' \in raced
    <3>1. v # w /\ writer'[v] = writer[v] /\ Chunk(v)' = Chunk(v) /\ writer[v].at = "write"
      BY <2>1, <2>3 DEF Overtaken, Chunk
    <3>2. CASE Chunk(v) = Chunk(w)
      BY <2>1, <3>1, <3>2 DEF RacedInv, Active
    <3>3. CASE Chunk(v) # Chunk(w)
      <4>1. Chunk(v) \in DOMAIN final /\ final[Chunk(v)] = writer[v].fd
        BY <2>1, <2>3, <3>1, <3>3 DEF Overtaken, With
      <4> QED
        BY <3>1, <4>1 DEF RacedInv, Overtaken
    <3> QED
      BY <3>2, <3>3
  <2> QED
    BY <1>0, <2>1, <2>2, <2>3 DEF RacedInv
<1>5. ASSUME NEW part \in SUBSET present, Crash(part) PROVE RacedInv'
  <2>1. /\ raced' = raced /\ \A w \in Writers : writer'[w].at = "idle"
        /\ torn' = torn \cup {Chunk(w) : w \in {v \in Writers : Overtaken(v)}}
    BY <1>5 DEF Crash, Idle
  <2>2. torn' \subseteq raced
    BY <2>1 DEF RacedInv
  <2>3. \A w \in Writers : ~ Active(w)' /\ ~ Overtaken(w)'
    BY <2>1 DEF Active, Overtaken
  <2> QED
    BY <1>0, <2>1, <2>2, <2>3, RacedMoves
<1>6. CASE Save \/ CollectSave \/ Delete \/ UNCHANGED vars \/ \E c \in Chunks : Collect(c)
  <2>1. UNCHANGED <<writer, raced>> /\ torn' \subseteq torn
    BY <1>6 DEF Save, CollectSave, Delete, Collect, vars, history
  <2>2. DOMAIN final' \subseteq DOMAIN final /\ \A c \in DOMAIN final' : final'[c] = final[c]
    BY <1>6 DEF Save, CollectSave, Delete, Collect, vars, disk, Without
  <2>3. \A w \in Writers : Chunk(w)' = Chunk(w) /\ (Active(w)' => Active(w))
    BY <2>1 DEF Active, Chunk
  <2>4. \A w \in Writers : Overtaken(w)' => Overtaken(w)
    BY <2>1, <2>2, <2>3 DEF Overtaken
  <2> QED
    BY <1>0, <2>1, <2>3, <2>4, RacedMoves DEF RacedInv
<1> QED
  BY <1>1, <1>2, <1>3, <1>4, <1>5, <1>6 DEF Next, WriterStep

\* Nobody writes at first.
LEMMA RacedInit == Init => RacedInv
  BY WholeInit DEF Init, RacedInv, Active, Overtaken, Idle

\* Whoever is filling a file that has its final path has been overtaken.
LEMMA WholeGives == RacedInv => BlocksWhole
<1> SUFFICES ASSUME RacedInv, NEW c \in DOMAIN final, files[final[c]] # c PROVE Unfinished(c)
  BY DEF BlocksWhole
<1>1. CASE c \in torn
  BY <1>1 DEF RacedInv, Unfinished
<1>2. CASE c \notin torn
  <2>1. PICK w \in Writers : Filling(w, final[c], c)
    BY <1>2 DEF RacedInv, WholeInv, WholeParts, FinalUnderway, Underway
  <2>2. Overtaken(w) /\ Chunk(w) = c
    BY <2>1 DEF Filling, Writing, Overtaken
  <2> QED
    BY <2>2 DEF RacedInv, Unfinished
<1> QED
  BY <1>1, <1>2

\* A file at a final path is whole, unless of two writers that put its chunk at
\* the same time one is still writing the file the other has renamed, or a
\* crash cut it off: for any number of writers, whatever crashes leave behind
\* (LocalDiskStore::put, which has no lock).
THEOREM BlocksAlwaysWhole == Spec => []BlocksWhole
  BY RacedInit, RacedNext, WholeGives, PTL DEF Spec
-----------------------------------------------------------------------------
\* The blocks reach the end of the data.
LEMMA BlocksCover ==
    ASSUME NEW n \in Nat
    PROVE  n <= ((n + BlockSize - 1) \div BlockSize) * BlockSize
<1> DEFINE q == (n + BlockSize - 1) \div BlockSize
           r == (n + BlockSize - 1) % BlockSize
<1>1. q \in Int /\ r \in 0 .. BlockSize - 1 /\ n + BlockSize - 1 = BlockSize * q + r
  OBVIOUS
<1> HIDE DEF q, r
<1>2. BlockSize * q = q * BlockSize /\ q * BlockSize \in Int
  BY <1>1
<1>3. n <= q * BlockSize
  BY <1>1, <1>2
<1> QED
  BY <1>3 DEF q

\* Chunks put together again are the data they were cut from.
LEMMA PiecesWhole ==
    ASSUME NEW d \in Data
    PROVE  FlattenSeq(Pieces(d)) = d
<1> DEFINE q == (Len(d) + BlockSize - 1) \div BlockSize
           end(k) == IF k * BlockSize < Len(d) THEN k * BlockSize ELSE Len(d)
           piece(k) == SubSeq(d, (k - 1) * BlockSize + 1, end(k))
<1>1. d \in Seq(Nat \ {0}) /\ Len(d) \in Nat
  OBVIOUS
<1>2. q \in Nat /\ \A k \in 1 .. q : /\ (k - 1) * BlockSize \in Nat
                                     /\ (k - 1) * BlockSize < Len(d)
                                     /\ (k - 1) * BlockSize < k * BlockSize
                                     /\ k * BlockSize \in Nat
  BY <1>1, Blocks
<1>3. Len(d) <= q * BlockSize
  BY <1>1, BlocksCover
<1>4. Pieces(d) = [k \in 1 .. q |-> piece(k)]
  BY DEF Pieces
<1>5. \A k \in 1 .. q : /\ end(k) \in Nat /\ end(k) <= Len(d)
                        /\ k < q => end(k) = k * BlockSize
                        /\ k = q => end(k) = Len(d)
  <2> SUFFICES ASSUME NEW k \in 1 .. q
               PROVE  /\ end(k) \in Nat /\ end(k) <= Len(d)
                      /\ k < q => end(k) = k * BlockSize
                      /\ k = q => end(k) = Len(d)
    OBVIOUS
  <2> HIDE DEF q
  <2>1. k * BlockSize \in Nat
    BY <1>2
  <2>2. (k + 1) - 1 = k /\ (k < q => k + 1 \in 1 .. q)
    BY <1>2
  <2>3. k < q => ((k + 1) - 1) * BlockSize < Len(d)
    BY <1>2, <2>2
  <2>4. k < q => k * BlockSize < Len(d)
    BY <2>2, <2>3
  <2> QED
    BY <1>1, <1>3, <2>1, <2>4
<1>6. Pieces(d) \in Seq(Chunks) /\ Len(Pieces(d)) = q
  <2> HIDE DEF q, piece
  <2> QED
    BY <1>2, <1>4, PiecesType
<1> HIDE DEF q, piece
<1>7. CASE q = 0
  <2>1. 0 * BlockSize = 0
    OBVIOUS
  <2>2. Len(d) = 0
    BY <1>1, <1>3, <1>7, <2>1
  <2>3. d = <<>> /\ Pieces(d) = <<>>
    BY <1>1, <1>6, <1>7, <2>2
  <2> QED
    BY <2>3, <1>6, <1>7 DEF FlattenSeq
<1>8. CASE q # 0
  <2>1. PICK f : Flattens(f, Pieces(d), q) /\ FlattenSeq(Pieces(d)) = f[q]
    BY <1>2, <1>6, <1>8, FlattenValue
  <2> DEFINE T == {k \in Nat : k + 1 <= q => f[k + 1] = SubSeq(d, 1, end(k + 1))}
  <2>2. \A i \in 1 .. q : f[i] = IF i = 1 THEN piece(i) ELSE f[i - 1] \o piece(i)
    BY <1>4, <2>1 DEF Flattens
  <2>3. 0 \in T
    <3>1. f[1] = piece(1)
      BY <1>2, <1>8, <2>2
    <3>2. piece(1) = SubSeq(d, 1, end(1))
      <4>1. (1 - 1) * BlockSize + 1 = 1
        OBVIOUS
      <4> HIDE DEF end
      <4> QED
        BY <4>1 DEF piece
    <3> HIDE DEF end
    <3> QED
      BY <3>1, <3>2
  <2>4. ASSUME NEW k \in T PROVE k + 1 \in T
    <3> HIDE DEF end
    <3>0. k \in Nat /\ (k + 1 <= q => f[k + 1] = SubSeq(d, 1, end(k + 1)))
      OBVIOUS
    <3>a. (k + 1) + 1 = k + 2 /\ q \in Nat
      BY <1>2, <3>0
    <3> SUFFICES ASSUME k + 2 <= q PROVE f[k + 2] = SubSeq(d, 1, end(k + 2))
      BY <3>0, <3>a
    <3> HIDE DEF T
    <3>1. k \in Nat /\ k + 1 \in 1 .. q /\ k + 2 \in 1 .. q /\ k + 1 < q
          /\ (k + 2) - 1 = k + 1 /\ k + 2 # 1
      BY ONLY <3>0, <3>a, k + 2 <= q
    <3>2. f[k + 1] = SubSeq(d, 1, end(k + 1))
      BY <3>0, <3>1
    <3>3. f[k + 2] = f[k + 1] \o piece(k + 2)
      BY <2>2, <3>1
    <3> DEFINE x == end(k + 1)
               y == end(k + 2)
    <3>4. piece(k + 2) = SubSeq(d, x + 1, y)
      <4>1. x = (k + 1) * BlockSize
        BY <1>5, <3>1
      <4>2. ((k + 2) - 1) * BlockSize + 1 = x + 1
        BY <3>1, <4>1
      <4> HIDE DEF x
      <4> QED
        BY <4>2 DEF piece
    <3>5. x \in Nat /\ x < Len(d) /\ x <= y /\ y \in Nat /\ y <= Len(d)
      <4>1. x = (k + 1) * BlockSize /\ x < Len(d)
        BY <1>2, <1>5, <3>1
      <4>2. (k + 1) * BlockSize < (k + 2) * BlockSize
        BY <1>2, <3>1
      <4>3. y \in Nat /\ y <= Len(d) /\ (y = (k + 2) * BlockSize \/ y = Len(d))
        BY <1>5, <3>1 DEF end
      <4>4. x \in Nat
        BY <1>5, <3>1
      <4> DEFINE z == (k + 2) * BlockSize
      <4> HIDE DEF x, y
      <4>5. z \in Nat /\ x < z
        BY <1>2, <3>1, <4>1, <4>2
      <4> HIDE DEF z
      <4>6. y = z \/ y = Len(d)
        BY <4>3 DEF z
      <4> QED
        BY <1>1, <4>1, <4>3, <4>4, <4>5, <4>6
    <3> HIDE DEF x, y
    <3>6. SubSeq(d, 1, x) \o SubSeq(d, x + 1, y) = SubSeq(d, 1, y)
      <4>1. 1 \in 1 .. Len(d) + 1 /\ x \in 1 - 1 .. Len(d) /\ y \in x .. Len(d)
        BY <1>1, <3>5
      <4> QED
        BY <1>1, <4>1, ConcatAdjacentSubSeq
    <3>7. f[k + 1] = SubSeq(d, 1, x)
      BY <3>2 DEF x
    <3>8. f[k + 2] = SubSeq(d, 1, y)
      BY <3>3, <3>4, <3>6, <3>7
    <3> QED
      BY <3>8 DEF y
  <2>5. T \in SUBSET Nat
    OBVIOUS
  <2> HIDE DEF T
  <2>6. q - 1 \in T
    <3>1. Nat \subseteq T
      BY <2>3, <2>4, <2>5, NatInduct
    <3> QED
      BY <1>2, <1>8, <3>1
  <2>7. f[q] = SubSeq(d, 1, end(q))
    <3>1. (q - 1) + 1 = q /\ q \in Nat /\ (q - 1) + 1 <= q
      BY <1>2
    <3> HIDE DEF end
    <3> QED
      BY <2>6, <3>1 DEF T
  <2>8. end(q) = Len(d)
    BY <1>2, <1>5, <1>8
  <2>9. f[q] = SubSeq(d, 1, Len(d))
    BY <2>7, <2>8
  <2> QED
    BY <1>1, <2>1, <2>9, SubSeqFull
<1> QED
  BY <1>7, <1>8
-----------------------------------------------------------------------------
\* Every chunk of what a writer stores is in the store or still to do.
DoneIsStored(w) ==
    writer[w].at # "idle" =>
        ToSet(Pieces(writer[w].data)) \subseteq DOMAIN final \cup ToSet(writer[w].todo)

\* The chunks of stored data are in the store, and none of them is the one that
\* is collected.
StoredInv ==
    /\ IndexInv
    /\ \A w \in Writers : DoneIsStored(w)
    /\ \A d \in stored : ToSet(Pieces(d)) \subseteq DOMAIN final
    /\ collector.at # "idle" => \A d \in stored : collector.chunk \notin ToSet(Pieces(d))

\* What is left to do is the chunk a writer is at and the ones after it.
LEMMA TodoRange ==
    ASSUME NEW s \in Seq(Chunks)
    PROVE  /\ s = <<>> => ToSet(s) = {}
           /\ s # <<>> => ToSet(s) \subseteq {s[1]} \cup ToSet(Tail(s))
<1>1. CASE s = <<>>
  BY <1>1 DEF ToSet
<1>2. CASE s # <<>>
  <2> SUFFICES ASSUME NEW i \in DOMAIN s PROVE s[i] \in {s[1]} \cup ToSet(Tail(s))
    BY <1>2 DEF ToSet
  <2>1. i \in 1 .. Len(s) /\ Len(Tail(s)) = Len(s) - 1 /\ Tail(s) \in Seq(Chunks)
    BY <1>2
  <2>2. CASE i # 1
    <3>1. i - 1 \in DOMAIN Tail(s) /\ Tail(s)[i - 1] = s[i]
      BY <1>2, <2>1, <2>2
    <3> QED
      BY <3>1 DEF ToSet
  <2> QED
    BY <2>2
<1> QED
  BY <1>1, <1>2

\* Every step of a writer: nothing is deleted, a chunk is done when it is in the
\* store, and data are stored when nothing is left to do.
LEMMA StoredWriter ==
    ASSUME StoredInv, NEW w \in Writers, WriterStep(w)
    PROVE  /\ \A v \in Writers : DoneIsStored(v)'
           /\ \A d \in stored' : ToSet(Pieces(d)) \subseteq DOMAIN final'
           /\ collector'.at = "idle"
<1>0. writer \in [Writers -> WriterState] /\ writer[w] \in WriterState
  BY DEF StoredInv, IndexInv, TypeInv
<1>1. writer[w].at # "idle" /\ collector.at = "idle" /\ collector' = collector
  BY DEF StoredInv, IndexInv, CollectorOK, WriterStep, Lookup, Confirm, Finish, PutExists,
         PutCreate, PutWrite, PutRename, InsertBit, InsertSet, InsertReady
<1>2. \A v \in Writers : v # w => writer'[v] = writer[v]
  BY <1>0 DEF WriterStep, Lookup, Confirm, Finish, PutExists, PutCreate,
         PutWrite, PutRename, InsertBit, InsertSet, To, NextChunk
<1>3. DOMAIN final \subseteq DOMAIN final'
  BY DEF WriterStep, Lookup, Confirm, Finish, PutExists, PutCreate, PutWrite, PutRename,
         InsertBit, InsertSet, TmpPath, With, disk
<1>4. ASSUME stored' = stored, DoneIsStored(w)'
      PROVE  /\ \A v \in Writers : DoneIsStored(v)'
             /\ \A d \in stored' : ToSet(Pieces(d)) \subseteq DOMAIN final'
             /\ collector'.at = "idle"
  BY <1>1, <1>2, <1>3, <1>4 DEF StoredInv, DoneIsStored
<1>5. ASSUME writer'[w].data = writer[w].data, writer'[w].todo = writer[w].todo
      PROVE  DoneIsStored(w)'
  BY <1>1, <1>3, <1>5 DEF StoredInv, DoneIsStored
<1>6. ASSUME NextChunk(w), Chunk(w) \in DOMAIN final, writer[w].todo # <<>>
      PROVE  DoneIsStored(w)'
  <2>1. writer'[w].data = writer[w].data /\ writer'[w].todo = Tail(writer[w].todo)
    BY <1>0, <1>6 DEF NextChunk, WriterState
  <2>2. writer[w].todo \in Seq(Chunks)
    BY <1>0 DEF WriterState
  <2>3. ToSet(writer[w].todo) \subseteq {Chunk(w)} \cup ToSet(Tail(writer[w].todo))
    BY <1>6, <2>2, TodoRange DEF Chunk
  <2> QED
    BY <1>1, <1>3, <1>6, <2>1, <2>3 DEF StoredInv, DoneIsStored
<1>7. CASE Lookup(w) \/ PutExists(w) \/ PutCreate(w) \/ PutWrite(w)
           \/ \E p \in Positions : InsertBit(w, p)
  <2>1. stored' = stored
    BY <1>7 DEF Lookup, PutExists, PutCreate, PutWrite, InsertBit
  <2>2. writer'[w].data = writer[w].data /\ writer'[w].todo = writer[w].todo
    BY <1>0, <1>7 DEF Lookup, PutExists, PutCreate, PutWrite, InsertBit, To, WriterState
  <2> QED
    BY <1>4, <1>5, <2>1, <2>2
<1>8. CASE Confirm(w)
  <2>1. stored' = stored /\ writer[w].todo # <<>>
    BY <1>8 DEF Confirm, StoredInv, IndexInv, TypeInv, WriterOK
  <2>2. CASE Chunk(w) \in present
    <3>1. NextChunk(w) /\ Chunk(w) \in DOMAIN final
      BY <1>8, <2>2 DEF Confirm, StoredInv, IndexInv
    <3> QED
      BY <1>4, <1>6, <2>1, <3>1
  <2>3. CASE Chunk(w) \notin present
    <3>1. writer'[w].data = writer[w].data /\ writer'[w].todo = writer[w].todo
      BY <1>0, <1>8, <2>3 DEF Confirm, To, WriterState
    <3> QED
      BY <1>4, <1>5, <2>1, <3>1
  <2> QED
    BY <2>2, <2>3
<1>9. CASE PutRename(w)
  <2>1. stored' = stored
    BY <1>9 DEF PutRename
  <2>2. CASE Chunk(w) \in DOMAIN tmp
    <3>1. writer'[w].data = writer[w].data /\ writer'[w].todo = writer[w].todo
      BY <1>0, <1>9, <2>2 DEF PutRename, WriterState
    <3> QED
      BY <1>4, <1>5, <2>1, <3>1
  <2>3. CASE Chunk(w) \notin DOMAIN tmp
    <3>1. writer'[w].at = "idle"
      BY <1>0, <1>9, <2>3 DEF PutRename, Idle
    <3>2. DoneIsStored(w)'
      BY <3>1 DEF DoneIsStored
    <3> QED
      BY <1>4, <2>1, <3>2
  <2> QED
    BY <2>2, <2>3
<1>10. CASE InsertSet(w)
  <2>1. stored' = stored /\ writer[w].todo # <<>> /\ NextChunk(w) /\ Chunk(w) \in DOMAIN final
    BY <1>10 DEF InsertSet, InsertReady, StoredInv, IndexInv, TypeInv, WriterOK, PutBeforeInsert
  <2> QED
    BY <1>4, <1>6, <2>1
<1>11. CASE Finish(w)
  <2>1. writer[w].todo = <<>> /\ stored' = stored \cup {writer[w].data} /\ final' = final
        /\ writer'[w].at = "idle"
    BY <1>0, <1>11 DEF Finish, Idle, disk
  <2>2. ToSet(writer[w].todo) = {}
    BY <1>0, <2>1, TodoRange DEF WriterState
  <2>3. ToSet(Pieces(writer[w].data)) \subseteq DOMAIN final
    BY <1>1, <2>2 DEF StoredInv, DoneIsStored
  <2>4. \A v \in Writers : DoneIsStored(v)'
    BY <1>2, <2>1 DEF StoredInv, DoneIsStored
  <2> QED
    BY <1>1, <2>1, <2>3, <2>4 DEF StoredInv
<1> QED
  BY <1>7, <1>8, <1>9, <1>10, <1>11 DEF WriterStep

\* Every step keeps the chunks of stored data in the store.
LEMMA StoredNext == StoredInv /\ [Next]_vars => StoredInv'
<1> SUFFICES ASSUME StoredInv, [Next]_vars PROVE StoredInv'
  OBVIOUS
<1>0. IndexInv'
  BY IndexNext DEF StoredInv
<1>1. ASSUME NEW w \in Writers, WriterStep(w) PROVE StoredInv'
  BY <1>0, <1>1, StoredWriter DEF StoredInv
<1>2. ASSUME NEW w \in Writers, NEW d \in Data, Start(w, d) PROVE StoredInv'
  <2>1. /\ writer'[w].data = d /\ writer'[w].todo = Pieces(d)
        /\ \A v \in Writers : v # w => writer'[v] = writer[v]
    BY <1>2 DEF Start, Idle, StoredInv, IndexInv, TypeInv, WriterState
  <2>2. UNCHANGED <<final, stored, collector>> /\ collector.at = "idle"
    BY <1>2 DEF Start, disk
  <2>3. \A v \in Writers : DoneIsStored(v)'
    BY <2>1, <2>2 DEF StoredInv, DoneIsStored
  <2> QED
    BY <1>0, <2>2, <2>3 DEF StoredInv
<1>3. ASSUME NEW part \in SUBSET present, Crash(part) PROVE StoredInv'
  <2>1. UNCHANGED <<final, stored>> /\ collector'.at = "idle"
        /\ \A w \in Writers : writer'[w].at = "idle"
    BY <1>3 DEF Crash, Idle, disk
  <2> QED
    BY <1>0, <2>1 DEF StoredInv, DoneIsStored
<1>4. CASE Save \/ CollectSave \/ UNCHANGED vars
  <2>1. UNCHANGED <<final, stored, writer>> /\ collector'.chunk = collector.chunk
        /\ (collector'.at # "idle" => collector.at # "idle")
    BY <1>4 DEF Save, CollectSave, StoredInv, IndexInv, TypeInv, vars, disk
  <2> QED
    BY <1>0, <2>1 DEF StoredInv, DoneIsStored
<1>5. ASSUME NEW c \in Chunks, Collect(c) PROVE StoredInv'
  <2>1. /\ UNCHANGED <<final, writer>> /\ collector' = [at |-> "save", chunk |-> c]
        /\ stored' = {d \in stored : c \notin ToSet(Pieces(d))}
    BY <1>5 DEF Collect, disk
  <2>2. collector'.chunk = c
    BY <2>1
  <2> QED
    BY <1>0, <2>1, <2>2 DEF StoredInv, DoneIsStored
<1>6. CASE Delete
  <2>1. UNCHANGED <<writer, stored>> /\ collector'.at = "idle" /\ collector.at # "idle"
        /\ DOMAIN final' = DOMAIN final \ {collector.chunk}
    BY <1>6 DEF Delete, Without
  <2>2. \A w \in Writers : writer'[w].at = "idle"
    BY <2>1 DEF StoredInv, IndexInv, CollectorOK
  <2>3. \A w \in Writers : DoneIsStored(w)'
    BY <2>2 DEF DoneIsStored
  <2> QED
    BY <1>0, <2>1, <2>3 DEF StoredInv
<1> QED
  BY <1>1, <1>2, <1>3, <1>4, <1>5, <1>6 DEF Next

\* A chunk is never taken for an error.
LEMMA NotFoundApart ==
    ASSUME NEW d \in Data
    PROVE  NotFound \notin ToSet(Pieces(d))
<1>1. NotFound \notin Seq(Nat \ {0})
  <2> SUFFICES ASSUME NotFound \in Seq(Nat \ {0}) PROVE FALSE
    OBVIOUS
  <2>1. Len(NotFound) = 1 /\ NotFound[1] = 0
    BY DEF NotFound
  <2>2. \A i \in 1 .. Len(NotFound) : NotFound[i] \in Nat \ {0}
    BY ElementOfSeq
  <2> QED
    BY <2>1, <2>2
<1> QED
  BY <1>1, PiecesType

\* When its chunks are in the store and found whole, data read back are the
\* data.
LEMMA StoredGives == RacedInv /\ StoredInv => StoredIsReadable
<1> SUFFICES ASSUME RacedInv, StoredInv, NEW d \in stored
             PROVE  LET read == [k \in DOMAIN Pieces(d) |-> Get(Pieces(d)[k])]
                    IN  /\ \A c \in ToSet(Pieces(d)) : Exists(c) /\ (Get(c) = c \/ Unfinished(c))
                        /\ NotFound \notin ToSet(read) => FlattenSeq(read) = d
  BY DEF StoredIsReadable
<1> DEFINE read == [k \in DOMAIN Pieces(d) |-> Get(Pieces(d)[k])]
<1>1. d \in Data
  BY DEF RacedInv, WholeInv, TypeInv
<1>2. Pieces(d) \in Seq(Chunks)
  BY <1>1, PiecesType
<1>3. \A k \in DOMAIN Pieces(d) : Pieces(d)[k] \in ToSet(Pieces(d))
  BY DEF ToSet
<1>4. \A c \in ToSet(Pieces(d)) : Exists(c) /\ (Get(c) = c \/ Unfinished(c))
  BY WholeGives DEF StoredInv, BlocksWhole, Get, Exists
<1>5. ASSUME NotFound \notin ToSet(read) PROVE FlattenSeq(read) = d
  <2>1. \A k \in DOMAIN Pieces(d) : Get(Pieces(d)[k]) # NotFound
    BY <1>5 DEF ToSet
  <2>2. \A k \in DOMAIN Pieces(d) : Get(Pieces(d)[k]) = Pieces(d)[k]
    BY <2>1 DEF Get
  <2>3. read = [k \in DOMAIN Pieces(d) |-> Pieces(d)[k]]
    BY <2>2
  <2>4. read = Pieces(d)
    BY <1>2, <2>3
  <2> HIDE DEF read
  <2> QED
    BY <1>1, <2>4, PiecesWhole
<1> QED
  BY <1>4, <1>5

\* Data whose storing has ended without an error are in the store until one of
\* their blocks is collected, and a read gives them or fails, the latter only
\* for a chunk whose file an overtaken writer has not finished: although most
\* of their chunks may have been skipped as duplicates or put by others at the
\* same time, and whatever crashed since (DedupIndex, put, get and FixedChunker
\* together).
THEOREM StoredAlwaysReadable == Spec => []StoredIsReadable
<1>1. Init => StoredInv
  BY TypeInit DEF Init, StoredInv, DoneIsStored, IndexInv, PutBeforeInsert, CollectorOK, Idle
<1> QED
  BY <1>1, RacedInit, RacedNext, StoredNext, StoredGives, PTL DEF Spec
=============================================================================
