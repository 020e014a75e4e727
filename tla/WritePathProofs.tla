--------------------------- MODULE WritePathProofs ---------------------------
(***************************************************************************)
(* Theorems about WritePath for any files, handles, bytes, seeded content  *)
(* and bounds, and for every sequence of calls.                            *)
(***************************************************************************)
EXTENDS WritePath, FiniteSetTheorems, SequenceTheorems, TLAPS

\* Types, variable by variable, and what no callback lets happen to the maps.
LiveTyped == live \in [DOMAIN live -> [size : 0 .. MaxLen]] /\ DOMAIN live \subseteq spent
ManifestTyped == manifest \in [DOMAIN manifest -> Content] /\ DOMAIN manifest \subseteq spent
OpenTyped ==
    /\ open \in [DOMAIN open -> OpenFileState] /\ DOMAIN open \subseteq Handles
    /\ \A h \in DOMAIN open : open[h].ino \in spent

\* A map of counts: positive ones, of content with bytes.
CountMap(rc) ==
    rc \in [DOMAIN rc -> Nat \ {0}] /\ DOMAIN rc \subseteq Content /\ <<>> \notin DOMAIN rc

HistoryTyped ==
    /\ posix \in [Inodes -> Content]
    /\ \A i \in Inodes : i \notin DOMAIN live => posix[i] = <<>>
    /\ stale \subseteq DOMAIN live /\ astray \subseteq DOMAIN live
    /\ short \subseteq Content

Typed ==
    LiveTyped /\ ManifestTyped /\ OpenTyped /\ CountMap(refs) /\ HistoryTyped /\ spent \subseteq Inodes

\* The flag says that the handle's content is the root it committed last.
Clean ==
    \A h \in DOMAIN open :
        open[h].cas_committed => open[h].data # <<>> /\ open[h].last_committed_root = open[h].data

\* The size is up to date unless a handle has content to commit.
SizeKept(i) ==
    (\A h \in Writers(i) : open[h].cas_committed) =>
        live[i].size = IF i \in stale THEN 0 ELSE Len(Committed(i))

\* A file not astray has one handle with content at most, and that has all of
\* the file; with none the manifest has it, unless it was emptied since.
Kept(i) ==
    i \notin astray =>
        /\ \A g, h \in Writers(i) : g = h
        /\ \A h \in Writers(i) :
              /\ open[h].data = posix[i]
              /\ open[h].cas_committed => Committed(i) = open[h].data /\ i \notin stale
        /\ Writers(i) = {} => posix[i] = IF i \in stale THEN <<>> ELSE Committed(i)

ContentInv == \A i \in DOMAIN live : SizeKept(i) /\ Kept(i)

\* Who has a count of a block: the handle that committed it, until it commits
\* another, gives it up or is closed, and then the file, while it is settled.
Owner == ({"handle"} \X Handles) \cup ({"file"} \X Inodes)
HandleOwns(h) == IF h \in DOMAIN open THEN open[h].last_committed_root ELSE <<>>
FileOwns(i) == IF Settled(i) THEN Committed(i) ELSE <<>>
Own == [o \in Owner |-> IF o[1] = "handle" THEN HandleOwns(o[2]) ELSE FileOwns(o[2])]

\* Counts rc are enough for what own says each owner has, blocks of sh apart.
Covers(rc, own, sh) ==
    \A d : d # <<>> /\ d \notin sh =>
        RefCount(rc, d) >= Cardinality({o \in DOMAIN own : own[o] = d})

IInv == Typed /\ Clean /\ ContentInv /\ Covers(refs, Own, short)

-----------------------------------------------------------------------------
(* Content.                                                                *)

\* Content is the sequences of bytes within the bound.
LEMMA ContentIsSeq ==
    ASSUME NEW c
    PROVE  c \in Content <=> c \in Seq(Byte) /\ Len(c) <= MaxLen
<1>1. ASSUME c \in Content PROVE c \in Seq(Byte) /\ Len(c) <= MaxLen
  <2>1. PICK n \in 0 .. MaxLen : c \in [1 .. n -> Byte]
    BY <1>1 DEF Content
  <2>2. n \in Nat /\ n <= MaxLen
    BY ConstantsAssumption
  <2>3. c \in Seq(Byte)
    BY <2>1, <2>2, SeqDef
  <2>4. DOMAIN c = 1 .. n /\ DOMAIN c = 1 .. Len(c) /\ Len(c) \in Nat
    BY <2>1, <2>3, LenProperties
  <2>5. Len(c) = n
    BY <2>2, <2>4
  <2> QED
    BY <2>2, <2>3, <2>5
<1>2. ASSUME c \in Seq(Byte), Len(c) <= MaxLen PROVE c \in Content
  <2>1. Len(c) \in Nat /\ c \in [1 .. Len(c) -> Byte]
    BY <1>2, LenProperties
  <2>2. Len(c) \in 0 .. MaxLen
    BY <1>2, <2>1, ConstantsAssumption
  <2> QED
    BY <2>1, <2>2 DEF Content
<1> QED
  BY <1>1, <1>2

\* No bytes are content.
LEMMA EmptyContent == <<>> \in Content /\ Len(<<>>) = 0
<1>1. <<>> \in Seq(Byte) /\ Len(<<>>) = 0
  BY EmptySeq
<1>2. 0 <= MaxLen
  BY ConstantsAssumption
<1> QED
  BY <1>1, <1>2, ContentIsSeq

\* Content without bytes is the empty sequence.
LEMMA EmptyIff ==
    ASSUME NEW c \in Content
    PROVE  Len(c) \in 0 .. MaxLen /\ (c = <<>> <=> Len(c) = 0)
<1>1. c \in Seq(Byte) /\ Len(c) <= MaxLen
  BY ContentIsSeq
<1>2. Len(c) \in Nat
  BY <1>1, LenProperties
<1> QED
  BY <1>1, <1>2, EmptySeq, ConstantsAssumption

\* What a function on 1 .. n is as a sequence.
LEMMA FunctionIsContent ==
    ASSUME NEW n \in 0 .. MaxLen, NEW c \in [1 .. n -> Byte]
    PROVE  c \in Content /\ Len(c) = n
<1>1. n \in Nat
  BY ConstantsAssumption
<1>2. c \in Content
  BY DEF Content
<1>3. c \in Seq(Byte)
  BY <1>2, ContentIsSeq
<1>4. DOMAIN c = 1 .. n /\ DOMAIN c = 1 .. Len(c) /\ Len(c) \in Nat
  BY <1>3, LenProperties
<1> QED
  BY <1>1, <1>2, <1>4

\* Vec::resize gives content of the length asked for; that of what is empty
\* depends on nothing else.
LEMMA ResizeType ==
    ASSUME NEW c \in Content, NEW n \in 0 .. MaxLen
    PROVE  Resize(c, n) \in Content /\ Len(Resize(c, n)) = n
<1>1. c \in Seq(Byte) /\ Len(c) \in Nat
  BY ContentIsSeq, LenProperties
<1>2. \A k \in 1 .. Len(c) : c[k] \in Byte
  BY <1>1, ElementOfSeq
<1>3. Resize(c, n) \in [1 .. n -> Byte]
  <2> SUFFICES ASSUME NEW k \in 1 .. n PROVE (IF k <= Len(c) THEN c[k] ELSE 0) \in Byte
    BY DEF Resize
  <2>1. 0 \in Byte
    BY DEF Byte
  <2> QED
    BY <1>1, <1>2, <2>1
<1> QED
  BY <1>3, FunctionIsContent

\* A write of one byte within the bound gives content, and it is not empty.
LEMMA PwriteType ==
    ASSUME NEW c \in Content, NEW offset \in 0 .. MaxLen - 1, NEW b \in Bytes
    PROVE  Pwrite(c, offset, <<b>>) \in Content /\ Pwrite(c, offset, <<b>>) # <<>>
<1> DEFINE end == offset + Len(<<b>>)
           base == IF end > Len(c) THEN Resize(c, end) ELSE c
<1>1. end = offset + 1 /\ end \in 1 .. MaxLen /\ offset \in Nat
  BY ConstantsAssumption
<1>2. Len(c) \in 0 .. MaxLen
  BY EmptyIff
<1>3. base \in Content /\ Len(base) \in 0 .. MaxLen /\ Len(base) >= end
  <2>1. CASE end > Len(c)
    <3>1. base = Resize(c, end) /\ end \in 0 .. MaxLen
      BY <1>1, <2>1
    <3>2. base \in Content /\ Len(base) = end
      BY <3>1, ResizeType
    <3> QED
      BY <1>1, <3>2
  <2>2. CASE ~(end > Len(c))
    BY <1>1, <1>2, <2>2
  <2> QED
    BY <2>1, <2>2
<1>4. Pwrite(c, offset, <<b>>) =
        [k \in 1 .. Len(base) |->
            IF offset < k /\ k <= end THEN <<b>>[k - offset] ELSE base[k]]
  BY DEF Pwrite
<1> HIDE DEF base
<1>5. \A k \in 1 .. Len(base) : base[k] \in Byte
  BY <1>3, ContentIsSeq, ElementOfSeq
<1>6. Pwrite(c, offset, <<b>>) \in [1 .. Len(base) -> Byte]
  <2> SUFFICES ASSUME NEW k \in 1 .. Len(base)
               PROVE  (IF offset < k /\ k <= end THEN <<b>>[k - offset] ELSE base[k]) \in Byte
    BY <1>4
  <2>1. CASE offset < k /\ k <= end
    <3>1. k - offset = 1
      BY <1>1, <1>3, <2>1
    <3> QED
      BY <2>1, <3>1 DEF Byte
  <2>2. CASE ~(offset < k /\ k <= end)
    BY <1>5, <2>2
  <2> QED
    BY <2>1, <2>2
<1>7. Pwrite(c, offset, <<b>>) \in Content /\ Len(Pwrite(c, offset, <<b>>)) = Len(base)
  BY <1>3, <1>6, FunctionIsContent
<1> QED
  BY <1>1, <1>3, <1>7, EmptyIff

\* A write at the end appends.
LEMMA PwriteAtEnd ==
    ASSUME NEW c \in Content, NEW b \in Bytes, Len(c) \in 0 .. MaxLen - 1
    PROVE  c \o <<b>> = Pwrite(c, Len(c), <<b>>)
<1> DEFINE end == Len(c) + Len(<<b>>)
           base == Resize(c, end)
<1>1. end = Len(c) + 1 /\ end > Len(c) /\ end \in 1 .. MaxLen /\ Len(c) \in Nat
  BY ConstantsAssumption
<1>2. base \in Content /\ Len(base) = end
  BY <1>1, ResizeType, ConstantsAssumption
<1>3. Pwrite(c, Len(c), <<b>>) =
        [k \in 1 .. end |->
            IF Len(c) < k /\ k <= end THEN <<b>>[k - Len(c)] ELSE base[k]]
  BY <1>1, <1>2 DEF Pwrite
<1>4. c \in Seq(Byte) /\ <<b>> \in Seq(Byte) /\ Len(<<b>>) = 1
  BY ContentIsSeq DEF Byte
<1>5. /\ c \o <<b>> \in Seq(Byte) /\ Len(c \o <<b>>) = end
      /\ \A k \in 1 .. end : (c \o <<b>>)[k] = IF k <= Len(c) THEN c[k] ELSE <<b>>[k - Len(c)]
  BY <1>4, ConcatProperties
<1>6. DOMAIN (c \o <<b>>) = 1 .. end /\ c \o <<b>> \in [1 .. end -> Byte]
  BY <1>5, LenProperties
<1>7. \A k \in 1 .. end : base[k] = IF k <= Len(c) THEN c[k] ELSE 0
  BY DEF Resize
<1> HIDE DEF base
<1>8. \A k \in 1 .. end :
         (c \o <<b>>)[k] = IF Len(c) < k /\ k <= end THEN <<b>>[k - Len(c)] ELSE base[k]
  <2> SUFFICES ASSUME NEW k \in 1 .. end
               PROVE  (c \o <<b>>)[k] =
                        IF Len(c) < k /\ k <= end THEN <<b>>[k - Len(c)] ELSE base[k]
    OBVIOUS
  <2>1. CASE k <= Len(c)
    BY <1>1, <1>5, <1>7, <2>1
  <2>2. CASE ~(k <= Len(c))
    BY <1>1, <1>5, <2>2
  <2> QED
    BY <2>1, <2>2
<1> QED
  BY <1>3, <1>6, <1>8
\* A write at the start of a file of one byte at most replaces it.
LEMMA PwriteCovers ==
    ASSUME NEW c \in Content, Len(c) <= 1, NEW b \in Bytes
    PROVE  Pwrite(c, 0, <<b>>) = <<b>>
<1> DEFINE base == IF 1 > Len(c) THEN Resize(c, 1) ELSE c
<1>1. Len(c) \in 0 .. MaxLen /\ Len(<<b>>) = 1 /\ 1 \in 0 .. MaxLen
  BY EmptyIff, ConstantsAssumption
<1>2. Len(base) = 1
  <2>1. CASE 1 > Len(c)
    <3>1. Len(Resize(c, 1)) = 1
      BY <1>1, ResizeType
    <3> QED
      BY <2>1, <3>1
  <2>2. CASE ~(1 > Len(c))
    <3>1. base = c
      BY <2>2
    <3>2. Len(c) \in Nat
      BY <1>1, ConstantsAssumption
    <3>3. \A n \in Nat : n <= 1 /\ ~(1 > n) => n = 1
      OBVIOUS
    <3>4. Len(c) = 1
      BY <2>2, <3>2, <3>3
    <3> QED
      BY <3>1, <3>4
  <2> QED
    BY <2>1, <2>2
<1>3. Pwrite(c, 0, <<b>>) =
        [k \in 1 .. Len(base) |-> IF 0 < k /\ k <= 1 THEN <<b>>[k - 0] ELSE base[k]]
  BY <1>1 DEF Pwrite
<1> HIDE DEF base
<1>4. Pwrite(c, 0, <<b>>) = [k \in 1 .. 1 |-> IF 0 < k /\ k <= 1 THEN <<b>>[k - 0] ELSE base[k]]
  BY <1>2, <1>3
<1>5. \A k \in 1 .. 1 : (IF 0 < k /\ k <= 1 THEN <<b>>[k - 0] ELSE base[k]) = b
  OBVIOUS
<1>6. <<b>> \in Seq({b}) /\ Len(<<b>>) = 1 /\ <<b>>[1] = b
  OBVIOUS
<1>7. <<b>> = [k \in 1 .. 1 |-> b]
  BY <1>6, LenProperties
<1> QED
  BY <1>4, <1>5, <1>7

\* Resizing to nothing leaves nothing, whatever there was.
LEMMA ResizeToNothing ==
    ASSUME NEW c \in Content
    PROVE  Resize(c, 0) = <<>>
<1>1. Resize(c, 0) \in Content /\ Len(Resize(c, 0)) = 0
  BY ResizeType, ConstantsAssumption
<1> QED
  BY <1>1, EmptyIff

-----------------------------------------------------------------------------
(* Reference counts.                                                       *)

\* A count is a natural number, 0 where there is no entry.
LEMMA RefCountType ==
    ASSUME NEW rc, CountMap(rc)
    PROVE  \A d : RefCount(rc, d) \in Nat
  BY DEF CountMap, RefCount

\* A decrement takes one from a count above 0, and leaves no entry of 0.
LEMMA DecrementFacts ==
    ASSUME NEW rc, CountMap(rc), NEW d
    PROVE  /\ CountMap(Decrement(rc, d))
           /\ DOMAIN Decrement(rc, d) \subseteq DOMAIN rc
           /\ \A c \in DOMAIN Decrement(rc, d) : Decrement(rc, d)[c] <= rc[c]
           /\ \A c : RefCount(Decrement(rc, d), c) =
                       IF c = d /\ RefCount(rc, d) > 0 THEN RefCount(rc, d) - 1 ELSE RefCount(rc, c)
<1>1. CASE RefCount(rc, d) <= 1
  <2> DEFINE dec == [c \in DOMAIN rc \ {d} |-> rc[c]]
  <2>1. Decrement(rc, d) = dec
    BY <1>1 DEF Decrement
  <2>2. DOMAIN dec = DOMAIN rc \ {d} /\ \A c \in DOMAIN dec : dec[c] = rc[c]
    OBVIOUS
  <2>3. CountMap(dec)
    BY <2>2 DEF CountMap
  <2>4. \A c : RefCount(dec, c) =
                 IF c = d /\ RefCount(rc, d) > 0 THEN RefCount(rc, d) - 1 ELSE RefCount(rc, c)
    BY <1>1, <2>2 DEF RefCount, CountMap
  <2>5. \A c \in DOMAIN dec : dec[c] <= rc[c]
    BY <2>2 DEF CountMap
  <2> QED
    BY <2>1, <2>2, <2>3, <2>4, <2>5
<1>2. CASE ~(RefCount(rc, d) <= 1)
  <2> DEFINE dec == [rc EXCEPT ![d] = @ - 1]
  <2>1. Decrement(rc, d) = dec
    BY <1>2 DEF Decrement
  <2>2. d \in DOMAIN rc /\ RefCount(rc, d) = rc[d] /\ rc[d] \in Nat /\ rc[d] > 1
    BY <1>2 DEF RefCount, CountMap
  <2>3. DOMAIN dec = DOMAIN rc /\ dec[d] = rc[d] - 1
        /\ \A c \in DOMAIN rc : c # d => dec[c] = rc[c]
    BY <2>2
  <2>4. dec \in [DOMAIN dec -> Nat \ {0}]
    BY <2>2, <2>3 DEF CountMap
  <2> HIDE DEF dec
  <2>5. CountMap(dec)
    BY <2>3, <2>4 DEF CountMap
  <2>6. \A c : RefCount(dec, c) =
                 IF c = d /\ RefCount(rc, d) > 0 THEN RefCount(rc, d) - 1 ELSE RefCount(rc, c)
    BY <2>2, <2>3 DEF RefCount
  <2>7. \A c \in DOMAIN dec : dec[c] <= rc[c]
    BY <2>2, <2>3 DEF CountMap
  <2> QED
    BY <2>1, <2>3, <2>5, <2>6, <2>7
<1> QED
  BY <1>1, <1>2

\* An increment adds one to one count.
LEMMA IncrementFacts ==
    ASSUME NEW rc, CountMap(rc), NEW d \in Content, d # <<>>
    PROVE  /\ CountMap(Increment(rc, d))
           /\ \A c : RefCount(Increment(rc, d), c) =
                       IF c = d THEN RefCount(rc, d) + 1 ELSE RefCount(rc, c)
<1> DEFINE inc == Increment(rc, d)
<1>1. DOMAIN inc = DOMAIN rc \cup {d} /\ inc[d] = RefCount(rc, d) + 1
      /\ \A c \in DOMAIN rc : c # d => inc[c] = rc[c]
  BY DEF Increment
<1>2. RefCount(rc, d) \in Nat
  BY RefCountType
<1>3. inc \in [DOMAIN inc -> Nat \ {0}]
  BY <1>1, <1>2 DEF CountMap, Increment
<1> HIDE DEF inc
<1>4. CountMap(inc)
  BY <1>1, <1>3 DEF CountMap
<1>5. \A c : RefCount(inc, c) = IF c = d THEN RefCount(rc, d) + 1 ELSE RefCount(rc, c)
  BY <1>1 DEF RefCount
<1> QED
  BY <1>4, <1>5 DEF inc

-----------------------------------------------------------------------------
(* The counts against what each owner has.                                 *)

\* Handles and files are finitely many.
LEMMA OwnersFinite ==
    ASSUME NEW own, DOMAIN own = Owner
    PROVE  \A d : /\ IsFiniteSet({o \in DOMAIN own : own[o] = d})
                  /\ Cardinality({o \in DOMAIN own : own[o] = d}) \in Nat
<1>1. IsFiniteSet({"handle"}) /\ IsFiniteSet({"file"})
  BY FS_Singleton
<1>2. IsFiniteSet({"handle"} \X Handles) /\ IsFiniteSet({"file"} \X Inodes)
  BY <1>1, FS_Product, ConstantsAssumption
<1>3. IsFiniteSet(Owner)
  BY <1>2, FS_Union DEF Owner
<1> SUFFICES ASSUME NEW d
             PROVE  /\ IsFiniteSet({o \in DOMAIN own : own[o] = d})
                    /\ Cardinality({o \in DOMAIN own : own[o] = d}) \in Nat
  OBVIOUS
<1>4. {o \in DOMAIN own : own[o] = d} \subseteq Owner
  OBVIOUS
<1>5. IsFiniteSet({o \in DOMAIN own : own[o] = d})
  BY <1>3, <1>4, FS_Subset
<1> QED
  BY <1>5, FS_CardinalityType

\* Owners that have the same blocks or none need no more counts.
LEMMA CoversLess ==
    ASSUME NEW rc, CountMap(rc), NEW own, DOMAIN own = Owner, NEW sh, Covers(rc, own, sh),
           NEW less, DOMAIN less = Owner, \A o \in Owner : less[o] # <<>> => less[o] = own[o]
    PROVE  Covers(rc, less, sh)
<1> SUFFICES ASSUME NEW d, d # <<>>, d \notin sh
             PROVE  RefCount(rc, d) >= Cardinality({o \in DOMAIN less : less[o] = d})
  BY DEF Covers
<1> DEFINE S == {o \in DOMAIN own : own[o] = d}
           T == {o \in DOMAIN less : less[o] = d}
<1>1. RefCount(rc, d) >= Cardinality(S) /\ RefCount(rc, d) \in Nat
  BY RefCountType DEF Covers
<1>2. T \subseteq S /\ IsFiniteSet(S) /\ Cardinality(S) \in Nat /\ Cardinality(T) \in Nat
  BY OwnersFinite
<1>3. Cardinality(T) <= Cardinality(S)
  BY <1>2, FS_Subset
<1> HIDE DEF S, T
<1>4. RefCount(rc, d) >= Cardinality(T)
  BY <1>1, <1>2, <1>3
<1> QED
  BY <1>4 DEF T

\* An owner gives up its block, and the count goes down.
LEMMA CoversDisowned ==
    ASSUME NEW rc, CountMap(rc), NEW own, DOMAIN own = Owner, NEW sh, Covers(rc, own, sh),
           NEW p \in Owner, NEW less, DOMAIN less = Owner, less[p] = <<>>,
           \A o \in Owner : o # p => less[o] = own[o]
    PROVE  Covers(Decrement(rc, own[p]), less, sh)
<1> SUFFICES ASSUME NEW d, d # <<>>, d \notin sh
             PROVE  RefCount(Decrement(rc, own[p]), d) >= Cardinality({o \in DOMAIN less : less[o] = d})
  BY DEF Covers
<1> DEFINE S == {o \in DOMAIN own : own[o] = d}
           T == {o \in DOMAIN less : less[o] = d}
<1>1. RefCount(rc, d) >= Cardinality(S) /\ RefCount(rc, d) \in Nat
  BY RefCountType DEF Covers
<1>2. T = S \ {p} /\ IsFiniteSet(S) /\ Cardinality(S) \in Nat /\ Cardinality(T) \in Nat
  BY OwnersFinite
<1>3. Cardinality(T) = IF p \in S THEN Cardinality(S) - 1 ELSE Cardinality(S)
  BY <1>2, FS_RemoveElement
<1>4. p \in S <=> own[p] = d
  OBVIOUS
<1> HIDE DEF S, T
<1>5. RefCount(Decrement(rc, own[p]), d) =
        IF d = own[p] /\ RefCount(rc, own[p]) > 0 THEN RefCount(rc, own[p]) - 1 ELSE RefCount(rc, d)
  BY DecrementFacts
<1>6. RefCount(Decrement(rc, own[p]), d) >= Cardinality(T)
  <2>1. CASE own[p] = d
    BY <1>1, <1>2, <1>3, <1>4, <1>5, <2>1
  <2>2. CASE own[p] # d
    BY <1>1, <1>2, <1>3, <1>4, <1>5, <2>2
  <2> QED
    BY <2>1, <2>2
<1> QED
  BY <1>6 DEF T

\* An owner that has nothing gets a block, and the count goes up.
LEMMA CoversOwned ==
    ASSUME NEW rc, CountMap(rc), NEW own, DOMAIN own = Owner, NEW sh, Covers(rc, own, sh),
           NEW p \in Owner, own[p] = <<>>, NEW d \in Content, d # <<>>,
           NEW more, DOMAIN more = Owner, more[p] = d,
           \A o \in Owner : o # p => more[o] = own[o]
    PROVE  Covers(Increment(rc, d), more, sh)
<1> SUFFICES ASSUME NEW e, e # <<>>, e \notin sh
             PROVE  RefCount(Increment(rc, d), e) >= Cardinality({o \in DOMAIN more : more[o] = e})
  BY DEF Covers
<1> DEFINE S == {o \in DOMAIN own : own[o] = e}
           T == {o \in DOMAIN more : more[o] = e}
<1>1. RefCount(rc, e) >= Cardinality(S) /\ RefCount(rc, e) \in Nat
  BY RefCountType DEF Covers
<1>2. IsFiniteSet(S) /\ Cardinality(S) \in Nat
  BY OwnersFinite
<1>3. RefCount(Increment(rc, d), e) = IF e = d THEN RefCount(rc, d) + 1 ELSE RefCount(rc, e)
  BY IncrementFacts
<1>4. CASE e = d
  <2>1. T = S \cup {p} /\ p \notin S
    BY <1>4
  <2>2. Cardinality(T) = Cardinality(S) + 1
    BY <1>2, <2>1, FS_AddElement
  <2> HIDE DEF S, T
  <2>3. RefCount(Increment(rc, d), e) >= Cardinality(T)
    BY <1>1, <1>2, <1>3, <1>4, <2>2
  <2> QED
    BY <2>3 DEF T
<1>5. CASE e # d
  <2>1. T = S
    BY <1>5
  <2> QED
    BY <1>1, <1>3, <1>5, <2>1
<1> QED
  BY <1>4, <1>5

\* A block passes from an owner to one that has nothing.
LEMMA CoversPassed ==
    ASSUME NEW rc, CountMap(rc), NEW own, DOMAIN own = Owner, NEW sh, Covers(rc, own, sh),
           NEW p \in Owner, NEW q \in Owner, own[p] # <<>>, own[q] = <<>>,
           NEW then, DOMAIN then = Owner, then[p] = <<>>, then[q] = own[p],
           \A o \in Owner : o # p /\ o # q => then[o] = own[o]
    PROVE  Covers(rc, then, sh)
<1> SUFFICES ASSUME NEW d, d # <<>>, d \notin sh
             PROVE  RefCount(rc, d) >= Cardinality({o \in DOMAIN then : then[o] = d})
  BY DEF Covers
<1> DEFINE S == {o \in DOMAIN own : own[o] = d}
           T == {o \in DOMAIN then : then[o] = d}
<1>1. RefCount(rc, d) >= Cardinality(S) /\ RefCount(rc, d) \in Nat
  BY RefCountType DEF Covers
<1>2. IsFiniteSet(S) /\ Cardinality(S) \in Nat /\ Cardinality(T) \in Nat
  BY OwnersFinite
<1>3. CASE own[p] = d
  <2>1. T = (S \ {p}) \cup {q} /\ p \in S /\ q \notin S \ {p}
    BY <1>3
  <2>2. IsFiniteSet(S \ {p}) /\ Cardinality(S \ {p}) = Cardinality(S) - 1
    BY <1>2, <2>1, FS_RemoveElement
  <2>3. Cardinality(T) = Cardinality(S \ {p}) + 1
    BY <2>1, <2>2, FS_AddElement
  <2> HIDE DEF S, T
  <2>4. Cardinality(T) = Cardinality(S)
    BY <1>2, <2>2, <2>3
  <2> QED
    BY <1>1, <2>4 DEF T
<1>4. CASE own[p] # d
  <2>1. T = S
    BY <1>4
  <2> QED
    BY <1>1, <2>1
<1> QED
  BY <1>3, <1>4

\* A count that no owner gave up goes down: the block is not spoken for again.
LEMMA CoversShort ==
    ASSUME NEW rc, CountMap(rc), NEW own, NEW sh, Covers(rc, own, sh), NEW d
    PROVE  Covers(Decrement(rc, d), own, sh \cup {d})
<1>1. \A c : c # d => RefCount(Decrement(rc, d), c) = RefCount(rc, c)
  BY DecrementFacts
<1> QED
  BY <1>1 DEF Covers

\* A count of no block is no count.
LEMMA CoversNone ==
    ASSUME NEW rc, CountMap(rc), NEW own, NEW sh, Covers(rc, own, sh)
    PROVE  Covers(Decrement(rc, <<>>), own, sh)
<1>1. \A d : d # <<>> => RefCount(Decrement(rc, <<>>), d) = RefCount(rc, d)
  BY DecrementFacts
<1> QED
  BY <1>1 DEF Covers

\* An owner p commits block d: the count moves to it from p's last one, and p
\* keeps the block, passes it on to q, or leaves it to others.
LEMMA CoversCommit ==
    ASSUME NEW rc, CountMap(rc), NEW own, DOMAIN own = Owner, NEW sh, Covers(rc, own, sh),
           NEW p \in Owner, NEW q \in Owner, p # q, NEW d \in Content, d # <<>>,
           NEW then, DOMAIN then = Owner, \A o \in Owner : o # p /\ o # q => then[o] = own[o],
           \/ then[p] = d /\ then[q] = <<>>
           \/ then[p] = <<>> /\ then[q] \in {d, <<>>}
    PROVE  Covers(IF own[p] = d THEN rc ELSE Increment(Decrement(rc, own[p]), d), then, sh)
<1> DEFINE rest == [own EXCEPT ![p] = <<>>, ![q] = <<>>]
           kept == [rest EXCEPT ![p] = d]
           new == IF own[p] = d THEN rc ELSE Increment(Decrement(rc, own[p]), d)
<1>1. /\ DOMAIN rest = Owner /\ rest[p] = <<>> /\ rest[q] = <<>>
      /\ \A o \in Owner : o # p /\ o # q => rest[o] = own[o]
  OBVIOUS
<1>2. /\ DOMAIN kept = Owner /\ kept[p] = d /\ kept[q] = <<>>
      /\ \A o \in Owner : o # p => kept[o] = rest[o]
      /\ \A o \in Owner : o # p /\ o # q => kept[o] = own[o]
  BY <1>1
<1> HIDE DEF rest, kept
<1>3. Covers(new, kept, sh) /\ CountMap(new)
  <2>1. CASE own[p] = d
    <3>1. \A o \in Owner : kept[o] # <<>> => kept[o] = own[o]
      BY <1>2, <2>1
    <3> QED
      BY <1>2, <2>1, <3>1, CoversLess
  <2>2. CASE own[p] # d
    <3> DEFINE less == [own EXCEPT ![p] = <<>>]
               dec == Decrement(rc, own[p])
    <3>1. DOMAIN less = Owner /\ less[p] = <<>> /\ \A o \in Owner : o # p => less[o] = own[o]
      OBVIOUS
    <3> HIDE DEF less
    <3>2. Covers(dec, less, sh) /\ CountMap(dec)
      BY <3>1, CoversDisowned, DecrementFacts
    <3>3. new = Increment(dec, d)
      BY <2>2
    <3> HIDE DEF dec, new
    <3>4. \A o \in Owner : rest[o] # <<>> => rest[o] = less[o]
      BY <1>1, <3>1
    <3>5. Covers(dec, rest, sh)
      BY <1>1, <3>1, <3>2, <3>4, CoversLess
    <3>6. Covers(Increment(dec, d), kept, sh)
      BY <1>1, <1>2, <3>2, <3>5, CoversOwned
    <3> QED
      BY <3>2, <3>3, <3>6, IncrementFacts
  <2> QED
    BY <2>1, <2>2
<1> HIDE DEF new
<1>4. CASE then[q] = <<>>
  <2>1. \A o \in Owner : then[o] # <<>> => then[o] = kept[o]
    BY <1>2, <1>4
  <2>2. Covers(new, then, sh)
    BY <1>2, <1>3, <2>1, CoversLess
  <2> QED
    BY <2>2 DEF new
<1>5. CASE then[q] = d /\ then[p] = <<>>
  <2>1. Covers(new, then, sh)
    BY <1>2, <1>3, <1>5, CoversPassed
  <2> QED
    BY <2>1 DEF new
<1> QED
  BY <1>4, <1>5

\* An owner p gives up its count; q keeps its block or has none to count.
LEMMA CoversGivenUp ==
    ASSUME NEW rc, CountMap(rc), NEW own, DOMAIN own = Owner, NEW sh, Covers(rc, own, sh),
           NEW p \in Owner, NEW q \in Owner, p # q,
           NEW then, DOMAIN then = Owner, \A o \in Owner : o # p /\ o # q => then[o] = own[o],
           then[p] = <<>>, then[q] \in {own[q], <<>>}
    PROVE  Covers(Decrement(rc, own[p]), then, sh)
<1> DEFINE less == [own EXCEPT ![p] = <<>>]
           dec == Decrement(rc, own[p])
<1>1. DOMAIN less = Owner /\ less[p] = <<>> /\ \A o \in Owner : o # p => less[o] = own[o]
  OBVIOUS
<1> HIDE DEF less
<1>2. Covers(dec, less, sh) /\ CountMap(dec)
  BY <1>1, CoversDisowned, DecrementFacts
<1> HIDE DEF dec
<1>3. \A o \in Owner : then[o] # <<>> => then[o] = less[o]
  BY <1>1
<1>4. Covers(dec, then, sh)
  BY <1>1, <1>2, <1>3, CoversLess
<1> QED
  BY <1>4 DEF dec

-----------------------------------------------------------------------------
(* What the parts of a callback do to one variable each.                   *)

\* What a manifest holds is content.
LEMMA CommittedType ==
    ASSUME ManifestTyped
    PROVE  \A i : Committed(i) \in Content
  BY EmptyContent DEF ManifestTyped, Committed

\* set_manifest changes what one file holds.
LEMMA ManifestEffect ==
    ASSUME ManifestTyped, NEW i \in spent, NEW c \in Content, SetManifest(i, c), spent' = spent
    PROVE  /\ ManifestTyped'
           /\ \A j : Committed(j)' = IF j = i THEN c ELSE Committed(j)
  BY DEF ManifestTyped, SetManifest, Committed

\* A size update changes one file, and creates none.
LEMMA SizeEffect ==
    ASSUME LiveTyped, NEW i, NEW n \in 0 .. MaxLen, SetSize(i, n), spent' = spent
    PROVE  /\ LiveTyped'
           /\ DOMAIN live' = DOMAIN live
           /\ i \in DOMAIN live => live'[i].size = n
           /\ \A j \in DOMAIN live : j # i => live'[j] = live[j]
  BY DEF LiveTyped, SetSize

\* A handle's new state changes one handle.
LEMMA HandleEffect ==
    ASSUME OpenTyped, NEW h \in Handles, NEW s \in OpenFileState, s.ino \in spent',
           spent \subseteq spent', WithHandle(h, s)
    PROVE  /\ OpenTyped'
           /\ DOMAIN open' = DOMAIN open \cup {h} /\ open'[h] = s
           /\ \A g \in DOMAIN open : g # h => open'[g] = open[g]
<1>1. /\ DOMAIN open' = DOMAIN open \cup {h} /\ open'[h] = s
      /\ \A g \in DOMAIN open : g # h => open'[g] = open[g]
      /\ open' \in [DOMAIN open' -> OpenFileState]
  BY DEF OpenTyped, WithHandle
<1>2. \A g \in DOMAIN open' : open'[g].ino \in spent'
  BY <1>1 DEF OpenTyped
<1> QED
  BY <1>1, <1>2 DEF OpenTyped

\* Closing a handle leaves the others as they are.
LEMMA HandleGone ==
    ASSUME OpenTyped, NEW h, WithoutHandle(h), spent' = spent
    PROVE  /\ OpenTyped'
           /\ DOMAIN open' = DOMAIN open \ {h}
           /\ \A g \in DOMAIN open : g # h => open'[g] = open[g]
<1>1. /\ DOMAIN open' = DOMAIN open \ {h}
      /\ \A g \in DOMAIN open : g # h => open'[g] = open[g]
      /\ open' \in [DOMAIN open' -> OpenFileState]
  BY DEF OpenTyped, WithoutHandle
<1> QED
  BY <1>1 DEF OpenTyped

\* A new handle is the state of a handle.
LEMMA NewHandleType ==
    ASSUME NEW i \in Inodes
    PROVE  NewHandle(i) \in OpenFileState
  BY EmptyContent DEF NewHandle, OpenFileState, NoRoot

\* A call that leaves file i astray or with content c in POSIX leaves others be.
LEMMA FollowEffect ==
    ASSUME HistoryTyped, NEW i \in Inodes, NEW stray \in BOOLEAN, NEW c \in Content,
           Follow(i, stray, c)
    PROVE  /\ posix' \in [Inodes -> Content]
           /\ \A j \in Inodes : j # i => posix'[j] = posix[j]
           /\ posix'[i] = IF i \notin DOMAIN live \/ stray THEN <<>> ELSE c
           /\ \A j : j # i => (j \in astray' <=> j \in astray)
           /\ astray' \subseteq DOMAIN live
           /\ i \in DOMAIN live => (i \in astray' <=> stray)
  BY EmptyContent DEF HistoryTyped, Follow

\* A call that takes back the count of what file i has committed.
LEMMA TakesBackEffect ==
    ASSUME Typed, NEW i, TakesBack(i)
    PROVE  short' \subseteq Content
  BY CommittedType DEF Typed, HistoryTyped, TakesBack

-----------------------------------------------------------------------------
(* A callback is about one file.                                           *)

\* Nothing of another file changes.
Touches(i) ==
    /\ \A j : j # i => Committed(j)' = Committed(j)
    /\ \A j \in Inodes : j # i => posix'[j] = posix[j]
    /\ \A j : j # i => (j \in DOMAIN live' <=> j \in DOMAIN live)
    /\ \A j \in DOMAIN live : j # i => live'[j] = live[j]
    /\ \A g \in DOMAIN open' : open'[g].ino # i => g \in DOMAIN open /\ open'[g] = open[g]
    /\ \A g \in DOMAIN open : open[g].ino # i => g \in DOMAIN open' /\ open'[g] = open[g]
    /\ \A j : j # i => (j \in stale' <=> j \in stale) /\ (j \in astray' <=> j \in astray)

\* The handles with content of another file are the same, in the same state.
LEMMA WritersElsewhere ==
    ASSUME NEW i, Touches(i), NEW j, j # i
    PROVE  Writers(j)' = Writers(j) /\ \A h \in Writers(j) : open'[h] = open[h]
<1>1. \A h : h \in Writers(j) <=> h \in DOMAIN open /\ open[h].ino = j /\ open[h].data # <<>>
  BY DEF Writers, HandlesOn
<1>2. \A h : h \in Writers(j)' <=> h \in DOMAIN open' /\ open'[h].ino = j /\ open'[h].data # <<>>
  BY DEF Writers, HandlesOn
<1>3. \A h : h \in Writers(j)' <=> h \in Writers(j)
  BY <1>1, <1>2 DEF Touches
<1>4. \A h \in Writers(j) : open'[h] = open[h]
  BY <1>1 DEF Touches
<1> QED
  BY <1>3, <1>4

\* What is left to show of a callback about file i, apart from the counts.
LEMMA Locally ==
    ASSUME Typed, ContentInv, NEW i, Touches(i), i \in DOMAIN live' => SizeKept(i)' /\ Kept(i)'
    PROVE  ContentInv'
<1> SUFFICES ASSUME NEW j \in DOMAIN live', j # i PROVE SizeKept(j)' /\ Kept(j)'
  BY DEF ContentInv
<1>1. /\ j \in DOMAIN live /\ live'[j] = live[j] /\ Committed(j)' = Committed(j)
      /\ posix'[j] = posix[j] /\ (j \in stale' <=> j \in stale) /\ (j \in astray' <=> j \in astray)
  BY DEF Touches, Typed, LiveTyped
<1>2. Writers(j)' = Writers(j) /\ \A h \in Writers(j) : open'[h] = open[h]
  BY WritersElsewhere
<1>3. SizeKept(j) /\ Kept(j)
  BY <1>1 DEF ContentInv
<1>4. SizeKept(j)'
  BY <1>1, <1>2, <1>3 DEF SizeKept
<1>5. Kept(j)'
  BY <1>1, <1>2, <1>3 DEF Kept
<1> QED
  BY <1>4, <1>5

\* The owners, by name.
H(h) == <<"handle", h>>
F(i) == <<"file", i>>

\* Own, owner by owner.
LEMMA OwnAt ==
    /\ DOMAIN Own = Owner
    /\ \A h \in Handles : H(h) \in Owner /\ Own[H(h)] = HandleOwns(h)
    /\ \A i \in Inodes : F(i) \in Owner /\ Own[F(i)] = FileOwns(i)
    /\ \A o \in Owner : (\E h \in Handles : o = H(h)) \/ (\E i \in Inodes : o = F(i))
    /\ \A h, i : H(h) # F(i)
  BY DEF Own, Owner, H, F

\* Own after a step, owner by owner.
LEMMA OwnAtNext ==
    /\ DOMAIN Own' = Owner
    /\ \A h \in Handles : Own'[H(h)] = HandleOwns(h)'
    /\ \A i \in Inodes : Own'[F(i)] = FileOwns(i)'
  BY DEF Own, Owner, H, F

\* The handles outside hs are as they were.
OthersSame(hs) ==
    \A g \in Handles : g \notin hs =>
        /\ g \in DOMAIN open' <=> g \in DOMAIN open
        /\ g \in DOMAIN open => open'[g] = open[g]

\* A callback through the handles hs about file i changes what no others have.
LEMMA OwnElsewhere ==
    ASSUME NEW i \in Inodes, Touches(i), NEW hs, OthersSame(hs)
    PROVE  \A o \in Owner : o # F(i) /\ (\A h \in hs : o # H(h)) => Own'[o] = Own[o]
<1>1. ASSUME NEW g \in Handles, g \notin hs PROVE HandleOwns(g)' = HandleOwns(g)
  BY <1>1 DEF HandleOwns, OthersSame
<1>2. ASSUME NEW j \in Inodes, j # i PROVE FileOwns(j)' = FileOwns(j)
  <2>1. Writers(j)' = Writers(j) /\ \A g \in Writers(j) : open'[g] = open[g]
    BY <1>2, WritersElsewhere
  <2>2. /\ Committed(j)' = Committed(j) /\ (j \in DOMAIN live' <=> j \in DOMAIN live)
        /\ (j \in stale' <=> j \in stale)
    BY <1>2 DEF Touches
  <2>3. Settled(j)' <=> Settled(j)
    BY <2>1, <2>2 DEF Settled
  <2> QED
    BY <2>2, <2>3 DEF FileOwns
<1> SUFFICES ASSUME NEW o \in Owner, o # F(i), \A h \in hs : o # H(h) PROVE Own'[o] = Own[o]
  OBVIOUS
<1>3. CASE \E g \in Handles : o = H(g)
  <2>1. PICK g \in Handles : o = H(g)
    BY <1>3
  <2>2. HandleOwns(g)' = HandleOwns(g)
    BY <1>1, <2>1
  <2> QED
    BY <2>1, <2>2, OwnAt, OwnAtNext
<1>4. CASE \E j \in Inodes : o = F(j)
  <2>1. PICK j \in Inodes : o = F(j)
    BY <1>4
  <2>2. FileOwns(j)' = FileOwns(j)
    BY <1>2, <2>1
  <2> QED
    BY <2>1, <2>2, OwnAt, OwnAtNext
<1> QED
  BY <1>3, <1>4, OwnAt

\* What a callback through handle h does to the owners, and to the handles with
\* content of h's file.
LEMMA ThroughHandle ==
    ASSUME Typed, Typed', NEW i \in Inodes, Touches(i), NEW h \in Handles, OthersSame({h}),
           h \in DOMAIN open' => open'[h].ino = i
    PROVE  /\ DOMAIN Own = Owner /\ DOMAIN Own' = Owner
           /\ H(h) \in Owner /\ F(i) \in Owner /\ H(h) # F(i)
           /\ \A o \in Owner : o # H(h) /\ o # F(i) => Own'[o] = Own[o]
           /\ Own[H(h)] = HandleOwns(h) /\ Own'[H(h)] = HandleOwns(h)'
           /\ Own[F(i)] = FileOwns(i) /\ Own'[F(i)] = FileOwns(i)'
           /\ \A g : g # h => (g \in Writers(i)' <=> g \in Writers(i))
           /\ h \in Writers(i)' <=> h \in DOMAIN open' /\ open'[h].data # <<>>
           /\ \A g \in Writers(i) : g # h => open'[g] = open[g]
<1>1. \A o \in Owner : o # H(h) /\ o # F(i) => Own'[o] = Own[o]
  BY OwnElsewhere
<1>2. DOMAIN open \subseteq Handles /\ DOMAIN open' \subseteq Handles
  BY DEF Typed, OpenTyped
<1>3. /\ \A g : g \in Writers(i) <=> g \in DOMAIN open /\ open[g].ino = i /\ open[g].data # <<>>
      /\ \A g : g \in Writers(i)' <=> g \in DOMAIN open' /\ open'[g].ino = i /\ open'[g].data # <<>>
  BY DEF Writers, HandlesOn
<1>4. \A g : g # h /\ g \in DOMAIN open' => g \in DOMAIN open
  BY <1>2 DEF OthersSame
<1>5. \A g : g # h /\ g \in DOMAIN open => g \in DOMAIN open' /\ open'[g] = open[g]
  BY <1>2 DEF OthersSame
<1>6. \A g : g # h => (g \in Writers(i)' <=> g \in Writers(i))
  BY <1>3, <1>4, <1>5
<1>7. \A g \in Writers(i) : g # h => open'[g] = open[g]
  BY <1>3, <1>5
<1>8. h \in Writers(i)' <=> h \in DOMAIN open' /\ open'[h].data # <<>>
  BY <1>3
<1> QED
  BY <1>1, <1>6, <1>7, <1>8, OwnAt, OwnAtNext

\* A file with a handle that has content to commit is not settled, one just
\* emptied has nothing settled, and one whose handles and manifest are the same
\* has what it had.
LEMMA FileOwnsAfter ==
    ASSUME NEW i
    PROVE  /\ (\E h \in Writers(i)' : ~open'[h].cas_committed) => FileOwns(i)' = <<>>
           /\ (\E h \in Writers(i)' : open'[h].last_committed_root = Committed(i)')
                 => FileOwns(i)' = <<>>
           /\ FileOwns(i)' \in {Committed(i)', <<>>}
           /\ i \notin DOMAIN live' \/ i \in stale' \/ Committed(i)' = <<>> => FileOwns(i)' = <<>>
  BY DEF FileOwns, Settled

-----------------------------------------------------------------------------
(* Two lemmas per callback: what it does, and that it keeps the invariant. *)

\* create: types, and the new file and handle.
LEMMA CreateEffect ==
    ASSUME Typed, NEW i \in Inodes, NEW h \in Handles, Create(i, h)
    PROVE  /\ Typed' /\ Touches(i) /\ OthersSame({h}) /\ refs' = refs /\ short' = short
           /\ h \notin DOMAIN open /\ \A g \in DOMAIN open : open[g].ino # i
           /\ h \in DOMAIN open' /\ open'[h] = NewHandle(i)
           /\ live'[i].size = 0 /\ Committed(i)' = <<>> /\ posix'[i] = <<>>
           /\ i \notin stale'
<1>1. /\ i \notin spent /\ h \notin DOMAIN open /\ spent' = spent \cup {i}
      /\ WithHandle(h, NewHandle(i))
      /\ UNCHANGED <<manifest, refs, posix, stale, astray, short>>
  BY DEF Create
<1>2. NewHandle(i) \in OpenFileState /\ NewHandle(i).ino = i
  BY NewHandleType DEF NewHandle
<1>3. /\ OpenTyped' /\ DOMAIN open' = DOMAIN open \cup {h} /\ open'[h] = NewHandle(i)
      /\ \A g \in DOMAIN open : g # h => open'[g] = open[g]
  BY <1>1, <1>2, HandleEffect DEF Typed
<1>4. i \notin DOMAIN live /\ Committed(i) = <<>> /\ \A g \in DOMAIN open : open[g].ino # i
  BY <1>1 DEF Typed, LiveTyped, ManifestTyped, OpenTyped, Committed
<1>5. /\ live' = [j \in DOMAIN live \cup {i} |-> IF j = i THEN [size |-> 0] ELSE live[j]]
      /\ [size |-> 0] \in [size : 0 .. MaxLen]
  BY ConstantsAssumption DEF Create
<1>6. /\ DOMAIN live' = DOMAIN live \cup {i} /\ live'[i].size = 0
      /\ \A j \in DOMAIN live : live'[j] = live[j]
      /\ LiveTyped'
  BY <1>1, <1>4, <1>5 DEF Typed, LiveTyped
<1>7. \A j : Committed(j)' = Committed(j)
  BY <1>1 DEF Committed
<1>8. ManifestTyped' /\ CountMap(refs') /\ spent' \subseteq Inodes
  BY <1>1 DEF Typed, ManifestTyped
<1>9. HistoryTyped' /\ posix'[i] = <<>> /\ i \notin stale'
  BY <1>1, <1>4, <1>6 DEF Typed, HistoryTyped
<1>10. Typed'
  BY <1>3, <1>6, <1>8, <1>9 DEF Typed
<1>11. Touches(i)
  BY <1>1, <1>2, <1>3, <1>4, <1>6, <1>7 DEF Touches
<1>12. OthersSame({h})
  BY <1>3 DEF OthersSame
<1> QED
  BY <1>1, <1>3, <1>4, <1>6, <1>7, <1>9, <1>10, <1>11, <1>12

\* A new handle leaves the counts with their owners.
LEMMA NewHandleCovers ==
    ASSUME Typed, Typed', Covers(refs, Own, short), NEW i \in Inodes, Touches(i),
           NEW h \in Handles, OthersSame({h}), h \in DOMAIN open', open'[h] = NewHandle(i),
           refs' = refs, short' = short, FileOwns(i)' \in {FileOwns(i), <<>>}
    PROVE  Covers(refs', Own', short')
<1>1. NewHandle(i).ino = i /\ NewHandle(i).last_committed_root = <<>>
  BY DEF NewHandle, NoRoot
<1>2. /\ DOMAIN Own = Owner /\ DOMAIN Own' = Owner
      /\ \A o \in Owner : o # H(h) /\ o # F(i) => Own'[o] = Own[o]
      /\ Own'[H(h)] = HandleOwns(h)' /\ Own[F(i)] = FileOwns(i) /\ Own'[F(i)] = FileOwns(i)'
  BY <1>1, ThroughHandle
<1>3. HandleOwns(h)' = <<>>
  BY <1>1 DEF HandleOwns
<1>4. \A o \in Owner : Own'[o] # <<>> => Own'[o] = Own[o]
  BY <1>2, <1>3
<1>5. Covers(refs, Own', short)
  BY <1>2, <1>4, CoversLess DEF Typed
<1> QED
  BY <1>5

\* create keeps the invariant.
LEMMA CreateStep ==
    ASSUME IInv, NEW i \in Inodes, NEW h \in Handles, Create(i, h)
    PROVE  IInv'
<1>1. Typed /\ Clean /\ ContentInv /\ Covers(refs, Own, short)
  BY DEF IInv
<1>2. /\ Typed' /\ Touches(i) /\ OthersSame({h}) /\ refs' = refs /\ short' = short
      /\ h \notin DOMAIN open /\ \A g \in DOMAIN open : open[g].ino # i
      /\ h \in DOMAIN open' /\ open'[h] = NewHandle(i)
      /\ live'[i].size = 0 /\ Committed(i)' = <<>> /\ posix'[i] = <<>> /\ i \notin stale'
  BY <1>1, CreateEffect
<1>3. NewHandle(i).ino = i /\ NewHandle(i).data = <<>> /\ ~NewHandle(i).cas_committed
  BY DEF NewHandle
<1>4. Writers(i) = {}
  BY <1>2 DEF Writers, HandlesOn
<1>5. Writers(i)' = {}
  <2>1. /\ Typed /\ Typed' /\ Touches(i) /\ OthersSame({h}) /\ h \in DOMAIN open'
        /\ open'[h].ino = i /\ open'[h].data = <<>>
    BY <1>1, <1>2, <1>3
  <2>2. /\ \A g : g # h => (g \in Writers(i)' <=> g \in Writers(i))
        /\ h \in Writers(i)' => open'[h].data # <<>>
    BY <2>1, ThroughHandle
  <2> QED
    BY <1>4, <2>1, <2>2
<1>6. SizeKept(i)' /\ Kept(i)'
  BY <1>2, <1>5, EmptyContent DEF SizeKept, Kept
<1>7. ContentInv'
  BY <1>1, <1>2, <1>6, Locally
<1>8. Clean'
  BY <1>1, <1>2, <1>3 DEF Clean, OthersSame, Typed, OpenTyped
<1>9. FileOwns(i)' = <<>>
  BY <1>2, FileOwnsAfter
<1>10. Covers(refs', Own', short')
  BY <1>1, <1>2, <1>9, NewHandleCovers
<1> QED
  BY <1>2, <1>7, <1>8, <1>10 DEF IInv

\* A file emptied through a handle, with no other content of it in a handle or
\* astray: what the invariant says of it.
LEMMA EmptiedEffect ==
    ASSUME Typed, NEW i \in Inodes, NEW others \in BOOLEAN, Emptied(i, others)
    PROVE  /\ posix' \in [Inodes -> Content]
           /\ \A j \in Inodes : j # i => posix'[j] = posix[j]
           /\ posix'[i] = <<>>
           /\ \A j : j # i => (j \in astray' <=> j \in astray) /\ (j \in stale' <=> j \in stale)
           /\ astray' \subseteq DOMAIN live /\ stale' \subseteq DOMAIN live
           /\ i \in DOMAIN live => /\ i \in astray' <=> others
                                   /\ i \notin stale' => Committed(i) = <<>>
<1>1. Follow(i, others, <<>>) /\ HistoryTyped
  BY DEF Emptied, Typed
<1>2. /\ posix' \in [Inodes -> Content]
      /\ \A j \in Inodes : j # i => posix'[j] = posix[j]
      /\ posix'[i] = <<>>
      /\ \A j : j # i => (j \in astray' <=> j \in astray)
      /\ astray' \subseteq DOMAIN live
      /\ i \in DOMAIN live => (i \in astray' <=> others)
  BY <1>1, EmptyContent, FollowEffect
<1>3. /\ \A j : j # i => (j \in stale' <=> j \in stale)
      /\ stale' \subseteq DOMAIN live
      /\ i \in DOMAIN live => (i \notin stale' => Committed(i) = <<>>)
  BY <1>1 DEF Emptied, HistoryTyped
<1> QED
  BY <1>2, <1>3

\* open: types, the new handle, and what O_TRUNC does to the file.
LEMMA OpenEffect ==
    ASSUME Typed, NEW i \in Inodes, NEW h \in Handles, NEW trunc \in BOOLEAN, Open(i, h, trunc)
    PROVE  /\ Typed' /\ Touches(i) /\ OthersSame({h}) /\ refs' = refs /\ short' = short
           /\ i \in DOMAIN live /\ h \notin DOMAIN open
           /\ h \in DOMAIN open' /\ open'[h] = NewHandle(i)
           /\ Committed(i)' = Committed(i) /\ DOMAIN live' = DOMAIN live
           /\ ~trunc => UNCHANGED <<live, posix, stale, astray>>
           /\ trunc => /\ live'[i].size = 0 /\ posix'[i] = <<>>
                       /\ i \in astray' <=> Writers(i) # {}
                       /\ i \notin stale' => Committed(i) = <<>>
<1>1. /\ i \in DOMAIN live /\ h \notin DOMAIN open /\ WithHandle(h, NewHandle(i))
      /\ UNCHANGED <<spent, manifest, refs, short>>
  BY DEF Open
<1>2. NewHandle(i) \in OpenFileState /\ NewHandle(i).ino = i /\ i \in spent
  BY <1>1, NewHandleType DEF NewHandle, LiveTyped, Typed
<1>3. /\ OpenTyped' /\ DOMAIN open' = DOMAIN open \cup {h} /\ open'[h] = NewHandle(i)
      /\ \A g \in DOMAIN open : g # h => open'[g] = open[g]
  BY <1>1, <1>2, HandleEffect DEF Typed
<1>4. /\ LiveTyped' /\ DOMAIN live' = DOMAIN live
      /\ trunc => live'[i].size = 0
      /\ ~trunc => live' = live
      /\ \A j \in DOMAIN live : j # i => live'[j] = live[j]
  <2>1. CASE trunc
    <3>1. SetSize(i, 0) /\ 0 \in 0 .. MaxLen
      BY <2>1, ConstantsAssumption DEF Open
    <3> QED
      BY <1>1, <2>1, <3>1, SizeEffect DEF Typed
  <2>2. CASE ~trunc
    <3>1. live' = live
      BY <2>2 DEF Open
    <3> QED
      BY <1>1, <2>2, <3>1 DEF Typed, LiveTyped
  <2> QED
    BY <2>1, <2>2
<1>5. /\ posix' \in [Inodes -> Content]
      /\ \A j \in Inodes : j # i => posix'[j] = posix[j]
      /\ \A j : j # i => (j \in astray' <=> j \in astray) /\ (j \in stale' <=> j \in stale)
      /\ astray' \subseteq DOMAIN live /\ stale' \subseteq DOMAIN live
      /\ ~trunc => UNCHANGED <<live, posix, stale, astray>>
      /\ trunc => /\ posix'[i] = <<>>
                  /\ i \in astray' <=> Writers(i) # {}
                  /\ i \notin stale' => Committed(i) = <<>>
  <2>1. CASE trunc
    <3>1. Emptied(i, Writers(i) # {}) /\ (Writers(i) # {}) \in BOOLEAN
      BY <2>1 DEF Open
    <3> QED
      BY <1>1, <2>1, <3>1, EmptiedEffect
  <2>2. CASE ~trunc
    <3>1. UNCHANGED <<live, posix, stale, astray>>
      BY <2>2 DEF Open
    <3> QED
      BY <2>2, <3>1 DEF Typed, HistoryTyped
  <2> QED
    BY <2>1, <2>2
<1>6. \A j : Committed(j)' = Committed(j)
  BY <1>1 DEF Committed
<1>7. ManifestTyped' /\ CountMap(refs') /\ spent' \subseteq Inodes
  BY <1>1 DEF Typed, ManifestTyped
<1>8. HistoryTyped'
  BY <1>1, <1>4, <1>5 DEF Typed, HistoryTyped
<1>9. Typed'
  BY <1>3, <1>4, <1>7, <1>8 DEF Typed
<1>10. Touches(i)
  BY <1>1, <1>2, <1>3, <1>4, <1>5, <1>6 DEF Touches
<1>11. OthersSame({h})
  BY <1>3 DEF OthersSame
<1> QED
  BY <1>1, <1>3, <1>4, <1>5, <1>6, <1>9, <1>10, <1>11

\* open keeps the invariant, of a file that is open already too.
LEMMA OpenStep ==
    ASSUME IInv, NEW i \in Inodes, NEW h \in Handles, NEW trunc \in BOOLEAN, Open(i, h, trunc)
    PROVE  IInv'
<1>1. Typed /\ Clean /\ ContentInv /\ Covers(refs, Own, short)
  BY DEF IInv
<1>2. /\ Typed' /\ Touches(i) /\ OthersSame({h}) /\ refs' = refs /\ short' = short
      /\ i \in DOMAIN live /\ h \notin DOMAIN open
      /\ h \in DOMAIN open' /\ open'[h] = NewHandle(i)
      /\ Committed(i)' = Committed(i) /\ DOMAIN live' = DOMAIN live
      /\ ~trunc => UNCHANGED <<live, posix, stale, astray>>
      /\ trunc => /\ live'[i].size = 0 /\ posix'[i] = <<>>
                  /\ i \in astray' <=> Writers(i) # {}
                  /\ i \notin stale' => Committed(i) = <<>>
  BY <1>1, OpenEffect
<1>3. NewHandle(i).ino = i /\ NewHandle(i).data = <<>> /\ ~NewHandle(i).cas_committed
  BY DEF NewHandle
<1>4. Writers(i)' = Writers(i) /\ \A g \in Writers(i) : open'[g] = open[g]
  <2>1. h \notin Writers(i)
    BY <1>2 DEF Writers, HandlesOn
  <2>2. /\ Typed /\ Typed' /\ Touches(i) /\ OthersSame({h})
        /\ open'[h].ino = i /\ open'[h].data = <<>>
    BY <1>1, <1>2, <1>3
  <2>3. /\ \A g : g # h => (g \in Writers(i)' <=> g \in Writers(i))
        /\ h \in Writers(i)' => open'[h].data # <<>>
        /\ \A g \in Writers(i) : g # h => open'[g] = open[g]
    BY <2>2, ThroughHandle
  <2>4. \A g : g \in Writers(i)' <=> g \in Writers(i)
    BY <2>1, <2>2, <2>3
  <2> QED
    BY <2>1, <2>3, <2>4
<1>5. SizeKept(i) /\ Kept(i)
  BY <1>1, <1>2 DEF ContentInv
<1>6. Clean'
  BY <1>1, <1>2, <1>3 DEF Clean, OthersSame, Typed, OpenTyped
<1>7. CASE trunc
  <2>1. SizeKept(i)'
    BY <1>2, <1>7, EmptyContent DEF SizeKept
  <2>2. Kept(i)'
    BY <1>2, <1>4, <1>7 DEF Kept
  <2>3. FileOwns(i)' = <<>>
    BY <1>2, <1>7, FileOwnsAfter
  <2>4. ContentInv'
    BY <1>1, <1>2, <2>1, <2>2, Locally
  <2>5. Covers(refs', Own', short')
    BY <1>1, <1>2, <2>3, NewHandleCovers
  <2> QED
    BY <1>2, <1>6, <2>4, <2>5 DEF IInv
<1>8. CASE ~trunc
  <2>1. SizeKept(i)'
    BY <1>2, <1>4, <1>5, <1>8 DEF SizeKept
  <2>2. Kept(i)'
    BY <1>2, <1>4, <1>5, <1>8 DEF Kept
  <2>3. FileOwns(i)' = FileOwns(i)
    BY <1>2, <1>4, <1>8 DEF FileOwns, Settled
  <2>4. ContentInv'
    BY <1>1, <1>2, <2>1, <2>2, Locally
  <2>5. Covers(refs', Own', short')
    BY <1>1, <1>2, <2>3, NewHandleCovers
  <2> QED
    BY <1>2, <1>6, <2>4, <2>5 DEF IInv
<1> QED
  BY <1>7, <1>8

\* A handle and the content its file should have.
LEMMA HandleContext ==
    ASSUME Typed, NEW h \in DOMAIN open
    PROVE  /\ h \in Handles /\ open[h] \in OpenFileState
           /\ open[h].ino \in Inodes /\ open[h].ino \in spent
           /\ open[h].data \in Content /\ open[h].last_committed_root \in Content
           /\ posix[open[h].ino] \in Content
           /\ \A i : Committed(i) \in Content
<1>1. h \in Handles /\ open[h] \in OpenFileState /\ open[h].ino \in spent
  BY DEF Typed, OpenTyped
<1>2. open[h].ino \in Inodes /\ open[h].data \in Content /\ open[h].last_committed_root \in Content
  BY <1>1 DEF OpenFileState
<1> QED
  BY <1>1, <1>2, CommittedType DEF Typed, HistoryTyped

\* The three ways of a write: t is the new state of the handle.
WriteWay(h, offset, b, t) ==
    LET s == open[h]
        base == IF s.data # <<>> THEN s.data ELSE Committed(s.ino)
    IN  \/ /\ s.mode = "streaming" /\ offset = Len(s.data)
           /\ t.data = s.data \o <<b>> /\ t.last_committed_root = s.last_committed_root
           /\ refs' = refs
        \/ /\ s.mode = "streaming" /\ offset # Len(s.data)
           /\ t.data = Pwrite(base, offset, <<b>>) /\ t.last_committed_root = NoRoot
           /\ refs' = Decrement(refs, s.last_committed_root)
        \/ /\ s.mode = "buffered"
           /\ t.data = Pwrite(s.data, offset, <<b>>)
           /\ t.last_committed_root = s.last_committed_root
           /\ refs' = refs

\* What a write does: the handle's new state, never without bytes, and what the
\* file has in POSIX, if it is not astray.
WriteDone(h, i, offset, b, data) ==
    /\ Touches(i) /\ OthersSame({h}) /\ UNCHANGED <<live, stale, short>>
    /\ Committed(i)' = Committed(i)
    /\ \E t \in OpenFileState :
          /\ h \in DOMAIN open' /\ open'[h] = t
          /\ t.ino = i /\ ~t.cas_committed /\ t.data # <<>>
          /\ WriteWay(h, offset, b, t)
    /\ i \in DOMAIN live /\ i \notin astray' =>
          /\ posix'[i] = Pwrite(posix[i], offset, data)
          /\ i \notin astray /\ ~Shared(h)
          /\ ~StartsOver(h, offset, data) /\ ~Resurrects(h, offset)

\* write: types, and what it does.
LEMMA WriteEffect ==
    ASSUME Typed, NEW h \in DOMAIN open, NEW i, i = open[h].ino,
           NEW offset \in 0 .. MaxLen - 1, NEW b \in Bytes,
           NEW data, data = <<b>>, Write(h, offset, data)
    PROVE  Typed' /\ WriteDone(h, i, offset, b, data)
<1> DEFINE s == open[h]
           dirty == [s EXCEPT !.cas_committed = FALSE]
           base == IF s.data # <<>> THEN s.data ELSE Committed(s.ino)
           stray == i \in astray \/ Shared(h) \/ StartsOver(h, offset, <<b>>) \/ Resurrects(h, offset)
<1>1. /\ h \in Handles /\ s \in OpenFileState /\ i \in Inodes /\ i \in spent
      /\ s.data \in Content /\ s.last_committed_root \in Content
      /\ posix[i] \in Content /\ base \in Content
  BY HandleContext
<1>2. /\ UNCHANGED <<live, spent, manifest, stale, short>>
      /\ Follow(i, stray, Pwrite(posix[i], offset, <<b>>))
  BY DEF Write
<1>3. stray \in BOOLEAN /\ Pwrite(posix[i], offset, <<b>>) \in Content
  BY <1>1, PwriteType DEF Shared, StartsOver, Resurrects
<1>4. /\ posix' \in [Inodes -> Content]
      /\ \A j \in Inodes : j # i => posix'[j] = posix[j]
      /\ posix'[i] = IF i \notin DOMAIN live \/ stray THEN <<>>
                     ELSE Pwrite(posix[i], offset, <<b>>)
      /\ \A j : j # i => (j \in astray' <=> j \in astray)
      /\ astray' \subseteq DOMAIN live
      /\ i \in DOMAIN live => (i \in astray' <=> stray)
  <2> HIDE DEF stray
  <2> QED
    BY <1>1, <1>2, <1>3, FollowEffect DEF Typed
<1>5. \E t \in OpenFileState :
         /\ t.ino = s.ino /\ ~t.cas_committed /\ t.data # <<>>
         /\ WithHandle(h, t) /\ WriteWay(h, offset, b, t)
  <2>1. CASE /\ s.mode = "streaming" /\ offset = Len(s.data)
             /\ WithHandle(h, [dirty EXCEPT !.data = s.data \o <<b>>]) /\ UNCHANGED refs
    <3> DEFINE t == [dirty EXCEPT !.data = s.data \o <<b>>]
    <3>1. s.data \o <<b>> = Pwrite(s.data, offset, <<b>>)
      BY <1>1, <2>1, PwriteAtEnd
    <3>2. s.data \o <<b>> \in Content /\ s.data \o <<b>> # <<>>
      BY <1>1, <3>1, PwriteType
    <3>3. t \in OpenFileState /\ t.ino = s.ino /\ ~t.cas_committed /\ t.data = s.data \o <<b>>
          /\ t.last_committed_root = s.last_committed_root
      BY <1>1, <3>2 DEF OpenFileState
    <3> HIDE DEF t
    <3>4. WithHandle(h, t)
      BY <2>1 DEF t
    <3> QED
      BY <2>1, <3>2, <3>3, <3>4 DEF WriteWay
  <2>2. CASE /\ s.mode = "streaming" /\ offset # Len(s.data)
             /\ WithHandle(h, [dirty EXCEPT !.mode = "buffered",
                                            !.data = Pwrite(base, offset, <<b>>),
                                            !.last_committed_root = NoRoot])
             /\ refs' = Decrement(refs, s.last_committed_root)
    <3> DEFINE t == [dirty EXCEPT !.mode = "buffered", !.data = Pwrite(base, offset, <<b>>),
                                  !.last_committed_root = NoRoot]
    <3>1. Pwrite(base, offset, <<b>>) \in Content /\ Pwrite(base, offset, <<b>>) # <<>>
      BY <1>1, PwriteType
    <3> HIDE DEF base
    <3>2. t \in OpenFileState /\ t.ino = s.ino /\ ~t.cas_committed
          /\ t.data = Pwrite(base, offset, <<b>>) /\ t.last_committed_root = NoRoot
      BY <1>1, <3>1, EmptyContent DEF OpenFileState, NoRoot
    <3> HIDE DEF t
    <3>3. WithHandle(h, t)
      BY <2>2 DEF t
    <3> QED
      BY <2>2, <3>1, <3>2, <3>3 DEF WriteWay, base
  <2>3. CASE /\ s.mode = "buffered"
             /\ WithHandle(h, [dirty EXCEPT !.data = Pwrite(s.data, offset, <<b>>)])
             /\ UNCHANGED refs
    <3> DEFINE t == [dirty EXCEPT !.data = Pwrite(s.data, offset, <<b>>)]
    <3>1. Pwrite(s.data, offset, <<b>>) \in Content /\ Pwrite(s.data, offset, <<b>>) # <<>>
      BY <1>1, PwriteType
    <3>2. t \in OpenFileState /\ t.ino = s.ino /\ ~t.cas_committed
          /\ t.data = Pwrite(s.data, offset, <<b>>)
          /\ t.last_committed_root = s.last_committed_root
      BY <1>1, <3>1 DEF OpenFileState
    <3> HIDE DEF t
    <3>3. WithHandle(h, t)
      BY <2>3 DEF t
    <3> QED
      BY <2>3, <3>1, <3>2, <3>3 DEF WriteWay
  <2> QED
    BY <2>1, <2>2, <2>3 DEF Write
<1>6. PICK t \in OpenFileState :
         /\ t.ino = s.ino /\ ~t.cas_committed /\ t.data # <<>>
         /\ WithHandle(h, t) /\ WriteWay(h, offset, b, t)
  BY <1>5
<1>7. /\ OpenTyped' /\ DOMAIN open' = DOMAIN open \cup {h} /\ open'[h] = t
      /\ \A g \in DOMAIN open : g # h => open'[g] = open[g]
  BY <1>1, <1>2, <1>6, HandleEffect DEF Typed
<1>8. CountMap(refs')
  BY <1>6, DecrementFacts DEF WriteWay, Typed
<1>9. LiveTyped' /\ ManifestTyped' /\ spent' \subseteq Inodes
  BY <1>2 DEF Typed, LiveTyped, ManifestTyped
<1> HIDE DEF stray
<1>10. HistoryTyped'
  BY <1>2, <1>4 DEF Typed, HistoryTyped
<1>11. Typed'
  BY <1>7, <1>8, <1>9, <1>10 DEF Typed
<1>12. \A j : Committed(j)' = Committed(j)
  BY <1>2 DEF Committed
<1>13. Touches(i)
  BY <1>1, <1>2, <1>4, <1>6, <1>7, <1>12 DEF Touches
<1>14. OthersSame({h})
  BY <1>7 DEF OthersSame
<1>15. i \in DOMAIN live /\ i \notin astray' => posix'[i] = Pwrite(posix[i], offset, <<b>>) /\ ~stray
  BY <1>4
<1> QED
  BY <1>2, <1>6, <1>7, <1>11, <1>12, <1>13, <1>14, <1>15 DEF stray, WriteDone

\* A handle with content to commit: it keeps the count of the root it committed
\* last or gives it up, and its file is not settled.
LEMMA DirtyCovers ==
    ASSUME Typed, Typed', Covers(refs, Own, short), NEW i \in Inodes, Touches(i),
           NEW h \in DOMAIN open, OthersSame({h}), h \in DOMAIN open', open'[h].ino = i,
           short' = short, FileOwns(i)' = <<>>,
           \/ refs' = refs /\ open'[h].last_committed_root = open[h].last_committed_root
           \/ /\ refs' = Decrement(refs, open[h].last_committed_root)
              /\ open'[h].last_committed_root = NoRoot
    PROVE  Covers(refs', Own', short')
<1>1. h \in Handles /\ CountMap(refs)
  BY DEF Typed, OpenTyped
<1>2. /\ DOMAIN Own = Owner /\ DOMAIN Own' = Owner
      /\ H(h) \in Owner /\ F(i) \in Owner /\ H(h) # F(i)
      /\ \A o \in Owner : o # H(h) /\ o # F(i) => Own'[o] = Own[o]
      /\ Own[H(h)] = HandleOwns(h) /\ Own'[H(h)] = HandleOwns(h)' /\ Own'[F(i)] = FileOwns(i)'
  BY <1>1, ThroughHandle
<1>3. /\ HandleOwns(h) = open[h].last_committed_root
      /\ HandleOwns(h)' = open'[h].last_committed_root
  BY DEF HandleOwns
<1>4. CASE refs' = refs /\ open'[h].last_committed_root = open[h].last_committed_root
  <2>1. \A o \in Owner : Own'[o] # <<>> => Own'[o] = Own[o]
    BY <1>2, <1>3, <1>4
  <2>2. Covers(refs, Own', short)
    BY <1>1, <1>2, <2>1, CoversLess
  <2> QED
    BY <1>4, <2>2
<1>5. CASE /\ refs' = Decrement(refs, open[h].last_committed_root)
           /\ open'[h].last_committed_root = NoRoot
  <2>1. Own'[H(h)] = <<>> /\ Own'[F(i)] = <<>>
    BY <1>2, <1>3, <1>5 DEF NoRoot
  <2>2. Covers(Decrement(refs, Own[H(h)]), Own', short)
    BY <1>1, <1>2, <2>1, CoversGivenUp
  <2> QED
    BY <1>2, <1>3, <1>5, <2>2
<1> QED
  BY <1>4, <1>5

\* The content of a handle not astray after a write.
LEMMA WriteFollows ==
    ASSUME Typed, NEW h \in DOMAIN open, NEW i \in DOMAIN live, i = open[h].ino, Kept(i),
           i \notin astray, NEW offset \in 0 .. MaxLen - 1, NEW b \in Bytes, NEW t,
           WriteWay(h, offset, b, t),
           ~Shared(h), ~StartsOver(h, offset, <<b>>), ~Resurrects(h, offset)
    PROVE  t.data = Pwrite(posix[i], offset, <<b>>)
<1> DEFINE s == open[h]
           base == IF s.data # <<>> THEN s.data ELSE Committed(i)
<1>1. s \in OpenFileState /\ s.data \in Content /\ posix[i] \in Content /\ offset \in Nat /\ Len(<<b>>) = 1
  BY HandleContext
<1>2. Writers(i) \subseteq {h} /\ (h \in Writers(i) <=> s.data # <<>>)
  BY DEF Shared, Writers, HandlesOn
<1>3. CASE s.data # <<>>
  <2>1. s.data = posix[i]
    BY <1>2, <1>3 DEF Kept
  <2>2. s.mode = "streaming" /\ offset = Len(s.data) => s.data \o <<b>> = Pwrite(posix[i], offset, <<b>>)
    BY <1>1, <2>1, PwriteAtEnd
  <2> QED
    BY <1>3, <2>1, <2>2 DEF WriteWay
<1>4. CASE s.data = <<>>
  <2>1. Writers(i) = {}
    BY <1>2, <1>4
  <2>2. posix[i] = IF i \in stale THEN <<>> ELSE Committed(i)
    BY <2>1 DEF Kept
  <2>3. Len(s.data) = 0 /\ s.data \o <<b>> = <<b>>
    BY <1>4
  <2>4. Len(posix[i]) \in Nat /\ (posix[i] = <<>> <=> Len(posix[i]) = 0)
    BY <1>1, EmptyIff
  <2>5. CASE offset > 0 /\ s.mode = "streaming"
    <3>1. i \notin stale
      BY <1>4, <2>5 DEF Resurrects
    <3>2. t.data = Pwrite(base, offset, <<b>>)
      BY <1>1, <2>3, <2>5 DEF WriteWay
    <3>3. base = posix[i]
      BY <1>4, <2>2, <3>1
    <3> QED
      BY <3>2, <3>3
  <2>6. CASE offset > 0 /\ s.mode = "buffered"
    <3>1. posix[i] = <<>>
      BY <1>4, <2>6 DEF StartsOver
    <3>2. t.data = Pwrite(s.data, offset, <<b>>)
      BY <2>6 DEF WriteWay
    <3> QED
      BY <1>4, <3>1, <3>2
  <2>7. CASE offset = 0
    <3>1. ~(posix[i] # <<>> /\ 1 < Len(posix[i]))
      BY <1>1, <1>4, <2>7 DEF StartsOver
    <3>2. Len(posix[i]) <= 1
      BY <2>4, <3>1
    <3>3. Pwrite(posix[i], 0, <<b>>) = <<b>>
      BY <1>1, <3>2, PwriteCovers
    <3>4. Pwrite(s.data, 0, <<b>>) = <<b>>
      BY <1>1, <2>3, PwriteCovers
    <3> QED
      BY <2>3, <2>7, <3>3, <3>4 DEF WriteWay
  <2>8. s.mode = "streaming" \/ s.mode = "buffered"
    BY <1>1 DEF OpenFileState
  <2> QED
    BY <1>1, <2>5, <2>6, <2>7, <2>8
<1> QED
  BY <1>3, <1>4

\* write keeps the invariant in each of its three ways.
LEMMA WriteStep ==
    ASSUME IInv, NEW h \in DOMAIN open, NEW i, i = open[h].ino,
           NEW offset \in 0 .. MaxLen - 1, NEW b \in Bytes, NEW data, data = <<b>>,
           Write(h, offset, data)
    PROVE  IInv'
<1>1. Typed /\ Clean /\ ContentInv /\ Covers(refs, Own, short)
  BY DEF IInv
<1>0. Typed' /\ WriteDone(h, i, offset, b, data)
  BY <1>1, WriteEffect
<1>2. /\ Typed' /\ Touches(i) /\ OthersSame({h}) /\ UNCHANGED <<live, stale, short>>
      /\ Committed(i)' = Committed(i)
      /\ i \in DOMAIN live /\ i \notin astray' =>
            /\ posix'[i] = Pwrite(posix[i], offset, data)
            /\ i \notin astray /\ ~Shared(h)
            /\ ~StartsOver(h, offset, data) /\ ~Resurrects(h, offset)
  BY <1>0 DEF WriteDone
<1>3. PICK t \in OpenFileState :
         /\ h \in DOMAIN open' /\ open'[h] = t
         /\ t.ino = i /\ ~t.cas_committed /\ t.data # <<>>
         /\ WriteWay(h, offset, b, t)
  BY <1>0 DEF WriteDone
<1>4. h \in Handles /\ i \in Inodes
  BY <1>1, HandleContext
<1>5. /\ \A g : g # h => (g \in Writers(i)' <=> g \in Writers(i))
      /\ h \in Writers(i)' /\ ~open'[h].cas_committed
  BY <1>1, <1>2, <1>3, <1>4, ThroughHandle
<1>6. i \in DOMAIN live' => SizeKept(i)' /\ Kept(i)'
  <2> SUFFICES ASSUME i \in DOMAIN live PROVE SizeKept(i)' /\ Kept(i)'
    BY <1>2
  <2>1. SizeKept(i)'
    BY <1>5 DEF SizeKept
  <2>2. Kept(i)'
    <3> SUFFICES ASSUME i \notin astray'
                 PROVE  /\ \A g, k \in Writers(i)' : g = k
                        /\ \A g \in Writers(i)' :
                              /\ open'[g].data = posix'[i]
                              /\ open'[g].cas_committed => Committed(i)' = open'[g].data /\ i \notin stale'
                        /\ Writers(i)' = {} => posix'[i] = IF i \in stale' THEN <<>> ELSE Committed(i)'
      BY DEF Kept
    <3>1. Kept(i)
      BY <1>1 DEF ContentInv
    <3>2. t.data = posix'[i]
      BY <1>1, <1>2, <1>3, <3>1, WriteFollows
    <3>3. Writers(i)' = {h}
      BY <1>2, <1>5 DEF Shared
    <3> QED
      BY <1>3, <1>5, <3>2, <3>3
  <2> QED
    BY <2>1, <2>2
<1>7. ContentInv'
  BY <1>1, <1>2, <1>6, Locally
<1>8. Clean'
  BY <1>1, <1>2, <1>3 DEF Clean, OthersSame, Typed, OpenTyped
<1>9. FileOwns(i)' = <<>>
  BY <1>5, FileOwnsAfter
<1>10. \/ refs' = refs /\ open'[h].last_committed_root = open[h].last_committed_root
       \/ /\ refs' = Decrement(refs, open[h].last_committed_root)
          /\ open'[h].last_committed_root = NoRoot
  BY <1>3 DEF WriteWay
<1>11. Covers(refs', Own', short')
  BY <1>1, <1>2, <1>3, <1>4, <1>9, <1>10, DirtyCovers
<1> QED
  BY <1>2, <1>7, <1>8, <1>11 DEF IInv


\* A commit of the content of handle state s: the manifest, the size and the counts.
LEMMA CommitEffect ==
    ASSUME Typed, NEW s \in OpenFileState, NEW i \in spent, i = s.ino, s.data # <<>>,
           CommitContent(s), spent' = spent
    PROVE  /\ ManifestTyped' /\ LiveTyped' /\ CountMap(refs')
           /\ DOMAIN live' = DOMAIN live
           /\ i \in DOMAIN live => live'[i].size = Len(s.data)
           /\ \A j \in DOMAIN live : j # i => live'[j] = live[j]
           /\ \A j : Committed(j)' = IF j = i THEN s.data ELSE Committed(j)
           /\ stale' = stale \ {i}
           /\ refs' = IF s.last_committed_root = s.data THEN refs
                      ELSE Increment(Decrement(refs, s.last_committed_root), s.data)
<1>1. s.data \in Content /\ Len(s.data) \in 0 .. MaxLen
  BY EmptyIff DEF OpenFileState
<1>2. /\ SetManifest(i, s.data) /\ SetSize(i, Len(s.data)) /\ stale' = stale \ {i}
      /\ refs' = IF s.last_committed_root = s.data THEN refs
                 ELSE Increment(Decrement(refs, s.last_committed_root), s.data)
  BY DEF CommitContent
<1>3. ManifestTyped' /\ \A j : Committed(j)' = IF j = i THEN s.data ELSE Committed(j)
  BY <1>1, <1>2, ManifestEffect DEF Typed
<1>4. /\ LiveTyped' /\ DOMAIN live' = DOMAIN live
      /\ i \in DOMAIN live => live'[i].size = Len(s.data)
      /\ \A j \in DOMAIN live : j # i => live'[j] = live[j]
  BY <1>1, <1>2, SizeEffect DEF Typed
<1>5. CountMap(Decrement(refs, s.last_committed_root))
  BY DecrementFacts DEF Typed
<1>6. CountMap(Increment(Decrement(refs, s.last_committed_root), s.data))
  BY <1>1, <1>5, IncrementFacts
<1>7. CountMap(refs')
  BY <1>2, <1>6 DEF Typed
<1> QED
  BY <1>2, <1>3, <1>4, <1>7

\* What a flush does: the file and the handle's root are the handle's content.
FlushDone(h, i) ==
    LET s == open[h]
    IN  /\ Touches(i) /\ OthersSame({h}) /\ UNCHANGED <<posix, astray, short>>
        /\ DOMAIN live' = DOMAIN live /\ i \notin stale'
        /\ i \in DOMAIN live => live'[i].size = Len(s.data)
        /\ s.data # <<>> /\ Committed(i)' = s.data
        /\ h \in DOMAIN open' /\ open'[h].ino = i /\ open'[h].data = s.data
        /\ open'[h].last_committed_root = s.data
        /\ refs' = IF s.last_committed_root = s.data THEN refs
                   ELSE Increment(Decrement(refs, s.last_committed_root), s.data)

\* flush and fsync: types, and what they do.
LEMMA FlushEffect ==
    ASSUME Typed, NEW h \in DOMAIN open, NEW i, i = open[h].ino, Flush(h)
    PROVE  Typed' /\ FlushDone(h, i)
<1> DEFINE s == open[h]
           t == [s EXCEPT !.cas_committed = TRUE, !.last_committed_root = s.data]
<1>1. /\ h \in Handles /\ s \in OpenFileState /\ i \in Inodes /\ i \in spent
      /\ s.data \in Content
  BY HandleContext
<1>2. /\ s.data # <<>> /\ CommitContent(s) /\ WithHandle(h, t)
      /\ UNCHANGED <<spent, posix, astray, short>>
  BY DEF Flush
<1>3. t \in OpenFileState /\ t.ino = i /\ t.data = s.data /\ t.last_committed_root = s.data
  BY <1>1 DEF OpenFileState
<1> HIDE DEF t
<1>4. /\ ManifestTyped' /\ LiveTyped' /\ CountMap(refs')
      /\ DOMAIN live' = DOMAIN live
      /\ i \in DOMAIN live => live'[i].size = Len(s.data)
      /\ \A j \in DOMAIN live : j # i => live'[j] = live[j]
      /\ \A j : Committed(j)' = IF j = i THEN s.data ELSE Committed(j)
      /\ stale' = stale \ {i}
      /\ refs' = IF s.last_committed_root = s.data THEN refs
                 ELSE Increment(Decrement(refs, s.last_committed_root), s.data)
  BY <1>1, <1>2, CommitEffect
<1>5. /\ OpenTyped' /\ DOMAIN open' = DOMAIN open \cup {h} /\ open'[h] = t
      /\ \A g \in DOMAIN open : g # h => open'[g] = open[g]
  BY <1>1, <1>2, <1>3, HandleEffect DEF Typed
<1>6. HistoryTyped' /\ spent' \subseteq Inodes
  BY <1>2, <1>4 DEF Typed, HistoryTyped
<1>7. Typed'
  BY <1>4, <1>5, <1>6 DEF Typed
<1>8. Touches(i)
  BY <1>1, <1>2, <1>3, <1>4, <1>5 DEF Touches
<1>9. OthersSame({h})
  BY <1>5 DEF OthersSame
<1> QED
  BY <1>2, <1>3, <1>4, <1>5, <1>7, <1>8, <1>9 DEF FlushDone

\* The counts after a commit through handle h, which keeps or passes on its block.
LEMMA CommitCovers ==
    ASSUME Typed, Typed', Covers(refs, Own, short), NEW i \in Inodes, Touches(i),
           NEW h \in DOMAIN open, OthersSame({h}), h \in DOMAIN open' => open'[h].ino = i,
           short' = short, NEW d \in Content, d # <<>>,
           refs' = IF open[h].last_committed_root = d THEN refs
                   ELSE Increment(Decrement(refs, open[h].last_committed_root), d),
           \/ HandleOwns(h)' = d /\ FileOwns(i)' = <<>>
           \/ HandleOwns(h)' = <<>> /\ FileOwns(i)' \in {d, <<>>}
    PROVE  Covers(refs', Own', short')
<1>1. h \in Handles /\ CountMap(refs)
  BY DEF Typed, OpenTyped
<1>2. /\ DOMAIN Own = Owner /\ DOMAIN Own' = Owner
      /\ H(h) \in Owner /\ F(i) \in Owner /\ H(h) # F(i)
      /\ \A o \in Owner : o # H(h) /\ o # F(i) => Own'[o] = Own[o]
      /\ Own[H(h)] = HandleOwns(h) /\ Own'[H(h)] = HandleOwns(h)' /\ Own'[F(i)] = FileOwns(i)'
  BY <1>1, ThroughHandle
<1>3. Own[H(h)] = open[h].last_committed_root
  BY <1>2 DEF HandleOwns
<1>4. \/ Own'[H(h)] = d /\ Own'[F(i)] = <<>>
      \/ Own'[H(h)] = <<>> /\ Own'[F(i)] \in {d, <<>>}
  BY <1>2
<1>5. Covers(IF Own[H(h)] = d THEN refs ELSE Increment(Decrement(refs, Own[H(h)]), d), Own', short)
  BY <1>1, <1>2, <1>4, CoversCommit
<1> QED
  BY <1>3, <1>5

\* flush and fsync keep the invariant.
LEMMA FlushStep ==
    ASSUME IInv, NEW h \in DOMAIN open, NEW i, i = open[h].ino, Flush(h)
    PROVE  IInv'
<1>1. Typed /\ Clean /\ ContentInv /\ Covers(refs, Own, short)
  BY DEF IInv
<1>2. Typed' /\ FlushDone(h, i)
  BY <1>1, FlushEffect
<1>3. /\ Touches(i) /\ OthersSame({h}) /\ UNCHANGED <<posix, astray, short>>
      /\ DOMAIN live' = DOMAIN live /\ i \notin stale'
      /\ i \in DOMAIN live => live'[i].size = Len(open[h].data)
      /\ open[h].data # <<>> /\ Committed(i)' = open[h].data
      /\ h \in DOMAIN open' /\ open'[h].ino = i /\ open'[h].data = open[h].data
      /\ open'[h].last_committed_root = open[h].data
  BY <1>2 DEF FlushDone
<1>4. h \in Handles /\ i \in Inodes /\ open[h].data \in Content /\ h \in Writers(i)
  BY <1>1, <1>3, HandleContext DEF Writers, HandlesOn
<1>5. /\ \A g : g # h => (g \in Writers(i)' <=> g \in Writers(i))
      /\ h \in Writers(i)'
      /\ \A g \in Writers(i) : g # h => open'[g] = open[g]
  BY <1>1, <1>2, <1>3, <1>4, ThroughHandle
<1>6. i \in DOMAIN live' => SizeKept(i)' /\ Kept(i)'
  <2> SUFFICES ASSUME i \in DOMAIN live PROVE SizeKept(i)' /\ Kept(i)'
    BY <1>3
  <2>1. SizeKept(i)'
    BY <1>3 DEF SizeKept
  <2>2. Kept(i)
    BY <1>1 DEF ContentInv
  <2>3. Kept(i)'
    BY <1>3, <1>4, <1>5, <2>2 DEF Kept
  <2> QED
    BY <2>1, <2>3
<1>7. ContentInv'
  BY <1>1, <1>3, <1>6, Locally
<1>8. Clean'
  BY <1>1, <1>2, <1>3 DEF Clean, OthersSame, Typed, OpenTyped
<1>9. HandleOwns(h)' = open[h].data /\ FileOwns(i)' = <<>>
  BY <1>3, <1>5, FileOwnsAfter DEF HandleOwns
<1>10. refs' = IF open[h].last_committed_root = open[h].data THEN refs
               ELSE Increment(Decrement(refs, open[h].last_committed_root), open[h].data)
  BY <1>2 DEF FlushDone
<1>11. Covers(refs', Own', short')
  BY <1>1, <1>2, <1>3, <1>4, <1>9, <1>10, CommitCovers
<1> QED
  BY <1>2, <1>7, <1>8, <1>11 DEF IInv

\* What a release does: the handle is gone; nothing was written through it, or
\* its content is committed already, or it is committed now.
ReleaseDone(h, i) ==
    LET s == open[h]
    IN  /\ Touches(i) /\ OthersSame({h}) /\ UNCHANGED <<posix, astray, short>>
        /\ DOMAIN live' = DOMAIN live /\ h \notin DOMAIN open'
        /\ \/ /\ s.data = <<>>
              /\ UNCHANGED <<live, refs, stale>> /\ Committed(i)' = Committed(i)
           \/ /\ s.data # <<>> /\ s.last_committed_root = s.data /\ s.cas_committed
              /\ UNCHANGED <<live, refs, stale>> /\ Committed(i)' = Committed(i)
           \/ /\ s.data # <<>> /\ Committed(i)' = s.data /\ i \notin stale'
              /\ i \in DOMAIN live => live'[i].size = Len(s.data)
              /\ refs' = IF s.last_committed_root = s.data THEN refs
                         ELSE Increment(Decrement(refs, s.last_committed_root), s.data)

\* release: types, and what it does.
LEMMA ReleaseEffect ==
    ASSUME Typed, NEW h \in DOMAIN open, NEW i, i = open[h].ino, Release(h)
    PROVE  Typed' /\ ReleaseDone(h, i)
<1> DEFINE s == open[h]
<1>1. /\ h \in Handles /\ s \in OpenFileState /\ i \in Inodes /\ i \in spent
      /\ s.data \in Content
  BY HandleContext
<1>2. WithoutHandle(h) /\ UNCHANGED <<spent, posix, astray, short>>
  BY DEF Release
<1>3. /\ OpenTyped' /\ DOMAIN open' = DOMAIN open \ {h}
      /\ \A g \in DOMAIN open : g # h => open'[g] = open[g]
  BY <1>2, HandleGone DEF Typed
<1>4. OthersSame({h})
  BY <1>3 DEF OthersSame
<1>5. CASE /\ UNCHANGED <<live, refs, stale>> /\ ManifestTyped'
           /\ \A j : Committed(j)' = Committed(j)
           /\ s.data = <<>> \/ (s.data # <<>> /\ s.last_committed_root = s.data /\ s.cas_committed)
  <2>1. LiveTyped' /\ HistoryTyped' /\ CountMap(refs') /\ spent' \subseteq Inodes
    BY <1>2, <1>5 DEF Typed, LiveTyped, HistoryTyped
  <2>2. Typed'
    BY <1>3, <1>5, <2>1 DEF Typed
  <2>3. Touches(i)
    BY <1>2, <1>3, <1>5 DEF Touches
  <2> QED
    BY <1>2, <1>3, <1>4, <1>5, <2>2, <2>3 DEF ReleaseDone
<1>6. CASE s.data # <<>> /\ CommitContent(s)
  <2>1. /\ ManifestTyped' /\ LiveTyped' /\ CountMap(refs')
        /\ DOMAIN live' = DOMAIN live
        /\ i \in DOMAIN live => live'[i].size = Len(s.data)
        /\ \A j \in DOMAIN live : j # i => live'[j] = live[j]
        /\ \A j : Committed(j)' = IF j = i THEN s.data ELSE Committed(j)
        /\ stale' = stale \ {i}
        /\ refs' = IF s.last_committed_root = s.data THEN refs
                   ELSE Increment(Decrement(refs, s.last_committed_root), s.data)
    BY <1>1, <1>2, <1>6, CommitEffect
  <2>2. HistoryTyped' /\ spent' \subseteq Inodes
    BY <1>2, <2>1 DEF Typed, HistoryTyped
  <2>3. Typed'
    BY <1>3, <2>1, <2>2 DEF Typed
  <2>4. Touches(i)
    BY <1>1, <1>2, <1>3, <2>1 DEF Touches
  <2> QED
    BY <1>2, <1>3, <1>4, <1>6, <2>1, <2>3, <2>4 DEF ReleaseDone
<1>7. CASE s.data = <<>> /\ UNCHANGED <<live, refs, stale>>
  <2>1. ManifestTyped' /\ \A j : Committed(j)' = Committed(j)
    <3>1. CASE SetManifest(i, <<>>) /\ Committed(i) = <<>>
      BY <1>1, <1>2, <3>1, EmptyContent, ManifestEffect DEF Typed
    <3>2. CASE UNCHANGED manifest
      BY <1>2, <3>2 DEF Typed, ManifestTyped, Committed
    <3>3. \/ SetManifest(i, <<>>) /\ Committed(i) = <<>>
          \/ UNCHANGED manifest
      BY <1>7 DEF Release
    <3> QED
      BY <3>1, <3>2, <3>3
  <2> QED
    BY <1>5, <1>7, <2>1
<1>8. CASE /\ s.data # <<>> /\ s.last_committed_root = s.data /\ s.cas_committed
           /\ UNCHANGED <<live, manifest, refs, stale>>
  <2>1. ManifestTyped' /\ \A j : Committed(j)' = Committed(j)
    BY <1>2, <1>8 DEF Typed, ManifestTyped, Committed
  <2> QED
    BY <1>5, <1>8, <2>1
<1> QED
  BY <1>6, <1>7, <1>8 DEF Release

\* What a closed handle had passes to its file, or to nobody.
LEMMA ClosedCovers ==
    ASSUME Typed, Typed', Covers(refs, Own, short), NEW i \in Inodes, Touches(i),
           NEW h \in DOMAIN open, OthersSame({h}), h \notin DOMAIN open',
           short' = short, refs' = refs,
           \/ FileOwns(i)' \in {FileOwns(i), <<>>}
           \/ FileOwns(i) = <<>> /\ FileOwns(i)' = open[h].last_committed_root
    PROVE  Covers(refs', Own', short')
<1>1. h \in Handles /\ CountMap(refs)
  BY DEF Typed, OpenTyped
<1>2. /\ DOMAIN Own = Owner /\ DOMAIN Own' = Owner
      /\ H(h) \in Owner /\ F(i) \in Owner /\ H(h) # F(i)
      /\ \A o \in Owner : o # H(h) /\ o # F(i) => Own'[o] = Own[o]
      /\ Own[H(h)] = HandleOwns(h) /\ Own'[H(h)] = HandleOwns(h)'
      /\ Own[F(i)] = FileOwns(i) /\ Own'[F(i)] = FileOwns(i)'
  BY <1>1, ThroughHandle
<1>3. Own[H(h)] = open[h].last_committed_root /\ Own'[H(h)] = <<>>
  BY <1>2 DEF HandleOwns
<1>4. CASE Own'[F(i)] \in {Own[F(i)], <<>>}
  <2>1. \A o \in Owner : Own'[o] # <<>> => Own'[o] = Own[o]
    BY <1>2, <1>3, <1>4
  <2>2. Covers(refs, Own', short)
    BY <1>1, <1>2, <2>1, CoversLess
  <2> QED
    BY <2>2
<1>5. CASE Own[F(i)] = <<>> /\ Own'[F(i)] = Own[H(h)] /\ Own[H(h)] # <<>>
  <2>1. Covers(refs, Own', short)
    BY <1>1, <1>2, <1>3, <1>5, CoversPassed
  <2> QED
    BY <2>1
<1> QED
  BY <1>2, <1>3, <1>4, <1>5

\* release keeps the invariant in each of its three ways.
LEMMA ReleaseStep ==
    ASSUME IInv, NEW h \in DOMAIN open, NEW i, i = open[h].ino, Release(h)
    PROVE  IInv'
<1>1. Typed /\ Clean /\ ContentInv /\ Covers(refs, Own, short)
  BY DEF IInv
<1>2. Typed' /\ ReleaseDone(h, i)
  BY <1>1, ReleaseEffect
<1>3. /\ Touches(i) /\ OthersSame({h}) /\ UNCHANGED <<posix, astray, short>>
      /\ DOMAIN live' = DOMAIN live /\ h \notin DOMAIN open'
  BY <1>2 DEF ReleaseDone
<1>4. /\ h \in Handles /\ i \in Inodes /\ open[h].data \in Content
      /\ h \in Writers(i) <=> open[h].data # <<>>
  BY <1>1, HandleContext DEF Writers, HandlesOn
<1>5. /\ \A g : g \in Writers(i)' <=> g \in Writers(i) /\ g # h
      /\ \A g \in Writers(i) : g # h => open'[g] = open[g]
  <2>1. /\ Typed /\ Typed' /\ Touches(i) /\ OthersSame({h}) /\ h \notin DOMAIN open'
    BY <1>1, <1>2, <1>3
  <2>2. /\ \A g : g # h => (g \in Writers(i)' <=> g \in Writers(i))
        /\ h \in Writers(i)' => h \in DOMAIN open'
        /\ \A g \in Writers(i) : g # h => open'[g] = open[g]
    BY <1>4, <2>1, ThroughHandle
  <2> QED
    BY <2>1, <2>2
<1>6. Clean'
  BY <1>1, <1>2, <1>3 DEF Clean, OthersSame, Typed, OpenTyped
<1>7. i \in DOMAIN live => SizeKept(i) /\ Kept(i)
  BY <1>1 DEF ContentInv
<1>8. CASE /\ open[h].data = <<>>
           /\ UNCHANGED <<live, refs, stale>> /\ Committed(i)' = Committed(i)
  <2>1. Writers(i)' = Writers(i) /\ \A g \in Writers(i) : open'[g] = open[g]
    BY <1>4, <1>5, <1>8
  <2>2. i \in DOMAIN live' => SizeKept(i)' /\ Kept(i)'
    BY <1>3, <1>7, <1>8, <2>1 DEF SizeKept, Kept
  <2>3. FileOwns(i)' = FileOwns(i)
    BY <1>3, <1>8, <2>1 DEF FileOwns, Settled
  <2>4. ContentInv'
    BY <1>1, <1>3, <2>2, Locally
  <2>5. Covers(refs', Own', short')
    BY <1>1, <1>2, <1>3, <1>4, <1>8, <2>3, ClosedCovers
  <2> QED
    BY <1>2, <1>6, <2>4, <2>5 DEF IInv
<1>9. CASE /\ open[h].data # <<>>
           /\ open[h].last_committed_root = open[h].data /\ open[h].cas_committed
           /\ UNCHANGED <<live, refs, stale>> /\ Committed(i)' = Committed(i)
  <2>1. h \in Writers(i)
    BY <1>4, <1>9
  <2>2. i \in DOMAIN live' => SizeKept(i)' /\ Kept(i)'
    <3> SUFFICES ASSUME i \in DOMAIN live PROVE SizeKept(i)' /\ Kept(i)'
      BY <1>3
    <3>1. SizeKept(i)'
      BY <1>5, <1>7, <1>9 DEF SizeKept
    <3>2. Kept(i)'
      <4> SUFFICES ASSUME i \notin astray
                   PROVE  /\ Writers(i)' = {}
                          /\ posix'[i] = IF i \in stale' THEN <<>> ELSE Committed(i)'
        BY <1>3 DEF Kept
      <4>1. Writers(i)' = {}
        BY <1>5, <1>7, <2>1 DEF Kept
      <4>2. posix[i] = open[h].data /\ Committed(i) = open[h].data /\ i \notin stale
        BY <1>7, <1>9, <2>1 DEF Kept
      <4> QED
        BY <1>3, <1>9, <4>1, <4>2
    <3> QED
      BY <3>1, <3>2
  <2>3. \/ FileOwns(i)' \in {FileOwns(i), <<>>}
        \/ FileOwns(i) = <<>> /\ FileOwns(i)' = open[h].last_committed_root
    <3>1. CASE open[h].last_committed_root = Committed(i)
      <4>1. FileOwns(i) = <<>>
        BY <2>1, <3>1 DEF FileOwns, Settled
      <4>2. FileOwns(i)' \in {Committed(i)', <<>>}
        BY FileOwnsAfter
      <4> QED
        BY <1>9, <3>1, <4>1, <4>2
    <3>2. CASE open[h].last_committed_root # Committed(i)
      <4>1. Settled(i)' <=> Settled(i)
        BY <1>3, <1>5, <1>9, <3>2 DEF Settled
      <4> QED
        BY <1>9, <4>1 DEF FileOwns
    <3> QED
      BY <3>1, <3>2
  <2>4. ContentInv'
    BY <1>1, <1>3, <2>2, Locally
  <2>5. Covers(refs', Own', short')
    BY <1>1, <1>2, <1>3, <1>4, <1>9, <2>3, ClosedCovers
  <2> QED
    BY <1>2, <1>6, <2>4, <2>5 DEF IInv
<1>10. CASE /\ open[h].data # <<>> /\ Committed(i)' = open[h].data /\ i \notin stale'
            /\ i \in DOMAIN live => live'[i].size = Len(open[h].data)
            /\ refs' = IF open[h].last_committed_root = open[h].data THEN refs
                       ELSE Increment(Decrement(refs, open[h].last_committed_root), open[h].data)
  <2>1. h \in Writers(i)
    BY <1>4, <1>10
  <2>2. i \in DOMAIN live' => SizeKept(i)' /\ Kept(i)'
    <3> SUFFICES ASSUME i \in DOMAIN live PROVE SizeKept(i)' /\ Kept(i)'
      BY <1>3
    <3>1. SizeKept(i)'
      BY <1>10 DEF SizeKept
    <3>2. Kept(i)'
      <4> SUFFICES ASSUME i \notin astray
                   PROVE  /\ Writers(i)' = {}
                          /\ posix'[i] = IF i \in stale' THEN <<>> ELSE Committed(i)'
        BY <1>3 DEF Kept
      <4>1. Writers(i)' = {} /\ posix[i] = open[h].data
        BY <1>5, <1>7, <2>1 DEF Kept
      <4> QED
        BY <1>3, <1>10, <4>1
    <3> QED
      BY <3>1, <3>2
  <2>3. HandleOwns(h)' = <<>> /\ FileOwns(i)' \in {open[h].data, <<>>}
    BY <1>3, <1>10, FileOwnsAfter DEF HandleOwns
  <2>4. ContentInv'
    BY <1>1, <1>3, <2>2, Locally
  <2>5. Covers(refs', Own', short')
    BY <1>1, <1>2, <1>3, <1>4, <1>10, <2>3, CommitCovers
  <2> QED
    BY <1>2, <1>6, <2>4, <2>5 DEF IInv
<1> QED
  BY <1>2, <1>8, <1>9, <1>10 DEF ReleaseDone

\* What ftruncate does: the handle's content and the file's size, not the
\* manifest; and what the file has in POSIX, if it is not astray.
TruncateDone(h, i, n) ==
    LET s == open[h]
    IN  /\ Touches(i) /\ OthersSame({h}) /\ short' = short
        /\ DOMAIN live' = DOMAIN live /\ Committed(i)' = Committed(i)
        /\ i \in DOMAIN live => live'[i].size = n
        /\ h \in DOMAIN open' /\ open'[h].ino = i
        /\ open'[h].data = Resize(s.data, n) /\ ~open'[h].cas_committed
        /\ \/ refs' = refs /\ open'[h].last_committed_root = s.last_committed_root
           \/ /\ refs' = Decrement(refs, s.last_committed_root)
              /\ open'[h].last_committed_root = NoRoot
        /\ n = 0 =>
              /\ posix'[i] = <<>>
              /\ i \in DOMAIN live => /\ i \in astray' <=> Shared(h)
                                      /\ i \notin stale' => Committed(i) = <<>>
        /\ n > 0 /\ i \in DOMAIN live /\ i \notin astray' =>
              /\ posix'[i] = Resize(posix[i], n)
              /\ i \notin astray /\ ~Shared(h) /\ (s.data = <<>> => posix[i] = <<>>)

\* ftruncate: types, and what it does.
LEMMA TruncateHandleEffect ==
    ASSUME Typed, NEW h \in DOMAIN open, NEW i, i = open[h].ino, NEW n \in 0 .. MaxLen,
           TruncateHandle(h, n)
    PROVE  Typed' /\ TruncateDone(h, i, n)
<1> DEFINE s == open[h]
           keeps == s.mode = "buffered" /\ n # 0
           root == IF keeps THEN s.last_committed_root ELSE NoRoot
           t == [s EXCEPT !.data = Resize(s.data, n), !.cas_committed = FALSE,
                          !.last_committed_root = root]
           stray == i \in astray \/ Shared(h) \/ (s.data = <<>> /\ posix[i] # <<>>)
<1>1. /\ h \in Handles /\ s \in OpenFileState /\ i \in Inodes /\ i \in spent
      /\ s.data \in Content /\ s.last_committed_root \in Content /\ posix[i] \in Content
  BY HandleContext
<1>2. /\ WithHandle(h, t) /\ SetSize(i, n) /\ UNCHANGED <<spent, manifest, short>>
      /\ refs' = IF keeps THEN refs ELSE Decrement(refs, s.last_committed_root)
  BY DEF TruncateHandle
<1>3. Resize(s.data, n) \in Content /\ Resize(posix[i], n) \in Content /\ root \in Content
  BY <1>1, ResizeType, EmptyContent DEF NoRoot
<1>4. /\ t \in OpenFileState /\ t.ino = i /\ t.data = Resize(s.data, n) /\ ~t.cas_committed
      /\ t.last_committed_root = root
  <2> HIDE DEF root
  <2> QED
    BY <1>1, <1>3 DEF OpenFileState
<1> HIDE DEF t
<1>5. /\ OpenTyped' /\ DOMAIN open' = DOMAIN open \cup {h} /\ open'[h] = t
      /\ \A g \in DOMAIN open : g # h => open'[g] = open[g]
  BY <1>1, <1>2, <1>4, HandleEffect DEF Typed
<1>6. /\ LiveTyped' /\ DOMAIN live' = DOMAIN live
      /\ i \in DOMAIN live => live'[i].size = n
      /\ \A j \in DOMAIN live : j # i => live'[j] = live[j]
  BY <1>2, SizeEffect DEF Typed
<1>7. ManifestTyped' /\ spent' \subseteq Inodes /\ \A j : Committed(j)' = Committed(j)
  BY <1>2 DEF Typed, ManifestTyped, Committed
<1>8. CountMap(refs')
  BY <1>2, DecrementFacts DEF Typed
<1>9. /\ posix' \in [Inodes -> Content]
      /\ \A j \in Inodes : j # i => posix'[j] = posix[j]
      /\ \A j : j # i => (j \in astray' <=> j \in astray) /\ (j \in stale' <=> j \in stale)
      /\ astray' \subseteq DOMAIN live /\ stale' \subseteq DOMAIN live
      /\ i \notin DOMAIN live => posix'[i] = <<>>
      /\ n = 0 => /\ posix'[i] = <<>>
                  /\ i \in DOMAIN live => /\ i \in astray' <=> Shared(h)
                                          /\ i \notin stale' => Committed(i) = <<>>
      /\ n > 0 /\ i \in DOMAIN live /\ i \notin astray' =>
            posix'[i] = Resize(posix[i], n) /\ ~stray
  <2>1. CASE n = 0
    <3>1. Emptied(i, Shared(h)) /\ Shared(h) \in BOOLEAN
      BY <2>1 DEF TruncateHandle, Shared
    <3> QED
      BY <1>1, <2>1, <3>1, EmptiedEffect
  <2>2. CASE n # 0
    <3>1. Follow(i, stray, Resize(posix[i], n)) /\ stale' = stale /\ stray \in BOOLEAN
      BY <2>2 DEF TruncateHandle, Shared
    <3> HIDE DEF stray
    <3>2. /\ posix' \in [Inodes -> Content]
          /\ \A j \in Inodes : j # i => posix'[j] = posix[j]
          /\ posix'[i] = IF i \notin DOMAIN live \/ stray THEN <<>> ELSE Resize(posix[i], n)
          /\ \A j : j # i => (j \in astray' <=> j \in astray)
          /\ astray' \subseteq DOMAIN live
          /\ i \in DOMAIN live => (i \in astray' <=> stray)
      BY <1>1, <1>3, <3>1, FollowEffect DEF Typed
    <3>3. stale \subseteq DOMAIN live
      BY DEF Typed, HistoryTyped
    <3> QED
      BY <2>2, <3>1, <3>2, <3>3
  <2> QED
    BY <2>1, <2>2
<1> HIDE DEF stray, root, keeps
<1>10. HistoryTyped'
  BY <1>2, <1>6, <1>9 DEF Typed, HistoryTyped
<1>11. Typed'
  BY <1>5, <1>6, <1>7, <1>8, <1>10 DEF Typed
<1>12. Touches(i)
  BY <1>1, <1>4, <1>5, <1>6, <1>7, <1>9 DEF Touches
<1>13. OthersSame({h})
  BY <1>5 DEF OthersSame
<1>14. \/ refs' = refs /\ open'[h].last_committed_root = s.last_committed_root
       \/ /\ refs' = Decrement(refs, s.last_committed_root)
          /\ open'[h].last_committed_root = NoRoot
  BY <1>2, <1>4, <1>5 DEF root
<1>15. n > 0 /\ i \in DOMAIN live /\ i \notin astray' =>
         /\ posix'[i] = Resize(posix[i], n)
         /\ i \notin astray /\ ~Shared(h) /\ (s.data = <<>> => posix[i] = <<>>)
  BY <1>9 DEF stray
<1> QED
  BY <1>2, <1>4, <1>5, <1>6, <1>7, <1>9, <1>11, <1>12, <1>13, <1>14, <1>15 DEF TruncateDone

\* ftruncate keeps the invariant, to nothing and to something.
LEMMA TruncateHandleStep ==
    ASSUME IInv, NEW h \in DOMAIN open, NEW i, i = open[h].ino, NEW n \in 0 .. MaxLen,
           TruncateHandle(h, n)
    PROVE  IInv'
<1>1. Typed /\ Clean /\ ContentInv /\ Covers(refs, Own, short)
  BY DEF IInv
<1>2. Typed' /\ TruncateDone(h, i, n)
  BY <1>1, TruncateHandleEffect
<1>3. /\ Touches(i) /\ OthersSame({h}) /\ short' = short
      /\ DOMAIN live' = DOMAIN live /\ Committed(i)' = Committed(i)
      /\ i \in DOMAIN live => live'[i].size = n
      /\ h \in DOMAIN open' /\ open'[h].ino = i
      /\ open'[h].data = Resize(open[h].data, n) /\ ~open'[h].cas_committed
      /\ \/ refs' = refs /\ open'[h].last_committed_root = open[h].last_committed_root
         \/ /\ refs' = Decrement(refs, open[h].last_committed_root)
            /\ open'[h].last_committed_root = NoRoot
  BY <1>2 DEF TruncateDone
<1>4. /\ h \in Handles /\ i \in Inodes /\ open[h].data \in Content /\ posix[i] \in Content
      /\ h \in Writers(i) <=> open[h].data # <<>>
  BY <1>1, HandleContext DEF Writers, HandlesOn
<1>5. /\ \A g : g # h => (g \in Writers(i)' <=> g \in Writers(i))
      /\ h \in Writers(i)' <=> Resize(open[h].data, n) # <<>>
      /\ \A g \in Writers(i) : g # h => open'[g] = open[g]
  BY <1>1, <1>2, <1>3, <1>4, ThroughHandle
<1>6. Clean'
  BY <1>1, <1>2, <1>3 DEF Clean, OthersSame, Typed, OpenTyped
<1>7. (i \in DOMAIN live' => SizeKept(i)' /\ Kept(i)') /\ FileOwns(i)' = <<>>
  <2>1. CASE n = 0
    <3>1. /\ posix'[i] = <<>>
          /\ i \in DOMAIN live => /\ i \in astray' <=> Shared(h)
                                  /\ i \notin stale' => Committed(i) = <<>>
      BY <1>2, <2>1 DEF TruncateDone
    <3>2. h \notin Writers(i)'
      BY <1>4, <1>5, <2>1, ResizeToNothing
    <3>3. i \in DOMAIN live' => SizeKept(i)'
      BY <1>3, <2>1, <3>1, EmptyContent DEF SizeKept
    <3>4. i \in DOMAIN live' => Kept(i)'
      <4> SUFFICES ASSUME i \in DOMAIN live, i \notin astray'
                   PROVE  /\ Writers(i)' = {}
                          /\ posix'[i] = IF i \in stale' THEN <<>> ELSE Committed(i)'
        BY <1>3 DEF Kept
      <4>1. Writers(i)' = {}
        BY <1>5, <3>1, <3>2 DEF Shared
      <4> QED
        BY <1>3, <3>1, <4>1
    <3>5. FileOwns(i)' = <<>>
      BY <1>3, <3>1, FileOwnsAfter
    <3> QED
      BY <3>3, <3>4, <3>5
  <2>2. CASE n > 0
    <3>1. h \in Writers(i)'
      BY <1>4, <1>5, <2>2, ResizeType, EmptyIff
    <3>2. i \in DOMAIN live' => SizeKept(i)'
      BY <1>3, <3>1 DEF SizeKept
    <3>3. i \in DOMAIN live' => Kept(i)'
      <4> SUFFICES ASSUME i \in DOMAIN live, i \notin astray'
                   PROVE  Writers(i)' = {h} /\ open'[h].data = posix'[i]
        BY <1>3 DEF Kept
      <4>1. /\ posix'[i] = Resize(posix[i], n)
            /\ i \notin astray /\ ~Shared(h) /\ (open[h].data = <<>> => posix[i] = <<>>)
        BY <1>2, <2>2 DEF TruncateDone
      <4>2. Writers(i)' = {h}
        BY <1>5, <3>1, <4>1 DEF Shared
      <4>3. Kept(i)
        BY <1>1 DEF ContentInv
      <4>4. open[h].data = posix[i]
        BY <1>4, <4>1, <4>3 DEF Kept
      <4> QED
        BY <1>3, <4>1, <4>2, <4>4
    <3>4. FileOwns(i)' = <<>>
      BY <1>3, <3>1, FileOwnsAfter
    <3> QED
      BY <3>2, <3>3, <3>4
  <2> QED
    BY <2>1, <2>2
<1>8. ContentInv'
  BY <1>1, <1>3, <1>7, Locally
<1>9. Covers(refs', Own', short')
  BY <1>1, <1>2, <1>3, <1>4, <1>7, DirtyCovers
<1> QED
  BY <1>2, <1>6, <1>8, <1>9 DEF IInv

\* The count of what file i has committed is taken back: by the file, if it is
\* settled; else the block is not spoken for again.
LEMMA TakenBack ==
    ASSUME Typed, Covers(refs, Own, short), NEW i \in Inodes, TakesBack(i),
           NEW less, DOMAIN less = Owner, less[F(i)] = <<>>,
           \A o \in Owner : o # F(i) => less[o] = Own[o]
    PROVE  Covers(Decrement(refs, Committed(i)), less, short')
<1>1. /\ CountMap(refs) /\ DOMAIN Own = Owner /\ F(i) \in Owner /\ Own[F(i)] = FileOwns(i)
  BY OwnAt DEF Typed
<1>2. CASE Settled(i)
  <2>1. Own[F(i)] = Committed(i) /\ short' = short
    BY <1>1, <1>2 DEF FileOwns, TakesBack
  <2>2. Covers(Decrement(refs, Own[F(i)]), less, short)
    BY <1>1, CoversDisowned
  <2> QED
    BY <2>1, <2>2
<1>3. CASE ~Settled(i)
  <2>1. Covers(refs, less, short)
    <3>1. \A o \in Owner : less[o] # <<>> => less[o] = Own[o]
      OBVIOUS
    <3> QED
      BY <1>1, <3>1, CoversLess
  <2>2. CASE Committed(i) = <<>>
    <3>1. short' = short
      BY <2>2 DEF TakesBack
    <3>2. Covers(Decrement(refs, <<>>), less, short)
      BY <1>1, <2>1, CoversNone
    <3> QED
      BY <2>2, <3>1, <3>2
  <2>3. CASE Committed(i) # <<>>
    <3>1. short' = short \cup {Committed(i)}
      BY <1>3, <2>3 DEF TakesBack
    <3>2. Covers(Decrement(refs, Committed(i)), less, short \cup {Committed(i)})
      BY <1>1, <2>1, CoversShort
    <3> QED
      BY <3>1, <3>2
  <2> QED
    BY <2>2, <2>3
<1> QED
  BY <1>2, <1>3

\* What truncate(2) does: the manifest, the size and the counts.
TruncatePathDone(i, n) ==
    /\ Touches(i) /\ open' = open /\ TakesBack(i)
    /\ DOMAIN live' = DOMAIN live /\ live'[i].size = n
    /\ Committed(i)' = Resize(Committed(i), n) /\ i \notin stale'
    /\ refs' = IF Resize(Committed(i), n) = <<>> THEN Decrement(refs, Committed(i))
               ELSE Increment(Decrement(refs, Committed(i)), Resize(Committed(i), n))
    /\ i \notin astray' =>
          /\ posix'[i] = Resize(posix[i], n)
          /\ Writers(i) = {} /\ (n > 0 => i \notin stale /\ i \notin astray)

\* truncate(2): types, and what it does.
LEMMA TruncatePathEffect ==
    ASSUME Typed, NEW i \in DOMAIN live, NEW n \in 0 .. MaxLen, TruncatePath(i, n)
    PROVE  Typed' /\ TruncatePathDone(i, n)
<1> DEFINE old == Committed(i)
           new == Resize(old, n)
           stray == Writers(i) # {} \/ (n > 0 /\ i \in stale \cup astray)
<1>1. /\ i \in spent /\ i \in Inodes /\ old \in Content /\ posix[i] \in Content
  BY CommittedType DEF Typed, LiveTyped, HistoryTyped
<1>2. new \in Content /\ Resize(posix[i], n) \in Content
  BY <1>1, ResizeType
<1>3. /\ SetManifest(i, new) /\ SetSize(i, n) /\ stale' = stale \ {i} /\ TakesBack(i)
      /\ refs' = IF new = <<>> THEN Decrement(refs, old) ELSE Increment(Decrement(refs, old), new)
      /\ Follow(i, stray, Resize(posix[i], n)) /\ UNCHANGED <<spent, open>>
  BY DEF TruncatePath
<1> HIDE DEF new
<1>4. ManifestTyped' /\ \A j : Committed(j)' = IF j = i THEN new ELSE Committed(j)
  BY <1>1, <1>2, <1>3, ManifestEffect DEF Typed
<1>5. /\ LiveTyped' /\ DOMAIN live' = DOMAIN live /\ live'[i].size = n
      /\ \A j \in DOMAIN live : j # i => live'[j] = live[j]
  BY <1>3, SizeEffect DEF Typed
<1>6. CountMap(Decrement(refs, old))
  BY DecrementFacts DEF Typed
<1>7. CountMap(refs')
  <2>1. CASE new = <<>>
    BY <1>3, <1>6, <2>1
  <2>2. CASE new # <<>>
    BY <1>2, <1>3, <1>6, <2>2, IncrementFacts
  <2> QED
    BY <2>1, <2>2
<1>8. stray \in BOOLEAN
  OBVIOUS
<1> HIDE DEF stray
<1>9. /\ posix' \in [Inodes -> Content]
      /\ \A j \in Inodes : j # i => posix'[j] = posix[j]
      /\ posix'[i] = IF i \notin DOMAIN live \/ stray THEN <<>> ELSE Resize(posix[i], n)
      /\ \A j : j # i => (j \in astray' <=> j \in astray)
      /\ astray' \subseteq DOMAIN live
      /\ i \in DOMAIN live => (i \in astray' <=> stray)
  BY <1>1, <1>2, <1>3, <1>8, FollowEffect DEF Typed
<1>10. short' \subseteq Content
  BY <1>3, TakesBackEffect
<1>11. HistoryTyped'
  BY <1>3, <1>5, <1>9, <1>10 DEF Typed, HistoryTyped
<1>12. OpenTyped' /\ spent' \subseteq Inodes
  BY <1>3 DEF Typed, OpenTyped
<1>13. Typed'
  BY <1>4, <1>5, <1>7, <1>11, <1>12 DEF Typed
<1>14. Touches(i)
  BY <1>3, <1>4, <1>5, <1>9 DEF Touches
<1>15. i \notin astray' =>
          /\ posix'[i] = Resize(posix[i], n)
          /\ Writers(i) = {} /\ (n > 0 => i \notin stale /\ i \notin astray)
  BY <1>9 DEF stray
<1> QED
  BY <1>3, <1>4, <1>5, <1>13, <1>14, <1>15 DEF TruncatePathDone, new

\* A call that goes through no handle changes what no handle and no other file has.
LEMMA FileOnly ==
    ASSUME NEW i \in Inodes, Touches(i), open' = open
    PROVE  /\ DOMAIN Own = Owner /\ DOMAIN Own' = Owner /\ F(i) \in Owner
           /\ \A o \in Owner : o # F(i) => Own'[o] = Own[o]
           /\ Own'[F(i)] = FileOwns(i)'
           /\ Writers(i)' = Writers(i)
<1>1. OthersSame({})
  BY DEF OthersSame
<1>2. \A o \in Owner : o # F(i) => Own'[o] = Own[o]
  BY <1>1, OwnElsewhere
<1>3. Writers(i)' = Writers(i)
  BY DEF Writers, HandlesOn
<1> QED
  BY <1>2, <1>3, OwnAt, OwnAtNext

\* truncate(2) keeps the invariant.
LEMMA TruncatePathStep ==
    ASSUME IInv, NEW i \in DOMAIN live, NEW n \in 0 .. MaxLen, TruncatePath(i, n)
    PROVE  IInv'
<1> DEFINE new == Resize(Committed(i), n)
           dropped == Decrement(refs, Committed(i))
           less == [Own EXCEPT ![F(i)] = <<>>]
           more == [Own EXCEPT ![F(i)] = new]
<1>1. Typed /\ Clean /\ ContentInv /\ Covers(refs, Own, short)
  BY DEF IInv
<1>2. Typed' /\ TruncatePathDone(i, n)
  BY <1>1, TruncatePathEffect
<1>3. /\ Touches(i) /\ open' = open /\ TakesBack(i)
      /\ DOMAIN live' = DOMAIN live /\ live'[i].size = n
      /\ Committed(i)' = new /\ i \notin stale'
      /\ refs' = IF new = <<>> THEN dropped ELSE Increment(dropped, new)
  BY <1>2 DEF TruncatePathDone
<1>4. i \in Inodes /\ Committed(i) \in Content /\ posix[i] \in Content
  BY <1>1, CommittedType DEF Typed, LiveTyped, HistoryTyped
<1>5. new \in Content /\ Len(new) = n
  BY <1>4, ResizeType
<1>6. /\ DOMAIN Own = Owner /\ DOMAIN Own' = Owner /\ F(i) \in Owner
      /\ \A o \in Owner : o # F(i) => Own'[o] = Own[o]
      /\ Own'[F(i)] = FileOwns(i)'
      /\ Writers(i)' = Writers(i)
  BY <1>3, <1>4, FileOnly
<1>7. SizeKept(i)'
  BY <1>3, <1>5 DEF SizeKept
<1>8. Kept(i)'
  <2> SUFFICES ASSUME i \notin astray'
               PROVE  Writers(i)' = {} /\ posix'[i] = Committed(i)'
    BY <1>3 DEF Kept
  <2>1. /\ posix'[i] = Resize(posix[i], n)
        /\ Writers(i) = {} /\ (n > 0 => i \notin stale /\ i \notin astray)
    BY <1>2 DEF TruncatePathDone
  <2>2. CASE n = 0
    BY <1>3, <1>4, <1>6, <2>1, <2>2, ResizeToNothing
  <2>3. CASE n > 0
    <3>1. Kept(i)
      BY <1>1 DEF ContentInv
    <3>2. posix[i] = Committed(i)
      BY <2>1, <2>3, <3>1 DEF Kept
    <3> QED
      BY <1>3, <1>6, <2>1, <3>2
  <2> QED
    BY <2>2, <2>3
<1>9. ContentInv'
  BY <1>1, <1>3, <1>7, <1>8, Locally
<1>10. Clean'
  BY <1>1, <1>3 DEF Clean
<1>11. /\ DOMAIN less = Owner /\ less[F(i)] = <<>> /\ \A o \in Owner : o # F(i) => less[o] = Own[o]
       /\ DOMAIN more = Owner /\ more[F(i)] = new /\ \A o \in Owner : o # F(i) => more[o] = Own[o]
  BY <1>6
<1> HIDE DEF less, more
<1>12. Covers(dropped, less, short') /\ CountMap(dropped)
  BY <1>1, <1>3, <1>4, <1>11, TakenBack, DecrementFacts DEF Typed
<1> HIDE DEF new, dropped
<1>13. Own'[F(i)] \in {new, <<>>}
  BY <1>3, <1>6, FileOwnsAfter
<1>14. Covers(refs', Own', short')
  <2>1. CASE new = <<>>
    <3>1. \A o \in Owner : Own'[o] # <<>> => Own'[o] = less[o]
      BY <1>6, <1>11, <1>13, <2>1
    <3>2. Covers(dropped, Own', short')
      BY <1>6, <1>11, <1>12, <3>1, CoversLess
    <3> QED
      BY <1>3, <2>1, <3>2
  <2>2. CASE new # <<>>
    <3> DEFINE counted == Increment(dropped, new)
    <3>1. \A o \in Owner : o # F(i) => more[o] = less[o]
      BY <1>11
    <3>2. Covers(counted, more, short') /\ CountMap(counted)
      BY <1>5, <1>6, <1>11, <1>12, <2>2, <3>1, CoversOwned, IncrementFacts
    <3>3. refs' = counted
      BY <1>3, <2>2
    <3> HIDE DEF counted
    <3>4. \A o \in Owner : Own'[o] # <<>> => Own'[o] = more[o]
      BY <1>6, <1>11, <1>13
    <3>5. Covers(counted, Own', short')
      BY <1>6, <1>11, <3>2, <3>4, CoversLess
    <3> QED
      BY <3>3, <3>5
  <2> QED
    BY <2>1, <2>2
<1> QED
  BY <1>2, <1>9, <1>10, <1>14 DEF IInv

\* unlink: types, and that the file is gone, with its manifest and handles left.
LEMMA UnlinkEffect ==
    ASSUME Typed, NEW i \in DOMAIN live, Unlink(i)
    PROVE  /\ Typed' /\ Touches(i) /\ open' = open /\ TakesBack(i)
           /\ i \notin DOMAIN live' /\ refs' = Decrement(refs, Committed(i))
<1>1. /\ refs' = Decrement(refs, Committed(i)) /\ TakesBack(i)
      /\ live' = [j \in DOMAIN live \ {i} |-> live[j]]
      /\ posix' = [posix EXCEPT ![i] = <<>>]
      /\ stale' = stale \ {i} /\ astray' = astray \ {i}
      /\ UNCHANGED <<spent, manifest, open>>
  BY DEF Unlink
<1>2. i \in Inodes
  BY DEF Typed, LiveTyped
<1>3. /\ LiveTyped' /\ DOMAIN live' = DOMAIN live \ {i}
      /\ \A j \in DOMAIN live : j # i => live'[j] = live[j]
  BY <1>1 DEF Typed, LiveTyped
<1>4. ManifestTyped' /\ OpenTyped' /\ spent' \subseteq Inodes /\ \A j : Committed(j)' = Committed(j)
  BY <1>1 DEF Typed, ManifestTyped, OpenTyped, Committed
<1>5. CountMap(refs')
  BY <1>1, DecrementFacts DEF Typed
<1>6. short' \subseteq Content
  BY <1>1, TakesBackEffect
<1>7. /\ posix' \in [Inodes -> Content] /\ posix'[i] = <<>>
      /\ \A j \in Inodes : j # i => posix'[j] = posix[j]
  BY <1>1, <1>2, EmptyContent DEF Typed, HistoryTyped
<1>8. HistoryTyped'
  BY <1>1, <1>3, <1>6, <1>7 DEF Typed, HistoryTyped
<1>9. Typed'
  BY <1>3, <1>4, <1>5, <1>8 DEF Typed
<1>10. Touches(i)
  BY <1>1, <1>3, <1>4, <1>7 DEF Touches
<1> QED
  BY <1>1, <1>3, <1>9, <1>10

\* unlink keeps the invariant.
LEMMA UnlinkStep ==
    ASSUME IInv, NEW i \in DOMAIN live, Unlink(i)
    PROVE  IInv'
<1>1. Typed /\ Clean /\ ContentInv /\ Covers(refs, Own, short)
  BY DEF IInv
<1>2. /\ Typed' /\ Touches(i) /\ open' = open /\ TakesBack(i)
      /\ i \notin DOMAIN live' /\ refs' = Decrement(refs, Committed(i))
  BY <1>1, UnlinkEffect
<1>3. i \in Inodes
  BY <1>1 DEF Typed, LiveTyped
<1>4. /\ DOMAIN Own' = Owner /\ \A o \in Owner : o # F(i) => Own'[o] = Own[o]
      /\ Own'[F(i)] = FileOwns(i)'
  BY <1>2, <1>3, FileOnly
<1>5. FileOwns(i)' = <<>>
  BY <1>2, FileOwnsAfter
<1>6. Covers(refs', Own', short')
  <2>1. \A own : DOMAIN own = Owner /\ own[F(i)] = <<>> /\ (\A o \in Owner : o # F(i) => own[o] = Own[o])
                   => Covers(Decrement(refs, Committed(i)), own, short')
    BY <1>1, <1>2, <1>3, TakenBack
  <2>2. Covers(Decrement(refs, Committed(i)), Own', short')
    BY <1>4, <1>5, <2>1
  <2> QED
    BY <1>2, <2>2
<1>7. ContentInv'
  BY <1>1, <1>2, Locally
<1>8. Clean'
  BY <1>1, <1>2 DEF Clean
<1> QED
  BY <1>2, <1>6, <1>7, <1>8 DEF IInv

-----------------------------------------------------------------------------
(* The specification.                                                      *)

\* The steps of Next, one by one.
LEMMA NextCases ==
    ASSUME Next
    PROVE  \/ \E i \in Inodes, h \in Handles :
                 Create(i, h) \/ \E trunc \in BOOLEAN : Open(i, h, trunc)
           \/ \E h \in DOMAIN open, offset \in 0 .. MaxLen - 1, b \in Bytes : Write(h, offset, <<b>>)
           \/ \E h \in DOMAIN open : Flush(h) \/ Release(h)
           \/ \E h \in DOMAIN open, n \in 0 .. MaxLen : TruncateHandle(h, n)
           \/ \E i \in DOMAIN live : Unlink(i)
           \/ \E i \in DOMAIN live, n \in 0 .. MaxLen : TruncatePath(i, n)
  BY Zenon DEF Next

\* The store that seed left satisfies the invariant: nothing is open or counted,
\* and what the files have is on the list of what was not counted.
LEMMA InitIInv == Init => IInv
<1> SUFFICES ASSUME Init PROVE IInv
  OBVIOUS
<1>1. PICK seeded \in UNION {[S -> SeedContent] : S \in SUBSET Inodes} :
        /\ live = [i \in DOMAIN seeded |-> [size |-> Len(seeded[i])]]
        /\ spent = DOMAIN seeded
        /\ manifest = seeded
        /\ open = [h \in {} |-> <<>>]
        /\ refs = [c \in {} |-> 0]
        /\ posix = [i \in Inodes |-> IF i \in DOMAIN seeded THEN seeded[i] ELSE <<>>]
        /\ stale = {}
        /\ astray = {}
        /\ short = {seeded[i] : i \in DOMAIN seeded} \ {<<>>}
  BY DEF Init
<1>2. SeedContent \subseteq Content
  BY ConstantsAssumption DEF Content, Byte
<1>3. /\ DOMAIN seeded \subseteq Inodes
      /\ seeded \in [DOMAIN seeded -> Content]
      /\ \A i \in DOMAIN seeded : seeded[i] \in Content /\ Len(seeded[i]) \in 0 .. MaxLen
  BY <1>2, EmptyIff
<1>4. DOMAIN open = {} /\ DOMAIN refs = {} /\ DOMAIN live = DOMAIN seeded
  BY <1>1
<1>5. LiveTyped /\ \A i \in DOMAIN live : live[i].size = Len(seeded[i])
  BY <1>1, <1>3 DEF LiveTyped
<1>6. ManifestTyped /\ \A i : Committed(i) = IF i \in DOMAIN seeded THEN seeded[i] ELSE <<>>
  BY <1>1, <1>3 DEF ManifestTyped, Committed
<1>7. OpenTyped /\ CountMap(refs)
  BY <1>1, <1>4 DEF OpenTyped, CountMap
<1>8. HistoryTyped
  BY <1>1, <1>3, <1>4, EmptyContent DEF HistoryTyped
<1>9. Typed
  BY <1>1, <1>3, <1>5, <1>6, <1>7, <1>8 DEF Typed
<1>10. Clean
  BY <1>4 DEF Clean
<1>11. \A i : Writers(i) = {}
  BY <1>4 DEF Writers, HandlesOn
<1>12. ContentInv
  <2> SUFFICES ASSUME NEW i \in DOMAIN live PROVE SizeKept(i) /\ Kept(i)
    BY DEF ContentInv
  <2>1. i \in Inodes /\ posix[i] = seeded[i] /\ Committed(i) = seeded[i] /\ i \notin stale
    BY <1>1, <1>3, <1>4, <1>6
  <2> QED
    BY <1>5, <1>11, <2>1 DEF SizeKept, Kept
<1>13. Covers(refs, Own, short)
  <2> SUFFICES ASSUME NEW d, d # <<>>, d \notin short
               PROVE  RefCount(refs, d) >= Cardinality({o \in DOMAIN Own : Own[o] = d})
    BY DEF Covers
  <2>1. \A h \in Handles : HandleOwns(h) = <<>>
    BY <1>4 DEF HandleOwns
  <2>2. \A i \in Inodes : FileOwns(i) = <<>> \/ FileOwns(i) \in short
    BY <1>1, <1>6 DEF FileOwns
  <2>3. \A o \in DOMAIN Own : Own[o] # d
    BY <2>1, <2>2, OwnAt
  <2>4. {o \in DOMAIN Own : Own[o] = d} = {} /\ Cardinality({}) = 0
    BY <2>3, FS_EmptySet
  <2>5. RefCount(refs, d) = 0
    BY <1>4 DEF RefCount
  <2>6. Cardinality({o \in DOMAIN Own : Own[o] = d}) = 0
    BY ONLY <2>4
  <2> QED
    BY ONLY <2>5, <2>6
<1> QED
  BY <1>9, <1>10, <1>12, <1>13 DEF IInv

\* Every call keeps the invariant, in every order and through any handles.
LEMMA NextIInv == IInv /\ [Next]_vars => IInv'
<1> SUFFICES ASSUME IInv, [Next]_vars PROVE IInv'
  OBVIOUS
<1>1. ASSUME NEW i \in Inodes, NEW h \in Handles, Create(i, h) PROVE IInv'
  BY <1>1, CreateStep
<1>2. ASSUME NEW i \in Inodes, NEW h \in Handles, NEW trunc \in BOOLEAN, Open(i, h, trunc)
      PROVE  IInv'
  BY <1>2, OpenStep
<1>3. ASSUME NEW h \in DOMAIN open, NEW offset \in 0 .. MaxLen - 1, NEW b \in Bytes,
             Write(h, offset, <<b>>)
      PROVE  IInv'
  <2> PICK i, data : i = open[h].ino /\ data = <<b>>
    OBVIOUS
  <2>1. Write(h, offset, data)
    BY <1>3
  <2> QED
    BY <1>3, <2>1, WriteStep
<1>4. ASSUME NEW h \in DOMAIN open, Flush(h) PROVE IInv'
  BY <1>4, FlushStep
<1>5. ASSUME NEW h \in DOMAIN open, Release(h) PROVE IInv'
  BY <1>5, ReleaseStep
<1>6. ASSUME NEW h \in DOMAIN open, NEW n \in 0 .. MaxLen, TruncateHandle(h, n) PROVE IInv'
  BY <1>6, TruncateHandleStep
<1>7. ASSUME NEW i \in DOMAIN live, Unlink(i) PROVE IInv'
  BY <1>7, UnlinkStep
<1>8. ASSUME NEW i \in DOMAIN live, NEW n \in 0 .. MaxLen, TruncatePath(i, n) PROVE IInv'
  BY <1>8, TruncatePathStep
<1>9. CASE UNCHANGED vars
  <2>1. /\ live' = live /\ spent' = spent /\ manifest' = manifest /\ open' = open /\ refs' = refs
        /\ posix' = posix /\ stale' = stale /\ astray' = astray /\ short' = short
    BY <1>9 DEF vars
  <2>2. Typed'
    BY <2>1 DEF IInv, Typed, LiveTyped, ManifestTyped, OpenTyped, HistoryTyped
  <2>3. Clean'
    BY <2>1 DEF IInv, Clean
  <2>4. /\ \A i : Committed(i)' = Committed(i)
        /\ \A i : Writers(i)' = Writers(i)
    BY <2>1 DEF Committed, Writers, HandlesOn
  <2>5. ContentInv'
    BY <2>1, <2>4 DEF IInv, ContentInv, SizeKept, Kept
  <2>6. \A i : FileOwns(i)' = FileOwns(i)
    BY <2>1, <2>4 DEF FileOwns, Settled
  <2>7. \A h : HandleOwns(h)' = HandleOwns(h)
    BY <2>1 DEF HandleOwns
  <2>8. Own' = Own
    BY <2>6, <2>7 DEF Own
  <2>9. Covers(refs', Own', short')
    BY <2>1, <2>8 DEF IInv
  <2> QED
    BY <2>2, <2>3, <2>5, <2>9 DEF IInv
<1>10. CASE Next
  BY <1>1, <1>2, <1>3, <1>4, <1>5, <1>6, <1>7, <1>8, <1>10, NextCases, Zenon
<1> QED
  BY <1>9, <1>10

\* The invariant holds in every reachable state.
LEMMA IInvHolds == Spec => []IInv
<1>1. Init => IInv
  BY InitIInv
<1>2. IInv /\ [Next]_vars => IInv'
  BY NextIInv
<1> QED
  BY <1>1, <1>2, PTL DEF Spec

\* The maps of the mounted file system keep their types whatever applications
\* do, sharing, truncating and unlinking open files included: sizes stay within
\* the bound, manifests and handles are of inodes that were allocated, and no
\* block has a count of 0.
THEOREM TypeCorrect == Spec => []TypeOK
<1> DEFINE Counted == calls \in 0 .. MaxCalls
<1>1. Init => Counted
  BY ConstantsAssumption DEF Init
<1>2. Counted /\ [Next]_vars => Counted'
  <2>1. Counted /\ Next => Counted'
    <3>1. Next => calls < MaxCalls /\ calls' = calls + 1
      BY DEF Next
    <3> QED
      BY <3>1, ConstantsAssumption
  <2>2. UNCHANGED vars => calls' = calls
    BY DEF vars
  <2> QED
    BY <2>1, <2>2
<1>3. IInv /\ Counted => TypeOK
  BY DEF IInv, Typed, LiveTyped, ManifestTyped, OpenTyped, CountMap, HistoryTyped, TypeOK
<1> QED
  BY <1>1, <1>2, <1>3, IInvHolds, PTL DEF Spec

\* A read returns what POSIX says the file holds, of every file that no call led
\* astray, whatever is called: through a streaming handle, a buffered one, across
\* O_TRUNC, flushes and truncations, and after the last handle is gone.
THEOREM ReadsArePosix == Spec => []PosixContent
<1>1. IInv => PosixContent
  <2> SUFFICES ASSUME IInv, NEW i \in DOMAIN live \ astray
               PROVE  CASE i \in stale /\ Writers(i) = {} -> posix[i] = <<>> /\ live[i].size = 0
                        [] posix[i] = <<>> /\ ~(i \in stale /\ Writers(i) = {}) ->
                              Read(i) \subseteq {<<>>, ReadError}
                        [] OTHER -> Read(i) = {posix[i]}
    BY DEF PosixContent
  <2>1. SizeKept(i) /\ Kept(i)
    BY DEF IInv, ContentInv
  <2>2. \A h \in Writers(i) : open[h].data = posix[i] /\ open[h].data # <<>>
    BY <2>1 DEF Kept, Writers
  <2>3. CASE Writers(i) # {}
    <3>1. Read(i) = {posix[i]} /\ posix[i] # <<>>
      BY <2>2, <2>3 DEF Read
    <3> QED
      BY <2>3, <3>1
  <2>4. CASE Writers(i) = {} /\ i \in stale
    <3>1. posix[i] = <<>> /\ live[i].size = 0
      BY <2>1, <2>4 DEF Kept, SizeKept
    <3> QED
      BY <2>4, <3>1
  <2>5. CASE Writers(i) = {} /\ i \notin stale
    <3>1. posix[i] = Committed(i)
      BY <2>1, <2>5 DEF Kept
    <3>2. Read(i) = IF i \in DOMAIN manifest THEN {manifest[i]} ELSE {ReadError}
      BY <2>5 DEF Read
    <3>3. posix[i] = <<>> => Read(i) \subseteq {<<>>, ReadError}
      BY <3>1, <3>2 DEF Committed
    <3>4. posix[i] # <<>> => Read(i) = {posix[i]}
      BY <3>1, <3>2 DEF Committed
    <3> QED
      BY <2>5, <3>3, <3>4
  <2> QED
    BY <2>3, <2>4, <2>5
<1> QED
  BY <1>1, IInvHolds, PTL

\* Once a file is closed the size stat reports is the length of its content,
\* whatever was called: the calls that set the size and the ones that set the
\* manifest agree.  Emptied through a handle and not written since, it is 0.
THEOREM ClosedSizeExact == Spec => []SizeIsLength
<1>1. IInv => SizeIsLength
  BY DEF IInv, ContentInv, SizeKept, SizeIsLength, Writers
<1> QED
  BY <1>1, IInvHolds, PTL

\* With every file closed a block counts at least as many references as files
\* have it as their content, so that freeing what counts 0 frees nothing that
\* a file needs; files with equal content included.  It is so of every block that
\* was counted when a file got it, and that no call on an open file took back.
THEOREM CountsCoverFiles == Spec => []RefcountsCover
<1>1. IInv => RefcountsCover
  <2> SUFFICES ASSUME IInv, DOMAIN open = {}, NEW d, d # <<>>, d \notin short
               PROVE  RefCount(refs, d) >= Cardinality(References(d))
    BY DEF RefcountsCover
  <2> DEFINE S == {o \in DOMAIN Own : Own[o] = d}
             T == {F(i) : i \in References(d)}
  <2>1. Typed /\ RefCount(refs, d) >= Cardinality(S)
    BY DEF IInv, Covers
  <2>2. References(d) \subseteq Inodes /\ \A i \in References(d) : Own[F(i)] = d
    <3>1. \A i : Writers(i) = {}
      BY DEF Writers, HandlesOn
    <3>2. References(d) \subseteq Inodes
      BY <2>1 DEF References, Typed, LiveTyped
    <3>3. \A i \in References(d) : FileOwns(i) = d
      BY <3>1 DEF References, FileOwns, Settled
    <3> QED
      BY <3>2, <3>3, OwnAt
  <2>3. T \subseteq S
    BY <2>2, OwnAt
  <2>4. IsFiniteSet(S) /\ Cardinality(S) \in Nat
    <3>1. DOMAIN Own = Owner
      BY OwnAt
    <3>2. \A own : DOMAIN own = Owner =>
            IsFiniteSet({o \in DOMAIN own : own[o] = d}) /\ Cardinality({o \in DOMAIN own : own[o] = d}) \in Nat
      BY OwnersFinite
    <3> QED
      BY <3>1, <3>2
  <2>5. IsFiniteSet(T) /\ Cardinality(T) <= Cardinality(S)
    BY <2>3, <2>4, FS_Subset
  <2>6. Cardinality(T) = Cardinality(References(d)) /\ Cardinality(T) \in Nat
    <3>1. IsFiniteSet(References(d))
      BY <2>2, FS_Subset, ConstantsAssumption
    <3> DEFINE f == [i \in References(d) |-> F(i)]
    <3>2. f \in Bijection(References(d), T)
      <4>1. f \in [References(d) -> T] /\ \A i \in References(d) : f[i] = F(i)
        OBVIOUS
      <4>2. \A i, j \in References(d) : f[i] = f[j] => i = j
        BY <4>1 DEF F
      <4>3. \A t \in T : \E i \in References(d) : f[i] = t
        BY <4>1
      <4> HIDE DEF f, T
      <4> QED
        BY <4>1, <4>2, <4>3 DEF Bijection, Injection, IsInjective, Surjection
    <3>3. ExistsBijection(References(d), T)
      BY <3>2 DEF ExistsBijection
    <3> QED
      BY <2>5, <3>1, <3>3, FS_Bijection, FS_CardinalityType
  <2>7. RefCount(refs, d) \in Nat
    BY <2>1, RefCountType DEF Typed
  <2> HIDE DEF S, T
  <2> QED
    BY <2>1, <2>4, <2>5, <2>6, <2>7
<1> QED
  BY <1>1, IInvHolds, PTL
=============================================================================
