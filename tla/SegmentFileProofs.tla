------------------------- MODULE SegmentFileProofs -------------------------
(***************************************************************************)
(* A segment file, for any roots, names, number of records and errors.     *)
(*                                                                         *)
(* What the reader reads from a file that ends anywhere is the records     *)
(* that are whole in it (ReadBack).  The invariant says where the file     *)
(* ends: after some records, within the next one or at its beginning, with *)
(* what is left of that one and of the others in the buffer, in the        *)
(* reader's order, and with the records that were not handed to the writer *)
(* in the queue.                                                           *)
(***************************************************************************)
EXTENDS SegmentFile, SequenceTheorems, SequenceLemmas, TLAPS

-----------------------------------------------------------------------------
(* Records and cells.                                                      *)

\* An entry is a root or a snapshot.
LEMMA EntryKinds ==
    ASSUME NEW e \in Entry
    PROVE  \/ \E r \in Nat : e = RootEntry(r)
           \/ \E v \in Nat, r \in Nat, n \in Seq(Nat) : e = SnapEntry(v, r, n)
<1>1. CASE \E r \in Roots : e = RootEntry(r)
  BY <1>1, ConstantsAssumption
<1>2. CASE \E v \in Versions, r \in Roots, n \in SnapNames : e = SnapEntry(v, r, n)
  <2>1. PICK v \in Versions, r \in Roots, n \in SnapNames : e = SnapEntry(v, r, n)
    BY <1>2
  <2>2. v \in Nat /\ r \in Nat /\ n \in Seq(Nat)
    BY ConstantsAssumption DEF Versions
  <2> QED
    BY <2>1, <2>2
<1> QED
  BY <1>1, <1>2 DEF Entry

\* What the reader makes of a payload of the type t.
Parse(t, p) == IF t = RootUpdate THEN ParseRootUpdate(p) ELSE ParseSnapshotRecord(p)

\* The payload of a record parses as the record.
LEMMA ParsePayload ==
    ASSUME NEW e \in Entry
    PROVE  /\ Payload(e) \in Seq(Nat)
           /\ e.type \in {RootUpdate, SnapshotRecord}
           /\ Parse(e.type, Payload(e)) = <<e>>
<1>1. ASSUME NEW r \in Nat, e = RootEntry(r)
      PROVE  /\ Payload(e) \in Seq(Nat) /\ e.type = RootUpdate
             /\ ParseRootUpdate(Payload(e)) = <<e>>
  <2>1. e.type = RootUpdate /\ e.root = r
    BY <1>1 DEF RootEntry
  <2>2. Payload(e) = <<r>>
    BY <2>1 DEF Payload
  <2>3. <<r>> \in Seq(Nat) /\ ~(Len(<<r>>) < 1) /\ <<r>>[1] = r
    OBVIOUS
  <2> QED
    BY <1>1, <2>1, <2>2, <2>3 DEF ParseRootUpdate
<1>2. ASSUME NEW v \in Nat, NEW r \in Nat, NEW n \in Seq(Nat), e = SnapEntry(v, r, n)
      PROVE  /\ Payload(e) \in Seq(Nat) /\ e.type = SnapshotRecord
             /\ ParseSnapshotRecord(Payload(e)) = <<e>>
  <2> DEFINE l == Len(n)
             h == <<v, r, l>>
             p == Payload(e)
  <2>1. e.type = SnapshotRecord /\ e.version = v /\ e.root = r /\ e.name = n
    BY <1>2 DEF SnapEntry
  <2>2. p = h \o n
    BY <2>1 DEF Payload, SnapshotRecord, RootUpdate
  <2>3. h \in Seq(Nat) /\ Len(h) = 3 /\ l \in Nat /\ Len(n) = l
        /\ h[1] = v /\ h[2] = r /\ h[3] = l
    OBVIOUS
  <2> HIDE DEF l, h, p
  <2>4. /\ p \in Seq(Nat) /\ Len(p) = 3 + l
        /\ \A i \in 1 .. 3 + l : p[i] = IF i <= 3 THEN h[i] ELSE n[i - 3]
    <3>1. /\ p \in Seq(Nat) /\ Len(p) = Len(h) + Len(n)
          /\ \A i \in 1 .. Len(h) + Len(n) : p[i] = IF i <= Len(h) THEN h[i] ELSE n[i - Len(h)]
      BY <2>2, <2>3, ConcatProperties
    <3> QED
      BY <2>3, <3>1
  <2>5. p[1] = v /\ p[2] = r /\ p[3] = l
    <3>1. \A i \in {1, 2, 3} : i \in 1 .. 3 + l /\ i <= 3
      BY <2>3
    <3> QED
      BY <2>3, <2>4, <3>1
  <2>6. SubSeq(p, 4, 3 + l) = n
    <3> DEFINE c == SubSeq(p, 4, 3 + l)
               m == 3 + l
    <3>1. 4 \in Int /\ m \in Int /\ m - 4 + 1 = l /\ (IF 4 <= m THEN m - 4 + 1 ELSE 0) = l
          /\ \A i \in 4 .. m : i \in 1 .. 3 + l
      BY <2>3
    <3>2. \A i \in 4 .. m : p[i] \in Nat
      BY <2>4, <3>1, ElementOfSeq
    <3> HIDE DEF m
    <3>3. SubSeq(p, 4, m) \in Seq(Nat) /\ Len(SubSeq(p, 4, m)) = l
          /\ \A i \in 1 .. l : SubSeq(p, 4, m)[i] = p[4 + i - 1]
      BY <3>1, <3>2, SubSeqProperties
    <3>4. c = SubSeq(p, 4, m)
      BY DEF m
    <3> HIDE DEF c
    <3>5. ASSUME NEW i \in 1 .. l PROVE c[i] = n[i]
      <4>1. 4 + i - 1 \in 1 .. 3 + l /\ ~(4 + i - 1 <= 3) /\ (4 + i - 1) - 3 = i
        BY <2>3
      <4>2. p[4 + i - 1] = n[(4 + i - 1) - 3]
        BY <2>4, <4>1
      <4> QED
        BY <3>3, <3>4, <4>1, <4>2
    <3>6. c = n
      BY <2>3, <3>3, <3>4, <3>5, SeqEqual
    <3> QED
      BY <3>6 DEF c
  <2>7. ~(Len(p) < 3) /\ ~(Len(p) < 3 + p[3]) /\ 3 + p[3] = 3 + l
    BY <2>3, <2>4, <2>5
  <2>8. ParseSnapshotRecord(p) = <<SnapEntry(v, r, n)>>
    BY <2>5, <2>6, <2>7 DEF ParseSnapshotRecord
  <2> QED
    BY <1>2, <2>1, <2>4, <2>8 DEF p
<1> QED
  BY <1>1, <1>2, EntryKinds DEF Parse, RootUpdate, SnapshotRecord

\* The cells of a record.
LEMMA EncodeCells ==
    ASSUME NEW e \in Entry
    PROVE  LET l == Len(Payload(e))
           IN  /\ Encode(e) \in Seq(Nat) /\ l \in Nat /\ Len(Encode(e)) = l + 2
               /\ Encode(e)[1] = e.type /\ Encode(e)[2] = l
               /\ \A j \in 1 .. l : Encode(e)[j + 2] = Payload(e)[j]
<1> DEFINE p == Payload(e)
           l == Len(p)
           h == <<e.type, l>>
           d == Encode(e)
<1>1. p \in Seq(Nat) /\ l \in Nat /\ e.type \in Nat /\ Len(p) = l
  BY ParsePayload DEF RootUpdate, SnapshotRecord
<1>2. d = h \o p
  BY DEF Encode
<1>3. h \in Seq(Nat) /\ Len(h) = 2 /\ h[1] = e.type /\ h[2] = l
  BY <1>1
<1> HIDE DEF p, l, h, d
<1>4. /\ d \in Seq(Nat) /\ Len(d) = 2 + l
      /\ \A i \in 1 .. 2 + l : d[i] = IF i <= 2 THEN h[i] ELSE p[i - 2]
  <2>1. /\ d \in Seq(Nat) /\ Len(d) = Len(h) + Len(p)
        /\ \A i \in 1 .. Len(h) + Len(p) : d[i] = IF i <= Len(h) THEN h[i] ELSE p[i - Len(h)]
    BY <1>1, <1>2, <1>3, ConcatProperties
  <2> QED
    BY <1>1, <1>3, <2>1
<1>5. d[1] = e.type /\ d[2] = l
  <2>1. \A i \in {1, 2} : i \in 1 .. 2 + l /\ i <= 2
    BY <1>1
  <2> QED
    BY <1>3, <1>4, <2>1
<1>6. ASSUME NEW j \in 1 .. l PROVE d[j + 2] = p[j]
  <2>1. j + 2 \in 1 .. 2 + l /\ ~(j + 2 <= 2) /\ (j + 2) - 2 = j
    BY <1>1
  <2> QED
    BY <1>4, <2>1
<1>7. d \in Seq(Nat) /\ l \in Nat /\ Len(d) = l + 2 /\ d[1] = e.type /\ d[2] = l
      /\ \A j \in 1 .. l : d[j + 2] = p[j]
  BY <1>1, <1>4, <1>5, <1>6
<1> QED
  BY <1>7 DEF d, l, p

\* What the reader does at cell k, given what it does further on.
ReadAt(f, cells, k) ==
    IF k + 1 > Len(cells) THEN <<>>
    ELSE LET next == k + 2 + cells[k + 1]
             payload == SubSeq(cells, k + 2, next - 1)
             parsed == IF cells[k] = RootUpdate THEN ParseRootUpdate(payload)
                       ELSE ParseSnapshotRecord(payload)
         IN  IF next - 1 > Len(cells) \/ cells[k] = EofMarker THEN <<>>
             ELSE IF cells[k] \notin {RootUpdate, SnapshotRecord} THEN f[next]
             ELSE IF parsed = <<>> THEN <<>>
             ELSE parsed \o f[next]

\* f is what the reader computes from the cells lo and after.
Reads(f, cells, lo) == f = [k \in lo .. Len(cells) + 1 |-> ReadAt(f, cells, k)]

\* The reader looks further on only.
LEMMA ReadLocal ==
    ASSUME NEW cells \in Seq(Nat), NEW k \in 1 .. Len(cells) + 1, NEW f, NEW g,
           \A j \in k + 1 .. Len(cells) + 1 : f[j] = g[j]
    PROVE  ReadAt(f, cells, k) = ReadAt(g, cells, k)
<1>1. CASE k + 1 > Len(cells)
  BY <1>1 DEF ReadAt
<1>2. CASE ~(k + 1 > Len(cells))
  <2> DEFINE next == k + 2 + cells[k + 1]
             m == Len(cells)
             c == cells[k + 1]
  <2>1. c \in Nat /\ m \in Nat /\ k \in Nat
    <3>1. k + 1 \in 1 .. Len(cells)
      BY <1>2
    <3> QED
      BY <3>1
  <2>2. ASSUME ~(next - 1 > m) PROVE f[next] = g[next]
    <3>1. next = k + 2 + c
      OBVIOUS
    <3> HIDE DEF next, m, c
    <3>2. next \in k + 1 .. m + 1
      BY <2>1, <2>2, <3>1
    <3> QED
      BY <3>2 DEF m
  <2> QED
    BY <1>2, <2>2, Zenon DEF ReadAt
<1> QED
  BY <1>1, <1>2

\* The reader's recursion defines a function.
LEMMA ReadExists ==
    ASSUME NEW cells \in Seq(Nat)
    PROVE  \E f : Reads(f, cells, 1)
<1> DEFINE n == Len(cells)
           T == {j \in Nat : j <= n => \E f : Reads(f, cells, n + 1 - j)}
<1>0. n \in Nat
  OBVIOUS
<1>1. 0 \in T
  <2> DEFINE f == [k \in n + 1 .. n + 1 |-> <<>>]
  <2>1. \A k \in n + 1 .. n + 1 : ReadAt(f, cells, k) = <<>>
    BY <1>0 DEF ReadAt
  <2>2. Reads(f, cells, n + 1)
    BY <2>1 DEF Reads
  <2>3. n + 1 - 0 = n + 1
    BY <1>0
  <2> QED
    BY <2>2, <2>3
<1>2. ASSUME NEW j \in T PROVE j + 1 \in T
  <2> SUFFICES ASSUME j + 1 <= n PROVE \E f : Reads(f, cells, n + 1 - (j + 1))
    OBVIOUS
  <2> DEFINE lo == n + 1 - j
             k0 == n + 1 - (j + 1)
  <2>1. j \in Nat /\ k0 \in 1 .. n /\ lo = k0 + 1 /\ lo \in 1 .. n + 1
    BY <1>0
  <2>2. PICK f : Reads(f, cells, lo)
    BY <1>0, <2>1
  <2> HIDE DEF lo, k0, n, T
  <2> DEFINE g == [k \in k0 .. n + 1 |-> IF k = k0 THEN ReadAt(f, cells, k0) ELSE f[k]]
  <2>3. \A k \in lo .. n + 1 : f[k] = ReadAt(f, cells, k)
    BY <2>2 DEF Reads, n
  <2>4. \A k \in lo .. n + 1 : g[k] = f[k]
    BY <1>0, <2>1
  <2>5. g[k0] = ReadAt(f, cells, k0)
    BY <1>0, <2>1
  <2>6. ASSUME NEW k \in k0 .. n + 1 PROVE ReadAt(g, cells, k) = ReadAt(f, cells, k)
    <3>1. k \in 1 .. n + 1 /\ \A i \in k + 1 .. n + 1 : i \in lo .. n + 1
      BY <1>0, <2>1
    <3>2. \A i \in k + 1 .. n + 1 : g[i] = f[i]
      BY <2>4, <3>1
    <3> HIDE DEF g
    <3> QED
      BY <3>1, <3>2, ReadLocal DEF n
  <2>7. ASSUME NEW k \in k0 .. n + 1 PROVE g[k] = ReadAt(g, cells, k)
    <3>1. k = k0 \/ k \in lo .. n + 1
      BY <1>0, <2>1
    <3> HIDE DEF g
    <3> QED
      BY <2>3, <2>4, <2>5, <2>6, <3>1
  <2>8. g = [k \in k0 .. n + 1 |-> g[k]]
    OBVIOUS
  <2> HIDE DEF g
  <2>9. Reads(g, cells, k0)
    BY <2>7, <2>8 DEF Reads, n
  <2> QED
    BY <2>9 DEF k0
<1>3. T \in SUBSET Nat
  OBVIOUS
<1> HIDE DEF T
<1>4. Nat \subseteq T
  BY <1>1, <1>2, <1>3, NatInduct
<1>5. n \in T /\ n + 1 - n = 1
  BY <1>0, <1>4
<1> QED
  BY <1>5 DEF T

\* The value of Entries, by its recursion.
LEMMA ReadValue ==
    ASSUME NEW cells \in Seq(Nat)
    PROVE  \E f : /\ \A k \in 1 .. Len(cells) + 1 : f[k] = ReadAt(f, cells, k)
                  /\ Entries(cells) = IF HasHeader(cells) THEN f[Len(Header) + 1] ELSE <<>>
<1> DEFINE from[k \in 1 .. Len(cells) + 1] ==
            IF k + 1 > Len(cells) THEN <<>>
            ELSE LET next == k + 2 + cells[k + 1]
                     payload == SubSeq(cells, k + 2, next - 1)
                     parsed == IF cells[k] = RootUpdate THEN ParseRootUpdate(payload)
                               ELSE ParseSnapshotRecord(payload)
                 IN  IF next - 1 > Len(cells) \/ cells[k] = EofMarker THEN <<>>
                     ELSE IF cells[k] \notin {RootUpdate, SnapshotRecord} THEN from[next]
                     ELSE IF parsed = <<>> THEN <<>>
                     ELSE parsed \o from[next]
<1>1. \E f : Reads(f, cells, 1)
  BY ReadExists
<1>2. Reads(from, cells, 1)
  BY <1>1, Zenon DEF Reads, ReadAt
<1>3. Entries(cells) = IF HasHeader(cells) THEN from[Len(Header) + 1] ELSE <<>>
  BY Zenon DEF Entries
<1> HIDE DEF from
<1>4. \A k \in 1 .. Len(cells) + 1 : from[k] = ReadAt(from, cells, k)
  BY <1>2 DEF Reads
<1> QED
  BY <1>3, <1>4

\* At the cells of a record, the reader reads the record.
LEMMA ReadCells ==
    ASSUME NEW cells \in Seq(Nat), NEW e \in Entry, NEW p \in Nat, NEW f,
           p + Len(Encode(e)) <= Len(cells),
           \A j \in 1 .. Len(Encode(e)) : cells[p + j] = Encode(e)[j]
    PROVE  ReadAt(f, cells, p + 1) = <<e>> \o f[p + Len(Encode(e)) + 1]
<1> DEFINE d == Encode(e)
           pay == Payload(e)
           l == Len(pay)
           m == Len(cells)
           k == p + 1
           next == p + l + 3
<1>1. /\ l \in Nat /\ Len(d) = l + 2 /\ d[1] = e.type /\ d[2] = l /\ m \in Nat
      /\ \A j \in 1 .. l : d[j + 2] = pay[j]
  BY EncodeCells
<1>2. pay \in Seq(Nat) /\ Len(pay) = l /\ e.type \in {RootUpdate, SnapshotRecord}
      /\ Parse(e.type, pay) = <<e>>
  BY ParsePayload
<1>3. \A j \in 1 .. l + 2 : cells[p + j] = d[j]
  BY <1>1
<1>4. p + (l + 2) <= m /\ p + Len(d) + 1 = next
  BY <1>1
<1>i. \A q \in 1 .. m : cells[q] \in Nat
  BY ElementOfSeq
<1> HIDE DEF d, pay, l, m
<1>5. cells[k] = e.type /\ cells[k + 1] = l
  <2>1. 1 \in 1 .. l + 2 /\ 2 \in 1 .. l + 2 /\ k + 1 = p + 2
    BY <1>1
  <2> QED
    BY <1>1, <1>3, <2>1
<1>6. k + 2 + l = next /\ ~(k + 1 > m) /\ ~(next - 1 > m)
  BY <1>1, <1>4
<1>7. SubSeq(cells, k + 2, next - 1) = pay
  <2> DEFINE x == k + 2
             y == next - 1
             c == SubSeq(cells, x, y)
  <2>1. x \in Int /\ y \in Int /\ y - x + 1 = l /\ (IF x <= y THEN y - x + 1 ELSE 0) = l
        /\ \A q \in x .. y : q \in 1 .. m
    BY <1>1, <1>4
  <2>2. ASSUME NEW i \in 1 .. l PROVE x + i - 1 = p + (i + 2) /\ i + 2 \in 1 .. l + 2
    BY <1>1
  <2> HIDE DEF x, y
  <2>3. \A q \in x .. y : cells[q] \in Nat
    BY <1>i, <2>1
  <2>4. c \in Seq(Nat) /\ Len(c) = l /\ \A i \in 1 .. l : c[i] = cells[x + i - 1]
    BY ONLY cells \in Seq(Nat), <2>1, <2>3, SubSeqProperties
  <2> HIDE DEF c
  <2>5. ASSUME NEW i \in 1 .. l PROVE c[i] = pay[i]
    <3>1. cells[p + (i + 2)] = d[i + 2] /\ d[i + 2] = pay[i]
      BY <1>1, <1>3, <2>2
    <3> QED
      BY <2>2, <2>4, <3>1
  <2> QED
    BY <1>2, <2>4, <2>5, SeqEqual DEF c, x, y
<1>8. e.type # EofMarker /\ <<e>> # <<>>
  BY <1>2 DEF EofMarker, RootUpdate, SnapshotRecord
<1> HIDE DEF k, next
<1>9. ReadAt(f, cells, k) = <<e>> \o f[next]
  <2>1. k + 2 + cells[k + 1] = next /\ ~(k + 1 > Len(cells)) /\ ~(next - 1 > Len(cells))
    BY <1>5, <1>6 DEF m
  <2>2. cells[k] \in {RootUpdate, SnapshotRecord} /\ cells[k] # EofMarker
    BY <1>2, <1>5, <1>8
  <2>3. (IF cells[k] = RootUpdate THEN ParseRootUpdate(pay) ELSE ParseSnapshotRecord(pay)) = <<e>>
    BY <1>2, <1>5 DEF Parse
  <2> QED
    BY <1>7, <1>8, <2>1, <2>2, <2>3, Zenon DEF ReadAt
<1> QED
  BY <1>4, <1>9 DEF k, d

\* Records one after the other.
LEMMA EncodeAllFacts ==
    ASSUME NEW s \in Seq(Entry)
    PROVE  /\ [k \in DOMAIN s |-> Encode(s[k])] \in Seq(Seq(Nat))
           /\ Len([k \in DOMAIN s |-> Encode(s[k])]) = Len(s)
           /\ EncodeAll(s) = FlattenSeq([k \in DOMAIN s |-> Encode(s[k])])
           /\ EncodeAll(s) \in Seq(Nat)
<1> DEFINE n == Len(s)
           c == [k \in DOMAIN s |-> Encode(s[k])]
<1>1. n \in Nat /\ c = [k \in 1 .. n |-> Encode(s[k])]
  OBVIOUS
<1>2. \A k \in 1 .. n : Encode(s[k]) \in Seq(Nat)
  <2>1. \A k \in 1 .. n : s[k] \in Entry
    BY ElementOfSeq
  <2> QED
    BY <2>1, EncodeCells
<1> HIDE DEF c, n
<1>3. c \in Seq(Seq(Nat)) /\ Len(c) = n
  BY <1>1, <1>2
<1>4. FlattenSeq(c) \in Seq(Nat)
  BY <1>3, FlattenCells
<1> QED
  BY <1>3, <1>4 DEF c, n, EncodeAll

\* Records after records, and one record.
LEMMA EncodeAllConcat ==
    ASSUME NEW s \in Seq(Entry), NEW t \in Seq(Entry)
    PROVE  EncodeAll(s \o t) = EncodeAll(s) \o EncodeAll(t)
<1> DEFINE c(r) == [k \in DOMAIN r |-> Encode(r[k])]
           u == s \o t
           l == Len(s)
           m == Len(t)
<1>1. /\ u \in Seq(Entry) /\ Len(u) = l + m /\ l \in Nat /\ m \in Nat
      /\ \A i \in 1 .. l + m : u[i] = IF i <= l THEN s[i] ELSE t[i - l]
  BY ConcatProperties
<1>2. \A r \in {s, t, u} : c(r) \in Seq(Seq(Nat)) /\ Len(c(r)) = Len(r)
                             /\ EncodeAll(r) = FlattenSeq(c(r))
  BY <1>1, EncodeAllFacts
<1>3. DOMAIN s = 1 .. l /\ DOMAIN t = 1 .. m /\ DOMAIN u = 1 .. l + m
  BY <1>1
<1> HIDE DEF u, l, m
<1>4. /\ \A k \in 1 .. l : c(s)[k] = Encode(s[k])
      /\ \A k \in 1 .. m : c(t)[k] = Encode(t[k])
      /\ \A k \in 1 .. l + m : c(u)[k] = Encode(u[k])
  BY <1>3
<1> DEFINE a == c(s)
           b == c(t)
           d == c(u)
<1>5. /\ a \in Seq(Seq(Nat)) /\ b \in Seq(Seq(Nat)) /\ d \in Seq(Seq(Nat))
      /\ Len(a) = l /\ Len(b) = m /\ Len(d) = l + m
  BY <1>1, <1>2 DEF l, m
<1>6. EncodeAll(s) = FlattenSeq(a) /\ EncodeAll(t) = FlattenSeq(b) /\ EncodeAll(u) = FlattenSeq(d)
  BY <1>2
<1> HIDE DEF c
<1>7. /\ \A k \in 1 .. l : a[k] = Encode(s[k])
      /\ \A k \in 1 .. m : b[k] = Encode(t[k])
      /\ \A k \in 1 .. l + m : d[k] = Encode(u[k])
  BY <1>4
<1> HIDE DEF a, b, d
<1>8. /\ a \o b \in Seq(Seq(Nat)) /\ Len(a \o b) = l + m
      /\ \A i \in 1 .. l + m : (a \o b)[i] = IF i <= l THEN a[i] ELSE b[i - l]
  <2>1. /\ a \o b \in Seq(Seq(Nat)) /\ Len(a \o b) = Len(a) + Len(b)
        /\ \A i \in 1 .. Len(a) + Len(b) : (a \o b)[i] = IF i <= Len(a) THEN a[i] ELSE b[i - Len(a)]
    BY <1>5, ConcatProperties
  <2> QED
    BY <1>5, <2>1
<1>9. ASSUME NEW i \in 1 .. l + m PROVE d[i] = (a \o b)[i]
  <2>1. CASE i <= l
    <3>1. i \in 1 .. l
      BY <1>1, <2>1
    <3> QED
      BY <1>1, <1>7, <1>8, <2>1, <3>1
  <2>2. CASE ~(i <= l)
    <3>1. i - l \in 1 .. m
      BY <1>1, <2>2
    <3>2. u[i] = t[i - l] /\ b[i - l] = Encode(t[i - l]) /\ (a \o b)[i] = b[i - l]
      BY <1>1, <1>7, <1>8, <2>2, <3>1
    <3> QED
      BY <1>7, <3>2
  <2> QED
    BY <2>1, <2>2
<1>10. d = a \o b
  BY <1>5, <1>8, <1>9, SeqEqual
<1>11. FlattenSeq(d) = FlattenSeq(a) \o FlattenSeq(b)
  BY <1>5, <1>10, FlattenConcat
<1> QED
  BY <1>6, <1>11 DEF u

\* No record.
LEMMA EncodeAllNone == EncodeAll(<<>>) = <<>>
BY DEF EncodeAll, FlattenSeq

\* One record.
LEMMA EncodeAllOne ==
    ASSUME NEW e \in Entry
    PROVE  EncodeAll(<<e>>) = Encode(e)
<1>2. [k \in DOMAIN <<e>> |-> Encode(<<e>>[k])] = Append(<<>>, Encode(e))
  <2>1. DOMAIN <<e>> = {1} /\ <<e>>[1] = e
    OBVIOUS
  <2>2. Append(<<>>, Encode(e)) = <<Encode(e)>> /\ DOMAIN <<Encode(e)>> = {1}
        /\ <<Encode(e)>>[1] = Encode(e)
    OBVIOUS
  <2>3. <<Encode(e)>> = [k \in {1} |-> Encode(e)]
    BY <2>2
  <2> QED
    BY <2>1, <2>2, <2>3
<1>3. Encode(e) \in Seq(Nat) /\ <<>> \in Seq(Seq(Nat))
  BY EncodeCells
<1>4. FlattenSeq(Append(<<>>, Encode(e))) = FlattenSeq(<<>>) \o Encode(e)
  BY <1>3, FlattenAppend
<1>5. FlattenSeq(<<>>) = <<>> /\ <<>> \o Encode(e) = Encode(e)
  BY <1>3, ConcatEmptySeq DEF FlattenSeq
<1> QED
  BY <1>2, <1>4, <1>5 DEF EncodeAll

\* The reader stops here: nothing, a record cut short, or the marker.
Stops(tail) == Len(tail) < 2 \/ tail[1] = EofMarker \/ Len(tail) < 2 + tail[2]

\* A file with whole records and an end at which the reader stops is read as
\* these records.
LEMMA ReadBack ==
    ASSUME NEW es \in Seq(Entry), NEW tail \in Seq(Nat), Stops(tail)
    PROVE  LET cells == (Header \o EncodeAll(es)) \o tail
           IN  HasHeader(cells) /\ Entries(cells) = es
<1> DEFINE n == Len(es)
           recs == [k \in DOMAIN es |-> Encode(es[k])]
           b == EncodeAll(es)
           cells == (Header \o b) \o tail
           l == Len(b)
           t == Len(tail)
<1>1. n \in Nat /\ \A k \in 1 .. n : es[k] \in Entry
  BY ElementOfSeq
<1>2. recs \in Seq(Seq(Nat)) /\ Len(recs) = n /\ b = FlattenSeq(recs) /\ b \in Seq(Nat)
      /\ \A k \in 1 .. n : recs[k] = Encode(es[k])
  <2>1. \A k \in 1 .. n : recs[k] = Encode(es[k])
    OBVIOUS
  <2> QED
    BY <2>1, EncodeAllFacts
<1>3. /\ cells \in Seq(Nat) /\ Len(cells) = 2 + l + t /\ l \in Nat /\ t \in Nat
      /\ cells[1] = Header[1] /\ cells[2] = Header[2]
      /\ \A i \in 1 .. l : cells[2 + i] = b[i]
      /\ \A i \in 1 .. t : cells[2 + l + i] = tail[i]
  <2>1. Header \in Seq(Nat) /\ Len(Header) = 2 /\ b \in Seq(Nat) /\ l \in Nat /\ t \in Nat
        /\ Len(b) = l /\ Len(tail) = t
    BY <1>2 DEF Header
  <2> HIDE DEF b, l, t
  <2> DEFINE a == Header \o b
  <2>2. /\ a \in Seq(Nat) /\ Len(a) = 2 + l
        /\ \A i \in 1 .. 2 + l : a[i] = IF i <= 2 THEN Header[i] ELSE b[i - 2]
    <3>1. /\ a \in Seq(Nat) /\ Len(a) = Len(Header) + Len(b)
          /\ \A i \in 1 .. Len(Header) + Len(b) :
                a[i] = IF i <= Len(Header) THEN Header[i] ELSE b[i - Len(Header)]
      BY <2>1, ConcatProperties
    <3> QED
      BY <2>1, <3>1
  <2> HIDE DEF a
  <2> DEFINE d == a \o tail
  <2>3. /\ d \in Seq(Nat) /\ Len(d) = (2 + l) + t
        /\ \A i \in 1 .. (2 + l) + t : d[i] = IF i <= 2 + l THEN a[i] ELSE tail[i - (2 + l)]
    <3>1. /\ d \in Seq(Nat) /\ Len(d) = Len(a) + Len(tail)
          /\ \A i \in 1 .. Len(a) + Len(tail) :
                d[i] = IF i <= Len(a) THEN a[i] ELSE tail[i - Len(a)]
      BY <2>2, ConcatProperties
    <3> HIDE DEF d
    <3> QED
      BY <2>1, <2>2, <3>1
  <2>4. cells = d
    BY DEF a
  <2> HIDE DEF d, cells
  <2>5. d[1] = Header[1] /\ d[2] = Header[2]
    <3>1. \A i \in {1, 2} : i \in 1 .. (2 + l) + t /\ i \in 1 .. 2 + l /\ i <= 2 + l /\ i <= 2
      BY <2>1
    <3> QED
      BY <2>2, <2>3, <3>1
  <2>6. ASSUME NEW i \in 1 .. l PROVE d[2 + i] = b[i]
    <3>1. 2 + i \in 1 .. (2 + l) + t /\ 2 + i \in 1 .. 2 + l /\ 2 + i <= 2 + l
          /\ ~(2 + i <= 2) /\ (2 + i) - 2 = i
      BY <2>1
    <3>2. d[2 + i] = a[2 + i] /\ a[2 + i] = b[(2 + i) - 2]
      BY <2>2, <2>3, <3>1
    <3> QED
      BY <3>1, <3>2
  <2>7. ASSUME NEW i \in 1 .. t PROVE d[2 + l + i] = tail[i]
    <3>1. 2 + l + i \in 1 .. (2 + l) + t /\ ~(2 + l + i <= 2 + l) /\ (2 + l + i) - (2 + l) = i
      BY <2>1
    <3> QED
      BY <2>3, <3>1
  <2>8. (2 + l) + t = 2 + l + t
    BY <2>1
  <2> QED
    BY <2>1, <2>3, <2>4, <2>5, <2>6, <2>7, <2>8
<1>l. Len(b) = l /\ Len(tail) = t /\ Len(es) = n
  OBVIOUS
<1> HIDE DEF n, recs, b, cells, l, t
<1>4. HasHeader(cells)
  <2>1. Len(Header) = 2 /\ Header[1] = 83 /\ Header[2] = 1 /\ Header \in Seq(Nat)
    BY DEF Header
  <2> DEFINE c == SubSeq(cells, 1, 2)
  <2>2. Len(cells) >= 2 /\ 1 \in Int /\ 2 \in Int /\ \A i \in 1 .. 2 : cells[i] \in Nat
    BY <1>3
  <2>3. c \in Seq(Nat) /\ Len(c) = 2 /\ \A i \in 1 .. 2 : c[i] = cells[1 + i - 1]
    BY <2>2, SubSeqProperties
  <2> HIDE DEF c
  <2>4. \A i \in 1 .. 2 : c[i] = Header[i]
    <3>1. \A i \in 1 .. 2 : 1 + i - 1 = i /\ (i = 1 \/ i = 2)
      OBVIOUS
    <3>2. cells[1] = Header[1] /\ cells[2] = Header[2]
      BY <1>3
    <3> QED
      BY ONLY <2>3, <3>1, <3>2
  <2>5. c = Header
    <3>1. Header \in Seq(Nat) /\ c \in Seq(Nat) /\ Len(c) = Len(Header) /\ Len(c) = 2
      BY <2>1, <2>3
    <3> QED
      BY ONLY <2>4, <3>1, SeqEqual
  <2> QED
    BY <2>1, <2>2, <2>5 DEF c, HasHeader
<1>5. PICK ends : Cells(recs, b, ends)
  BY <1>2, FlattenCells
<1>6. PICK f : /\ \A k \in 1 .. Len(cells) + 1 : f[k] = ReadAt(f, cells, k)
               /\ Entries(cells) = IF HasHeader(cells) THEN f[Len(Header) + 1] ELSE <<>>
  BY <1>3, ReadValue
<1>7. /\ ends \in [0 .. n -> Nat] /\ ends[0] = 0 /\ ends[n] = l
      /\ \A i \in 1 .. n :
            /\ ends[i] = ends[i - 1] + Len(recs[i]) /\ ends[i] <= l
            /\ \A j \in 1 .. Len(recs[i]) : b[ends[i - 1] + j] = recs[i][j]
  BY <1>2, <1>5, <1>l DEF Cells
<1> DEFINE T == {j \in Nat : j <= n => f[2 + ends[n - j] + 1] = SubSeq(es, n - j + 1, n)}
<1>8. 0 \in T
  <2>1. n - 0 = n /\ ends[n] = l
    BY <1>1, <1>7
  <2>2. 2 + l + 1 \in 1 .. Len(cells) + 1
    BY <1>3
  <2>3. ReadAt(f, cells, 2 + l + 1) = <<>>
    <3>1. CASE t < 2
      <4>1. (2 + l + 1) + 1 > Len(cells)
        BY <1>3, <3>1
      <4> QED
        BY <4>1 DEF ReadAt
    <3>2. CASE ~(t < 2)
      <4>1. 1 \in 1 .. t /\ 2 \in 1 .. t
        BY <1>3, <3>2
      <4>2. cells[2 + l + 1] = tail[1] /\ cells[2 + l + 2] = tail[2]
        BY <1>3, <4>1
      <4>3. (2 + l + 1) + 1 = 2 + l + 2
        BY <1>3
      <4>4. tail[1] = EofMarker \/ t < 2 + tail[2]
        BY <1>l, <3>2 DEF Stops
      <4>5. tail[2] \in Nat
        BY <1>l, <4>1
      <4>6. cells[2 + l + 1] = EofMarker
            \/ ((2 + l + 1) + 2 + cells[(2 + l + 1) + 1]) - 1 > Len(cells)
        <5>1. CASE tail[1] = EofMarker
          BY <4>2, <5>1
        <5>2. CASE t < 2 + tail[2]
          <6>1. ((2 + l + 1) + 2 + tail[2]) - 1 > 2 + l + t
            <7>1. l \in Nat /\ t \in Nat
              BY <1>3
            <7> QED
              BY ONLY <4>5, <5>2, <7>1
          <6>2. Len(cells) = 2 + l + t
            BY <1>3
          <6>3. cells[(2 + l + 1) + 1] = tail[2]
            BY ONLY <4>2, <4>3
          <6> QED
            BY ONLY <6>1, <6>2, <6>3
        <5> QED
          BY <4>4, <5>1, <5>2
      <4> QED
        BY <4>6, Zenon DEF ReadAt
    <3> QED
      BY <3>1, <3>2
  <2>4. SubSeq(es, n + 1, n) = <<>>
    BY <1>1, SubSeqEmpty
  <2> QED
    BY <1>6, <2>1, <2>2, <2>3, <2>4
<1>9. ASSUME NEW j \in T PROVE j + 1 \in T
  <2> SUFFICES ASSUME j + 1 <= n
               PROVE  f[2 + ends[n - (j + 1)] + 1] = SubSeq(es, n - (j + 1) + 1, n)
    OBVIOUS
  <2> DEFINE i == n - j
             others == SubSeq(es, i + 1, n)
  <2>1. j \in Nat /\ i \in 1 .. n /\ n - (j + 1) = i - 1 /\ n - (j + 1) + 1 = i /\ j <= n
        /\ i \in 0 .. n /\ i - 1 \in 0 .. n
    BY <1>1
  <2>2. f[2 + ends[i] + 1] = others
    BY <2>1
  <2> HIDE DEF i, T
  <2> DEFINE e == es[i]
             q == ends[i - 1]
             p == 2 + q
             len == Len(Encode(e))
  <2>3. e \in Entry /\ q \in Nat /\ recs[i] = Encode(e) /\ len \in Nat
    <3>1. e \in Entry /\ q \in Nat /\ recs[i] = Encode(e)
      BY <1>1, <1>2, <1>7, <2>1
    <3>2. Encode(e) \in Seq(Nat)
      BY <3>1, EncodeCells
    <3> QED
      BY <3>1, <3>2
  <2>4. ends[i] = q + len /\ q + len <= l /\ \A x \in 1 .. len : b[q + x] = Encode(e)[x]
    BY <1>7, <2>1, <2>3
  <2> HIDE DEF e, q, len
  <2>5. p \in Nat /\ p + len <= Len(cells) /\ p + 1 \in 1 .. Len(cells) + 1
        /\ p + len + 1 = 2 + (q + len) + 1
    <3> DEFINE all == Len(cells)
    <3>1. all = 2 + l + t /\ l \in Nat /\ t \in Nat /\ q \in Nat /\ len \in Nat /\ q + len <= l
      BY <1>3, <2>3, <2>4
    <3> HIDE DEF all
    <3>2. p \in Nat /\ p + len <= all /\ p + 1 \in 1 .. all + 1
          /\ p + len + 1 = 2 + (q + len) + 1
      BY ONLY <3>1
    <3> QED
      BY <3>2 DEF all
  <2>6. ASSUME NEW x \in 1 .. len PROVE cells[p + x] = Encode(e)[x]
    <3>1. q + x \in 1 .. l
      BY ONLY <1>3, <2>3, <2>4, <2>6, PlaceWithin
    <3>2. 2 + (q + x) = p + x
      BY <2>3
    <3> QED
      BY <1>3, <2>4, <3>1, <3>2
  <2> HIDE DEF p, others
  <2>7. ReadAt(f, cells, p + 1) = <<e>> \o f[p + len + 1]
    <3>1. p + Len(Encode(e)) <= Len(cells)
          /\ \A x \in 1 .. Len(Encode(e)) : cells[p + x] = Encode(e)[x]
      BY <2>5, <2>6 DEF len
    <3>2. cells \in Seq(Nat) /\ e \in Entry /\ p \in Nat
      BY <1>3, <2>3, <2>5
    <3>3. ReadAt(f, cells, p + 1) = <<e>> \o f[p + Len(Encode(e)) + 1]
      BY ONLY <3>1, <3>2, ReadCells
    <3> QED
      BY <3>3 DEF len
  <2>8. f[p + len + 1] = others
    BY <2>2, <2>4, <2>5
  <2>9. f[p + 1] = <<e>> \o others
    BY <1>6, <2>5, <2>7, <2>8
  <2>10. <<e>> \o others = SubSeq(es, i, n)
    <3>1. i \in 1 .. Len(es) /\ n \in i .. Len(es)
      BY <1>1, <1>l, <2>1
    <3> QED
      BY <3>1, SubSeqRecursiveFirst DEF e, others
  <2> QED
    BY <2>1, <2>9, <2>10 DEF p, q
<1>10. T \in SUBSET Nat
  OBVIOUS
<1> HIDE DEF T
<1>11. Nat \subseteq T
  BY <1>8, <1>9, <1>10, NatInduct
<1>12. f[2 + ends[n - n] + 1] = SubSeq(es, n - n + 1, n)
  <2>1. n \in T /\ n <= n
    BY <1>1, <1>11
  <2> QED
    BY <2>1 DEF T
<1>13. n - n = 0 /\ 2 + 0 + 1 = 3 /\ 0 + 1 = 1
  BY <1>1
<1>14. f[3] = SubSeq(es, 1, n)
  BY <1>7, <1>12, <1>13
<1>15. SubSeq(es, 1, n) = es
  BY <1>l, SubSeqFull
<1>16. Len(Header) + 1 = 3
  BY DEF Header
<1>17. Entries(cells) = es
  BY <1>4, <1>6, <1>14, <1>15, <1>16
<1> QED
  BY <1>4, <1>17 DEF cells, b

-----------------------------------------------------------------------------
(* Where the file ends.                                                    *)

\* The file f holds the records es whole, and then tail, the beginning of the
\* next one; with r behind it, it would hold the records q too.
Torn(f, r, es, q, tail) ==
    /\ f \in Seq(Nat) /\ r \in Seq(Nat) /\ tail \in Seq(Nat)
    /\ es \in Seq(Entry) /\ q \in Seq(Entry)
    /\ \/ Len(f) < 2 /\ es = <<>> /\ tail = <<>> /\ f \o r = Header \o EncodeAll(q)
       \/ /\ f = (Header \o EncodeAll(es)) \o tail
          /\ tail \o r = EncodeAll(q)
          /\ q = <<>> \/ Len(tail) < Len(Encode(q[1]))

\* Cells put together.
LEMMA CellsConcat ==
    ASSUME NEW a \in Seq(Nat), NEW b \in Seq(Nat)
    PROVE  /\ a \o b \in Seq(Nat) /\ Len(a \o b) = Len(a) + Len(b)
           /\ Len(a) \in Nat /\ Len(b) \in Nat
           /\ a \o <<>> = a /\ <<>> \o a = a
BY ConcatProperties, ConcatEmptySeq

\* The order in which cells are put together does not matter.
LEMMA CellsAssociative ==
    ASSUME NEW a \in Seq(Nat), NEW b \in Seq(Nat), NEW c \in Seq(Nat)
    PROVE  (a \o b) \o c = a \o (b \o c)
BY ConcatAssociative

\* Equal cells have equal parts.
LEMMA CellsParts ==
    ASSUME NEW a \in Seq(Nat), NEW b \in Seq(Nat), NEW c \in Seq(Nat), NEW d \in Seq(Nat),
           a \o b = c \o d, Len(a) <= Len(c)
    PROVE  SameUpTo(a, c, Len(a)) /\ (Len(a) = Len(c) => a = c /\ b = d)
BY ConcatParts, Zenon

\* The header is two cells.
LEMMA HeaderCells == Header \in Seq(Nat) /\ Len(Header) = 2
BY DEF Header

\* The first record of several.
LEMMA FirstRecord ==
    ASSUME NEW q \in Seq(Entry), q # <<>>
    PROVE  /\ q[1] \in Entry /\ Tail(q) \in Seq(Entry) /\ q = <<q[1]>> \o Tail(q)
           /\ EncodeAll(q) = Encode(q[1]) \o EncodeAll(Tail(q))
<1>1. q[1] \in Entry /\ Tail(q) \in Seq(Entry) /\ q = <<q[1]>> \o Tail(q)
  BY FirstAndRest
<1>2. <<q[1]>> \in Seq(Entry)
  BY <1>1
<1>3. EncodeAll(<<q[1]>> \o Tail(q)) = EncodeAll(<<q[1]>>) \o EncodeAll(Tail(q))
  BY <1>1, <1>2, EncodeAllConcat
<1>4. EncodeAll(<<q[1]>>) = Encode(q[1])
  BY <1>1, EncodeAllOne
<1> QED
  BY <1>1, <1>3, <1>4

\* The reader reads the whole records of the file.
LEMMA TornRead ==
    ASSUME NEW f, NEW r, NEW es, NEW q, NEW tail, Torn(f, r, es, q, tail)
    PROVE  Entries(f) = es /\ (HasHeader(f) <=> Len(f) >= 2)
<1>0. f \in Seq(Nat) /\ r \in Seq(Nat) /\ tail \in Seq(Nat) /\ es \in Seq(Entry)
      /\ q \in Seq(Entry) /\ Len(f) \in Nat /\ Len(Header) = 2
  BY DEF Torn, Header
<1>1. CASE Len(f) < 2 /\ es = <<>>
  <2>1. ~HasHeader(f)
    BY <1>0, <1>1 DEF HasHeader
  <2>2. Entries(f) = <<>>
    BY <1>0, <2>1, ReadValue
  <2> QED
    BY <1>0, <1>1, <2>1, <2>2
<1>2. CASE /\ f = (Header \o EncodeAll(es)) \o tail /\ tail \o r = EncodeAll(q)
           /\ q = <<>> \/ Len(tail) < Len(Encode(q[1]))
  <2>1. Stops(tail)
    <3>1. CASE q = <<>>
      <4>1. tail \o r = <<>>
        BY <1>2, <3>1, EncodeAllNone
      <4>2. Len(tail \o r) = Len(tail) + Len(r) /\ Len(tail) \in Nat /\ Len(r) \in Nat
        BY <1>0, ConcatProperties
      <4>3. Len(tail) < 2
        BY <4>1, <4>2
      <4> QED
        BY <4>3 DEF Stops
    <3>2. CASE q # <<>> /\ ~(Len(tail) < 2)
      <4> DEFINE d == Encode(q[1])
                 z == EncodeAll(Tail(q))
      <4>1. q[1] \in Entry /\ tail \o r = d \o z /\ z \in Seq(Nat) /\ Len(tail) < Len(d)
        BY <1>0, <1>2, <3>2, FirstRecord, EncodeAllFacts
      <4>2. d \in Seq(Nat) /\ d[2] \in Nat /\ Len(d) = 2 + d[2] /\ Len(d) \in Nat
        BY <4>1, EncodeCells
      <4> HIDE DEF d, z
      <4>3. Len(tail) \in Nat /\ Len(tail) <= Len(d) /\ 2 \in 1 .. Len(tail)
        <5> DEFINE m == Len(tail)
                   n == Len(d)
        <5>1. m \in Nat /\ n \in Nat /\ m < n /\ ~(m < 2)
          BY <1>0, <3>2, <4>1, <4>2
        <5> HIDE DEF m, n
        <5>2. m \in Nat /\ m <= n /\ 2 \in 1 .. m
          BY ONLY <5>1
        <5> QED
          BY <5>2 DEF m, n
      <4>4. \A i \in 1 .. Len(tail) : tail[i] = d[i]
        <5>1. tail \in Seq(Nat) /\ r \in Seq(Nat) /\ d \in Seq(Nat) /\ z \in Seq(Nat)
              /\ tail \o r = d \o z /\ Len(tail) <= Len(d)
          BY <1>0, <4>1, <4>2, <4>3
        <5>2. SameUpTo(tail, d, Len(tail))
          BY ONLY <5>1, CellsParts, Zenon
        <5> QED
          BY <5>2 DEF SameUpTo
      <4>5. tail[2] = d[2]
        BY <4>3, <4>4
      <4> QED
        BY <4>1, <4>2, <4>5 DEF Stops
    <3> QED
      BY <3>1, <3>2 DEF Stops
  <2>2. HasHeader(f) /\ Entries(f) = es
    BY <1>0, <1>2, <2>1, ReadBack
  <2>3. Len(f) >= 2
    BY <1>0, <2>2 DEF HasHeader
  <2> QED
    BY <2>2, <2>3
<1> QED
  BY <1>1, <1>2 DEF Torn

\* More records behind the others.
LEMMA TornMore ==
    ASSUME NEW f, NEW r, NEW es, NEW q, NEW tail, Torn(f, r, es, q, tail),
           NEW p \in Seq(Entry)
    PROVE  Torn(f, r \o EncodeAll(p), es, q \o p, tail)
<1> DEFINE c == EncodeAll(p)
           b == EncodeAll(q)
<1>0. f \in Seq(Nat) /\ r \in Seq(Nat) /\ tail \in Seq(Nat) /\ es \in Seq(Entry)
      /\ q \in Seq(Entry) /\ c \in Seq(Nat) /\ b \in Seq(Nat) /\ Header \in Seq(Nat)
  <2>1. f \in Seq(Nat) /\ r \in Seq(Nat) /\ tail \in Seq(Nat) /\ es \in Seq(Entry)
        /\ q \in Seq(Entry)
    BY DEF Torn
  <2> QED
    BY <2>1, EncodeAllFacts, HeaderCells
<1>1. EncodeAll(q \o p) = b \o c /\ q \o p \in Seq(Entry) /\ r \o c \in Seq(Nat)
  <2>1. EncodeAll(q \o p) = b \o c
    BY <1>0, EncodeAllConcat
  <2>2. q \o p \in Seq(Entry)
    BY <1>0
  <2> HIDE DEF c
  <2>3. r \o c \in Seq(Nat)
    BY ONLY <1>0
  <2> QED
    BY <2>1, <2>2, <2>3
<1> HIDE DEF b, c
<1>2. CASE Len(f) < 2 /\ es = <<>> /\ tail = <<>> /\ f \o r = Header \o b
  <2>1. f \o (r \o c) = (f \o r) \o c /\ (Header \o b) \o c = Header \o (b \o c)
    <3>1. f \in Seq(Nat) /\ r \in Seq(Nat) /\ c \in Seq(Nat)
      BY <1>0
    <3>2. Header \in Seq(Nat) /\ b \in Seq(Nat) /\ c \in Seq(Nat)
      BY <1>0
    <3>3. (f \o r) \o c = f \o (r \o c)
      BY ONLY <3>1, CellsAssociative, Zenon
    <3>4. (Header \o b) \o c = Header \o (b \o c)
      BY ONLY <3>2, CellsAssociative, Zenon
    <3> QED
      BY <3>3, <3>4
  <2>2. f \o (r \o c) = Header \o EncodeAll(q \o p)
    BY <1>1, <1>2, <2>1
  <2>3. f \in Seq(Nat) /\ r \o c \in Seq(Nat) /\ tail \in Seq(Nat) /\ es \in Seq(Entry)
        /\ q \o p \in Seq(Entry)
    BY <1>0, <1>1
  <2> DEFINE u == r \o c
             v == q \o p
  <2>4. Torn(f, u, es, v, tail)
    <3> HIDE DEF u, v
    <3>1. f \in Seq(Nat) /\ u \in Seq(Nat) /\ tail \in Seq(Nat) /\ es \in Seq(Entry)
          /\ v \in Seq(Entry) /\ f \o u = Header \o EncodeAll(v)
      BY <2>2, <2>3 DEF u, v
    <3> QED
      BY <1>2, <3>1, Zenon DEF Torn
  <2> QED
    BY <2>4 DEF c
<1>3. CASE /\ f = (Header \o EncodeAll(es)) \o tail /\ tail \o r = b
           /\ q = <<>> \/ Len(tail) < Len(Encode(q[1]))
  <2>1. tail \o (r \o c) = EncodeAll(q \o p)
    <3>0. tail \in Seq(Nat) /\ r \in Seq(Nat) /\ c \in Seq(Nat)
      BY <1>0
    <3> HIDE DEF c
    <3>1. (tail \o r) \o c = tail \o (r \o c)
      BY ONLY <3>0, CellsAssociative, Zenon
    <3> QED
      BY <1>1, <1>3, <3>1
  <2>2. q \o p = <<>> \/ Len(tail) < Len(Encode((q \o p)[1]))
    <3>1. CASE q = <<>>
      <4>1. q \o p = p
        BY <3>1, ConcatEmptySeq
      <4>2. tail \o r = <<>>
        BY <1>3, <3>1, EncodeAllNone DEF b
      <4>3. Len(tail \o r) = Len(tail) + Len(r) /\ Len(tail) \in Nat /\ Len(r) \in Nat
        BY <1>0, ConcatProperties
      <4>4. Len(tail) = 0
        BY <4>2, <4>3
      <4>5. ASSUME p # <<>> PROVE Len(Encode(p[1])) > 0
        <5>1. p[1] \in Entry
          BY <4>5, FirstRecord
        <5> QED
          BY <5>1, EncodeCells
      <4> QED
        BY <4>1, <4>4, <4>5
    <3>2. CASE q # <<>>
      <4>1. Len(q) \in Nat \ {0} /\ Len(p) \in Nat
        BY <1>0, <3>2, EmptySeq
      <4>2. \A i \in 1 .. Len(q) + Len(p) : (q \o p)[i] = IF i <= Len(q) THEN q[i] ELSE p[i - Len(q)]
        BY <1>0, ConcatProperties
      <4>3. (q \o p)[1] = q[1]
        BY <4>1, <4>2
      <4> QED
        BY <1>3, <3>2, <4>3
    <3> QED
      BY <3>1, <3>2
  <2>3. f \in Seq(Nat) /\ r \o c \in Seq(Nat) /\ tail \in Seq(Nat) /\ es \in Seq(Entry)
        /\ q \o p \in Seq(Entry)
    BY <1>0, <1>1
  <2> DEFINE u == r \o c
             v == q \o p
  <2>4. Torn(f, u, es, v, tail)
    <3> HIDE DEF u, v
    <3>1. f \in Seq(Nat) /\ u \in Seq(Nat) /\ tail \in Seq(Nat) /\ es \in Seq(Entry)
          /\ v \in Seq(Entry) /\ tail \o u = EncodeAll(v)
          /\ (v = <<>> \/ Len(tail) < Len(Encode(v[1])))
      BY <2>1, <2>2, <2>3 DEF u, v
    <3> QED
      BY <1>3, <3>1, Zenon DEF Torn
  <2> QED
    BY <2>4 DEF c
<1> QED
  BY <1>2, <1>3 DEF Torn, b, c

\* When nothing is left, all records are whole.
LEMMA TornEnd ==
    ASSUME NEW f, NEW es, NEW q, NEW tail, Torn(f, <<>>, es, q, tail)
    PROVE  q = <<>>
<1> DEFINE b == EncodeAll(q)
<1>0. f \in Seq(Nat) /\ tail \in Seq(Nat) /\ q \in Seq(Entry) /\ b \in Seq(Nat)
      /\ Header \in Seq(Nat) /\ Len(Header) = 2 /\ f \o <<>> = f /\ tail \o <<>> = tail
  BY EncodeAllFacts, ConcatEmptySeq DEF Torn, Header
<1>1. CASE Len(f) < 2 /\ f \o <<>> = Header \o b
  <2>1. Len(Header \o b) = 2 + Len(b) /\ Len(b) \in Nat
    BY <1>0, CellsConcat
  <2> QED
    BY <1>0, <1>1, <2>1
<1>2. CASE tail \o <<>> = b /\ (q = <<>> \/ Len(tail) < Len(Encode(q[1])))
  <2> SUFFICES ASSUME q # <<>> PROVE FALSE
    OBVIOUS
  <2> DEFINE d == Encode(q[1])
             z == EncodeAll(Tail(q))
  <2>1. q[1] \in Entry /\ b = d \o z /\ z \in Seq(Nat)
    BY <1>0, FirstRecord, EncodeAllFacts
  <2>2. d \in Seq(Nat)
    BY <2>1, EncodeCells
  <2>3. Len(tail) < Len(d) /\ tail = b
    BY <1>0, <1>2
  <2> HIDE DEF d, z, b
  <2>4. Len(b) = Len(d) + Len(z) /\ Len(d) \in Nat /\ Len(z) \in Nat
    BY <2>1, <2>2, ConcatProperties
  <2> QED
    BY <2>3, <2>4
<1> QED
  BY <1>1, <1>2 DEF Torn

\* One cell of what is left goes to the file.
LEMMA TornStep ==
    ASSUME NEW f, NEW r, NEW es, NEW q, NEW tail, Torn(f, r, es, q, tail), r # <<>>
    PROVE  \/ \E new : Torn(Append(f, Head(r)), Tail(r), es, q, new)
           \/ /\ q # <<>> /\ Len(f) >= 2
              /\ \E new : Torn(Append(f, Head(r)), Tail(r), Append(es, q[1]), Tail(q), new)
<1> DEFINE b == EncodeAll(q)
           x == r[1]
           s == Tail(r)
           g == f \o <<x>>
<1>0. f \in Seq(Nat) /\ r \in Seq(Nat) /\ tail \in Seq(Nat) /\ es \in Seq(Entry)
      /\ q \in Seq(Entry) /\ b \in Seq(Nat) /\ Header \in Seq(Nat) /\ Len(Header) = 2
      /\ Len(f) \in Nat /\ Len(tail) \in Nat
  <2>1. f \in Seq(Nat) /\ r \in Seq(Nat) /\ tail \in Seq(Nat) /\ es \in Seq(Entry)
        /\ q \in Seq(Entry)
    BY DEF Torn
  <2>2. b \in Seq(Nat)
    BY <2>1, EncodeAllFacts
  <2>3. Len(f) \in Nat /\ Len(tail) \in Nat
    BY <2>1
  <2> QED
    BY <2>1, <2>2, <2>3, HeaderCells
<1>1. x \in Nat /\ s \in Seq(Nat) /\ r = <<x>> \o s /\ Head(r) = x /\ <<x>> \in Seq(Nat)
      /\ Len(<<x>>) = 1
  BY <1>0, FirstAndRest
<1>2. Append(f, Head(r)) = g /\ g \in Seq(Nat) /\ Len(g) = Len(f) + 1
  BY <1>0, <1>1, AppendIsConcat, ConcatProperties
<1>3. g \o s = f \o r
  <2>0. f \in Seq(Nat) /\ <<x>> \in Seq(Nat) /\ s \in Seq(Nat)
    BY <1>0, <1>1
  <2>1. (f \o <<x>>) \o s = f \o (<<x>> \o s)
    BY ONLY <2>0, CellsAssociative, Zenon
  <2> QED
    BY <1>1, <2>1
<1> HIDE DEF x, s, g
<1>4. ASSUME Len(f) < 2, es = <<>>, tail = <<>>, f \o r = Header \o b
      PROVE  \E new : Torn(g, s, es, q, new)
  <2>1. CASE Len(g) < 2
    <3>1. Torn(g, s, es, q, <<>>)
      BY <1>0, <1>1, <1>2, <1>3, <1>4, <2>1 DEF Torn
    <3> QED
      BY <3>1
  <2>2. CASE ~(Len(g) < 2)
    <3>1. Len(g) = Len(Header) /\ Len(g) <= Len(Header)
      BY <1>0, <1>2, <1>4, <2>2
    <3>2. g = Header /\ s = b
      <4>1. g \o s = Header \o b
        BY <1>3, <1>4
      <4> QED
        <5>1. g \in Seq(Nat) /\ s \in Seq(Nat) /\ Header \in Seq(Nat) /\ b \in Seq(Nat)
          BY <1>0, <1>1, <1>2
        <5> QED
          BY ONLY <3>1, <4>1, <5>1, CellsParts, Zenon
    <3>3. EncodeAll(es) = <<>> /\ (Header \o <<>>) \o <<>> = Header /\ <<>> \o b = b
          /\ <<>> \in Seq(Nat) /\ Len(<<>>) = 0
      <4>1. EncodeAll(es) = <<>>
        BY <1>4, EncodeAllNone
      <4>2. Header \o <<>> = Header /\ <<>> \o b = b
        BY <1>0, CellsConcat
      <4> QED
        BY <4>1, <4>2
    <3>4. q = <<>> \/ 0 < Len(Encode(q[1]))
      <4> SUFFICES ASSUME q # <<>> PROVE 0 < Len(Encode(q[1]))
        OBVIOUS
      <4>1. q[1] \in Entry
        BY <1>0, FirstRecord
      <4> QED
        BY <4>1, EncodeCells
    <3>5. Torn(g, s, es, q, <<>>)
      BY <1>0, <1>1, <1>2, <3>2, <3>3, <3>4 DEF Torn
    <3> QED
      BY <3>5
  <2> QED
    BY <2>1, <2>2
<1>5. ASSUME f = (Header \o EncodeAll(es)) \o tail, tail \o r = b,
             q = <<>> \/ Len(tail) < Len(Encode(q[1]))
      PROVE  \/ \E new : Torn(g, s, es, q, new)
             \/ /\ q # <<>> /\ Len(f) >= 2
                /\ \E new : Torn(g, s, Append(es, q[1]), Tail(q), new)
  <2> DEFINE new == tail \o <<x>>
             d == Encode(q[1])
             z == EncodeAll(Tail(q))
             a == Header \o EncodeAll(es)
  <2>1. new \in Seq(Nat) /\ Len(new) = Len(tail) + 1 /\ new \o s = b
    <3>0. tail \in Seq(Nat) /\ <<x>> \in Seq(Nat) /\ s \in Seq(Nat)
      BY <1>0, <1>1
    <3>1. (tail \o <<x>>) \o s = tail \o (<<x>> \o s)
      BY ONLY <3>0, CellsAssociative, Zenon
    <3>2. new \in Seq(Nat) /\ Len(new) = Len(tail) + 1
      BY <1>0, <1>1, CellsConcat
    <3> QED
      BY <1>1, <1>5, <3>1, <3>2
  <2>2. q # <<>>
    <3> SUFFICES ASSUME q = <<>> PROVE FALSE
      OBVIOUS
    <3>1. b = <<>> /\ Len(b) = 0
      BY DEF EncodeAll, FlattenSeq
    <3>2. Len(new \o s) = Len(new) + Len(s) /\ Len(s) \in Nat
      BY <1>1, <2>1, ConcatProperties
    <3> QED
      BY <1>0, <2>1, <3>1, <3>2
  <2>3. q[1] \in Entry /\ Tail(q) \in Seq(Entry) /\ b = d \o z /\ z \in Seq(Nat)
        /\ d \in Seq(Nat) /\ Len(d) \in Nat /\ Len(tail) < Len(d)
    <3>1. q[1] \in Entry /\ Tail(q) \in Seq(Entry) /\ b = d \o z
      BY <1>0, <2>2, FirstRecord
    <3>2. z \in Seq(Nat) /\ d \in Seq(Nat)
      BY <3>1, EncodeAllFacts, EncodeCells
    <3> QED
      BY <1>5, <2>2, <3>1, <3>2
  <2>4. a \in Seq(Nat) /\ g = a \o new
    <3>1. EncodeAll(es) \in Seq(Nat)
      BY <1>0, EncodeAllFacts
    <3>2. a \in Seq(Nat)
      BY <1>0, <3>1, ConcatProperties
    <3> QED
      <4> HIDE DEF a
      <4>0. a \in Seq(Nat) /\ tail \in Seq(Nat) /\ <<x>> \in Seq(Nat)
        BY <1>0, <1>1, <3>2
      <4>1. (a \o tail) \o <<x>> = a \o (tail \o <<x>>)
        BY ONLY <4>0, CellsAssociative, Zenon
      <4> QED
        BY <1>5, <3>2, <4>1 DEF g, a
  <2>5. Len(f) >= 2
    <3>1. HasHeader(f) <=> Len(f) >= 2
      BY TornRead
    <3>2. EncodeAll(es) \in Seq(Nat)
      BY <1>0, EncodeAllFacts
    <3>3. Len(a) = 2 + Len(EncodeAll(es)) /\ Len(EncodeAll(es)) \in Nat
      BY <1>0, <3>2, CellsConcat
    <3>4. Len(f) = Len(a) + Len(tail)
      BY <1>0, <1>5, <2>4, CellsConcat
    <3> QED
      BY <1>0, <3>3, <3>4
  <2>6. CASE Len(new) < Len(d)
    <3>1. Torn(g, s, es, q, new)
      BY <1>0, <1>1, <1>2, <2>1, <2>4, <2>6 DEF Torn
    <3> QED
      BY <3>1
  <2>7. CASE ~(Len(new) < Len(d))
    <3>0. Len(tail) \in Nat
      BY <1>0
    <3> HIDE DEF new, d, z, a, b
    <3>1. Len(new) = Len(d) /\ Len(new) <= Len(d)
      BY ONLY <2>1, <2>3, <2>7, <3>0
    <3>2. new = d /\ s = z
      <4>1. new \o s = d \o z
        BY <2>1, <2>3
      <4> QED
        <5>1. new \in Seq(Nat) /\ s \in Seq(Nat) /\ d \in Seq(Nat) /\ z \in Seq(Nat)
          BY ONLY <1>1, <2>1, <2>3
        <5>2. SameUpTo(new, d, Len(new)) /\ (Len(new) = Len(d) => new = d /\ s = z)
          BY ONLY <3>1, <4>1, <5>1, CellsParts, Zenon
        <5> QED
          BY <3>1, <5>2
    <3> DEFINE more == Append(es, q[1])
    <3>3. more \in Seq(Entry) /\ EncodeAll(more) = EncodeAll(es) \o d
      <4>1. more = es \o <<q[1]>> /\ <<q[1]>> \in Seq(Entry) /\ more \in Seq(Entry)
        <5>1. es \in Seq(Entry) /\ q[1] \in Entry
          BY <1>0, <2>3
        <5> QED
          BY ONLY <5>1, AppendIsConcat
      <4>2. EncodeAll(<<q[1]>>) = d
        BY <2>3, EncodeAllOne DEF d
      <4> QED
        BY <1>0, <4>1, <4>2, EncodeAllConcat
    <3>4. g = (Header \o EncodeAll(more)) \o <<>>
      <4>1. EncodeAll(es) \in Seq(Nat)
        BY <1>0, EncodeAllFacts
      <4>2. a \o d = Header \o (EncodeAll(es) \o d)
        <5>1. (Header \o EncodeAll(es)) \o d = Header \o (EncodeAll(es) \o d)
          <6>1. Header \in Seq(Nat) /\ EncodeAll(es) \in Seq(Nat) /\ d \in Seq(Nat)
            BY <1>0, <2>3, <4>1
          <6> QED
            BY ONLY <6>1, CellsAssociative, Zenon
        <5> QED
          BY <5>1 DEF a
      <4>3. g = Header \o EncodeAll(more)
        BY <2>4, <3>2, <3>3, <4>2
      <4> QED
        BY <1>2, <4>3, ConcatEmptySeq
    <3>5. <<>> \o s = EncodeAll(Tail(q))
      BY <1>1, <3>2, ConcatEmptySeq DEF z
    <3>6. Tail(q) = <<>> \/ Len(<<>>) < Len(Encode(Tail(q)[1]))
      <4> SUFFICES ASSUME Tail(q) # <<>> PROVE Len(<<>>) < Len(Encode(Tail(q)[1]))
        OBVIOUS
      <4>1. Tail(q)[1] \in Entry
        BY <2>3, FirstRecord
      <4> QED
        BY <4>1, EncodeCells
    <3> HIDE DEF more
    <3>7. <<>> \in Seq(Nat)
      OBVIOUS
    <3>8. Torn(g, s, more, Tail(q), <<>>)
      BY <1>1, <1>2, <2>3, <3>3, <3>4, <3>5, <3>6, <3>7 DEF Torn
    <3> QED
      BY <2>2, <2>5, <3>8 DEF more
  <2> QED
    BY <2>6, <2>7
<1> QED
  BY <1>2, <1>4, <1>5 DEF Torn, s, b

-----------------------------------------------------------------------------
(* The invariant.                                                          *)

\* The records that were logged are the whole ones in the file, the ones the
\* writer has been handed, and the late ones.  After a crash the buffer and the
\* queue are gone, and nobody adds to the file any more.
Stream(r, es, q, tail, late) ==
    /\ Torn(file, r, es, q, tail)
    /\ late \in Seq(Entry)
    /\ logged = (es \o q) \o late
    /\ at # "dead" => r = buf /\ late = queue

StreamInv == \E r, es, q, tail, late : Stream(r, es, q, tail, late)

\* What the writer is doing, and what that says of the queue and the buffer.
WriterInv ==
    /\ at \in {"open", "sync", "drop", "closed", "dead"}
    /\ surfaced \in BOOLEAN
    /\ at # "open" => queue = <<>>
    /\ wal = "PerOp" => queue = <<>>
    /\ at \in {"drop", "closed"} /\ ~surfaced => buf = <<>>

FileInv == StreamInv /\ WriterInv /\ acked \in Nat /\ AckedIsRead /\ CopyReadsSame

\* Entries put together.
LEMMA EntriesConcat ==
    ASSUME NEW a \in Seq(Entry), NEW b \in Seq(Entry)
    PROVE  /\ a \o b \in Seq(Entry) /\ Len(a \o b) = Len(a) + Len(b)
           /\ Len(a) \in Nat /\ Len(b) \in Nat
           /\ a \o <<>> = a /\ <<>> \o a = a
BY ConcatProperties, ConcatEmptySeq

\* The order in which entries are put together does not matter.
LEMMA EntriesAssociative ==
    ASSUME NEW a \in Seq(Entry), NEW b \in Seq(Entry), NEW c \in Seq(Entry)
    PROVE  (a \o b) \o c = a \o (b \o c)
BY ConcatAssociative

\* Entries behind others leave these where they are.
LEMMA EntriesBefore ==
    ASSUME NEW a \in Seq(Entry), NEW b \in Seq(Entry)
    PROVE  Len(a \o b) = Len(a) + Len(b) /\ Len(b) \in Nat /\ SameUpTo(a, a \o b, Len(a))
<1>1. /\ Len(a \o b) = Len(a) + Len(b) /\ Len(a) \in Nat /\ Len(b) \in Nat
      /\ \A i \in 1 .. Len(a) + Len(b) :
            (a \o b)[i] = IF i <= Len(a) THEN a[i] ELSE b[i - Len(a)]
  BY ConcatProperties
<1>2. \A i \in 1 .. Len(a) : i \in 1 .. Len(a) + Len(b) /\ i <= Len(a)
  BY <1>1
<1> QED
  BY <1>1, <1>2 DEF SameUpTo

\* What the parts of a stream are.
LEMMA StreamParts ==
    ASSUME NEW r, NEW es, NEW q, NEW tail, NEW late, Stream(r, es, q, tail, late)
    PROVE  /\ es \in Seq(Entry) /\ q \in Seq(Entry) /\ late \in Seq(Entry)
           /\ r \in Seq(Nat) /\ file \in Seq(Nat)
           /\ Entries(file) = es /\ (HasHeader(file) <=> Len(file) >= 2)
           /\ logged \in Seq(Entry)
<1>1. /\ es \in Seq(Entry) /\ q \in Seq(Entry) /\ late \in Seq(Entry)
      /\ r \in Seq(Nat) /\ file \in Seq(Nat) /\ logged = (es \o q) \o late
  BY DEF Stream, Torn
<1>2. Entries(file) = es /\ (HasHeader(file) <=> Len(file) >= 2)
  BY TornRead DEF Stream
<1>3. es \o q \in Seq(Entry)
  BY <1>1, EntriesConcat
<1>4. (es \o q) \o late \in Seq(Entry)
  BY <1>1, <1>3, EntriesConcat
<1> QED
  BY <1>1, <1>2, <1>4

\* The file has no header and the writer has it in the buffer.
LEMMA StreamInit == Init => StreamInv
<1> SUFFICES ASSUME Init PROVE StreamInv
  OBVIOUS
<1>1. /\ Header \in Seq(Nat) /\ <<>> \o Header = Header /\ Header \o <<>> = Header
      /\ EncodeAll(<<>>) = <<>> /\ <<>> \in Seq(Nat) /\ <<>> \in Seq(Entry) /\ Len(<<>>) < 2
  BY HeaderCells, CellsConcat, EncodeAllNone
<1>2. Torn(<<>>, Header, <<>>, <<>>, <<>>)
  BY <1>1 DEF Torn
<1>3. <<>> = (<<>> \o <<>>) \o <<>>
  BY <1>1, EntriesConcat
<1>4. Stream(Header, <<>>, <<>>, <<>>, <<>>)
  BY <1>1, <1>2, <1>3 DEF Init, Stream
<1> QED
  BY <1>4 DEF StreamInv

\* A record that is logged goes behind the others, in the buffer or the queue.
LEMMA StreamLog ==
    ASSUME StreamInv, WriterInv, NEW e \in Entry, LogMutation(e)
    PROVE  StreamInv'
<1>1. PICK r, es, q, tail, late : Stream(r, es, q, tail, late)
  BY DEF StreamInv
<1>2. /\ es \in Seq(Entry) /\ q \in Seq(Entry) /\ late \in Seq(Entry)
      /\ r = buf /\ late = queue /\ logged = (es \o q) \o late /\ file' = file
      /\ Torn(file, r, es, q, tail) /\ logged' = Append(logged, e) /\ logged \in Seq(Entry)
  BY <1>1, StreamParts DEF Stream, LogMutation
<1>3. <<e>> \in Seq(Entry) /\ logged' = logged \o <<e>> /\ EncodeAll(<<e>>) = Encode(e)
  BY <1>2, AppendIsConcat, EncodeAllOne
<1>4. CASE wal = "PerOp"
  <2>1. late = <<>> /\ buf' = buf \o Encode(e) /\ queue' = queue
    BY <1>2, <1>4 DEF WriterInv, LogMutation
  <2>2. Torn(file, r \o EncodeAll(<<e>>), es, q \o <<e>>, tail)
    BY <1>2, <1>3, TornMore
  <2>3. logged' = (es \o (q \o <<e>>)) \o <<>>
    <3>1. es \o q \in Seq(Entry) /\ q \o <<e>> \in Seq(Entry)
      BY <1>2, <1>3, EntriesConcat
    <3>2. (es \o q) \o <<>> = es \o q
      BY <3>1, EntriesConcat
    <3>3. (es \o q) \o <<e>> = es \o (q \o <<e>>)
      <4>1. es \in Seq(Entry) /\ q \in Seq(Entry) /\ <<e>> \in Seq(Entry)
        BY <1>2, <1>3
      <4> QED
        BY ONLY <4>1, EntriesAssociative, Zenon
    <3>4. es \o (q \o <<e>>) \in Seq(Entry)
      BY <1>2, <3>1, EntriesConcat
    <3>5. (es \o (q \o <<e>>)) \o <<>> = es \o (q \o <<e>>)
      BY <3>4, EntriesConcat
    <3> QED
      BY <1>2, <1>3, <2>1, <3>2, <3>3, <3>5
  <2>4. Stream(r \o EncodeAll(<<e>>), es, q \o <<e>>, tail, <<>>)'
    <3>1. <<>> \in Seq(Entry)
      OBVIOUS
    <3> QED
      BY <1>2, <1>3, <2>1, <2>2, <2>3, <3>1 DEF Stream
  <2> QED
    BY <2>4 DEF StreamInv
<1>5. CASE wal # "PerOp"
  <2>1. buf' = buf /\ queue' = Append(queue, e) /\ at' = at
    BY <1>5 DEF LogMutation
  <2>2. queue' = late \o <<e>> /\ queue' \in Seq(Entry)
    BY <1>2, <1>3, <2>1, AppendIsConcat
  <2>3. logged' = (es \o q) \o queue'
    <3>1. es \o q \in Seq(Entry)
      BY <1>2, EntriesConcat
    <3>2. ((es \o q) \o late) \o <<e>> = (es \o q) \o (late \o <<e>>)
      BY <1>2, <1>3, <3>1, EntriesAssociative
    <3> QED
      BY <1>2, <1>3, <2>2, <3>2
  <2>4. Stream(r, es, q, tail, late \o <<e>>)'
    BY <1>2, <2>1, <2>2, <2>3 DEF Stream
  <2> QED
    BY <2>4 DEF StreamInv
<1> QED
  BY <1>4, <1>5

\* The queue goes to the writer.
LEMMA StreamFlush ==
    ASSUME StreamInv, NEW c, FlushAndSync(c)
    PROVE  StreamInv'
<1>1. PICK r, es, q, tail, late : Stream(r, es, q, tail, late)
  BY DEF StreamInv
<1>2. /\ es \in Seq(Entry) /\ q \in Seq(Entry) /\ late \in Seq(Entry)
      /\ r = buf /\ late = queue /\ logged = (es \o q) \o late /\ file' = file
      /\ Torn(file, r, es, q, tail) /\ logged' = logged
      /\ buf' = buf \o EncodeAll(queue) /\ queue' = <<>>
  BY <1>1, StreamParts DEF Stream, FlushAndSync
<1>3. Torn(file, r \o EncodeAll(late), es, q \o late, tail)
  BY <1>2, TornMore
<1>4. logged' = (es \o (q \o late)) \o <<>>
  <2>1. (es \o q) \o late = es \o (q \o late)
    BY <1>2, EntriesAssociative
  <2>2. q \o late \in Seq(Entry)
    BY <1>2, EntriesConcat
  <2>3. es \o (q \o late) \in Seq(Entry)
    BY <1>2, <2>2, EntriesConcat
  <2>4. (es \o (q \o late)) \o <<>> = es \o (q \o late)
    BY <2>3, EntriesConcat
  <2> QED
    BY <1>2, <2>1, <2>4
<1>5. Stream(r \o EncodeAll(late), es, q \o late, tail, <<>>)'
  <2>1. <<>> \in Seq(Entry)
    OBVIOUS
  <2> QED
    BY <1>2, <1>3, <1>4, <2>1 DEF Stream
<1> QED
  BY <1>5 DEF StreamInv

\* A cell that is written is one of the header, one of the record the file ends
\* in, or the last of it: then the reader sees one record more, the next one that
\* was logged.
LEMMA StreamWrite ==
    ASSUME StreamInv, WriterInv, WriteCell
    PROVE  /\ StreamInv'
           /\ \/ Entries(file') = Entries(file) /\ (HasHeader(file) => HasHeader(file'))
              \/ /\ HasHeader(file) /\ HasHeader(file')
                 /\ Len(Entries(file)) \in Nat /\ Len(logged) \in Nat
                 /\ Len(Entries(file)) < Len(logged)
                 /\ Entries(file') = Append(Entries(file), logged[Len(Entries(file)) + 1])
<1>1. PICK r, es, q, tail, late : Stream(r, es, q, tail, late)
  BY DEF StreamInv
<1>2. /\ es \in Seq(Entry) /\ q \in Seq(Entry) /\ late \in Seq(Entry) /\ r \in Seq(Nat)
      /\ r = buf /\ late = queue /\ logged = (es \o q) \o late /\ file \in Seq(Nat)
      /\ Torn(file, r, es, q, tail) /\ logged' = logged /\ at' = at /\ queue' = queue
      /\ file' = Append(file, Head(r)) /\ buf' = Tail(r) /\ r # <<>>
      /\ Entries(file) = es /\ (HasHeader(file) <=> Len(file) >= 2)
  BY <1>1, StreamParts DEF Stream, WriteCell
<1>3. Len(file) \in Nat /\ Len(file') = Len(file) + 1
  <2>1. Head(r) \in Nat
    BY <1>2, FirstAndRest
  <2> QED
    BY <1>2, <2>1, AppendProperties
<1>4. CASE \E new : Torn(file', Tail(r), es, q, new)
  <2>1. PICK new : Torn(file', Tail(r), es, q, new)
    BY <1>4
  <2>2. Stream(Tail(r), es, q, new, late)'
    BY <1>2, <2>1 DEF Stream
  <2>3. Entries(file') = es /\ (HasHeader(file') <=> Len(file') >= 2)
    BY <2>1, TornRead
  <2> QED
    BY <1>2, <1>3, <2>2, <2>3 DEF StreamInv
<1>5. CASE /\ q # <<>> /\ Len(file) >= 2
           /\ \E new : Torn(file', Tail(r), Append(es, q[1]), Tail(q), new)
  <2>1. PICK new : Torn(file', Tail(r), Append(es, q[1]), Tail(q), new)
    BY <1>5
  <2> DEFINE x == q[1]
             o == Tail(q)
  <2>2. x \in Entry /\ <<x>> \in Seq(Entry) /\ o \in Seq(Entry) /\ q = <<x>> \o o
    BY <1>2, <1>5, FirstRecord
  <2>3. Append(es, x) = es \o <<x>> /\ es \o <<x>> \in Seq(Entry)
    BY <1>2, <2>2, AppendIsConcat, EntriesConcat
  <2> HIDE DEF x, o
  <2>4. es \o q = Append(es, x) \o o
    <3>1. es \in Seq(Entry) /\ <<x>> \in Seq(Entry) /\ o \in Seq(Entry)
      BY <1>2, <2>2
    <3>2. (es \o <<x>>) \o o = es \o (<<x>> \o o)
      BY ONLY <3>1, EntriesAssociative, Zenon
    <3> QED
      BY <2>2, <2>3, <3>2
  <2>5. Stream(Tail(r), Append(es, x), o, new, late)'
    BY <1>2, <2>1, <2>4 DEF Stream, x, o
  <2>6. Entries(file') = Append(es, x) /\ (HasHeader(file') <=> Len(file') >= 2)
    BY <2>1, TornRead DEF x
  <2>7. Len(es) \in Nat /\ Len(logged) \in Nat /\ Len(es) < Len(logged)
        /\ logged[Len(es) + 1] = x
    <3> DEFINE more == o \o late
               a == Append(es, x)
    <3>1. a \in Seq(Entry) /\ Len(a) = Len(es) + 1 /\ a[Len(es) + 1] = x /\ Len(es) \in Nat
      BY <1>2, <2>2, AppendProperties
    <3>2. more \in Seq(Entry)
      BY <1>2, <2>2, EntriesConcat
    <3> HIDE DEF a, more
    <3>3. logged = a \o more
      <4>1. a \in Seq(Entry) /\ o \in Seq(Entry) /\ late \in Seq(Entry)
        BY <1>2, <2>2, <3>1
      <4>2. (a \o o) \o late = a \o (o \o late)
        BY ONLY <4>1, EntriesAssociative, Zenon
      <4> QED
        BY <1>2, <2>4, <4>2 DEF a, more
    <3>4. /\ Len(a \o more) = Len(a) + Len(more) /\ Len(more) \in Nat
          /\ SameUpTo(a, a \o more, Len(a))
      BY ONLY <3>1, <3>2, EntriesBefore
    <3>5. Len(es) + 1 \in 1 .. Len(a)
      BY <3>1
    <3> QED
      BY <3>1, <3>3, <3>4, <3>5 DEF SameUpTo
  <2> QED
    BY <1>2, <1>3, <1>5, <2>5, <2>6, <2>7 DEF StreamInv
<1> QED
  BY <1>2, <1>4, <1>5, TornStep

\* When buffer and queue are empty, the reader reads all that was logged.
LEMMA StreamAll ==
    ASSUME StreamInv, at # "dead", buf = <<>>, queue = <<>>
    PROVE  Entries(file) = logged /\ logged \in Seq(Entry)
<1>1. PICK r, es, q, tail, late : Stream(r, es, q, tail, late)
  BY DEF StreamInv
<1>2. /\ es \in Seq(Entry) /\ r = <<>> /\ late = <<>> /\ logged = (es \o q) \o late
      /\ Torn(file, r, es, q, tail) /\ Entries(file) = es /\ logged \in Seq(Entry)
  BY <1>1, StreamParts DEF Stream
<1>3. q = <<>>
  BY <1>2, TornEnd
<1>4. (es \o <<>>) \o <<>> = es
  BY <1>2, EntriesConcat
<1> QED
  BY <1>2, <1>3, <1>4

\* The other steps leave the file and what was logged, and the buffer and the
\* queue too unless the process dies.
LEMMA StreamKept ==
    ASSUME StreamInv, UNCHANGED <<file, logged>>,
           at' # "dead" => at # "dead" /\ UNCHANGED <<buf, queue>>
    PROVE  StreamInv'
<1>1. PICK r, es, q, tail, late : Stream(r, es, q, tail, late)
  BY DEF StreamInv
<1>2. Stream(r, es, q, tail, late)'
  BY <1>1 DEF Stream
<1> QED
  BY <1>2 DEF StreamInv

\* The copy of entries is read as these entries.
LEMMA CopyReads ==
    ASSUME NEW es \in Seq(Entry)
    PROVE  Entries(Compacted(es)) = es
<1> DEFINE end == <<EofMarker, 0>>
<1>1. end \in Seq(Nat) /\ Stops(end)
  BY DEF Stops, EofMarker
<1>2. Header \in Seq(Nat) /\ EncodeAll(es) \in Seq(Nat)
  BY HeaderCells, EncodeAllFacts
<1> HIDE DEF end
<1>3. Entries((Header \o EncodeAll(es)) \o end) = es
  BY <1>1, ReadBack
<1>4. Compacted(es) = (Header \o EncodeAll(es)) \o end
  BY DEF Compacted, end
<1> QED
  BY <1>3, <1>4

\* Where the writer is after a step.
LEMMA WriterStep ==
    ASSUME WriterInv, [Next]_vars
    PROVE  WriterInv'
<1>0. /\ at \in {"open", "sync", "drop", "closed", "dead"} /\ surfaced \in BOOLEAN
      /\ at # "open" => queue = <<>>
      /\ wal = "PerOp" => queue = <<>>
      /\ at \in {"drop", "closed"} /\ ~surfaced => buf = <<>>
  BY DEF WriterInv
<1>1. ASSUME NEW e \in Entry, LogMutation(e) PROVE WriterInv'
  <2>1. CASE wal = "PerOp"
    BY <1>0, <1>1, <2>1 DEF WriterInv, LogMutation
  <2>2. CASE wal # "PerOp"
    BY <1>0, <1>1, <2>2 DEF WriterInv, LogMutation
  <2> QED
    BY <2>1, <2>2
<1>2. ASSUME NEW c \in {"flush", "shutdown"}, FlushAndSync(c) PROVE WriterInv'
  BY <1>0, <1>2 DEF WriterInv, FlushAndSync
<1>3. CASE WriteCell
  BY <1>0, <1>3 DEF WriterInv, WriteCell
<1>4. CASE SyncReturns
  BY <1>0, <1>4 DEF WriterInv, SyncReturns, Resume
<1>5. CASE WriteFails
  <2>1. at = "sync" /\ queue' = queue /\ wal' = wal
    BY <1>5 DEF WriteFails
  <2>2. surfaced' \in BOOLEAN
    BY <1>5 DEF WriteFails
  <2>3. CASE call = "shutdown"
    <3>1. at' = "drop" /\ surfaced'
      BY <1>5, <2>3 DEF WriteFails, Resume, Reports
    <3> QED
      BY <1>0, <2>1, <2>2, <3>1 DEF WriterInv
  <2>4. CASE call # "shutdown"
    <3>1. at' = "open"
      BY <1>5, <2>4 DEF WriteFails, Resume
    <3> QED
      BY <1>0, <2>1, <2>2, <3>1 DEF WriterInv
  <2> QED
    BY <2>3, <2>4
<1>6. CASE DropDone
  BY <1>0, <1>6 DEF WriterInv, DropDone
<1>7. CASE Crash
  BY <1>0, <1>7 DEF WriterInv, Crash
<1>8. CASE CompactSegment
  BY <1>0, <1>8 DEF WriterInv, CompactSegment
<1>9. CASE UNCHANGED vars
  BY <1>0, <1>9 DEF WriterInv, vars
<1> QED
  BY <1>1, <1>2, <1>3, <1>4, <1>5, <1>6, <1>7, <1>8, <1>9 DEF Next

\* The stream after a step.
LEMMA StreamStep ==
    ASSUME StreamInv, WriterInv, [Next]_vars
    PROVE  StreamInv'
<1>1. ASSUME NEW e \in Entry, LogMutation(e) PROVE StreamInv'
  BY <1>1, StreamLog
<1>2. ASSUME NEW c \in {"flush", "shutdown"}, FlushAndSync(c) PROVE StreamInv'
  BY <1>2, StreamFlush
<1>3. CASE WriteCell
  BY <1>3, StreamWrite
<1>4. CASE SyncReturns
  BY <1>4, StreamKept DEF SyncReturns, Resume
<1>5. CASE WriteFails
  BY <1>5, StreamKept DEF WriteFails, AfterError, Resume
<1>6. CASE DropDone
  BY <1>6, StreamKept DEF DropDone
<1>7. CASE Crash
  BY <1>7, StreamKept DEF Crash
<1>8. CASE CompactSegment
  BY <1>8, StreamKept DEF CompactSegment
<1>9. CASE UNCHANGED vars
  BY <1>9, StreamKept DEF vars
<1> QED
  BY <1>1, <1>2, <1>3, <1>4, <1>5, <1>6, <1>7, <1>8, <1>9 DEF Next

\* What the reader reads, after any step: the same, or one record more.
LEMMA ReadStep ==
    ASSUME StreamInv, WriterInv, [Next]_vars
    PROVE  /\ Entries(file) \in Seq(Entry) /\ logged \in Seq(Entry)
           /\ file' = file \/ WriteCell
<1>1. PICK r, es, q, tail, late : Stream(r, es, q, tail, late)
  BY DEF StreamInv
<1>2. Entries(file) \in Seq(Entry) /\ logged \in Seq(Entry)
  BY <1>1, StreamParts
<1>3. file' = file \/ WriteCell
  BY DEF Next, LogMutation, FlushAndSync, SyncReturns, WriteFails, DropDone, Crash,
         CompactSegment, vars
<1> QED
  BY <1>2, <1>3

\* The invariant.
LEMMA FileInvHolds == Spec => []FileInv
<1>1. Init => FileInv
  <2> SUFFICES ASSUME Init PROVE FileInv
    OBVIOUS
  <2>1. StreamInv
    BY StreamInit
  <2>2. WriterInv
    BY DEF Init, WriterInv
  <2>3. Entries(<<>>) = <<>> /\ Len(<<>>) = 0
    BY DEF Entries, HasHeader, Header
  <2> QED
    BY <2>1, <2>2, <2>3 DEF FileInv, Init, AckedIsRead, CopyReadsSame
<1>2. FileInv /\ [Next]_vars => FileInv'
  <2> SUFFICES ASSUME FileInv, [Next]_vars PROVE FileInv'
    OBVIOUS
  <2>0. StreamInv /\ WriterInv /\ acked \in Nat
        /\ acked <= Len(Entries(file)) /\ Entries(copy) = source
    BY DEF FileInv, AckedIsRead, CopyReadsSame
  <2>1. StreamInv' /\ WriterInv'
    BY <2>0, StreamStep, WriterStep
  <2>2. Entries(file) \in Seq(Entry) /\ logged \in Seq(Entry) /\ (file' = file \/ WriteCell)
    BY <2>0, ReadStep
  <2>3. acked' \in Nat /\ acked' <= Len(Entries(file'))
    <3>1. CASE WriteCell
      <4>1. acked' = acked
        BY <3>1 DEF WriteCell
      <4>2. \/ Entries(file') = Entries(file)
            \/ \E e : Entries(file') = Append(Entries(file), e)
        BY <2>0, <3>1, StreamWrite
      <4>3. Len(Entries(file)) <= Len(Entries(file')) /\ Len(Entries(file)) \in Nat
            /\ Len(Entries(file')) \in Nat
        BY <2>2, <4>2
      <4> QED
        BY <2>0, <4>1, <4>3
    <3>2. CASE SyncReturns
      <4>1. at = "sync" /\ buf = <<>> /\ acked' = Len(logged) /\ file' = file
        BY <3>2 DEF SyncReturns
      <4>2. queue = <<>>
        BY <2>0, <4>1 DEF WriterInv
      <4>3. Entries(file) = logged
        BY <2>0, <4>1, <4>2, StreamAll
      <4>4. Len(logged) \in Nat
        BY <2>2
      <4> QED
        BY <4>1, <4>3, <4>4
    <3>3. CASE ~WriteCell /\ ~SyncReturns
      <4>1. acked' = acked
        BY <3>3 DEF Next, LogMutation, FlushAndSync, WriteFails, DropDone, Crash,
                    CompactSegment, vars
      <4> QED
        BY <2>0, <2>2, <3>3, <4>1
    <3> QED
      BY <3>1, <3>2, <3>3
  <2>4. Entries(copy') = source'
    <3>1. CASE CompactSegment
      <4>1. source' = Entries(file) /\ copy' = Compacted(Entries(file))
        BY <3>1 DEF CompactSegment
      <4> QED
        BY <2>2, <4>1, CopyReads
    <3>2. CASE ~CompactSegment
      <4>1. copy' = copy /\ source' = source
        BY <3>2 DEF Next, LogMutation, FlushAndSync, WriteCell, SyncReturns, WriteFails,
                    DropDone, Crash, vars
      <4> QED
        BY <2>0, <4>1
    <3> QED
      BY <3>1, <3>2
  <2> QED
    BY <2>1, <2>3, <2>4 DEF FileInv, AckedIsRead, CopyReadsSame
<1> QED
  BY <1>1, <1>2, PTL DEF Spec

-----------------------------------------------------------------------------
(* What is proved.                                                         *)

\* A record that a sync covered which returned without an error is read back for
\* ever, whatever write fails later and wherever the process dies.
THEOREM AckedAlwaysRead == Spec => []AckedIsRead
<1>1. FileInv => AckedIsRead
  BY DEF FileInv
<1> QED
  BY <1>1, FileInvHolds, PTL

\* The errors that log_wal_entry ignores are not lost: a log that was shut down
\* and reported nothing holds every record.
THEOREM ErrorsAlwaysSurface == Spec => []ErrorsSurface
<1>1. FileInv => ErrorsSurface
  <2> SUFFICES ASSUME FileInv, at = "closed", ~surfaced PROVE Entries(file) = logged
    BY DEF ErrorsSurface
  <2>1. StreamInv /\ at # "dead" /\ buf = <<>> /\ queue = <<>>
    BY DEF FileInv, WriterInv
  <2> QED
    BY <2>1, StreamAll
<1> QED
  BY <1>1, FileInvHolds, PTL

\* A copy that compact_segment has made gives a reader what its source gave.
THEOREM CopiesReadSame == Spec => []CopyReadsSame
<1>1. FileInv => CopyReadsSame
  BY DEF FileInv
<1> QED
  BY <1>1, FileInvHolds, PTL

\* Read as the tolerant reader reads it, the file gets its header and then whole
\* records, in the order they were logged, and loses none: it is the file that
\* SegmentStore is about.
THEOREM FileImplementsLog == Spec => ImplementsLogFile
<1>1. Init => Whole!Init
  <2>1. Entries(<<>>) = <<>> /\ ~HasHeader(<<>>)
    BY DEF Entries, HasHeader, Header
  <2>2. HasHeader(<<>>) = FALSE
    BY <2>1 DEF HasHeader
  <2> QED
    BY <2>1, <2>2 DEF Init, Whole!Init
<1>2. FileInv /\ [Next]_vars => [Whole!Next]_Whole!vars
  <2> SUFFICES ASSUME FileInv, [Next]_vars PROVE [Whole!Next]_Whole!vars
    OBVIOUS
  <2>0. StreamInv /\ WriterInv
    BY DEF FileInv
  <2>1. file' = file \/ WriteCell
    BY <2>0, ReadStep
  <2>2. CASE WriteCell
    <3>1. logged' = logged
      BY <2>2 DEF WriteCell
    <3>b. HasHeader(file) \in BOOLEAN /\ HasHeader(file') \in BOOLEAN
      BY DEF HasHeader
    <3>2. CASE Entries(file') = Entries(file) /\ (HasHeader(file) => HasHeader(file'))
      <4>1. CASE HasHeader(file) \/ ~HasHeader(file')
        <5>1. HasHeader(file') = HasHeader(file)
          <6>1. CASE HasHeader(file) /\ HasHeader(file')
            BY <3>b, <6>1, Zenon
          <6>2. CASE ~HasHeader(file) /\ ~HasHeader(file')
            BY <3>b, <6>2, Zenon
          <6> QED
            BY <3>2, <4>1, <6>1, <6>2, Zenon
        <5> QED
          BY <3>1, <3>2, <5>1 DEF Whole!vars
      <4>2. CASE ~HasHeader(file) /\ HasHeader(file')
        <5>1. HasHeader(file') = TRUE
          BY <3>b, <4>2, Zenon
        <5>2. Whole!WriteHeader
          BY <3>1, <3>2, <4>2, <5>1 DEF Whole!WriteHeader
        <5> QED
          BY <5>2 DEF Whole!Next
      <4> QED
        BY <4>1, <4>2
    <3>3. CASE /\ HasHeader(file) /\ HasHeader(file')
               /\ Len(Entries(file)) < Len(logged)
               /\ Entries(file') = Append(Entries(file), logged[Len(Entries(file)) + 1])
      <4>1. HasHeader(file') = HasHeader(file)
        BY <3>b, <3>3, Zenon
      <4>2. Whole!WriteRecord
        BY <3>1, <3>3, <4>1 DEF Whole!WriteRecord
      <4> QED
        BY <4>2 DEF Whole!Next
    <3> QED
      BY <2>0, <2>2, <3>2, <3>3, StreamWrite
  <2>3. CASE file' = file
    <3>1. HasHeader(file') = HasHeader(file) /\ Entries(file') = Entries(file)
      BY <2>3
    <3>2. ASSUME NEW e \in Entry, LogMutation(e) PROVE [Whole!Next]_Whole!vars
      <4>1. Whole!Log(e)
        BY <3>1, <3>2 DEF LogMutation, Whole!Log
      <4> QED
        BY <4>1 DEF Whole!Next
    <3>3. CASE \A e \in Entry : ~LogMutation(e)
      <4>1. logged' = logged
        BY <3>3 DEF Next, FlushAndSync, WriteCell, SyncReturns, WriteFails, DropDone, Crash,
                    CompactSegment, vars
      <4> QED
        BY <3>1, <4>1 DEF Whole!vars
    <3> QED
      BY <3>2, <3>3
  <2> QED
    BY <2>1, <2>2, <2>3
<1> QED
  BY <1>1, <1>2, FileInvHolds, PTL DEF Spec, ImplementsLogFile, Whole!Spec
=============================================================================
