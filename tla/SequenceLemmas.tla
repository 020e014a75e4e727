---------------------------- MODULE SequenceLemmas ----------------------------
(***************************************************************************)
(* Facts about natural numbers and sequences that the proofs of several    *)
(* components rest on: induction, as a fact about sets of numbers, and     *)
(* what FlattenSeq gives, which the models use for whatever the code       *)
(* writes one after the other into a buffer.                               *)
(***************************************************************************)
EXTENDS Integers, Sequences, SequencesExt, SequenceTheorems, WellFoundedInduction, TLAPS

\* The order of the natural numbers, as a relation.
NatLess == {p \in Nat \X Nat : p[1] < p[2]}

\* A set of natural numbers with 0 and every successor holds them all.
LEMMA NatInduct ==
    ASSUME NEW T \in SUBSET Nat, 0 \in T, \A n \in T : n + 1 \in T
    PROVE  Nat \subseteq T
<1> SUFFICES ASSUME Nat \ T # {} PROVE FALSE
  OBVIOUS
<1>1. OpToRel(<, Nat) = NatLess
  BY Zenon DEF OpToRel, NatLess
<1>2. IsWellFoundedOn(NatLess, Nat)
  BY <1>1, NatLessThanWellFounded, Zenon
<1>3. PICK n \in Nat \ T : \A m \in Nat \ T : ~(<<m, n>> \in NatLess)
  BY <1>2, WFMin
<1>4. n # 0 /\ n - 1 \in Nat /\ (n - 1) + 1 = n /\ n - 1 < n
  OBVIOUS
<1>5. <<n - 1, n>> \in NatLess
  BY <1>4 DEF NatLess
<1> QED
  BY <1>3, <1>4, <1>5

\* The order in which sequences are put together does not matter.
LEMMA Associative ==
    ASSUME NEW S
    PROVE  \A a, b, c \in Seq(S) : (a \o b) \o c = a \o (b \o c)
BY ConcatAssociative

\* Numbers with a bound have a largest one.
LEMMA HasLargest ==
    ASSUME NEW S \in SUBSET Nat, NEW b \in Nat, \A n \in S : n <= b, S # {}
    PROVE  \E m \in S : \A n \in S : n <= m
<1> DEFINE Good(R) == R # {} => \E m \in R : \A n \in R : n <= m
           T == {c \in Nat : \A R \in SUBSET Nat : (\A n \in R : n <= c) => Good(R)}
<1>1. 0 \in T
  <2> SUFFICES ASSUME NEW R \in SUBSET Nat, \A n \in R : n <= 0, R # {}
               PROVE  \E m \in R : \A n \in R : n <= m
    OBVIOUS
  <2>1. \A n \in R : n = 0
    OBVIOUS
  <2> QED
    BY <2>1
<1>2. ASSUME NEW c \in T PROVE c + 1 \in T
  <2> SUFFICES ASSUME NEW R \in SUBSET Nat, \A n \in R : n <= c + 1 PROVE Good(R)
    OBVIOUS
  <2>1. CASE c + 1 \in R
    BY <2>1
  <2>2. CASE c + 1 \notin R
    <3>1. \A n \in R : n <= c
      BY <2>2
    <3> QED
      BY <3>1
  <2> QED
    BY <2>1, <2>2
<1>3. T \in SUBSET Nat
  OBVIOUS
<1> HIDE DEF T
<1>4. b \in T
  BY <1>1, <1>2, <1>3, NatInduct
<1> QED
  BY <1>4 DEF T

\* f is what FlattenSeq computes for the first n of the sequences s.
Flattens(f, s, n) == f = [i \in 1 .. n |-> IF i = 1 THEN s[i] ELSE f[i - 1] \o s[i]]

\* FlattenSeq's recursion defines a function.
LEMMA FlattenExists ==
    ASSUME NEW s, NEW n \in Nat
    PROVE  \E f : Flattens(f, s, n)
<1> DEFINE T == {k \in Nat : \E f : Flattens(f, s, k)}
<1>1. 0 \in T
  <2>1. Flattens([i \in 1 .. 0 |-> 0], s, 0)
    BY DEF Flattens
  <2> QED
    BY <2>1
<1>2. ASSUME NEW k \in T PROVE k + 1 \in T
  <2>1. PICK f : Flattens(f, s, k)
    OBVIOUS
  <2> DEFINE last == IF k + 1 = 1 THEN s[k + 1] ELSE f[k] \o s[k + 1]
             g == [i \in 1 .. k + 1 |-> IF i = k + 1 THEN last ELSE f[i]]
  <2>2. \A i \in 1 .. k : f[i] = IF i = 1 THEN s[i] ELSE f[i - 1] \o s[i]
    BY <2>1 DEF Flattens
  <2>3. ASSUME NEW i \in 1 .. k + 1
        PROVE  g[i] = IF i = 1 THEN s[i] ELSE g[i - 1] \o s[i]
    BY <2>2
  <2>4. Flattens(g, s, k + 1)
    BY <2>3 DEF Flattens
  <2> QED
    BY <2>4
<1>3. T \in SUBSET Nat
  OBVIOUS
<1> HIDE DEF T
<1>4. Nat \subseteq T
  BY <1>1, <1>2, <1>3, NatInduct
<1> QED
  BY <1>4 DEF T

\* The value of FlattenSeq, by its recursion.
LEMMA FlattenValue ==
    ASSUME NEW s, Len(s) \in Nat, Len(s) # 0
    PROVE  \E f : Flattens(f, s, Len(s)) /\ FlattenSeq(s) = f[Len(s)]
<1> DEFINE F[i \in 1 .. Len(s)] == IF i = 1 THEN s[i] ELSE F[i - 1] \o s[i]
<1>1. \E f : Flattens(f, s, Len(s))
  BY FlattenExists
<1>2. Flattens(F, s, Len(s))
  BY <1>1 DEF Flattens
<1>3. FlattenSeq(s) = F[Len(s)]
  BY DEF FlattenSeq
<1> QED
  BY <1>2, <1>3

\* The first n elements are the same.
SameUpTo(f, g, n) == \A i \in 1 .. n : f[i] = g[i]

\* Two functions that FlattenSeq's recursion defines agree where both are defined.
LEMMA FlattenAgree ==
    ASSUME NEW s, NEW t, NEW n \in Nat, NEW m \in Nat, n <= m, NEW f, NEW g,
           Flattens(f, s, n), Flattens(g, t, m), SameUpTo(s, t, n)
    PROVE  SameUpTo(f, g, n)
<1> DEFINE T == {k \in Nat : k + 1 \in 1 .. n => f[k + 1] = g[k + 1]}
<1>s. \A i \in 1 .. n : s[i] = t[i]
  BY DEF SameUpTo
<1>0. /\ \A i \in 1 .. n : f[i] = IF i = 1 THEN s[i] ELSE f[i - 1] \o s[i]
      /\ \A i \in 1 .. n : g[i] = IF i = 1 THEN t[i] ELSE g[i - 1] \o t[i]
  <2>1. \A i \in 1 .. m : g[i] = IF i = 1 THEN t[i] ELSE g[i - 1] \o t[i]
    BY DEF Flattens
  <2>2. \A i \in 1 .. n : i \in 1 .. m
    OBVIOUS
  <2>3. \A i \in 1 .. n : f[i] = IF i = 1 THEN s[i] ELSE f[i - 1] \o s[i]
    BY DEF Flattens
  <2> QED
    BY <2>1, <2>2, <2>3
<1>1. 0 \in T
  BY <1>0, <1>s
<1>2. ASSUME NEW k \in T PROVE k + 1 \in T
  <2> SUFFICES ASSUME k + 2 \in 1 .. n PROVE f[k + 2] = g[k + 2]
    OBVIOUS
  <2>1. k \in Nat /\ k + 1 \in 1 .. n /\ k + 2 # 1 /\ (k + 2) - 1 = k + 1
    OBVIOUS
  <2>2. f[k + 1] = g[k + 1]
    BY <2>1
  <2>3. f[k + 2] = f[k + 1] \o s[k + 2] /\ g[k + 2] = g[k + 1] \o t[k + 2]
    BY <1>0, <2>1
  <2> QED
    BY <1>s, <2>2, <2>3
<1>3. T \in SUBSET Nat
  OBVIOUS
<1> HIDE DEF T
<1>4. Nat \subseteq T
  BY <1>1, <1>2, <1>3, NatInduct
<1>5. ASSUME NEW i \in 1 .. n PROVE f[i] = g[i]
  <2>1. i - 1 \in T /\ (i - 1) + 1 = i
    BY <1>4
  <2> QED
    BY <2>1 DEF T
<1> QED
  BY <1>5 DEF SameUpTo

\* A sequence that is not empty is the others and its last element.
LEMMA LastOff ==
    ASSUME NEW S, NEW n \in Nat, NEW t \in Seq(S), Len(t) = n + 1
    PROVE  \E r \in Seq(S), x \in S : t = Append(r, x) /\ Len(r) = n
<1> DEFINE r == SubSeq(t, 1, n)
           x == t[n + 1]
<1>1. r \in Seq(S) /\ Len(r) = n /\ x \in S /\ \A i \in 1 .. n : r[i] = t[i]
  OBVIOUS
<1> HIDE DEF r
<1>2. Append(r, x) \in Seq(S) /\ Len(Append(r, x)) = n + 1
      /\ (\A i \in 1 .. n : Append(r, x)[i] = r[i]) /\ Append(r, x)[n + 1] = x
  BY <1>1, AppendProperties
<1>3. \A i \in 1 .. n + 1 : t[i] = Append(r, x)[i]
  BY <1>1, <1>2
<1>4. t = Append(r, x)
  BY <1>2, <1>3, SeqEqual
<1> QED
  BY <1>1, <1>4

\* One sequence more goes to the end.
LEMMA FlattenAppend ==
    ASSUME NEW S, NEW s \in Seq(Seq(S)), NEW x \in Seq(S)
    PROVE  FlattenSeq(Append(s, x)) = FlattenSeq(s) \o x
<1> DEFINE t == Append(s, x)
           n == Len(s)
<1>1. n \in Nat /\ Len(t) = n + 1 /\ t[n + 1] = x /\ \A i \in 1 .. n : t[i] = s[i]
  OBVIOUS
<1>n. Len(s) = n
  OBVIOUS
<1> HIDE DEF t, n
<1>2. PICK g : Flattens(g, t, n + 1) /\ FlattenSeq(t) = g[n + 1]
  BY <1>1, FlattenValue
<1>3. \A i \in 1 .. n + 1 : g[i] = IF i = 1 THEN t[i] ELSE g[i - 1] \o t[i]
  BY <1>2 DEF Flattens
<1>4. CASE n = 0
  <2>1. s = <<>> /\ FlattenSeq(s) = <<>>
    BY <1>4, <1>n DEF FlattenSeq
  <2>2. g[1] = x
    BY <1>1, <1>3, <1>4
  <2>3. <<>> \o x = x
    BY ConcatEmptySeq
  <2> QED
    BY <1>2, <1>4, <2>1, <2>2, <2>3 DEF t
<1>5. CASE n # 0
  <2>1. PICK f : Flattens(f, s, n) /\ FlattenSeq(s) = f[n]
    BY <1>1, <1>5, <1>n, FlattenValue
  <2>2. n <= n + 1 /\ n + 1 \in Nat /\ n \in 1 .. n /\ \A i \in 1 .. n : s[i] = t[i]
    BY <1>1, <1>5
  <2>3. f[n] = g[n]
    <3>1. SameUpTo(f, g, n)
      <4> DEFINE m == n + 1
      <4>1. n \in Nat /\ m \in Nat /\ n <= m
        BY <1>1
      <4>2. Flattens(f, s, n) /\ Flattens(g, t, m)
        BY <1>2, <2>1
      <4>3. SameUpTo(s, t, n)
        BY <2>2 DEF SameUpTo
      <4> HIDE DEF m
      <4> QED
        BY <4>1, <4>2, <4>3, FlattenAgree
    <3> QED
      BY <2>2, <3>1 DEF SameUpTo
  <2>4. g[n + 1] = g[n] \o x
    <3>1. n + 1 \in 1 .. n + 1 /\ n + 1 # 1 /\ (n + 1) - 1 = n
      BY <1>1, <1>5
    <3> QED
      BY <1>1, <1>3, <3>1
  <2> QED
    BY <1>2, <2>1, <2>3, <2>4 DEF t
<1> QED
  BY <1>4, <1>5

\* Where two concatenations are equal, so are their parts.
LEMMA ConcatParts ==
    ASSUME NEW S, NEW a \in Seq(S), NEW b \in Seq(S), NEW c \in Seq(S), NEW d \in Seq(S),
           a \o b = c \o d, Len(a) <= Len(c)
    PROVE  SameUpTo(a, c, Len(a)) /\ (Len(a) = Len(c) => a = c /\ b = d)
<1> DEFINE l == Len(a)
           m == Len(b)
           n == Len(c)
           o == Len(d)
           u == a \o b
           v == c \o d
<1>1. l \in Nat /\ m \in Nat /\ n \in Nat /\ o \in Nat /\ l <= n /\ u = v
      /\ Len(a) = l /\ Len(b) = m /\ Len(c) = n /\ Len(d) = o
  OBVIOUS
<1>2. Len(u) = l + m /\ \A i \in 1 .. l + m : u[i] = IF i <= l THEN a[i] ELSE b[i - l]
  BY ConcatProperties
<1>3. Len(v) = n + o /\ \A i \in 1 .. n + o : v[i] = IF i <= n THEN c[i] ELSE d[i - n]
  BY ConcatProperties
<1> HIDE DEF l, m, n, o, u, v
<1>4. l + m = n + o
  BY <1>1, <1>2, <1>3
<1>5. ASSUME NEW i \in 1 .. l PROVE a[i] = c[i]
  <2>1. i \in 1 .. l + m /\ i \in 1 .. n + o /\ i <= l /\ i <= n
    BY <1>1
  <2> QED
    BY <1>1, <1>2, <1>3, <2>1
<1>6. ASSUME l = n PROVE a = c /\ b = d
  <2>1. m = o
    BY <1>1, <1>4, <1>6
  <2>2. ASSUME NEW i \in 1 .. m PROVE b[i] = d[i]
    <3>1. l + i \in 1 .. l + m /\ l + i \in 1 .. n + o /\ ~(l + i <= l) /\ ~(l + i <= n)
          /\ (l + i) - l = i /\ (l + i) - n = i
      BY <1>1, <1>4, <1>6
    <3>2. u[l + i] = b[(l + i) - l] /\ v[l + i] = d[(l + i) - n]
      BY <1>2, <1>3, <3>1
    <3> QED
      BY <1>1, <3>1, <3>2
  <2> QED
    BY <1>1, <1>5, <1>6, <2>1, <2>2, SeqEqual
<1> QED
  BY <1>5, <1>6 DEF l, n, SameUpTo

\* A sequence that is not empty is its first element and the others.
LEMMA FirstAndRest ==
    ASSUME NEW S, NEW s \in Seq(S), s # <<>>
    PROVE  s[1] \in S /\ Tail(s) \in Seq(S) /\ s = <<s[1]>> \o Tail(s)
           /\ Len(Tail(s)) = Len(s) - 1
<1>1. Len(s) \in Nat /\ Len(s) # 0
  BY EmptySeq
<1>2. 1 \in 1 .. Len(s) /\ Len(s) \in 1 .. Len(s)
  BY <1>1
<1>3. SubSeq(s, 1, Len(s)) = <<s[1]>> \o SubSeq(s, 1 + 1, Len(s))
  BY <1>2, SubSeqRecursiveFirst
<1>4. SubSeq(s, 1, Len(s)) = s
  BY SubSeqFull
<1>5. SubSeq(s, 2, Len(s)) = Tail(s)
  BY <1>1
<1>6. s[1] \in S
  BY <1>2
<1>7. Tail(s) \in Seq(S) /\ Len(Tail(s)) = Len(s) - 1
  BY HeadTailProperties
<1> QED
  BY <1>3, <1>4, <1>5, <1>6, <1>7

\* A place in a part is a place in the whole.
LEMMA PlaceWithin ==
    ASSUME NEW from \in Nat, NEW len \in Nat, NEW all \in Nat, from + len <= all,
           NEW j \in 1 .. len
    PROVE  from + j \in 1 .. all
OBVIOUS

\* ends[i] is where the i-th of the sequences s ends in the flat one.
Cells(s, flat, ends) ==
    /\ ends \in [0 .. Len(s) -> Nat] /\ ends[0] = 0 /\ ends[Len(s)] = Len(flat)
    /\ \A i \in 1 .. Len(s) :
          /\ ends[i] = ends[i - 1] + Len(s[i]) /\ ends[i] <= Len(flat)
          /\ \A j \in 1 .. Len(s[i]) : flat[ends[i - 1] + j] = s[i][j]
    /\ \A p \in 1 .. Len(flat) : \E i \in 1 .. Len(s) : ends[i - 1] < p /\ p <= ends[i]

\* Where the cells of a flat sequence come from.
LEMMA FlattenCells ==
    ASSUME NEW S, NEW s \in Seq(Seq(S))
    PROVE  /\ FlattenSeq(s) \in Seq(S)
           /\ \E ends : Cells(s, FlattenSeq(s), ends)
<1> DEFINE Good(t) == FlattenSeq(t) \in Seq(S) /\ \E ends : Cells(t, FlattenSeq(t), ends)
           T == {n \in Nat : \A t \in Seq(Seq(S)) : Len(t) = n => Good(t)}
<1>1. 0 \in T
  <2> SUFFICES ASSUME NEW t \in Seq(Seq(S)), Len(t) = 0 PROVE Good(t)
    OBVIOUS
  <2>1. t = <<>> /\ FlattenSeq(t) = <<>> /\ Len(<<>>) = 0 /\ <<>> \in Seq(S)
    BY DEF FlattenSeq
  <2> DEFINE ends == [i \in 0 .. 0 |-> 0]
  <2>2. ends \in [0 .. 0 -> Nat] /\ ends[0] = 0
    OBVIOUS
  <2> HIDE DEF ends
  <2>3. Cells(<<>>, <<>>, ends)
    BY <2>1, <2>2 DEF Cells
  <2> QED
    BY <2>1, <2>3
<1>2. ASSUME NEW n \in T PROVE n + 1 \in T
  <2> SUFFICES ASSUME NEW t \in Seq(Seq(S)), Len(t) = n + 1 PROVE Good(t)
    OBVIOUS
  <2>1. n \in Nat /\ \A r \in Seq(Seq(S)) : Len(r) = n => Good(r)
    OBVIOUS
  <2> HIDE DEF T
  <2>3. PICK r \in Seq(Seq(S)), x \in Seq(S) : t = Append(r, x) /\ Len(r) = n
    BY <2>1, LastOff
  <2>2. \A i \in 1 .. n : r[i] = t[i]
    BY <2>1, <2>3
  <2>x. t[n + 1] = x
    BY <2>1, <2>3
  <2>4. Good(r)
    BY <2>1, <2>3
  <2> DEFINE a == FlattenSeq(r)
             b == FlattenSeq(t)
  <2>5. a \in Seq(S) /\ b = a \o x
    BY <2>2, <2>3, <2>4, FlattenAppend
  <2>6. PICK e : Cells(r, a, e)
    BY <2>4
  <2>l. Len(r) = n
    BY <2>3
  <2> HIDE DEF a, b
  <2>7. b \in Seq(S) /\ Len(b) = Len(a) + Len(x) /\ Len(a) \in Nat /\ Len(x) \in Nat
        /\ \A i \in 1 .. Len(a) + Len(x) : b[i] = IF i <= Len(a) THEN a[i] ELSE x[i - Len(a)]
    BY <2>2, <2>5, ConcatProperties
  <2> DEFINE ends == [i \in 0 .. n + 1 |-> IF i = n + 1 THEN Len(b) ELSE e[i]]
  <2>8. /\ e \in [0 .. n -> Nat] /\ e[0] = 0 /\ e[n] = Len(a)
        /\ \A i \in 1 .. n :
              /\ e[i] = e[i - 1] + Len(r[i]) /\ e[i] <= Len(a)
              /\ \A j \in 1 .. Len(r[i]) : a[e[i - 1] + j] = r[i][j]
        /\ \A p \in 1 .. Len(a) : \E i \in 1 .. n : e[i - 1] < p /\ p <= e[i]
    BY <2>6, <2>l DEF Cells
  <2>9. /\ ends \in [0 .. n + 1 -> Nat] /\ ends[n + 1] = Len(b)
        /\ \A i \in 0 .. n : ends[i] = e[i]
    BY <2>1, <2>7, <2>8
  <2> HIDE DEF ends
  <2>10. ends[0] = 0
    BY <2>1, <2>8, <2>9
  <2>11. ASSUME NEW i \in 1 .. n + 1
         PROVE  /\ ends[i] = ends[i - 1] + Len(t[i]) /\ ends[i] <= Len(b)
                /\ \A j \in 1 .. Len(t[i]) : b[ends[i - 1] + j] = t[i][j]
    <3>1. CASE i = n + 1
      <4>1. ends[i - 1] = Len(a) /\ ends[i] = Len(b) /\ t[i] = x
        BY <2>1, <2>8, <2>9, <2>x, <3>1
      <4>2. ASSUME NEW j \in 1 .. Len(x) PROVE b[Len(a) + j] = x[j]
        <5>1. Len(a) + j \in 1 .. Len(a) + Len(x) /\ ~(Len(a) + j <= Len(a))
              /\ (Len(a) + j) - Len(a) = j
          BY <2>7
        <5> QED
          BY <2>7, <5>1
      <4>3. ends[i] = ends[i - 1] + Len(t[i]) /\ ends[i] <= Len(b)
        BY <2>7, <4>1
      <4>4. \A j \in 1 .. Len(t[i]) : b[ends[i - 1] + j] = t[i][j]
        BY <4>1, <4>2
      <4> QED
        BY <4>3, <4>4
    <3>2. CASE i # n + 1
      <4>1. i \in 1 .. n /\ ends[i] = e[i] /\ ends[i - 1] = e[i - 1] /\ t[i] = r[i]
        <5>1. i \in 1 .. n /\ i \in 0 .. n /\ i - 1 \in 0 .. n
          BY <2>1, <3>2
        <5> QED
          BY <2>2, <2>9, <5>1
      <4>2. e[i] \in Nat /\ e[i - 1] \in Nat /\ r[i] \in Seq(S)
        <5>1. i \in 0 .. n /\ i - 1 \in 0 .. n /\ i \in 1 .. Len(r)
          BY <2>1, <2>3, <4>1
        <5>2. r[i] \in Seq(S)
          BY <2>3, <5>1, ElementOfSeq
        <5> QED
          BY <2>8, <5>1, <5>2
      <4>3. e[i] = e[i - 1] + Len(r[i]) /\ e[i] <= Len(a)
            /\ \A j \in 1 .. Len(r[i]) : a[e[i - 1] + j] = r[i][j]
        BY <2>8, <4>1
      <4>4. ASSUME NEW j \in 1 .. Len(r[i]) PROVE e[i - 1] + j \in 1 .. Len(a)
        <5> DEFINE from == e[i - 1]
                   len == Len(r[i])
                   all == Len(a)
        <5>1. from \in Nat /\ len \in Nat /\ all \in Nat /\ from + len <= all
              /\ j \in 1 .. len
          BY <2>7, <4>2, <4>3
        <5> HIDE DEF from, len, all
        <5>2. from + j \in 1 .. all
          BY ONLY <5>1, PlaceWithin
        <5> QED
          BY <5>2 DEF from, all
      <4>5. \A q \in 1 .. Len(a) : b[q] = a[q]
        BY <2>7
      <4>6. e[i] <= Len(b)
        BY <2>7, <4>2, <4>3
      <4> QED
        BY <4>1, <4>3, <4>4, <4>5, <4>6
    <3> QED
      BY <3>1, <3>2
  <2>12. ASSUME NEW p \in 1 .. Len(b)
         PROVE  \E i \in 1 .. n + 1 : ends[i - 1] < p /\ p <= ends[i]
    <3>1. CASE p <= Len(a)
      <4>1. PICK i \in 1 .. n : e[i - 1] < p /\ p <= e[i]
        BY <2>7, <2>8, <3>1
      <4>2. i \in 1 .. n + 1 /\ i \in 0 .. n /\ i - 1 \in 0 .. n
        BY <2>1
      <4>3. ends[i - 1] < p /\ p <= ends[i]
        BY <2>9, <4>1, <4>2
      <4> QED
        BY <4>2, <4>3
    <3>2. CASE ~(p <= Len(a))
      <4>1. ends[(n + 1) - 1] = Len(a) /\ ends[n + 1] = Len(b) /\ n + 1 \in 1 .. n + 1
        BY <2>1, <2>8, <2>9
      <4>2. Len(a) < p /\ p <= Len(b)
        BY <2>7, <3>2
      <4> QED
        BY <4>1, <4>2
    <3> QED
      BY <3>1, <3>2
  <2>13. Cells(t, b, ends)
    BY <2>1, <2>9, <2>10, <2>11, <2>12 DEF Cells
  <2> QED
    BY <2>7, <2>13 DEF b
<1>3. T \in SUBSET Nat
  OBVIOUS
<1> HIDE DEF T
<1>4. Nat \subseteq T
  BY <1>1, <1>2, <1>3, NatInduct
<1>5. Len(s) \in T
  BY <1>4
<1> QED
  BY <1>5 DEF T

\* FlattenSeq of two sequences, one after the other.
LEMMA FlattenConcat ==
    ASSUME NEW S
    PROVE  \A s, t \in Seq(Seq(S)) : FlattenSeq(s \o t) = FlattenSeq(s) \o FlattenSeq(t)
<1>a. \A a, b, c \in Seq(S) : (a \o b) \o c = a \o (b \o c)
  BY Associative
<1> DEFINE R == Seq(S)
<1> HIDE DEF R
<1>b. \A a, b, c \in Seq(R) : (a \o b) \o c = a \o (b \o c)
  BY Associative
<1> TAKE s, t \in Seq(Seq(S))
<1> DEFINE Good(r) == FlattenSeq(s \o r) = FlattenSeq(s) \o FlattenSeq(r)
           T == {n \in Nat : \A r \in Seq(Seq(S)) : Len(r) = n => Good(r)}
<1>0. \A r \in Seq(Seq(S)) : FlattenSeq(r) \in Seq(S)
  BY FlattenCells
<1>1. 0 \in T
  <2> SUFFICES ASSUME NEW r \in Seq(Seq(S)), Len(r) = 0 PROVE Good(r)
    OBVIOUS
  <2>1. r = <<>> /\ FlattenSeq(<<>>) = <<>>
    BY DEF FlattenSeq
  <2>2. s \o <<>> = s /\ FlattenSeq(s) \o <<>> = FlattenSeq(s)
    BY <1>0, ConcatEmptySeq
  <2> QED
    BY <2>1, <2>2
<1>2. ASSUME NEW n \in T PROVE n + 1 \in T
  <2> SUFFICES ASSUME NEW r \in Seq(Seq(S)), Len(r) = n + 1 PROVE Good(r)
    OBVIOUS
  <2>1. n \in Nat /\ \A q \in Seq(Seq(S)) : Len(q) = n => Good(q)
    OBVIOUS
  <2> HIDE DEF T
  <2>2. PICK q \in Seq(Seq(S)), x \in Seq(S) : r = Append(q, x) /\ Len(q) = n
    BY <2>1, LastOff
  <2>3. FlattenSeq(s \o q) = FlattenSeq(s) \o FlattenSeq(q)
    BY <2>1, <2>2
  <2>4. s \o r = Append(s \o q, x) /\ s \o q \in Seq(Seq(S))
    <3>1. Append(q, x) = q \o <<x>> /\ Append(s \o q, x) = (s \o q) \o <<x>>
          /\ s \o q \in Seq(Seq(S)) /\ <<x>> \in Seq(Seq(S))
      BY AppendIsConcat
    <3>2. s \in Seq(R) /\ q \in Seq(R) /\ <<x>> \in Seq(R)
      BY <3>1 DEF R
    <3>3. (s \o q) \o <<x>> = s \o (q \o <<x>>)
      BY ONLY <1>b, <3>2, Zenon
    <3> QED
      BY <2>2, <3>1, <3>3
  <2>5. FlattenSeq(s \o r) = FlattenSeq(s \o q) \o x
    BY <2>4, FlattenAppend
  <2>6. FlattenSeq(r) = FlattenSeq(q) \o x
    BY <2>2, FlattenAppend
  <2>7. FlattenSeq(s) \in Seq(S) /\ FlattenSeq(q) \in Seq(S) /\ x \in Seq(S)
    BY <1>0
  <2>8. (FlattenSeq(s) \o FlattenSeq(q)) \o x = FlattenSeq(s) \o (FlattenSeq(q) \o x)
    BY ONLY <1>a, <2>7, Zenon
  <2> QED
    BY <2>3, <2>5, <2>6, <2>8
<1>3. T \in SUBSET Nat
  OBVIOUS
<1> HIDE DEF T
<1>4. Nat \subseteq T
  BY <1>1, <1>2, <1>3, NatInduct
<1>5. Len(t) \in T
  BY <1>4
<1> QED
  BY <1>5 DEF T

===============================================================================
