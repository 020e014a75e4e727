-------------------------- MODULE AttributesProofs --------------------------
(***************************************************************************)
(* What a mounted SliceFS answers, for any names, owners, times, sizes,    *)
(* handles, attributes and workloads.                                      *)
(*                                                                         *)
(*  - The types, and the logical size of the store: it is kept by          *)
(*    differences and is the sum of the sizes at every moment.  The sum is *)
(*    a recursion over a set, so what it does when an inode comes, goes or *)
(*    changes is proved first, by induction on the size of the set.        *)
(*  - getattr answers what was asked for last, and as the time that or the *)
(*    last commit of bytes, whichever came later.                          *)
(*  - The encoded list of xattrs behaves as a map: what deserialize_xattrs *)
(*    reads is what serialize_xattrs wrote, whatever the bytes.            *)
(*  - A listing in several calls misses and repeats no more than entries   *)
(*    were removed and added while it was read.                            *)
(***************************************************************************)
EXTENDS Attributes, FiniteSetTheorems, SequenceTheorems, SequenceLemmas, TLAPS

-----------------------------------------------------------------------------
(* The sum of the sizes.                                                   *)

\* The element that MapThenSumSet takes next.
First(s) == CHOOSE x \in s : TRUE

\* f is what MapThenSumSet computes for the subsets of S with at most n elements.
Sums(f, is, S, n) ==
    \A s \in SUBSET S : IsFiniteSet(s) /\ Cardinality(s) <= n =>
        f[s] = IF s = {} THEN 0 ELSE is[First(s)].size + f[s \ {First(s)}]

\* f is what MapThenSumSet computes for all subsets of S.
SumsAll(f, is, S) ==
    f = [s \in SUBSET S |-> IF s = {} THEN 0 ELSE is[First(s)].size + f[s \ {First(s)}]]

\* The recursion of MapThenSumSet defines a function.
LEMMA SumsExist ==
    ASSUME NEW is, NEW S, IsFiniteSet(S)
    PROVE  \E f : SumsAll(f, is, S)
<1> DEFINE T == {n \in Nat : \E f : f = [s \in SUBSET S |-> f[s]] /\ Sums(f, is, S, n)}
<1>1. 0 \in T
  <2> DEFINE f == [s \in SUBSET S |-> 0]
  <2>1. f = [s \in SUBSET S |-> f[s]] /\ Sums(f, is, S, 0)
    BY FS_EmptySet, FS_CardinalityType DEF Sums
  <2> QED
    BY <2>1
<1>2. ASSUME NEW n \in T PROVE n + 1 \in T
  <2>1. PICK f : f = [s \in SUBSET S |-> f[s]] /\ Sums(f, is, S, n)
    OBVIOUS
  <2> DEFINE g == [s \in SUBSET S |-> IF s = {} THEN 0
                                      ELSE is[First(s)].size + f[s \ {First(s)}]]
  <2>2. \A s \in SUBSET S : IsFiniteSet(s) /\ Cardinality(s) <= n => g[s] = f[s]
    BY <2>1 DEF Sums
  <2>3. ASSUME NEW s \in SUBSET S, IsFiniteSet(s), Cardinality(s) <= n + 1
        PROVE  g[s] = IF s = {} THEN 0 ELSE is[First(s)].size + g[s \ {First(s)}]
    <3>1. CASE s = {}
      BY <3>1
    <3>2. CASE s # {}
      <4>1. First(s) \in s
        BY <3>2 DEF First
      <4>2. IsFiniteSet(s \ {First(s)}) /\ Cardinality(s \ {First(s)}) <= n
        <5>1. /\ IsFiniteSet(s \ {First(s)})
              /\ Cardinality(s \ {First(s)}) = Cardinality(s) - 1
          BY <2>3, <4>1, FS_RemoveElement
        <5>2. n \in Nat /\ Cardinality(s) \in Nat
          BY <2>3, FS_CardinalityType
        <5> QED
          BY <2>3, <5>1, <5>2
      <4>3. g[s \ {First(s)}] = f[s \ {First(s)}]
        BY <2>2, <4>2
      <4>4. g[s] = is[First(s)].size + f[s \ {First(s)}]
        BY <3>2
      <4> HIDE DEF g
      <4> QED
        BY <3>2, <4>3, <4>4
    <3> QED
      BY <3>1, <3>2
  <2>4. g = [s \in SUBSET S |-> g[s]] 
    OBVIOUS
  <2> HIDE DEF g
  <2>5. Sums(g, is, S, n + 1)
    BY <2>3 DEF Sums
  <2> QED
    BY <2>4, <2>5
<1>3. T \in SUBSET Nat
  OBVIOUS
<1> HIDE DEF T
<1>4. Cardinality(S) \in T
  BY <1>1, <1>2, <1>3, NatInduct, FS_CardinalityType
<1>5. PICK f : f = [s \in SUBSET S |-> f[s]] /\ Sums(f, is, S, Cardinality(S))
  BY <1>4 DEF T
<1>6. ASSUME NEW s \in SUBSET S
      PROVE  f[s] = IF s = {} THEN 0 ELSE is[First(s)].size + f[s \ {First(s)}]
  BY <1>5, FS_Subset DEF Sums
<1>7. SumsAll(f, is, S)
  BY <1>5, <1>6, Zenon DEF SumsAll
<1> QED
  BY <1>7

\* A function that MapThenSumSet's recursion defines on the subsets of S.
IsSum(f, is, S) ==
    \A s \in SUBSET S : f[s] = IF s = {} THEN 0 ELSE is[First(s)].size + f[s \ {First(s)}]

\* What Sum computes, by its recursion.
LEMMA SumValue ==
    ASSUME NEW is, IsFiniteSet(DOMAIN is)
    PROVE  \E f : IsSum(f, is, DOMAIN is) /\ Sum(is) = f[DOMAIN is]
<1> DEFINE F[s \in SUBSET (DOMAIN is)] ==
               IF s = {} THEN 0
               ELSE LET x == CHOOSE x \in s : TRUE IN is[x].size + F[s \ {x}]
<1> DEFINE S == DOMAIN is
<1>1. \E f : SumsAll(f, is, S)
  <2> HIDE DEF S
  <2>1. IsFiniteSet(S)
    BY DEF S
  <2> QED
    BY <2>1, SumsExist
<1>2. SumsAll(F, is, S)
  BY <1>1, Zenon DEF SumsAll, First
<1>3. Sum(is) = F[S]
  BY DEF Sum, MapThenSumSet, MapThenFoldSet
<1> HIDE DEF F
<1>4. IsSum(F, is, S)
  BY <1>2, Zenon DEF IsSum, SumsAll
<1> QED
  BY <1>3, <1>4

\* A sum is a number, and does not depend on the order of its terms.
LEMMA SumTake ==
    ASSUME NEW is, NEW S, IsFiniteSet(S), \A i \in S : is[i].size \in Nat,
           NEW f, IsSum(f, is, S)
    PROVE  \A s \in SUBSET S :
              /\ f[s] \in Nat
              /\ \A x \in s : f[s] = is[x].size + f[s \ {x}]
<1> DEFINE Good(s) == f[s] \in Nat /\ \A x \in s : f[s] = is[x].size + f[s \ {x}]
           T == {n \in Nat : \A s \in SUBSET S : Cardinality(s) <= n => Good(s)}
<1>0. \A s \in SUBSET S : IsFiniteSet(s) /\ Cardinality(s) \in Nat
  BY FS_Subset, FS_CardinalityType
<1>a. f[{}] = 0
  <2>1. {} \in SUBSET S
    OBVIOUS
  <2> QED
    BY <2>1 DEF IsSum
<1>1. 0 \in T
  <2> SUFFICES ASSUME NEW s \in SUBSET S, Cardinality(s) <= 0 PROVE Good(s)
    OBVIOUS
  <2>1. IsFiniteSet(s) /\ Cardinality(s) = 0
    BY <1>0
  <2>2. s = {}
    BY <2>1, FS_EmptySet
  <2> QED
    BY <1>a, <2>2
<1>2. ASSUME NEW n \in T PROVE n + 1 \in T
  <2> SUFFICES ASSUME NEW s \in SUBSET S, Cardinality(s) <= n + 1 PROVE Good(s)
    OBVIOUS
  <2>1. n \in Nat /\ \A t \in SUBSET S : Cardinality(t) <= n => Good(t)
    OBVIOUS
  <2> SUFFICES ASSUME s # {} PROVE Good(s)
    BY <1>a
  <2>3. \A x \in s : Cardinality(s \ {x}) <= n
    <3> SUFFICES ASSUME NEW x \in s PROVE Cardinality(s \ {x}) <= n
      OBVIOUS
    <3>1. Cardinality(s \ {x}) = Cardinality(s) - 1 /\ Cardinality(s) \in Nat
      BY <1>0, FS_RemoveElement
    <3> QED
      BY <2>1, <3>1
  <2> DEFINE c == First(s)
  <2>5. c \in s
    BY DEF First
  <2>6. f[s] = is[c].size + f[s \ {c}]
    BY DEF IsSum
  <2> HIDE DEF c, T
  <2>7. \A x \in s : Good(s \ {x})
    BY <2>1, <2>3
  <2>8. f[s] \in Nat
    <3>1. f[s \ {c}] \in Nat /\ is[c].size \in Nat
      BY <2>5, <2>7
    <3> QED
      BY <2>6, <3>1
  <2>9. ASSUME NEW x \in s, x # c PROVE f[s] = is[x].size + f[s \ {x}]
    <3> DEFINE t == (s \ {c}) \ {x}
    <3>1. x \in s \ {c} /\ c \in s \ {x} /\ (s \ {x}) \ {c} = t
      BY <2>5, <2>9
    <3>2. f[s \ {c}] = is[x].size + f[t] /\ f[s \ {c}] \in Nat
      BY <2>5, <2>7, <3>1
    <3>3. f[s \ {x}] = is[c].size + f[t] /\ f[s \ {x}] \in Nat
      BY <2>7, <3>1
    <3>4. is[x].size \in Nat /\ is[c].size \in Nat
      BY <2>5
    <3>5. f[t] \in Nat
      <4>1. t \in SUBSET (s \ {c}) /\ t \in SUBSET S /\ s \ {c} \in SUBSET S
        OBVIOUS
      <4>2. Cardinality(t) <= Cardinality(s \ {c})
        BY <1>0, <4>1, FS_Subset
      <4>3. Cardinality(t) \in Nat /\ Cardinality(s \ {c}) \in Nat /\ Cardinality(s \ {c}) <= n
        BY <1>0, <2>3, <2>5, <4>1
      <4>4. Cardinality(t) <= n
        BY <2>1, <4>2, <4>3
      <4> QED
        BY <2>1, <4>1, <4>4
    <3> HIDE DEF t
    <3> QED
      BY <2>6, <3>2, <3>3, <3>4, <3>5
  <2> QED
    BY <2>6, <2>8, <2>9
<1>3. T \in SUBSET Nat
  OBVIOUS
<1> HIDE DEF T
<1>4. Nat \subseteq T
  BY <1>1, <1>2, <1>3, NatInduct
<1>5. ASSUME NEW s \in SUBSET S PROVE Good(s)
  <2>1. Cardinality(s) \in T /\ Cardinality(s) <= Cardinality(s)
    BY <1>0, <1>4
  <2> QED
    BY <2>1 DEF T
<1> QED
  BY <1>5

\* Equal terms have equal sums.
LEMMA SumAgrees ==
    ASSUME NEW is, NEW js, NEW S, IsFiniteSet(S), \A i \in S : is[i] = js[i],
           NEW f, NEW g, NEW R, IsSum(f, is, S), IsSum(g, js, R), S \subseteq R
    PROVE  f[S] = g[S]
<1> DEFINE T == {n \in Nat : \A s \in SUBSET S : Cardinality(s) <= n => f[s] = g[s]}
<1>0. \A s \in SUBSET S : IsFiniteSet(s) /\ Cardinality(s) \in Nat
  BY FS_Subset, FS_CardinalityType
<1>a. f[{}] = 0 /\ g[{}] = 0
  <2>1. {} \in SUBSET S /\ {} \in SUBSET R
    OBVIOUS
  <2> QED
    BY <2>1 DEF IsSum
<1>1. 0 \in T
  <2> SUFFICES ASSUME NEW s \in SUBSET S, Cardinality(s) <= 0 PROVE f[s] = g[s]
    OBVIOUS
  <2>1. IsFiniteSet(s) /\ Cardinality(s) = 0
    BY <1>0
  <2>2. s = {}
    BY <2>1, FS_EmptySet
  <2> QED
    BY <1>a, <2>2
<1>2. ASSUME NEW n \in T PROVE n + 1 \in T
  <2> SUFFICES ASSUME NEW s \in SUBSET S, Cardinality(s) <= n + 1 PROVE f[s] = g[s]
    OBVIOUS
  <2>1. n \in Nat /\ \A t \in SUBSET S : Cardinality(t) <= n => f[t] = g[t]
    OBVIOUS
  <2> SUFFICES ASSUME s # {} PROVE f[s] = g[s]
    BY <1>a
  <2> DEFINE c == First(s)
  <2>2. c \in s
    BY DEF First
  <2>3. f[s] = is[c].size + f[s \ {c}] /\ g[s] = js[c].size + g[s \ {c}]
    BY DEF IsSum
  <2> HIDE DEF c, T
  <2>4. Cardinality(s \ {c}) = Cardinality(s) - 1 /\ Cardinality(s) \in Nat
    BY <1>0, <2>2, FS_RemoveElement
  <2>5. Cardinality(s \ {c}) <= n
    BY <2>1, <2>4
  <2>6. f[s \ {c}] = g[s \ {c}]
    BY <2>1, <2>5
  <2>7. is[c] = js[c]
    BY <2>2
  <2> QED
    BY <2>3, <2>6, <2>7
<1>3. T \in SUBSET Nat
  OBVIOUS
<1> HIDE DEF T
<1>4. Nat \subseteq T
  BY <1>1, <1>2, <1>3, NatInduct
<1>5. Cardinality(S) \in T /\ Cardinality(S) <= Cardinality(S)
  BY <1>0, <1>4
<1> QED
  BY <1>5 DEF T

\* The sum with one inode more.
LEMMA SumPart ==
    ASSUME NEW is, NEW js, NEW i, IsFiniteSet(DOMAIN is), i \in DOMAIN is,
           \A k \in DOMAIN is : is[k].size \in Nat,
           DOMAIN js = DOMAIN is \ {i}, \A k \in DOMAIN js : js[k] = is[k]
    PROVE  /\ Sum(is) \in Nat /\ Sum(js) \in Nat
           /\ Sum(is) = is[i].size + Sum(js)
<1> DEFINE S == DOMAIN is
           R == DOMAIN js
<1>1. IsFiniteSet(R)
  BY FS_RemoveElement
<1>2. PICK f : IsSum(f, is, S) /\ Sum(is) = f[S]
  BY SumValue
<1>3. PICK g : IsSum(g, js, R) /\ Sum(js) = g[R]
  BY <1>1, SumValue
<1>4. g[R] = f[R]
  BY <1>1, <1>2, <1>3, SumAgrees
<1>5. f[S] \in Nat /\ f[R] \in Nat /\ f[S] = is[i].size + f[R]
  <2>1. S \in SUBSET S /\ R \in SUBSET S /\ R = S \ {i}
    OBVIOUS
  <2>2. \A s \in SUBSET S : f[s] \in Nat /\ \A x \in s : f[s] = is[x].size + f[s \ {x}]
    BY <1>2, SumTake
  <2> QED
    BY <2>1, <2>2
<1> QED
  BY <1>2, <1>3, <1>4, <1>5

\* No inodes, no bytes.
LEMMA SumEmpty ==
    ASSUME NEW is, DOMAIN is = {}
    PROVE  Sum(is) = 0
<1>1. PICK f : IsSum(f, is, {}) /\ Sum(is) = f[{}]
  BY FS_EmptySet, SumValue
<1> QED
  BY <1>1 DEF IsSum

\* A sum is a number.
LEMMA SumNat ==
    ASSUME NEW is, IsFiniteSet(DOMAIN is), \A k \in DOMAIN is : is[k].size \in Nat
    PROVE  Sum(is) \in Nat
<1>1. PICK f : IsSum(f, is, DOMAIN is) /\ Sum(is) = f[DOMAIN is]
  BY SumValue
<1>2. DOMAIN is \in SUBSET DOMAIN is
  OBVIOUS
<1> QED
  BY <1>1, <1>2, SumTake

-----------------------------------------------------------------------------
\* Times that the store keeps, and inodes.
MTimes == (Times \ {"before"}) \cup {"epoch", "now"}
Sized == [mode : [type : {"file", "dir", "link"}, perm : SUBSET Bits],
          uid : Uids \cup {Creator}, size : 0 .. MaxSize, mtime : MTimes]

\* What a store and a root record are made of.  Inode numbers are given out in
\* order and no two names have the same one, so that unlink leaves no name
\* without its inode.
StoreOK(is, es, next, xs) ==
    /\ next \in 2 .. workload.maxIno + 1
    /\ DOMAIN is \subseteq 2 .. next - 1 /\ \A i \in DOMAIN is : is[i] \in Sized
    /\ DOMAIN es \subseteq Names
    /\ \A n \in DOMAIN es : es[n] \in DOMAIN is
    /\ \A n, m \in DOMAIN es : n # m => es[n] # es[m]
    /\ DOMAIN xs \subseteq 2 .. workload.maxIno

\* Handles count the bytes they hold.
HandlesOK ==
    /\ DOMAIN open \subseteq Handles
    /\ \A h \in DOMAIN open : open[h] \in [ino : Nat, count : 0 .. MaxSize, committed : BOOLEAN]

\* The type invariant with what makes it inductive, and the logical size.
TypeInv ==
    /\ workload \in Workload
    /\ StoreOK(inodes, entries, nextIno, xattrs)
    /\ StoreOK(saved.inodes, saved.entries, saved.nextIno, saved.xattrs)
    /\ HandlesOK
    /\ mounts \in 0 .. workload.maxMounts
    /\ LogicalBytesExact

\* Inodes are finitely many, and the sum of their sizes is a number.
LEMMA InodesFinite ==
    ASSUME NEW is, NEW next \in Nat, DOMAIN is \subseteq 2 .. next - 1,
           \A i \in DOMAIN is : is[i] \in Sized
    PROVE  /\ IsFiniteSet(DOMAIN is) /\ Sum(is) \in Nat
           /\ \A i \in DOMAIN is : is[i].size \in Nat
<1>1. IsFiniteSet(DOMAIN is)
  <2>1. IsFiniteSet(2 .. next - 1)
    BY FS_Interval
  <2> QED
    BY <2>1, FS_Subset
<1>2. \A i \in DOMAIN is : is[i].size \in Nat
  BY ConstantsAssumption DEF Sized
<1> QED
  BY <1>1, <1>2, SumNat

\* update_inode: the difference of the sizes is exact, and taking it off never
\* goes below 0.
LEMMA UpdateExact ==
    ASSUME TypeInv, NEW i \in DOMAIN inodes, NEW m \in Sized, UpdateInode(i, m)
    PROVE  /\ DOMAIN inodes' = DOMAIN inodes /\ \A k \in DOMAIN inodes : inodes'[k] \in Sized
           /\ LogicalBytesExact'
<1>1. inodes' = [inodes EXCEPT ![i] = m]
  BY DEF UpdateInode
<1>2. DOMAIN inodes' = DOMAIN inodes /\ inodes'[i] = m
      /\ \A k \in DOMAIN inodes : k # i => inodes'[k] = inodes[k]
  BY <1>1
<1>3. nextIno \in Nat /\ DOMAIN inodes \subseteq 2 .. nextIno - 1
      /\ \A k \in DOMAIN inodes : inodes[k] \in Sized
  BY DEF TypeInv, StoreOK, Workload
<1>4. \A k \in DOMAIN inodes : inodes'[k] \in Sized
  BY <1>2, <1>3
<1> DEFINE others == Without(inodes, i)
<1>5. DOMAIN others = DOMAIN inodes \ {i} /\ \A k \in DOMAIN others : others[k] = inodes[k]
  BY DEF Without
<1> HIDE DEF others
<1>6. IsFiniteSet(DOMAIN inodes) /\ \A k \in DOMAIN inodes : inodes[k].size \in Nat
  BY <1>3, InodesFinite
<1>7. m.size \in Nat /\ \A k \in DOMAIN inodes' : inodes'[k].size \in Nat
  BY <1>2, <1>6, ConstantsAssumption DEF Sized
<1>8. Sum(inodes) = inodes[i].size + Sum(others) /\ Sum(others) \in Nat
  BY <1>5, <1>6, SumPart
<1>9. Sum(inodes') = m.size + Sum(others)
  <2>1. \A k \in DOMAIN others : others[k] = inodes'[k]
    BY <1>2, <1>5
  <2>2. DOMAIN others = DOMAIN inodes' \ {i} /\ IsFiniteSet(DOMAIN inodes') /\ i \in DOMAIN inodes'
    BY <1>2, <1>5, <1>6
  <2>3. Sum(inodes') = inodes'[i].size + Sum(others)
    BY <1>7, <2>1, <2>2, SumPart
  <2> QED
    BY <1>2, <2>3
<1>10. bytes = Sum(inodes) /\ inodes[i].size \in Nat
  BY <1>6 DEF TypeInv, LogicalBytesExact
<1>11. bytes' = IF m.size > inodes[i].size THEN bytes + (m.size - inodes[i].size)
                ELSE Less(bytes, inodes[i].size - m.size)
  BY DEF UpdateInode
<1>12. bytes' = Sum(inodes')
  <2> DEFINE a == Sum(others)
             b == inodes[i].size
             c == m.size
  <2>1. a \in Nat /\ b \in Nat /\ c \in Nat /\ bytes = b + a /\ Sum(inodes') = c + a
    BY <1>7, <1>8, <1>9, <1>10
  <2>2. bytes' = IF c > b THEN bytes + (c - b) ELSE Less(bytes, b - c)
    BY <1>11
  <2> HIDE DEF a, b, c
  <2> QED
    BY <2>1, <2>2 DEF Less
<1> QED
  BY <1>2, <1>4, <1>12 DEF LogicalBytesExact

\* delete_inode
LEMMA DeleteExact ==
    ASSUME TypeInv, NEW i \in DOMAIN inodes, DeleteInode(i)
    PROVE  LogicalBytesExact'
<1>1. DOMAIN inodes' = DOMAIN inodes \ {i} /\ \A k \in DOMAIN inodes' : inodes'[k] = inodes[k]
  BY DEF DeleteInode, Without
<1>2. nextIno \in Nat /\ DOMAIN inodes \subseteq 2 .. nextIno - 1
      /\ \A k \in DOMAIN inodes : inodes[k] \in Sized
  BY DEF TypeInv, StoreOK, Workload
<1>3. IsFiniteSet(DOMAIN inodes) /\ \A k \in DOMAIN inodes : inodes[k].size \in Nat
  BY <1>2, InodesFinite
<1>4. Sum(inodes) = inodes[i].size + Sum(inodes') /\ Sum(inodes') \in Nat
  BY <1>1, <1>3, SumPart
<1>5. bytes = Sum(inodes) /\ bytes' = Less(bytes, inodes[i].size) /\ inodes[i].size \in Nat
  BY <1>3 DEF TypeInv, LogicalBytesExact, DeleteInode
<1> QED
  BY <1>4, <1>5 DEF Less, LogicalBytesExact

\* create_inode, and delete_inode when the name is taken.
LEMMA MakeExact ==
    ASSUME TypeInv, NEW n \in Names, NEW m \in Sized, MakeNode(n, m)
    PROVE  StoreOK(inodes, entries, nextIno, xattrs)' /\ LogicalBytesExact' /\ UNCHANGED rest
<1>0. UNCHANGED rest /\ UNCHANGED workload /\ xattrs' = xattrs
  BY DEF MakeNode, rest
<1>1. nextIno \in Nat /\ DOMAIN inodes \subseteq 2 .. nextIno - 1 /\ nextIno >= 2
      /\ \A k \in DOMAIN inodes : inodes[k] \in Sized
  BY DEF TypeInv, StoreOK, Workload
<1>2. nextIno' = nextIno + 1 /\ nextIno' \in 2 .. workload.maxIno + 1
      /\ nextIno \notin DOMAIN inodes
  BY <1>1 DEF MakeNode, TypeInv, Workload
<1>3. bytes = Sum(inodes) /\ Sum(inodes) \in Nat /\ m.size \in Nat
  BY <1>1, InodesFinite, ConstantsAssumption DEF TypeInv, LogicalBytesExact, Sized
<1>4. CASE n \in DOMAIN entries
  <2>1. inodes' = inodes /\ entries' = entries /\ bytes' = Less(bytes + m.size, m.size)
    BY <1>4 DEF MakeNode
  <2>2. LogicalBytesExact'
    BY <1>3, <2>1 DEF Less, LogicalBytesExact
  <2>3. DOMAIN inodes \subseteq 2 .. nextIno' - 1
    BY <1>1, <1>2
  <2> QED
    BY <1>0, <1>2, <2>1, <2>2, <2>3 DEF TypeInv, StoreOK
<1>5. CASE n \notin DOMAIN entries
  <2>1. inodes' = With(inodes, nextIno, m) /\ entries' = With(entries, n, nextIno)
        /\ bytes' = bytes + m.size
    BY <1>5 DEF MakeNode
  <2>2. DOMAIN inodes' = DOMAIN inodes \cup {nextIno} /\ inodes'[nextIno] = m
        /\ \A k \in DOMAIN inodes : inodes'[k] = inodes[k]
    BY <1>2, <2>1 DEF With
  <2>3. DOMAIN entries' = DOMAIN entries \cup {n} /\ entries'[n] = nextIno
        /\ \A k \in DOMAIN entries : entries'[k] = entries[k]
    BY <1>5, <2>1 DEF With
  <2>4. \A k \in DOMAIN inodes' : inodes'[k] \in Sized
    BY <1>1, <2>2
  <2>5. DOMAIN inodes' \subseteq 2 .. nextIno' - 1
    BY <1>1, <1>2, <2>2
  <2>6. Sum(inodes') = m.size + Sum(inodes)
    <3>1. nextIno' \in Nat
      BY <1>1, <1>2
    <3>2. IsFiniteSet(DOMAIN inodes') /\ \A k \in DOMAIN inodes' : inodes'[k].size \in Nat
      BY <2>4, <2>5, <3>1, InodesFinite
    <3>3. DOMAIN inodes = DOMAIN inodes' \ {nextIno} /\ nextIno \in DOMAIN inodes'
          /\ \A k \in DOMAIN inodes : inodes[k] = inodes'[k]
      BY <1>2, <2>2
    <3> QED
      BY <2>2, <3>2, <3>3, SumPart
  <2>7. LogicalBytesExact'
    BY <1>3, <2>1, <2>6 DEF LogicalBytesExact
  <2>8. /\ DOMAIN entries' \subseteq Names
        /\ \A k \in DOMAIN entries' : entries'[k] \in DOMAIN inodes'
        /\ \A k, l \in DOMAIN entries' : k # l => entries'[k] # entries'[l]
    BY <1>2, <2>2, <2>3 DEF TypeInv, StoreOK
  <2> QED
    BY <1>0, <1>2, <2>4, <2>5, <2>7, <2>8 DEF TypeInv, StoreOK
<1> QED
  BY <1>4, <1>5

\* What one optional attribute of a setattr asks for.
LEMMA AskedType ==
    ASSUME NEW S, NEW option \in Maybe(S), NEW current
    PROVE  /\ option = {} => Asked(option, current) = current
           /\ option # {} => /\ Asked(option, current) \in S
                             /\ \A other : Asked(option, other) = Asked(option, current)
BY DEF Maybe, Asked

\* What the time of a setattr asks for: no time is before the epoch.
LEMMA AskedTime ==
    ASSUME NEW mtime \in Maybe(Times), NEW current
    PROVE  LET t == {ToPair(u) : u \in mtime}
           IN  /\ mtime = {} => Asked(t, current) = current
               /\ mtime # {} => /\ Asked(t, current) \in MTimes
                                /\ \A other : Asked(t, other) = Asked(t, current)
<1> DEFINE t == {ToPair(u) : u \in mtime}
<1>1. t \in Maybe(MTimes) /\ (t = {} <=> mtime = {})
  <2>1. CASE mtime = {}
    BY <2>1 DEF Maybe
  <2>2. CASE mtime # {}
    <3>1. PICK u \in Times : mtime = {u}
      BY <2>2 DEF Maybe
    <3>2. t = {ToPair(u)} /\ ToPair(u) \in MTimes
      BY <3>1 DEF ToPair, MTimes
    <3> QED
      BY <2>2, <3>2 DEF Maybe
  <2> QED
    BY <2>1, <2>2
<1> HIDE DEF t
<1>2. /\ t = {} => Asked(t, current) = current
      /\ t # {} => /\ Asked(t, current) \in MTimes
                   /\ \A other : Asked(t, other) = Asked(t, current)
  BY <1>1, AskedType
<1> QED
  BY <1>1, <1>2 DEF t

\* setattr keeps the types and the logical size.
LEMMA SetattrTypes ==
    ASSUME TypeInv, NEW i \in DOMAIN inodes,
           NEW mode \in Maybe({Bits, {}}), NEW uid \in Maybe(Uids),
           NEW mtime \in Maybe(Times), NEW size \in Maybe(0 .. MaxSize),
           NEW fh \in Maybe({h \in DOMAIN open : open[h].ino = i}),
           Setattr(i, mode, uid, mtime, size, fh)
    PROVE  TypeInv'
<1> DEFINE times == {ToPair(t) : t \in mtime}
           m == [inodes[i] EXCEPT !.mode.perm = Asked(mode, @), !.uid = Asked(uid, @),
                                  !.mtime = Asked(times, @)]
           length == Asked(size, inodes[i].size)
           s == [inodes[i] EXCEPT !.size = length]
           r == IF size = {} THEN m ELSE s
<1>1. inodes[i] \in Sized
  BY DEF TypeInv, StoreOK
<1>2. length \in 0 .. MaxSize
  BY <1>1, AskedType DEF Sized
<1>3. m \in Sized
  <2>1. Asked(mode, inodes[i].mode.perm) \in SUBSET Bits
    BY <1>1, AskedType DEF Sized
  <2>2. Asked(uid, inodes[i].uid) \in Uids \cup {Creator}
    BY <1>1, AskedType DEF Sized
  <2>3. Asked(times, inodes[i].mtime) \in MTimes
    BY <1>1, AskedTime DEF Sized
  <2> HIDE DEF times
  <2> QED
    BY <1>1, <2>1, <2>2, <2>3 DEF Sized
<1>4. s \in Sized
  <2> HIDE DEF length
  <2> QED
    BY <1>1, <1>2 DEF Sized
<1>5. UpdateInode(i, r)
  <2>1. CASE size = {}
    BY <2>1 DEF Setattr
  <2>2. CASE size # {}
    BY <2>2 DEF Setattr
  <2> QED
    BY <2>1, <2>2
<1>6. r \in Sized
  BY <1>3, <1>4
<1>7. UNCHANGED <<entries, nextIno, xattrs, saved, mounts, workload>>
  BY DEF Setattr, rest
<1>8. DOMAIN open' = DOMAIN open
      /\ \A h \in DOMAIN open :
            open'[h] = IF size # {} /\ h \in fh
                       THEN [open[h] EXCEPT !.count = length, !.committed = FALSE]
                       ELSE open[h]
  BY DEF Setattr
<1> HIDE DEF r, m, s, length, times
<1>9. HandlesOK'
  <2>1. \A h \in DOMAIN open :
            [open[h] EXCEPT !.count = length, !.committed = FALSE]
                \in [ino : Nat, count : 0 .. MaxSize, committed : BOOLEAN]
    BY <1>2 DEF TypeInv, HandlesOK
  <2> QED
    BY <1>8, <2>1 DEF TypeInv, HandlesOK
<1>10. DOMAIN inodes' = DOMAIN inodes /\ (\A k \in DOMAIN inodes : inodes'[k] \in Sized)
       /\ LogicalBytesExact'
  BY <1>5, <1>6, UpdateExact
<1> QED
  BY <1>7, <1>9, <1>10 DEF TypeInv, StoreOK

\* Every step keeps the types and the logical size.
LEMMA TypeNext ==
    ASSUME TypeInv, [Next]_vars
    PROVE  TypeInv'
<1>1. ASSUME NEW n \in workload.names,
             \/ Mknod(n, Bits, Creator) \/ Mkdir(n, Bits, Creator)
             \/ \E target \in 1 .. MaxSize : Symlink(n, Creator, target)
             \/ \E h \in Handles : Create(n, Bits, Creator, h)
      PROVE  TypeInv'
  <2>0. n \in Names
    BY DEF TypeInv, Workload
  <2>1. \A type \in {"file", "dir", "link"}, perm \in SUBSET Bits, size \in 0 .. MaxSize :
            InodeMeta(type, perm, Creator, size) \in Sized
    BY DEF InodeMeta, Sized, MTimes
  <2>2. 0 \in 0 .. MaxSize /\ 1 .. MaxSize \subseteq 0 .. MaxSize
        /\ Bits \in SUBSET Bits /\ Bits \ Umask \in SUBSET Bits
    BY ConstantsAssumption
  <2>3. PICK m \in Sized : MakeNode(n, m)
    <3>1. CASE Mknod(n, Bits, Creator) \/ Mkdir(n, Bits, Creator)
      BY <2>1, <2>2, <3>1 DEF Mknod, Mkdir
    <3>2. CASE \E target \in 1 .. MaxSize : Symlink(n, Creator, target)
      BY <2>1, <2>2, <3>2 DEF Symlink
    <3>3. CASE \E h \in Handles : Create(n, Bits, Creator, h)
      BY <2>1, <2>2, <3>3 DEF Create
    <3> QED
      BY <1>1, <3>1, <3>2, <3>3
  <2>4. StoreOK(inodes, entries, nextIno, xattrs)' /\ LogicalBytesExact' /\ UNCHANGED rest
    BY <2>0, <2>3, MakeExact
  <2>5. HandlesOK'
    <3>1. \/ open' = open
          \/ \E h \in Handles :
                open' = With(open, h, [ino |-> nextIno, count |-> 0, committed |-> FALSE])
      BY <1>1 DEF Mknod, Mkdir, Symlink, Create
    <3>2. nextIno \in Nat
      BY DEF TypeInv, StoreOK, Workload
    <3>3. [ino |-> nextIno, count |-> 0, committed |-> FALSE]
              \in [ino : Nat, count : 0 .. MaxSize, committed : BOOLEAN]
      BY <2>2, <3>2
    <3> QED
      BY <3>1, <3>3 DEF TypeInv, HandlesOK, With
  <2> QED
    BY <2>4, <2>5 DEF TypeInv, StoreOK, rest
<1>2. ASSUME NEW n \in Names, Unlink(n) PROVE TypeInv'
  <2>1. n \in DOMAIN entries /\ DeleteInode(entries[n]) /\ entries' = Without(entries, n)
        /\ UNCHANGED <<nextIno, open, xattrs, saved, mounts, workload>>
    BY <1>2 DEF Unlink, rest
  <2>2. entries[n] \in DOMAIN inodes
    BY <2>1 DEF TypeInv, StoreOK
  <2>3. LogicalBytesExact'
    BY <2>1, <2>2, DeleteExact
  <2>4. DOMAIN inodes' = DOMAIN inodes \ {entries[n]}
        /\ \A k \in DOMAIN inodes' : inodes'[k] = inodes[k]
    BY <2>1 DEF DeleteInode, Without
  <2>5. DOMAIN entries' = DOMAIN entries \ {n}
        /\ \A k \in DOMAIN entries' : entries'[k] = entries[k]
    BY <2>1 DEF Without
  <2>6. StoreOK(inodes, entries, nextIno, xattrs)'
    BY <2>1, <2>4, <2>5 DEF TypeInv, StoreOK
  <2> QED
    BY <2>1, <2>3, <2>6 DEF TypeInv, StoreOK, HandlesOK
<1>3. ASSUME NEW h \in Handles, NEW i \in DOMAIN inodes, Open(h, i) PROVE TypeInv'
  <2>1. UNCHANGED <<inodes, entries, nextIno, bytes, xattrs, saved, mounts, workload>>
        /\ open' = With(open, h, [ino |-> i, count |-> 0, committed |-> FALSE])
    BY <1>3 DEF Open, store, rest
  <2>2. i \in Nat /\ 0 \in 0 .. MaxSize
    BY ConstantsAssumption DEF TypeInv, StoreOK, Workload
  <2>3. HandlesOK'
    BY <2>1, <2>2 DEF TypeInv, HandlesOK, With
  <2> QED
    BY <2>1, <2>3 DEF TypeInv, StoreOK, LogicalBytesExact
<1>4. ASSUME NEW h \in DOMAIN open, Write(h) PROVE TypeInv'
  <2>1. UNCHANGED <<inodes, entries, nextIno, bytes, xattrs, saved, mounts, workload>>
        /\ open' = [open EXCEPT ![h].count = @ + 1, ![h].committed = FALSE]
        /\ open[h].count < MaxSize
    BY <1>4 DEF Write, store, rest
  <2>2. HandlesOK'
    <3> DEFINE r == [open[h] EXCEPT !.count = @ + 1, !.committed = FALSE]
    <3>1. open[h] \in [ino : Nat, count : 0 .. MaxSize, committed : BOOLEAN]
      BY DEF TypeInv, HandlesOK
    <3>2. open[h].count + 1 \in 0 .. MaxSize
      BY <2>1, <3>1, ConstantsAssumption
    <3>3. r \in [ino : Nat, count : 0 .. MaxSize, committed : BOOLEAN]
      BY <3>1, <3>2
    <3>4. open' = [open EXCEPT ![h] = r]
      BY <2>1
    <3> HIDE DEF r
    <3> QED
      BY <3>3, <3>4 DEF TypeInv, HandlesOK
  <2> QED
    BY <2>1, <2>2 DEF TypeInv, StoreOK, LogicalBytesExact
<1>5. ASSUME NEW h \in DOMAIN open, Flush(h) \/ Release(h) PROVE TypeInv'
  <2>1. UNCHANGED <<entries, nextIno, xattrs, saved, mounts, workload>>
    BY <1>5 DEF Flush, Release, rest
  <2>2. HandlesOK'
    BY <1>5 DEF Flush, Release, TypeInv, HandlesOK, Without
  <2>3. UNCHANGED <<inodes, bytes>> \/ CommitInode(open[h].ino, open[h].count)
    BY <1>5 DEF Flush, Release
  <2>4. DOMAIN inodes' = DOMAIN inodes /\ (\A k \in DOMAIN inodes : inodes'[k] \in Sized)
        /\ LogicalBytesExact'
    <3>1. CASE UNCHANGED <<inodes, bytes>>
      BY <3>1 DEF TypeInv, StoreOK, LogicalBytesExact
    <3>2. CASE CommitInode(open[h].ino, open[h].count) /\ open[h].ino \in DOMAIN inodes
      <4> DEFINE i == open[h].ino
                 m == [inodes[i] EXCEPT !.size = open[h].count, !.mtime = "now"]
      <4>1. open[h].count \in 0 .. MaxSize /\ inodes[i] \in Sized
        BY <3>2 DEF TypeInv, StoreOK, HandlesOK
      <4>2. m \in Sized
        BY <4>1 DEF Sized, MTimes
      <4>3. UpdateInode(i, m)
        BY <3>2 DEF CommitInode
      <4> HIDE DEF i, m
      <4> QED
        BY <3>2, <4>2, <4>3, UpdateExact DEF i
    <3>3. CASE CommitInode(open[h].ino, open[h].count) /\ open[h].ino \notin DOMAIN inodes
      BY <3>1, <3>3 DEF CommitInode
    <3> QED
      BY <2>3, <3>1, <3>2, <3>3
  <2> QED
    BY <2>1, <2>2, <2>4 DEF TypeInv, StoreOK
<1>6. ASSUME NEW i \in DOMAIN inodes, NEW n, (\E v : SetXattr(i, n, v)) \/ RemoveXattr(i, n)
      PROVE  TypeInv'
  <2>1. UNCHANGED <<inodes, entries, nextIno, bytes, open, saved, mounts, workload>>
        /\ \E l : xattrs' = With(xattrs, i, l)
    BY <1>6 DEF SetXattr, RemoveXattr, rest
  <2>2. i \in 2 .. workload.maxIno
    BY DEF TypeInv, StoreOK, Workload
  <2>3. DOMAIN xattrs' \subseteq 2 .. workload.maxIno
    BY <2>1, <2>2 DEF With, TypeInv, StoreOK
  <2> QED
    BY <2>1, <2>3 DEF TypeInv, StoreOK, HandlesOK, LogicalBytesExact
<1>7. ASSUME UNCHANGED <<inodes, entries, nextIno, bytes, xattrs, open, saved, mounts, workload>>
      PROVE  TypeInv'
  BY <1>7 DEF TypeInv, StoreOK, HandlesOK, LogicalBytesExact
<1>8. CASE Opendir \/ Closedir \/ \E k \in 1 .. Cardinality(Names) : Readdir(k)
  BY <1>7, <1>8 DEF Opendir, Closedir, Readdir, store, rest
<1>9. ASSUME NEW rec, LoadFromRoot(rec),
             StoreOK(rec.inodes, rec.entries, rec.nextIno, rec.xattrs),
             StoreOK(saved'.inodes, saved'.entries, saved'.nextIno, saved'.xattrs)
      PROVE  TypeInv'
  <2>1. /\ workload' = workload /\ inodes' = rec.inodes /\ entries' = rec.entries
        /\ nextIno' = rec.nextIno /\ xattrs' = rec.xattrs /\ bytes' = Sum(rec.inodes)
        /\ DOMAIN open' = {} /\ mounts' = mounts + 1 /\ mounts < workload.maxMounts
    BY <1>9 DEF LoadFromRoot, Empty
  <2>2. mounts' \in 0 .. workload'.maxMounts
    BY <2>1 DEF TypeInv, Workload
  <2> QED
    BY <1>9, <2>1, <2>2 DEF TypeInv, StoreOK, HandlesOK, LogicalBytesExact
<1>10. CASE Remount
  <2>1. saved' = RootRecord /\ LoadFromRoot(RootRecord)
    BY <1>10 DEF Remount
  <2>2. RootRecord.inodes = inodes /\ RootRecord.entries = entries
        /\ RootRecord.nextIno = nextIno /\ RootRecord.xattrs = xattrs
    BY DEF RootRecord
  <2> QED
    BY <1>9, <2>1, <2>2 DEF TypeInv
<1>11. CASE CrashAndMount
  <2>1. saved' = saved /\ LoadFromRoot(saved)
    BY <1>11 DEF CrashAndMount
  <2> QED
    BY <1>9, <2>1 DEF TypeInv
<1>12. CASE UNCHANGED vars
  BY <1>7, <1>12 DEF vars, store, rest
<1> QED
  BY <1>1, <1>2, <1>3, <1>4, <1>5, <1>6, <1>8, <1>10, <1>11, <1>12, SetattrTypes DEF Next

\* A new store has no inode, and none has bytes.
LEMMA TypeInit == Init => TypeInv
<1> SUFFICES ASSUME Init PROVE TypeInv
  OBVIOUS
<1>1. DOMAIN Empty = {}
  BY DEF Empty
<1>2. inodes = Empty /\ entries = Empty /\ xattrs = Empty /\ nextIno = 2 /\ bytes = 0
      /\ open = Empty /\ mounts = 0 /\ workload \in Workload /\ saved = RootRecord
  BY ConstantsAssumption DEF Init
<1>3. RootRecord.inodes = inodes /\ RootRecord.entries = entries
      /\ RootRecord.nextIno = nextIno /\ RootRecord.xattrs = xattrs
  BY DEF RootRecord
<1>4. 2 \in 2 .. workload.maxIno + 1 /\ 0 \in 0 .. workload.maxMounts
  BY <1>2 DEF Workload
<1>5. StoreOK(inodes, entries, nextIno, xattrs)
  BY <1>1, <1>2, <1>4 DEF StoreOK
<1>6. LogicalBytesExact
  BY <1>1, <1>2, SumEmpty DEF LogicalBytesExact
<1>7. StoreOK(saved.inodes, saved.entries, saved.nextIno, saved.xattrs)
  BY <1>2, <1>3, <1>5
<1> QED
  BY <1>1, <1>2, <1>4, <1>5, <1>6, <1>7 DEF TypeInv, HandlesOK

\* The variables have their types for any workload: inode numbers, sizes and
\* times stay in their ranges and every name has an inode.
THEOREM TypeCorrect == Spec => []TypeOK
<1>1. TypeInv => TypeOK
  <2> SUFFICES ASSUME TypeInv PROVE TypeOK
    OBVIOUS
  <2>1. nextIno \in Nat /\ DOMAIN inodes \subseteq 2 .. nextIno - 1
        /\ \A k \in DOMAIN inodes : inodes[k] \in Sized
    BY DEF TypeInv, StoreOK, Workload
  <2>2. bytes \in Nat
    BY <2>1, InodesFinite DEF TypeInv, LogicalBytesExact
  <2>3. DOMAIN inodes \subseteq 2 .. workload.maxIno
    BY DEF TypeInv, StoreOK, Workload
  <2> QED
    BY <2>1, <2>2, <2>3 DEF TypeInv, StoreOK, HandlesOK, TypeOK, Sized, MTimes
<1>2. TypeInv /\ [Next]_vars => TypeInv'
  BY TypeNext
<1> QED
  BY <1>1, <1>2, TypeInit, PTL DEF Spec

\* logical_bytes, which every operation moves by a difference and which stats
\* reports, is the sum of the sizes of the files after any sequence of
\* creations, undone creations, commits, truncations, deletions and mounts.
THEOREM LogicalBytesAlwaysExact == Spec => []LogicalBytesExact
<1>1. TypeInv => LogicalBytesExact
  BY DEF TypeInv
<1>2. TypeInv /\ [Next]_vars => TypeInv'
  BY TypeNext
<1> QED
  BY <1>1, <1>2, TypeInit, PTL DEF Spec

-----------------------------------------------------------------------------
(* Attributes.                                                             *)

Meta == [mode : [type : {"file", "dir", "link"}, perm : SUBSET Bits],
         uid : Uids \cup {Creator}, size : Nat, mtime : MTimes]
Request == [perm : SUBSET Bits, uid : Uids \cup {Creator}, mtime : MTimes]
Handle == [ino : Nat, count : Nat, committed : BOOLEAN]

\* The inode m has what w says.
Has(m, w) ==
    /\ m \in Meta /\ w \in Request
    /\ m.mode.perm = w.perm /\ m.uid = w.uid /\ m.mtime = w.mtime

\* Every inode has what it should have, and what it should have goes when the
\* inode goes.
Kept(is, ws) ==
    /\ DOMAIN is \subseteq Nat /\ DOMAIN ws = DOMAIN is
    /\ \A i \in DOMAIN is : Has(is[i], ws[i])

HandlesTyped == \A h \in DOMAIN open : open[h] \in Handle

IInv ==
    /\ nextIno \in Nat /\ saved.nextIno \in Nat
    /\ Kept(inodes, want)
    /\ Kept(saved.inodes, saved.want)
    /\ HandlesTyped

-----------------------------------------------------------------------------
\* A new inode is recorded with the attributes that mknod, mkdir, symlink and
\* create ask for.
LEMMA MakeNodeKeeps ==
    ASSUME IInv, NEW n, NEW m \in Meta, MakeNode(n, m)
    PROVE  /\ nextIno' \in Nat /\ saved' = saved
           /\ Kept(inodes, want)'
<1>1. nextIno' \in Nat /\ saved' = saved
  BY DEF IInv, MakeNode, rest
<1>2. CASE n \in DOMAIN entries
  BY <1>1, <1>2 DEF IInv, MakeNode
<1>3. CASE n \notin DOMAIN entries
  <2> DEFINE w == [perm |-> m.mode.perm, uid |-> m.uid, mtime |-> m.mtime]
  <2>1. inodes' = With(inodes, nextIno, m) /\ want' = With(want, nextIno, w)
    BY <1>3 DEF MakeNode
  <2>2. Has(m, w)
    BY DEF Has, Meta, Request
  <2> HIDE DEF w
  <2>3. Kept(inodes', want')
    BY <2>1, <2>2 DEF IInv, Kept, With
  <2> QED
    BY <1>1, <2>3
<1> QED
  BY <1>2, <1>3

\* The commit of a handle's bytes changes the size of an inode, and its time,
\* which is the commit's from then on.
LEMMA CommitKeeps ==
    ASSUME IInv, NEW i, NEW count \in Nat, CommitInode(i, count)
    PROVE  Kept(inodes, want)'
<1>1. CASE i \in DOMAIN inodes
  <2> DEFINE m == [inodes[i] EXCEPT !.size = count, !.mtime = "now"]
             w == [want[i] EXCEPT !.mtime = "now"]
  <2>1. Has(inodes[i], want[i]) /\ i \in DOMAIN want
    BY <1>1 DEF IInv, Kept
  <2>2. inodes' = [inodes EXCEPT ![i] = m] /\ want' = [want EXCEPT ![i] = w]
    BY <1>1, <2>1 DEF CommitInode, UpdateInode
  <2>3. m \in Meta /\ m.mode = inodes[i].mode /\ m.uid = inodes[i].uid /\ m.mtime = "now"
    BY <2>1 DEF Has, Meta, MTimes
  <2>4. w \in Request /\ w.perm = want[i].perm /\ w.uid = want[i].uid /\ w.mtime = "now"
    BY <2>1 DEF Has, Request, MTimes
  <2>5. Has(m, w)
    BY <2>1, <2>3, <2>4 DEF Has
  <2> HIDE DEF m, w
  <2> QED
    BY <2>1, <2>2, <2>5 DEF IInv, Kept
<1>2. CASE i \notin DOMAIN inodes
  BY <1>2 DEF IInv, CommitInode
<1> QED
  BY <1>1, <1>2

-----------------------------------------------------------------------------
\* setattr: without a size every attribute asked for reaches the inode and the
\* others stay; with one, only the size changes.
LEMMA SetattrStep ==
    ASSUME IInv, NEW i \in DOMAIN inodes,
           NEW mode \in Maybe({Bits, {}}), NEW uid \in Maybe(Uids),
           NEW mtime \in Maybe(Times), NEW size \in Maybe(0 .. MaxSize),
           NEW fh \in Maybe({h \in DOMAIN open : open[h].ino = i}),
           Setattr(i, mode, uid, mtime, size, fh)
    PROVE  IInv'
<1> DEFINE times == {ToPair(t) : t \in mtime}
           m == [inodes[i] EXCEPT !.mode.perm = Asked(mode, @), !.uid = Asked(uid, @),
                                  !.mtime = Asked(times, @)]
           length == Asked(size, inodes[i].size)
           s == [inodes[i] EXCEPT !.size = length]
           w == [want[i] EXCEPT !.perm = Asked(mode, @), !.uid = Asked(uid, @),
                                !.mtime = Asked(times, @)]
<1>1. Has(inodes[i], want[i]) /\ i \in DOMAIN want /\ i \in Nat
  BY DEF IInv, Kept
<1>2. inodes' = [inodes EXCEPT ![i] = IF size = {} THEN m ELSE s]
  BY DEF Setattr, UpdateInode
<1>3. want' = IF size = {} THEN [want EXCEPT ![i] = w] ELSE want
  BY DEF Setattr
<1>4. length \in Nat
  BY <1>1, AskedType, ConstantsAssumption DEF Has, Meta
<1>5. Has(m, w)
  <2>1. /\ m.mode.perm = Asked(mode, inodes[i].mode.perm)
        /\ m.mode.type = inodes[i].mode.type
        /\ m.uid = Asked(uid, inodes[i].uid)
        /\ m.mtime = Asked(times, inodes[i].mtime)
    BY <1>1 DEF Has, Meta
  <2>2. /\ w.perm = Asked(mode, want[i].perm) /\ w.uid = Asked(uid, want[i].uid)
        /\ w.mtime = Asked(times, want[i].mtime)
    BY <1>1 DEF Has, Request
  <2>3. m.mode.perm = w.perm /\ m.uid = w.uid /\ m.mtime = w.mtime
    BY <1>1, <2>1, <2>2 DEF Has
  <2>4. w.perm \in SUBSET Bits
    BY <1>1, <2>2, AskedType DEF Has, Request
  <2>5. w.uid \in Uids \cup {Creator}
    BY <1>1, <2>2, AskedType DEF Has, Request
  <2>6. m.mtime \in MTimes
    BY <1>1, <2>1, AskedTime DEF Has, Meta
  <2>7. m \in Meta
    BY <1>1, <2>1, <2>3, <2>4, <2>5, <2>6 DEF Has, Meta
  <2>8. w \in Request
    BY <1>1, <2>2, <2>3, <2>4, <2>5, <2>6 DEF Has, Request
  <2> QED
    BY <2>3, <2>7, <2>8 DEF Has
<1>6. Has(s, want[i])
  <2>1. s \in Meta /\ s.mode = inodes[i].mode /\ s.uid = inodes[i].uid
        /\ s.mtime = inodes[i].mtime
    BY <1>1, <1>4 DEF Has, Meta
  <2> QED
    BY <1>1, <2>1 DEF Has
<1>7. DOMAIN open' = DOMAIN open
      /\ \A h \in DOMAIN open :
            open'[h] = IF size # {} /\ h \in fh
                       THEN [open[h] EXCEPT !.count = length, !.committed = FALSE]
                       ELSE open[h]
  BY DEF Setattr
<1>8. saved' = saved /\ nextIno' = nextIno
  BY DEF Setattr, rest
<1> HIDE DEF m, s, w, length, times
<1>9. Kept(inodes', want')
  BY <1>1, <1>2, <1>3, <1>5, <1>6 DEF IInv, Kept
<1>10. HandlesTyped'
  BY <1>4, <1>7 DEF IInv, HandlesTyped, Handle
<1> QED
  BY <1>8, <1>9, <1>10 DEF IInv, Kept

-----------------------------------------------------------------------------
\* A new store has no inode.
LEMMA InitInv ==
    Init => IInv
BY DEF Init, IInv, Kept, HandlesTyped, RootRecord, Empty

\* A new handle is one.
LEMMA FreshHandle ==
    ASSUME HandlesTyped, NEW h, NEW i \in Nat,
           open' = With(open, h, [ino |-> i, count |-> 0, committed |-> FALSE])
    PROVE  HandlesTyped'
<1> DEFINE fresh == [ino |-> i, count |-> 0, committed |-> FALSE]
<1>1. fresh \in Handle
  BY DEF Handle
<1>2. DOMAIN open' = DOMAIN open \cup {h} /\ open'[h] = fresh
      /\ \A g \in DOMAIN open : g # h => open'[g] = open[g]
  BY DEF With
<1> HIDE DEF fresh
<1> QED
  BY <1>1, <1>2 DEF HandlesTyped

\* Every callback, mount and crash keeps the invariant.
LEMMA StepInv ==
    ASSUME IInv, [Next]_vars
    PROVE  IInv'
<1>1. ASSUME NEW n \in workload.names,
             \/ Mknod(n, Bits, Creator) \/ Mkdir(n, Bits, Creator)
             \/ \E target \in 1 .. MaxSize : Symlink(n, Creator, target)
             \/ \E h \in Handles : Create(n, Bits, Creator, h)
      PROVE  IInv'
  <2>1. \A type \in {"file", "dir", "link"}, perm \in SUBSET Bits, size \in Nat :
            InodeMeta(type, perm, Creator, size) \in Meta
    BY DEF InodeMeta, Meta, MTimes
  <2>2. PICK m \in Meta : MakeNode(n, m)
    <3>1. CASE Mknod(n, Bits, Creator) \/ Mkdir(n, Bits, Creator)
      BY <2>1, <3>1 DEF Mknod, Mkdir
    <3>2. CASE \E target \in 1 .. MaxSize : Symlink(n, Creator, target)
      BY <2>1, <3>2 DEF Symlink
    <3>3. CASE \E h \in Handles : Create(n, Bits, Creator, h)
      BY <2>1, <3>3 DEF Create
    <3> QED
      BY <1>1, <3>1, <3>2, <3>3
  <2>3. nextIno' \in Nat /\ saved' = saved /\ Kept(inodes, want)'
    BY <2>2, MakeNodeKeeps
  <2>4. \/ open' = open
        \/ \E h : open' = With(open, h, [ino |-> nextIno, count |-> 0, committed |-> FALSE])
    BY <1>1 DEF Mknod, Mkdir, Symlink, Create
  <2>5. HandlesTyped'
    <3>1. CASE open' = open
      BY <3>1 DEF IInv, HandlesTyped
    <3>2. nextIno \in Nat /\ HandlesTyped
      BY DEF IInv
    <3> QED
      BY <2>4, <3>1, <3>2, FreshHandle
  <2> QED
    BY <2>3, <2>5 DEF IInv
<1>2. ASSUME NEW n \in Names, Unlink(n) PROVE IInv'
  <2> DEFINE i == entries[n]
  <2>1. inodes' = Without(inodes, i) /\ want' = Without(want, i) /\ open' = open
        /\ nextIno' = nextIno /\ saved' = saved
    BY <1>2 DEF Unlink, DeleteInode, rest
  <2> HIDE DEF i
  <2>2. /\ DOMAIN inodes' = DOMAIN inodes \ {i} /\ DOMAIN want' = DOMAIN want \ {i}
        /\ \A j \in DOMAIN inodes : j # i => inodes'[j] = inodes[j]
        /\ \A j \in DOMAIN want : j # i => want'[j] = want[j]
    BY <2>1 DEF Without
  <2>3. Kept(inodes, want)'
    BY <2>2 DEF IInv, Kept
  <2> QED
    BY <2>1, <2>3 DEF IInv, HandlesTyped
<1>3. ASSUME NEW h \in Handles, NEW i \in DOMAIN inodes, Open(h, i) PROVE IInv'
  <2>1. UNCHANGED <<inodes, nextIno, saved, want>>
    BY <1>3 DEF Open, store, history, rest
  <2>2. HandlesTyped'
    BY <1>3, FreshHandle DEF Open, IInv, Kept
  <2> QED
    BY <2>1, <2>2 DEF IInv
<1>4. ASSUME NEW h \in DOMAIN open, Write(h) PROVE IInv'
  <2>1. UNCHANGED <<inodes, nextIno, saved, want>>
    BY <1>4 DEF Write, store, history, rest
  <2>2. open[h] \in Handle
    BY DEF IInv, HandlesTyped
  <2>3. DOMAIN open' = DOMAIN open /\ open'[h] \in Handle
        /\ \A g \in DOMAIN open : g # h => open'[g] = open[g]
    BY <1>4, <2>2 DEF Write, Handle
  <2> QED
    BY <2>1, <2>3 DEF IInv, HandlesTyped
<1>5. ASSUME NEW h \in DOMAIN open, Flush(h) \/ Release(h) PROVE IInv'
  <2>1. open[h] \in Handle
    BY DEF IInv, HandlesTyped
  <2>2. UNCHANGED <<nextIno, saved>>
    BY <1>5 DEF Flush, Release, rest
  <2>3. UNCHANGED <<inodes, want>> \/ CommitInode(open[h].ino, open[h].count)
    BY <1>5 DEF Flush, Release
  <2>4. Kept(inodes, want)'
    <3>1. CASE UNCHANGED <<inodes, want>>
      BY <3>1 DEF IInv
    <3>2. CASE CommitInode(open[h].ino, open[h].count)
      <4>1. open[h].count \in Nat
        BY <2>1 DEF Handle
      <4> QED
        BY <3>2, <4>1, CommitKeeps
    <3> QED
      BY <2>3, <3>1, <3>2
  <2>5. HandlesTyped'
    <3>1. CASE Flush(h)
      BY <2>1, <3>1 DEF Flush, Handle, IInv, HandlesTyped
    <3>2. CASE Release(h)
      BY <3>2 DEF Release, Without, IInv, HandlesTyped
    <3> QED
      BY <1>5, <3>1, <3>2
  <2> QED
    BY <2>2, <2>4, <2>5 DEF IInv
<1>6. ASSUME UNCHANGED <<inodes, nextIno, open, saved, want>> PROVE IInv'
  BY <1>6 DEF IInv, HandlesTyped
<1>7. ASSUME NEW i, NEW n, (\E v : SetXattr(i, n, v)) \/ RemoveXattr(i, n) PROVE IInv'
  BY <1>6, <1>7 DEF SetXattr, RemoveXattr, rest
<1>8. CASE Opendir \/ Closedir \/ \E k \in 1 .. Cardinality(Names) : Readdir(k)
  BY <1>6, <1>8 DEF Opendir, Closedir, Readdir, store, history, rest
<1>9. CASE Remount \/ CrashAndMount
  <2>1. DOMAIN open' = {}
    BY <1>9 DEF Remount, CrashAndMount, LoadFromRoot, Empty
  <2>2. CASE Remount
    BY <2>1, <2>2 DEF Remount, LoadFromRoot, RootRecord, IInv, HandlesTyped
  <2>3. CASE CrashAndMount
    BY <2>1, <2>3 DEF CrashAndMount, LoadFromRoot, IInv, HandlesTyped
  <2> QED
    BY <1>9, <2>2, <2>3
<1>10. CASE UNCHANGED vars
  BY <1>6, <1>10 DEF vars, store, history, rest
<1> QED
  BY <1>1, <1>2, <1>3, <1>4, <1>5, <1>7, <1>8, <1>9, <1>10, SetattrStep DEF Next

\* The invariant gives the property.
LEMMA InvGives ==
    IInv => AttributesKept
BY DEF IInv, Kept, Has, AttributesKept, FileAttr

\* Permissions and owner are those asked for last, and the time is the later of
\* the one asked for and the last commit of bytes, whatever writes, flushes,
\* truncations, releases, mounts and crashes come between, each of which loads
\* and stores the whole inode (handle_setattr, test_flush, test_release), for
\* any number of files and handles and any requests.
THEOREM SettingsKept == Spec => []AttributesKept
<1>1. IInv /\ [Next]_vars => IInv'
  BY StepInv
<1> QED
  BY <1>1, InitInv, InvGives, PTL DEF Spec

-----------------------------------------------------------------------------
(* Extended attributes.                                                    *)

\* Attributes and what the cells of an encoded list hold.
Entry == [name : Seq(Nat), value : Seq(Nat)]

\* The cells of one encoded attribute.
LEMMA EncodeCells ==
    ASSUME NEW a \in Entry
    PROVE  LET n == Len(a.name)
               v == Len(a.value)
           IN  /\ EncodeXattr(a) \in Seq(Nat) /\ n \in Nat /\ v \in Nat
               /\ Len(EncodeXattr(a)) = n + v + 2
               /\ EncodeXattr(a)[1] = n /\ EncodeXattr(a)[n + 2] = v
               /\ \A j \in 1 .. n : EncodeXattr(a)[j + 1] = a.name[j]
               /\ \A j \in 1 .. v : EncodeXattr(a)[n + 2 + j] = a.value[j]
<1> DEFINE n == Len(a.name)
           v == Len(a.value)
           x == a.name
           y == a.value
<1>1. x \in Seq(Nat) /\ y \in Seq(Nat) /\ n \in Nat /\ v \in Nat
      /\ Len(x) = n /\ Len(y) = v
  BY DEF Entry
<1>2. EncodeXattr(a) = ((<<n>> \o x) \o <<v>>) \o y
  BY DEF EncodeXattr
<1> HIDE DEF n, v, x, y
<1> DEFINE b == <<n>> \o x
           c == b \o <<v>>
           d == c \o y
<1>3. /\ b \in Seq(Nat) /\ Len(b) = n + 1
      /\ \A i \in 1 .. n + 1 : b[i] = IF i <= 1 THEN <<n>>[i] ELSE x[i - 1]
  <2>1. <<n>> \in Seq(Nat) /\ Len(<<n>>) = 1 /\ 1 + n = n + 1
    BY <1>1
  <2> QED
    BY <1>1, <2>1, ConcatProperties
<1> HIDE DEF b
<1>4. /\ c \in Seq(Nat) /\ Len(c) = n + 2
      /\ \A i \in 1 .. n + 2 : c[i] = IF i <= n + 1 THEN b[i] ELSE <<v>>[i - (n + 1)]
  <2>1. <<v>> \in Seq(Nat) /\ Len(<<v>>) = 1 /\ (n + 1) + 1 = n + 2
    BY <1>1
  <2> QED
    BY <1>3, <2>1, ConcatProperties
<1> HIDE DEF c
<1>5. /\ d \in Seq(Nat) /\ Len(d) = n + v + 2
      /\ \A i \in 1 .. n + v + 2 : d[i] = IF i <= n + 2 THEN c[i] ELSE y[i - (n + 2)]
  <2>1. Len(c) + Len(y) = n + v + 2
    BY <1>1, <1>4
  <2>2. /\ d \in Seq(Nat) /\ Len(d) = Len(c) + Len(y)
        /\ \A i \in 1 .. Len(c) + Len(y) : d[i] = IF i <= Len(c) THEN c[i] ELSE y[i - Len(c)]
    BY <1>1, <1>4, ConcatProperties
  <2> HIDE DEF d
  <2> QED
    BY <1>4, <2>1, <2>2
<1>6. EncodeXattr(a) = d
  BY <1>2 DEF b, c
<1> HIDE DEF d
<1>7. <<n>>[1] = n /\ <<v>>[1] = v
  OBVIOUS
<1>8. d[1] = n
  <2>1. 1 \in 1 .. n + v + 2 /\ 1 \in 1 .. n + 2 /\ 1 \in 1 .. n + 1
        /\ 1 <= n + 2 /\ 1 <= n + 1 /\ 1 <= 1
    BY <1>1
  <2>2. d[1] = c[1] /\ c[1] = b[1] /\ b[1] = <<n>>[1]
    BY <1>3, <1>4, <1>5, <2>1
  <2> QED
    BY <1>7, <2>2
<1>9. d[n + 2] = v
  <2>1. n + 2 \in 1 .. n + v + 2 /\ n + 2 \in 1 .. n + 2 /\ n + 2 <= n + 2
        /\ ~(n + 2 <= n + 1) /\ (n + 2) - (n + 1) = 1
    BY <1>1
  <2>2. d[n + 2] = c[n + 2] /\ c[n + 2] = <<v>>[(n + 2) - (n + 1)]
    BY <1>4, <1>5, <2>1
  <2> QED
    BY <1>7, <2>1, <2>2
<1>10. ASSUME NEW j \in 1 .. n PROVE d[j + 1] = x[j]
  <2>1. j + 1 \in 1 .. n + v + 2 /\ j + 1 \in 1 .. n + 2 /\ j + 1 \in 1 .. n + 1
        /\ j + 1 <= n + 2 /\ j + 1 <= n + 1 /\ ~(j + 1 <= 1) /\ (j + 1) - 1 = j
    BY <1>1
  <2>2. d[j + 1] = c[j + 1] /\ c[j + 1] = b[j + 1] /\ b[j + 1] = x[(j + 1) - 1]
    BY <1>3, <1>4, <1>5, <2>1
  <2> QED
    BY <2>1, <2>2
<1>11. ASSUME NEW j \in 1 .. v PROVE d[n + 2 + j] = y[j]
  <2>1. n + 2 + j \in 1 .. n + v + 2 /\ ~(n + 2 + j <= n + 2) /\ (n + 2 + j) - (n + 2) = j
    BY <1>1
  <2> QED
    BY <1>5, <2>1
<1>12. /\ d \in Seq(Nat) /\ n \in Nat /\ v \in Nat
       /\ Len(d) = n + v + 2 /\ d[1] = n /\ d[n + 2] = v
       /\ \A j \in 1 .. n : d[j + 1] = x[j]
       /\ \A j \in 1 .. v : d[n + 2 + j] = y[j]
  BY <1>1, <1>5, <1>8, <1>9, <1>10, <1>11
<1> QED
  BY <1>6, <1>12 DEF n, v, x, y

\* What deserialize_xattrs does at cell k, given what it does further on.
ParseAt(f, b, k) ==
    IF k > Len(b) THEN <<>>
    ELSE LET v == k + b[k] + 1
         IN  IF v > Len(b) \/ v + b[v] > Len(b) THEN Corrupted
             ELSE LET others == f[v + b[v] + 1]
                  IN  IF others = Corrupted THEN Corrupted
                      ELSE <<[name  |-> SubSeq(b, k + 1, v - 1),
                              value |-> SubSeq(b, v + 1, v + b[v])]>> \o others

\* f is what deserialize_xattrs computes from the cells lo and after.
Parses(f, b, lo) == f = [k \in lo .. Len(b) + 1 |-> ParseAt(f, b, k)]

\* deserialize_xattrs looks further on only.
LEMMA ParseLocal ==
    ASSUME NEW b \in Seq(Nat), NEW k \in 1 .. Len(b) + 1, NEW f, NEW g,
           \A j \in k + 1 .. Len(b) + 1 : f[j] = g[j]
    PROVE  ParseAt(f, b, k) = ParseAt(g, b, k)
<1>1. CASE k > Len(b)
  BY <1>1 DEF ParseAt
<1>2. CASE ~(k > Len(b))
  <2> DEFINE v == k + b[k] + 1
  <2>1. b[k] \in Nat /\ Len(b) \in Nat /\ k \in Nat /\ v \in Nat
    <3>1. k \in 1 .. Len(b)
      BY <1>2
    <3> QED
      BY <3>1
  <2>2. ASSUME ~(v > Len(b)), ~(v + b[v] > Len(b))
        PROVE  f[v + b[v] + 1] = g[v + b[v] + 1]
    <3> HIDE DEF v
    <3>0. v >= k /\ v \in Nat
      BY <2>1 DEF v
    <3>1. v \in 1 .. Len(b)
      BY <2>1, <2>2, <3>0
    <3>2. b[v] \in Nat
      BY <3>1
    <3> DEFINE q == b[v]
    <3>3. q \in Nat /\ ~(v + q > Len(b))
      BY <2>2, <3>2
    <3>4. v + q + 1 \in k + 1 .. Len(b) + 1
      <4> HIDE DEF q
      <4> QED
        BY <2>1, <3>0, <3>3
    <3> QED
      BY <3>4
  <2> QED
    BY <1>2, <2>2, Zenon DEF ParseAt
<1> QED
  BY <1>1, <1>2

\* The recursion of deserialize_xattrs defines a function.
LEMMA ParseExists ==
    ASSUME NEW b \in Seq(Nat)
    PROVE  \E f : Parses(f, b, 1)
<1> DEFINE n == Len(b)
           T == {j \in Nat : j <= n => \E f : Parses(f, b, n + 1 - j)}
<1>0. n \in Nat
  OBVIOUS
<1>1. 0 \in T
  <2> DEFINE f == [k \in n + 1 .. n + 1 |-> <<>>]
  <2>1. \A k \in n + 1 .. n + 1 : ParseAt(f, b, k) = <<>>
    BY <1>0 DEF ParseAt
  <2>2. Parses(f, b, n + 1)
    BY <2>1 DEF Parses
  <2>3. n + 1 - 0 = n + 1
    BY <1>0
  <2> QED
    BY <2>2, <2>3
<1>2. ASSUME NEW j \in T PROVE j + 1 \in T
  <2> SUFFICES ASSUME j + 1 <= n PROVE \E f : Parses(f, b, n + 1 - (j + 1))
    OBVIOUS
  <2> DEFINE lo == n + 1 - j
             k0 == n + 1 - (j + 1)
  <2>1. j \in Nat /\ k0 \in 1 .. n /\ lo = k0 + 1 /\ lo \in 1 .. n + 1
    BY <1>0
  <2>2. PICK f : Parses(f, b, lo)
    BY <1>0, <2>1
  <2> HIDE DEF lo, k0, n, T
  <2> DEFINE g == [k \in k0 .. n + 1 |-> IF k = k0 THEN ParseAt(f, b, k0) ELSE f[k]]
  <2>3. \A k \in lo .. n + 1 : f[k] = ParseAt(f, b, k)
    BY <2>2 DEF Parses, n
  <2>4. \A k \in lo .. n + 1 : g[k] = f[k]
    BY <1>0, <2>1
  <2>5. g[k0] = ParseAt(f, b, k0)
    BY <1>0, <2>1
  <2>6. ASSUME NEW k \in k0 .. n + 1 PROVE ParseAt(g, b, k) = ParseAt(f, b, k)
    <3>1. k \in 1 .. n + 1 /\ \A i \in k + 1 .. n + 1 : i \in lo .. n + 1
      BY <1>0, <2>1
    <3>2. \A i \in k + 1 .. n + 1 : g[i] = f[i]
      BY <2>4, <3>1
    <3> HIDE DEF g
    <3> QED
      BY <3>1, <3>2, ParseLocal DEF n
  <2>7. ASSUME NEW k \in k0 .. n + 1 PROVE g[k] = ParseAt(g, b, k)
    <3>1. k = k0 \/ k \in lo .. n + 1
      BY <1>0, <2>1
    <3> HIDE DEF g
    <3> QED
      BY <2>3, <2>4, <2>5, <2>6, <3>1
  <2>8. g = [k \in k0 .. n + 1 |-> g[k]]
    OBVIOUS
  <2> HIDE DEF g
  <2>9. Parses(g, b, k0)
    BY <2>7, <2>8 DEF Parses, n
  <2> QED
    BY <2>9 DEF k0
<1>3. T \in SUBSET Nat
  OBVIOUS
<1> HIDE DEF T
<1>4. Nat \subseteq T
  BY <1>1, <1>2, <1>3, NatInduct
<1>5. n \in T /\ n + 1 - n = 1
  BY <1>0, <1>4
<1> QED
  BY <1>5 DEF T

\* The value of Deserialize, by its recursion.
LEMMA ParseValue ==
    ASSUME NEW b \in Seq(Nat)
    PROVE  \E f : /\ \A k \in 1 .. Len(b) + 1 : f[k] = ParseAt(f, b, k)
                  /\ Deserialize(b) = f[1]
<1> DEFINE from[k \in 1 .. Len(b) + 1] ==
            IF k > Len(b) THEN <<>>
            ELSE LET v == k + b[k] + 1
                 IN  IF v > Len(b) \/ v + b[v] > Len(b) THEN Corrupted
                     ELSE LET others == from[v + b[v] + 1]
                          IN  IF others = Corrupted THEN Corrupted
                              ELSE <<[name  |-> SubSeq(b, k + 1, v - 1),
                                      value |-> SubSeq(b, v + 1, v + b[v])]>> \o others
<1>1. \E f : Parses(f, b, 1)
  BY ParseExists
<1>2. Parses(from, b, 1)
  BY <1>1, Zenon DEF Parses, ParseAt
<1>3. Deserialize(b) = from[1]
  BY Zenon DEF Deserialize
<1> HIDE DEF from
<1>4. \A k \in 1 .. Len(b) + 1 : from[k] = ParseAt(from, b, k)
  BY <1>2 DEF Parses
<1> QED
  BY <1>3, <1>4

\* A list of attributes is not what Corrupted stands for.
LEMMA NotCorrupted ==
    ASSUME NEW list \in Seq(Entry)
    PROVE  list # Corrupted
<1> SUFFICES ASSUME list = Corrupted PROVE FALSE
  OBVIOUS
<1>1. Len(list) = 1 /\ list[1].name = <<-1>>
  BY DEF Corrupted
<1>2. list[1] \in Entry
  <2>1. 1 \in 1 .. Len(list)
    BY <1>1
  <2>2. \A k \in 1 .. Len(list) : list[k] \in Entry
    BY ElementOfSeq
  <2> QED
    BY <2>1, <2>2
<1>3. <<-1>> \in Seq(Nat) /\ Len(<<-1>>) = 1 /\ <<-1>>[1] = -1
  BY <1>1, <1>2 DEF Entry
<1>4. <<-1>>[1] \in Nat
  BY <1>3
<1> QED
  BY <1>3, <1>4

\* At the cells of an attribute, deserialize_xattrs reads the attribute.
LEMMA ParseCells ==
    ASSUME NEW b \in Seq(Nat), NEW a \in Entry, NEW p \in Nat, NEW f,
           p + Len(EncodeXattr(a)) <= Len(b),
           \A j \in 1 .. Len(EncodeXattr(a)) : b[p + j] = EncodeXattr(a)[j],
           f[p + Len(EncodeXattr(a)) + 1] # Corrupted
    PROVE  ParseAt(f, b, p + 1) = <<a>> \o f[p + Len(EncodeXattr(a)) + 1]
<1> DEFINE n == Len(a.name)
           v == Len(a.value)
           d == EncodeXattr(a)
           k == p + 1
           w == p + n + 2
           e == p + n + v + 2
<1>1. /\ n \in Nat /\ v \in Nat /\ Len(d) = n + v + 2
      /\ d[1] = n /\ d[n + 2] = v
      /\ \A j \in 1 .. n : d[j + 1] = a.name[j]
      /\ \A j \in 1 .. v : d[n + 2 + j] = a.value[j]
  BY EncodeCells
<1>2. a.name \in Seq(Nat) /\ a.value \in Seq(Nat) /\ a = [name |-> a.name, value |-> a.value]
      /\ Len(a.name) = n /\ Len(a.value) = v /\ Len(b) \in Nat
  BY DEF Entry
<1>3. \A j \in 1 .. n + v + 2 : b[p + j] = d[j]
  BY <1>1
<1>f. f[p + Len(d) + 1] # Corrupted /\ p + Len(d) <= Len(b)
  OBVIOUS
<1> HIDE DEF n, v, d
<1> DEFINE m == Len(b)
           len == Len(d)
<1>m. m \in Nat /\ len = n + v + 2 /\ p + len <= m
  BY <1>1, <1>2, <1>f
<1>4. e + 1 = p + len + 1 /\ e <= m /\ w + v = e /\ k + n + 1 = w
      /\ k \in 1 .. m /\ w \in 1 .. m /\ e \in Nat /\ w <= e
  <2>1. n \in Nat /\ v \in Nat
    BY <1>1
  <2> HIDE DEF m, len
  <2> QED
    BY <1>m, <2>1
<1>i. \A q \in 1 .. m : b[q] \in Nat
  BY ElementOfSeq
<1>5. b[k] = n /\ b[w] = v
  <2>1. 1 \in 1 .. n + v + 2 /\ n + 2 \in 1 .. n + v + 2 /\ p + (n + 2) = w
    BY <1>1
  <2> HIDE DEF w
  <2> QED
    BY <1>1, <1>3, <2>1
<1>6. SubSeq(b, k + 1, w - 1) = a.name
  <2> DEFINE c == SubSeq(b, k + 1, w - 1)
  <2>1. k + 1 \in Int /\ w - 1 \in Int /\ (w - 1) - (k + 1) + 1 = n
        /\ (k + 1 <= w - 1 <=> 1 <= n) /\ \A q \in k + 1 .. w - 1 : q \in 1 .. m
    <3> HIDE DEF m
    <3> QED
      BY <1>1, <1>4, <1>m
  <2>2. c \in Seq(Nat) /\ Len(c) = n /\ \A j \in 1 .. n : c[j] = b[(k + 1) + j - 1]
    <3> DEFINE x == k + 1
               y == w - 1
    <3>1. x \in Int /\ y \in Int /\ (\A q \in x .. y : b[q] \in Nat)
          /\ y - x + 1 = n /\ (IF x <= y THEN y - x + 1 ELSE 0) = n
      <4>1. x \in Int /\ y \in Int /\ y - x + 1 = n /\ (x <= y <=> 1 <= n) /\ n \in Nat
            /\ \A q \in x .. y : b[q] \in Nat
        BY <1>1, <1>i, <2>1
      <4> HIDE DEF x, y
      <4> QED
        BY <4>1
    <3> HIDE DEF x, y
    <3>2. SubSeq(b, x, y) \in Seq(Nat) /\ Len(SubSeq(b, x, y)) = n
          /\ \A j \in 1 .. n : SubSeq(b, x, y)[j] = b[x + j - 1]
      BY <3>1, SubSeqProperties
    <3> QED
      BY <3>2 DEF x, y
  <2>3. ASSUME NEW j \in 1 .. n PROVE c[j] = a.name[j]
    <3>1. (k + 1) + j - 1 = p + (j + 1) /\ j + 1 \in 1 .. n + v + 2
      BY <1>1
    <3>2. b[p + (j + 1)] = d[j + 1] /\ d[j + 1] = a.name[j]
      BY <1>1, <1>3, <3>1
    <3> HIDE DEF c, k
    <3> QED
      BY <2>2, <3>1, <3>2
  <2> HIDE DEF c
  <2> QED
    BY <1>2, <2>2, <2>3, SeqEqual DEF c
<1>7. SubSeq(b, w + 1, w + v) = a.value
  <2> DEFINE c == SubSeq(b, w + 1, w + v)
  <2>1. w + 1 \in Int /\ w + v \in Int /\ (w + v) - (w + 1) + 1 = v
        /\ (w + 1 <= w + v <=> 1 <= v) /\ \A q \in w + 1 .. w + v : q \in 1 .. m
    <3>1. w \in Nat /\ w + v <= m /\ v \in Nat /\ m \in Nat
      BY <1>1, <1>4, <1>m
    <3> HIDE DEF m, w
    <3> QED
      BY <3>1
  <2>2. c \in Seq(Nat) /\ Len(c) = v /\ \A j \in 1 .. v : c[j] = b[(w + 1) + j - 1]
    <3> DEFINE x == w + 1
               y == w + v
    <3>1. x \in Int /\ y \in Int /\ (\A q \in x .. y : b[q] \in Nat)
          /\ y - x + 1 = v /\ (IF x <= y THEN y - x + 1 ELSE 0) = v
      <4>1. x \in Int /\ y \in Int /\ y - x + 1 = v /\ (x <= y <=> 1 <= v) /\ v \in Nat
            /\ \A q \in x .. y : b[q] \in Nat
        BY <1>1, <1>i, <2>1
      <4> HIDE DEF x, y
      <4> QED
        BY <4>1
    <3> HIDE DEF x, y
    <3>2. SubSeq(b, x, y) \in Seq(Nat) /\ Len(SubSeq(b, x, y)) = v
          /\ \A j \in 1 .. v : SubSeq(b, x, y)[j] = b[x + j - 1]
      BY <3>1, SubSeqProperties
    <3> QED
      BY <3>2 DEF x, y
  <2>3. ASSUME NEW j \in 1 .. v PROVE c[j] = a.value[j]
    <3>1. (w + 1) + j - 1 = p + (n + 2 + j) /\ n + 2 + j \in 1 .. n + v + 2
      BY <1>1
    <3>2. b[p + (n + 2 + j)] = d[n + 2 + j] /\ d[n + 2 + j] = a.value[j]
      BY <1>1, <1>3, <3>1
    <3> HIDE DEF c, w
    <3> QED
      BY <2>2, <3>1, <3>2
  <2> HIDE DEF c
  <2> QED
    BY <1>2, <2>2, <2>3, SeqEqual DEF c
<1>8. ~(k > Len(b)) /\ ~(w > Len(b)) /\ ~(e > Len(b))
  <2>1. ~(k > m) /\ ~(w > m) /\ ~(e > m)
    <3> HIDE DEF m, k, w, e
    <3> QED
      BY <1>4, <1>m
  <2> QED
    BY <2>1
<1>9. k + b[k] + 1 = w /\ w + b[w] = e
  BY <1>4, <1>5
<1>10. f[e + 1] # Corrupted /\ SubSeq(b, w + 1, e) = a.value
  BY <1>4, <1>7, <1>f
<1> HIDE DEF k, w, e
<1>11. ParseAt(f, b, k) = <<[name |-> a.name, value |-> a.value]>> \o f[e + 1]
  BY <1>6, <1>8, <1>9, <1>10 DEF ParseAt
<1>12. ParseAt(f, b, k) = <<a>> \o f[p + Len(d) + 1]
  BY <1>2, <1>4, <1>11
<1> QED
  BY <1>12 DEF k, d

\* deserialize_xattrs reads what serialize_xattrs wrote.
LEMMA RoundTrip ==
    ASSUME NEW list \in Seq(Entry)
    PROVE  Serialize(list) \in Seq(Nat) /\ Deserialize(Serialize(list)) = list
<1> DEFINE n == Len(list)
           cells == [k \in DOMAIN list |-> EncodeXattr(list[k])]
           b == Serialize(list)
<1>1. n \in Nat /\ DOMAIN list = 1 .. n /\ \A k \in 1 .. n : list[k] \in Entry
  OBVIOUS
<1>2. cells \in Seq(Seq(Nat)) /\ Len(cells) = n /\ \A k \in 1 .. n : cells[k] = EncodeXattr(list[k])
  <2>1. \A k \in 1 .. n : EncodeXattr(list[k]) \in Seq(Nat)
    BY <1>1, EncodeCells
  <2> HIDE DEF n
  <2>2. cells = [k \in 1 .. n |-> EncodeXattr(list[k])]
    BY <1>1
  <2> QED
    BY <1>1, <2>1, <2>2
<1>3. b = FlattenSeq(cells)
  BY DEF Serialize
<1> HIDE DEF cells, b
<1>4. b \in Seq(Nat)
  BY <1>2, <1>3, FlattenCells
<1>5. PICK ends : Cells(cells, b, ends)
  BY <1>2, <1>3, FlattenCells
<1>6. PICK f : (\A k \in 1 .. Len(b) + 1 : f[k] = ParseAt(f, b, k)) /\ Deserialize(b) = f[1]
  BY <1>4, ParseValue
<1>n. Len(list) = n
  OBVIOUS
<1> HIDE DEF n
<1>7. /\ ends \in [0 .. n -> Nat] /\ ends[0] = 0 /\ ends[n] = Len(b)
      /\ \A i \in 1 .. n :
            /\ ends[i] = ends[i - 1] + Len(cells[i]) /\ ends[i] <= Len(b)
            /\ \A j \in 1 .. Len(cells[i]) : b[ends[i - 1] + j] = cells[i][j]
  BY <1>2, <1>5 DEF Cells
<1> DEFINE T == {j \in Nat : j <= n => f[ends[n - j] + 1] = SubSeq(list, n - j + 1, n)}
<1>8. 0 \in T
  <2>1. n - 0 = n /\ ends[n] + 1 = Len(b) + 1 /\ Len(b) \in Nat
    BY <1>1, <1>4, <1>7
  <2>2. Len(b) + 1 \in 1 .. Len(b) + 1 /\ Len(b) + 1 > Len(b)
    BY <2>1
  <2>3. f[Len(b) + 1] = <<>>
    BY <1>6, <2>2 DEF ParseAt
  <2>4. SubSeq(list, n + 1, n) = <<>>
    BY <1>1, SubSeqEmpty
  <2> QED
    BY <2>1, <2>3, <2>4
<1>9. ASSUME NEW j \in T PROVE j + 1 \in T
  <2> SUFFICES ASSUME j + 1 <= n
               PROVE  f[ends[n - (j + 1)] + 1] = SubSeq(list, n - (j + 1) + 1, n)
    OBVIOUS
  <2> DEFINE i == n - j
             rest1 == SubSeq(list, i + 1, n)
  <2>1. j \in Nat /\ i \in 1 .. n /\ n - (j + 1) = i - 1 /\ n - (j + 1) + 1 = i /\ j <= n
        /\ i \in 0 .. n /\ i - 1 \in 0 .. n
    BY <1>1
  <2>2. f[ends[i] + 1] = rest1
    BY <2>1
  <2> HIDE DEF i, T
  <2> DEFINE a == list[i]
             p == ends[i - 1]
  <2>3. a \in Entry /\ p \in Nat /\ cells[i] = EncodeXattr(a)
    BY <1>1, <1>2, <1>7, <2>1
  <2>4. ends[i] = p + Len(EncodeXattr(a)) /\ p + Len(EncodeXattr(a)) <= Len(b)
        /\ \A q \in 1 .. Len(EncodeXattr(a)) : b[p + q] = EncodeXattr(a)[q]
    BY <1>7, <2>1, <2>3
  <2>5. rest1 \in Seq(Entry)
    BY <1>1, <2>1
  <2>6. f[p + Len(EncodeXattr(a)) + 1] # Corrupted
        /\ f[p + Len(EncodeXattr(a)) + 1] = rest1
    BY <2>2, <2>4, <2>5, NotCorrupted
  <2> HIDE DEF a, p, rest1
  <2>7. ParseAt(f, b, p + 1) = <<a>> \o rest1
    BY <1>4, <2>3, <2>4, <2>6, ParseCells
  <2>8. p + 1 \in 1 .. Len(b) + 1
    <3>1. Len(EncodeXattr(a)) \in Nat /\ Len(b) \in Nat
      BY <1>4, <2>3, EncodeCells
    <3> QED
      BY <2>3, <2>4, <3>1
  <2>9. f[p + 1] = <<a>> \o rest1
    BY <1>6, <2>7, <2>8
  <2>10. <<a>> \o rest1 = SubSeq(list, i, n)
    <3>1. i \in 1 .. Len(list) /\ n \in i .. Len(list)
      BY <1>1, <1>n, <2>1
    <3> QED
      BY <3>1, SubSeqRecursiveFirst DEF a, rest1
  <2> QED
    BY <2>1, <2>9, <2>10 DEF p
<1>10. T \in SUBSET Nat
  OBVIOUS
<1> HIDE DEF T
<1>11. Nat \subseteq T
  BY <1>8, <1>9, <1>10, NatInduct
<1>12. f[ends[n - n] + 1] = SubSeq(list, n - n + 1, n)
  <2>1. n \in T /\ n <= n
    BY <1>1, <1>11
  <2> QED
    BY <2>1 DEF T
<1>13. n - n = 0 /\ 0 + 1 = 1
  BY <1>1
<1>14. f[1] = SubSeq(list, 1, n)
  BY <1>7, <1>12, <1>13
<1>15. SubSeq(list, 1, n) = list
  BY <1>n, SubSeqFull
<1> QED
  BY <1>4, <1>6, <1>14, <1>15 DEF b

\* A list holds the attributes of w, each once.
Holds(list, w) ==
    /\ list \in Seq(Entry)
    /\ \A j, k \in 1 .. Len(list) : list[j].name = list[k].name => j = k
    /\ \A k \in 1 .. Len(list) : list[k].name \in DOMAIN w /\ w[list[k].name] = list[k].value
    /\ \A n \in DOMAIN w : \E k \in 1 .. Len(list) : list[k].name = n

\* set_xattr_entry sets one attribute of the map.
LEMMA SetHolds ==
    ASSUME NEW list, NEW w, Holds(list, w), NEW n \in Seq(Nat), NEW v \in Seq(Nat)
    PROVE  Holds(SetXattrEntry(list, n, v), With(w, n, v))
<1> DEFINE z == Len(list)
           a == [name |-> n, value |-> v]
           u == With(w, n, v)
           found == {k \in DOMAIN list : list[k].name = n}
           new == SetXattrEntry(list, n, v)
<1>1. /\ list \in Seq(Entry) /\ z \in Nat /\ DOMAIN list = 1 .. z /\ Len(list) = z
      /\ \A k \in 1 .. z : list[k] \in Entry
      /\ \A j, k \in 1 .. z : list[j].name = list[k].name => j = k
      /\ \A k \in 1 .. z : list[k].name \in DOMAIN w /\ w[list[k].name] = list[k].value
      /\ \A m \in DOMAIN w : \E k \in 1 .. z : list[k].name = m
  BY DEF Holds
<1>2. DOMAIN u = DOMAIN w \cup {n} /\ u[n] = v /\ \A m \in DOMAIN w : m # n => u[m] = w[m]
  BY DEF With
<1>3. a \in Entry /\ a.name = n /\ a.value = v
  BY DEF Entry
<1> HIDE DEF z, a, u
<1>4. CASE found = {}
  <2>1. new = Append(list, a)
    BY <1>4 DEF SetXattrEntry, a
  <2>2. /\ new \in Seq(Entry) /\ Len(new) = z + 1 /\ new[z + 1] = a
        /\ \A k \in 1 .. z : new[k] = list[k]
    BY <1>1, <1>3, <2>1, AppendProperties
  <2>3. \A k \in 1 .. z : list[k].name # n
    BY <1>1, <1>4
  <2>4. \A k \in 1 .. z + 1 : k \in 1 .. z \/ k = z + 1
    BY <1>1
  <2>5. \A k \in 1 .. z : k \in 1 .. z + 1
    BY <1>1
  <2>6. z + 1 \in 1 .. z + 1
    BY <1>1
  <2> HIDE DEF new, found
  <2>n. /\ \A k \in 1 .. z : new[k].name = list[k].name /\ new[k].value = list[k].value
        /\ new[z + 1].name = n /\ new[z + 1].value = v
    BY <1>3, <2>2
  <2>7. ASSUME NEW j \in 1 .. z + 1, NEW k \in 1 .. z + 1, new[j].name = new[k].name
        PROVE  j = k
    <3>1. CASE j \in 1 .. z /\ k \in 1 .. z
      BY <1>1, <2>7, <2>n, <3>1
    <3>2. CASE ~(j \in 1 .. z /\ k \in 1 .. z)
      BY <2>3, <2>4, <2>7, <2>n, <3>2
    <3> QED
      BY <3>1, <3>2
  <2>8. ASSUME NEW k \in 1 .. z + 1
        PROVE  new[k].name \in DOMAIN u /\ u[new[k].name] = new[k].value
    <3>1. CASE k \in 1 .. z
      <4>1. list[k].name \in DOMAIN w /\ w[list[k].name] = list[k].value /\ list[k].name # n
        BY <1>1, <2>3, <3>1
      <4> QED
        BY <1>2, <2>n, <3>1, <4>1
    <3>2. CASE k = z + 1
      BY <1>2, <2>n, <3>2
    <3> QED
      BY <2>4, <3>1, <3>2
  <2>9. ASSUME NEW m \in DOMAIN u PROVE \E k \in 1 .. z + 1 : new[k].name = m
    <3>1. CASE m = n
      BY <2>6, <2>n, <3>1
    <3>2. CASE m # n
      <4>1. PICK k \in 1 .. z : list[k].name = m
        BY <1>1, <1>2, <3>2
      <4> QED
        BY <2>5, <2>n, <4>1
    <3> QED
      BY <3>1, <3>2
  <2>10. Holds(new, u)
    BY <2>2, <2>7, <2>8, <2>9 DEF Holds
  <2> QED
    BY <2>10 DEF new, u
<1>5. CASE found # {}
  <2>1. PICK k0 \in 1 .. z : list[k0].name = n
    BY <1>1, <1>5
  <2>2. found = {k0}
    <3>1. \A k \in 1 .. z : list[k].name = n => k = k0
      BY <1>1, <2>1
    <3> QED
      BY <1>1, <2>1, <3>1
  <2>3. k0 \in Nat /\ k0 <= k0
    BY <2>1
  <2>4. (CHOOSE k \in found : \A j \in found : k <= j) = k0
    BY <2>2, <2>3
  <2>5. new = [list EXCEPT ![k0].value = v]
    BY <1>5, <2>4 DEF SetXattrEntry
  <2>6. list[k0] = [name |-> n, value |-> list[k0].value]
    BY <1>1, <2>1 DEF Entry
  <2>7. [list[k0] EXCEPT !.value = v] = a
    BY <2>6 DEF a
  <2>8. new = [list EXCEPT ![k0] = a]
    BY <1>1, <2>5, <2>7
  <2> HIDE DEF new, found
  <2>9. /\ new \in Seq(Entry) /\ Len(new) = z /\ new[k0] = a
        /\ \A k \in 1 .. z : k # k0 => new[k] = list[k]
    <3>1. new = [k \in 1 .. z |-> IF k = k0 THEN a ELSE list[k]]
      BY <1>1, <2>8
    <3>2. \A k \in 1 .. z : (IF k = k0 THEN a ELSE list[k]) \in Entry
      BY <1>1, <1>3
    <3>z. z \in Nat
      BY <1>1
    <3>3. new \in Seq(Entry) /\ Len(new) = z
      BY <3>1, <3>2, <3>z
    <3> QED
      BY <2>1, <3>1, <3>3
  <2>10. \A k \in 1 .. z : new[k].name = list[k].name
    BY <1>3, <2>1, <2>9
  <2>11. \A k \in 1 .. z : k # k0 => list[k].name # n
    BY <1>1, <2>1
  <2>12. ASSUME NEW k \in 1 .. z
         PROVE  new[k].name \in DOMAIN u /\ u[new[k].name] = new[k].value
    <3>1. CASE k = k0
      BY <1>2, <1>3, <2>9, <3>1
    <3>2. CASE k # k0
      <4>1. list[k].name \in DOMAIN w /\ w[list[k].name] = list[k].value /\ list[k].name # n
            /\ new[k] = list[k]
        BY <1>1, <2>9, <2>11, <3>2
      <4> QED
        BY <1>2, <4>1
    <3> QED
      BY <3>1, <3>2
  <2>13. ASSUME NEW m \in DOMAIN u PROVE \E k \in 1 .. z : new[k].name = m
    <3>1. \E k \in 1 .. z : list[k].name = m
      BY <1>1, <1>2, <2>1
    <3> QED
      BY <2>10, <3>1
  <2>14. Holds(new, u)
    BY <1>1, <2>9, <2>10, <2>12, <2>13 DEF Holds
  <2> QED
    BY <2>14 DEF new, u
<1> QED
  BY <1>4, <1>5

\* remove_xattr_entry takes one attribute off the map.
LEMMA RemoveHolds ==
    ASSUME NEW list, NEW w, Holds(list, w), NEW n
    PROVE  Holds(RemoveXattrEntry(list, n), Without(w, n))
<1> DEFINE z == Len(list)
           u == Without(w, n)
           kept == [k \in DOMAIN list |-> IF list[k].name = n THEN <<>> ELSE <<list[k]>>]
           new == RemoveXattrEntry(list, n)
<1>1. /\ list \in Seq(Entry) /\ z \in Nat /\ DOMAIN list = 1 .. z /\ Len(list) = z
      /\ \A k \in 1 .. z : list[k] \in Entry
      /\ \A j, k \in 1 .. z : list[j].name = list[k].name => j = k
      /\ \A k \in 1 .. z : list[k].name \in DOMAIN w /\ w[list[k].name] = list[k].value
      /\ \A m \in DOMAIN w : \E k \in 1 .. z : list[k].name = m
  BY DEF Holds
<1>2. DOMAIN u = DOMAIN w \ {n} /\ \A m \in DOMAIN w : m # n => u[m] = w[m]
  BY DEF Without
<1> HIDE DEF z, u
<1>3. /\ kept \in Seq(Seq(Entry)) /\ Len(kept) = z
      /\ \A k \in 1 .. z : kept[k] = IF list[k].name = n THEN <<>> ELSE <<list[k]>>
  <2>1. kept = [k \in 1 .. z |-> IF list[k].name = n THEN <<>> ELSE <<list[k]>>]
    BY <1>1
  <2>2. \A k \in 1 .. z : (IF list[k].name = n THEN <<>> ELSE <<list[k]>>) \in Seq(Entry)
    BY <1>1
  <2> HIDE DEF kept
  <2> QED
    BY <1>1, <2>1, <2>2
<1>4. new = FlattenSeq(kept)
  BY DEF RemoveXattrEntry
<1> HIDE DEF kept, new
<1>5. new \in Seq(Entry)
  BY <1>3, <1>4, FlattenCells
<1>6. PICK ends : Cells(kept, new, ends)
  BY <1>3, <1>4, FlattenCells
<1>7. /\ ends \in [0 .. z -> Nat]
      /\ \A i \in 1 .. z :
            /\ ends[i] = ends[i - 1] + Len(kept[i]) /\ ends[i] <= Len(new)
            /\ \A j \in 1 .. Len(kept[i]) : new[ends[i - 1] + j] = kept[i][j]
      /\ \A p \in 1 .. Len(new) : \E i \in 1 .. z : ends[i - 1] < p /\ p <= ends[i]
  BY <1>3, <1>6 DEF Cells
<1>8. \A i \in 1 .. z : ends[i] \in Nat /\ ends[i - 1] \in Nat
  <2>1. \A i \in 1 .. z : i \in 0 .. z /\ i - 1 \in 0 .. z
    BY <1>1
  <2> QED
    BY <1>7, <2>1
<1>9. ASSUME NEW i \in 1 .. z, list[i].name # n
      PROVE  ends[i] \in 1 .. Len(new) /\ new[ends[i]] = list[i] /\ ends[i] = ends[i - 1] + 1
  <2>1. kept[i] = <<list[i]>> /\ Len(<<list[i]>>) = 1 /\ <<list[i]>>[1] = list[i]
    BY <1>3, <1>9
  <2>2. ends[i] = ends[i - 1] + 1 /\ ends[i] <= Len(new) /\ new[ends[i - 1] + 1] = list[i]
    <3>1. ends[i] = ends[i - 1] + Len(kept[i]) /\ ends[i] <= Len(new)
          /\ \A j \in 1 .. Len(kept[i]) : new[ends[i - 1] + j] = kept[i][j]
      BY <1>7
    <3>2. Len(kept[i]) = 1 /\ kept[i][1] = list[i] /\ 1 \in 1 .. 1
      BY <2>1
    <3> QED
      BY <3>1, <3>2
  <2>3. Len(new) \in Nat
    BY <1>5
  <2> QED
    BY <1>8, <2>2, <2>3
<1>10. ASSUME NEW i \in 1 .. z, list[i].name = n PROVE ends[i] = ends[i - 1]
  <2>1. kept[i] = <<>> /\ Len(<<>>) = 0
    BY <1>3, <1>10
  <2> QED
    BY <1>7, <1>8, <2>1
<1>11. ASSUME NEW p \in 1 .. Len(new)
       PROVE  \E i \in 1 .. z : p = ends[i] /\ new[p] = list[i] /\ list[i].name # n
  <2>1. PICK i \in 1 .. z : ends[i - 1] < p /\ p <= ends[i]
    BY <1>7
  <2>2. ends[i] \in Nat /\ ends[i - 1] \in Nat /\ p \in Nat
    BY <1>8
  <2>3. list[i].name # n
    BY <1>10, <2>1, <2>2
  <2>4. p = ends[i]
    BY <1>9, <2>1, <2>2, <2>3
  <2> QED
    BY <1>9, <2>3, <2>4
<1>12. ASSUME NEW p \in 1 .. Len(new), NEW q \in 1 .. Len(new), new[p].name = new[q].name
       PROVE  p = q
  <2>1. PICK i \in 1 .. z : p = ends[i] /\ new[p] = list[i]
    BY <1>11
  <2>2. PICK j \in 1 .. z : q = ends[j] /\ new[q] = list[j]
    BY <1>11
  <2>3. i = j
    BY <1>1, <1>12, <2>1, <2>2
  <2> QED
    BY <2>1, <2>2, <2>3
<1>13. ASSUME NEW p \in 1 .. Len(new)
       PROVE  new[p].name \in DOMAIN u /\ u[new[p].name] = new[p].value
  BY <1>1, <1>2, <1>11
<1>14. ASSUME NEW m \in DOMAIN u PROVE \E p \in 1 .. Len(new) : new[p].name = m
  <2>1. PICK k \in 1 .. z : list[k].name = m /\ m # n
    BY <1>1, <1>2
  <2> QED
    BY <1>9, <2>1
<1>15. Holds(new, u)
  BY <1>5, <1>12, <1>13, <1>14 DEF Holds
<1> QED
  BY <1>15 DEF new, u

\* What load_xattrs reads for a file.
Loaded(xs, i) == IF i \in DOMAIN xs THEN Deserialize(xs[i]) ELSE <<>>

\* Every file has a list with the attributes asked for.  The lists of deleted
\* files stay, under numbers that are not given out again.
XattrsOK(is, xs, xw, next) ==
    /\ DOMAIN xw = DOMAIN is
    /\ DOMAIN xs \subseteq 2 .. next - 1
    /\ \A i \in DOMAIN is : Holds(Loaded(xs, i), xw[i])

\* The same for the files of the last commit, which a mount reads.
XattrInv ==
    /\ TypeInv
    /\ XattrsOK(inodes, xattrs, xwant, nextIno)
    /\ XattrsOK(saved.inodes, saved.xattrs, saved.xwant, saved.nextIno)

\* A list that is stored is the list that is loaded.
LEMMA StoredXattrs ==
    ASSUME XattrsOK(inodes, xattrs, xwant, nextIno), NEW i \in DOMAIN inodes,
           DOMAIN inodes \subseteq 2 .. nextIno - 1,
           NEW list, NEW w, Holds(list, w),
           xattrs' = With(xattrs, i, Serialize(list)),
           xwant' = [xwant EXCEPT ![i] = w]
    PROVE  XattrsOK(inodes, xattrs', xwant', nextIno)
<1>1. Deserialize(Serialize(list)) = list
  BY RoundTrip DEF Holds
<1>2. DOMAIN xattrs' = DOMAIN xattrs \cup {i} /\ xattrs'[i] = Serialize(list)
      /\ \A j \in DOMAIN xattrs : j # i => xattrs'[j] = xattrs[j]
  BY DEF With
<1>3. DOMAIN xwant' = DOMAIN inodes /\ xwant'[i] = w
      /\ \A j \in DOMAIN inodes : j # i => xwant'[j] = xwant[j]
  BY DEF XattrsOK
<1>4. Loaded(xattrs', i) = list
  BY <1>1, <1>2 DEF Loaded
<1>5. \A j \in DOMAIN inodes : j # i => Loaded(xattrs', j) = Loaded(xattrs, j)
  BY <1>2 DEF Loaded
<1>6. ASSUME NEW j \in DOMAIN inodes PROVE Holds(Loaded(xattrs', j), xwant'[j])
  BY <1>3, <1>4, <1>5 DEF XattrsOK
<1>7. DOMAIN xattrs' \subseteq 2 .. nextIno - 1
  BY <1>2 DEF XattrsOK
<1> QED
  BY <1>3, <1>6, <1>7 DEF XattrsOK

\* Every step keeps the lists and the attributes asked for together.
LEMMA XattrNext ==
    ASSUME XattrInv, [Next]_vars
    PROVE  XattrInv'
<1>0. /\ TypeInv' /\ TypeInv
      /\ XattrsOK(inodes, xattrs, xwant, nextIno)
      /\ XattrsOK(saved.inodes, saved.xattrs, saved.xwant, saved.nextIno)
  BY TypeNext DEF XattrInv
<1>1. nextIno \in Nat /\ DOMAIN inodes \subseteq 2 .. nextIno - 1
  BY <1>0 DEF TypeInv, StoreOK
<1>2. ASSUME DOMAIN inodes' = DOMAIN inodes, UNCHANGED <<xattrs, xwant, nextIno, saved>>
      PROVE  XattrInv'
  BY <1>0, <1>2 DEF XattrInv, XattrsOK
<1>3. ASSUME NEW n, NEW m, MakeNode(n, m) PROVE XattrInv'
  <2>1. nextIno' = nextIno + 1 /\ UNCHANGED <<xattrs, saved>>
    BY <1>3 DEF MakeNode, rest
  <2>2. DOMAIN xattrs \subseteq 2 .. (nextIno + 1) - 1
    BY <1>0, <1>1 DEF XattrsOK
  <2>3. CASE n \in DOMAIN entries
    <3>1. UNCHANGED <<inodes, xwant>>
      BY <1>3, <2>3 DEF MakeNode
    <3> QED
      BY <1>0, <2>1, <2>2, <3>1 DEF XattrInv, XattrsOK
  <2>4. CASE n \notin DOMAIN entries
    <3>1. inodes' = With(inodes, nextIno, m) /\ xwant' = With(xwant, nextIno, Empty)
      BY <1>3, <2>4 DEF MakeNode
    <3>2. nextIno \notin DOMAIN xattrs /\ nextIno \notin DOMAIN inodes
      BY <1>0, <1>1 DEF XattrsOK
    <3>3. Holds(<<>>, Empty)
      BY DEF Holds, Empty
    <3>4. Holds(Loaded(xattrs, nextIno), xwant'[nextIno])
      BY <3>1, <3>2, <3>3 DEF Loaded, With
    <3>5. DOMAIN inodes' = DOMAIN inodes \cup {nextIno} /\ DOMAIN xwant' = DOMAIN inodes'
          /\ \A j \in DOMAIN inodes : xwant'[j] = xwant[j]
      BY <1>0, <3>1, <3>2 DEF With, XattrsOK
    <3>6. \A j \in DOMAIN inodes' : Holds(Loaded(xattrs, j), xwant'[j])
      BY <1>0, <3>4, <3>5 DEF XattrsOK
    <3> QED
      BY <1>0, <2>1, <2>2, <3>5, <3>6 DEF XattrInv, XattrsOK
  <2> QED
    BY <2>3, <2>4
<1>4. ASSUME NEW n \in workload.names,
             \/ Mknod(n, Bits, Creator) \/ Mkdir(n, Bits, Creator)
             \/ \E target \in 1 .. MaxSize : Symlink(n, Creator, target)
             \/ \E h \in Handles : Create(n, Bits, Creator, h)
      PROVE  XattrInv'
  BY <1>3, <1>4 DEF Mknod, Mkdir, Symlink, Create
<1>5. ASSUME NEW n \in Names, Unlink(n) PROVE XattrInv'
  <2>1. /\ inodes' = Without(inodes, entries[n]) /\ xwant' = Without(xwant, entries[n])
        /\ UNCHANGED <<xattrs, nextIno, saved>>
    BY <1>5 DEF Unlink, DeleteInode, rest
  <2>2. DOMAIN inodes' \subseteq DOMAIN inodes /\ DOMAIN xwant' = DOMAIN inodes'
        /\ \A j \in DOMAIN inodes' : xwant'[j] = xwant[j]
    BY <1>0, <2>1 DEF Without, XattrsOK
  <2> QED
    BY <1>0, <2>1, <2>2 DEF XattrInv, XattrsOK
<1>6. ASSUME NEW h \in DOMAIN open, Write(h) \/ Flush(h) \/ Release(h) PROVE XattrInv'
  <2>1. UNCHANGED <<xattrs, xwant, nextIno, saved>>
    BY <1>6 DEF Write, Flush, Release, store, history, rest
  <2>2. DOMAIN inodes' = DOMAIN inodes
    BY <1>6 DEF Write, Flush, Release, CommitInode, UpdateInode, store
  <2> QED
    BY <1>2, <2>1, <2>2
<1>7. ASSUME NEW i \in DOMAIN inodes, NEW mode, NEW uid, NEW mtime, NEW size, NEW fh,
             Setattr(i, mode, uid, mtime, size, fh)
      PROVE  XattrInv'
  <2>1. UNCHANGED <<xattrs, xwant, nextIno, saved>>
    BY <1>7, Zenon DEF Setattr, rest
  <2>2. \E m : UpdateInode(i, m)
    BY <1>7, Zenon DEF Setattr
  <2>3. DOMAIN inodes' = DOMAIN inodes
    BY <2>2 DEF UpdateInode
  <2> QED
    BY <1>2, <2>1, <2>3
<1>8. ASSUME NEW h, NEW i, Open(h, i) PROVE XattrInv'
  BY <1>2, <1>8 DEF Open, store, history, rest
<1>9. ASSUME NEW i \in DOMAIN inodes, NEW n \in XNames, NEW v \in XValues, SetXattr(i, n, v)
      PROVE  XattrInv'
  <2> DEFINE list == SetXattrEntry(LoadXattrs(i), n, v)
             w == With(xwant[i], n, v)
  <2>1. /\ xattrs' = With(xattrs, i, Serialize(list)) /\ xwant' = [xwant EXCEPT ![i] = w]
        /\ UNCHANGED <<inodes, nextIno, saved>>
    BY <1>9 DEF SetXattr, rest
  <2>2. n \in Seq(Nat) /\ v \in Seq(Nat) /\ Holds(LoadXattrs(i), xwant[i])
    BY <1>0, ConstantsAssumption DEF XattrsOK, Loaded, LoadXattrs
  <2>3. Holds(list, w)
    BY <2>2, SetHolds
  <2> HIDE DEF list, w
  <2>4. XattrsOK(inodes, xattrs', xwant', nextIno)
    BY <1>0, <1>1, <2>1, <2>3, StoredXattrs
  <2> QED
    BY <1>0, <2>1, <2>4 DEF XattrInv
<1>10. ASSUME NEW i \in DOMAIN inodes, NEW n \in XNames, RemoveXattr(i, n) PROVE XattrInv'
  <2> DEFINE list == RemoveXattrEntry(LoadXattrs(i), n)
             w == Without(xwant[i], n)
  <2>1. /\ xattrs' = With(xattrs, i, Serialize(list)) /\ xwant' = [xwant EXCEPT ![i] = w]
        /\ UNCHANGED <<inodes, nextIno, saved>>
    BY <1>10 DEF RemoveXattr, rest
  <2>2. Holds(LoadXattrs(i), xwant[i])
    BY <1>0 DEF XattrsOK, Loaded, LoadXattrs
  <2>3. Holds(list, w)
    BY <2>2, RemoveHolds
  <2> HIDE DEF list, w
  <2>4. XattrsOK(inodes, xattrs', xwant', nextIno)
    BY <1>0, <1>1, <2>1, <2>3, StoredXattrs
  <2> QED
    BY <1>0, <2>1, <2>4 DEF XattrInv
<1>11. CASE Opendir \/ Closedir \/ \E k \in 1 .. Cardinality(Names) : Readdir(k)
  BY <1>2, <1>11 DEF Opendir, Closedir, Readdir, store, history, rest
<1>12. CASE Remount
  <2>1. UNCHANGED <<inodes, xattrs, nextIno, xwant>> /\ saved' = RootRecord
    BY <1>12 DEF Remount, LoadFromRoot, RootRecord
  <2>2. /\ RootRecord.inodes = inodes /\ RootRecord.xattrs = xattrs
        /\ RootRecord.xwant = xwant /\ RootRecord.nextIno = nextIno
    BY DEF RootRecord
  <2> QED
    BY <1>0, <2>1, <2>2 DEF XattrInv
<1>13. CASE CrashAndMount
  <2>1. /\ inodes' = saved.inodes /\ xattrs' = saved.xattrs /\ nextIno' = saved.nextIno
        /\ xwant' = saved.xwant /\ saved' = saved
    BY <1>13 DEF CrashAndMount, LoadFromRoot
  <2> QED
    BY <1>0, <2>1 DEF XattrInv
<1>14. CASE UNCHANGED vars
  BY <1>2, <1>14 DEF vars, store, history, rest
<1> QED
  BY <1>4, <1>5, <1>6, <1>7, <1>8, <1>9, <1>10, <1>11, <1>12, <1>13, <1>14 DEF Next

\* A list that holds the attributes answers as a map.
LEMMA HoldsAnswers ==
    ASSUME NEW i, Holds(LoadXattrs(i), xwant[i])
    PROVE  /\ LoadXattrs(i) # Corrupted
           /\ \A n : GetXattr(i, n) = {xwant[i][m] : m \in DOMAIN xwant[i] \cap {n}}
           /\ IsInjective(ListXattrs(i)) /\ ToSet(ListXattrs(i)) = DOMAIN xwant[i]
<1> DEFINE list == LoadXattrs(i)
           w == xwant[i]
           z == Len(list)
           names == ListXattrs(i)
<1>1. /\ list \in Seq(Entry) /\ z \in Nat /\ DOMAIN list = 1 .. z
      /\ \A j, k \in 1 .. z : list[j].name = list[k].name => j = k
      /\ \A k \in 1 .. z : list[k].name \in DOMAIN w /\ w[list[k].name] = list[k].value
      /\ \A m \in DOMAIN w : \E k \in 1 .. z : list[k].name = m
  BY DEF Holds
<1>2. names = [k \in DOMAIN list |-> list[k].name]
  BY DEF ListXattrs
<1>3. LoadXattrs(i) # Corrupted
  BY <1>1, NotCorrupted
<1>4. ASSUME NEW n PROVE GetXattrEntry(list, n) = {w[m] : m \in DOMAIN w \cap {n}}
  <2> HIDE DEF list, w, z, names
  <2> DEFINE found == {k \in DOMAIN list : list[k].name = n}
             first == {j \in found : \A l \in found : j <= l}
  <2>1. GetXattrEntry(list, n) = {list[k].value : k \in first}
    BY DEF GetXattrEntry
  <2>2. CASE n \in DOMAIN w
    <3>1. PICK k0 \in 1 .. z : list[k0].name = n
      BY <1>1, <2>2
    <3>2. found = {k0}
      BY <1>1, <3>1
    <3>3. k0 \in Nat /\ k0 <= k0
      BY <3>1
    <3>4. first = {k0}
      BY <3>2, <3>3
    <3>5. w[n] = list[k0].value /\ DOMAIN w \cap {n} = {n}
      BY <1>1, <2>2, <3>1
    <3> HIDE DEF found, first
    <3> QED
      BY <2>1, <3>4, <3>5
  <2>3. CASE n \notin DOMAIN w
    <3>1. found = {}
      BY <1>1, <2>3
    <3>2. first = {} /\ DOMAIN w \cap {n} = {}
      BY <2>3, <3>1
    <3> HIDE DEF found, first
    <3> QED
      BY <2>1, <3>2
  <2> QED
    BY <2>2, <2>3
<1>5. \A n : GetXattr(i, n) = {w[m] : m \in DOMAIN w \cap {n}}
  BY <1>4 DEF GetXattr
<1> HIDE DEF list, w, z, names
<1>6. IsInjective(names)
  BY <1>1, <1>2 DEF IsInjective
<1>7. ToSet(names) = DOMAIN w
  <2>1. DOMAIN names = 1 .. z /\ \A k \in 1 .. z : names[k] = list[k].name
    BY <1>1, <1>2
  <2>2. ToSet(names) = {names[k] : k \in 1 .. z}
    BY <2>1 DEF ToSet
  <2>3. \A k \in 1 .. z : names[k] \in DOMAIN w
    BY <1>1, <2>1
  <2>4. \A m \in DOMAIN w : \E k \in 1 .. z : names[k] = m
    <3> SUFFICES ASSUME NEW m \in DOMAIN w PROVE \E k \in 1 .. z : names[k] = m
      OBVIOUS
    <3>1. PICK k \in 1 .. z : list[k].name = m
      BY <1>1
    <3> QED
      BY <2>1, <3>1
  <2> QED
    BY <2>2, <2>3, <2>4
<1> QED
  BY <1>3, <1>5, <1>6, <1>7 DEF w, names

\* Extended attributes behave as a map from names to values, whatever is set,
\* replaced and removed, and over mounts and crashes: setxattr, removexattr,
\* getxattr and listxattr, through the encoded list that the store keeps.
THEOREM XattrsAlwaysMaps == Spec => []XattrsAreMaps
<1>1. Init => XattrInv
  <2> SUFFICES ASSUME Init PROVE XattrInv
    OBVIOUS
  <2>1. TypeInv
    BY TypeInit
  <2>2. /\ inodes = Empty /\ xattrs = Empty /\ xwant = Empty /\ saved = RootRecord
        /\ DOMAIN Empty = {}
    BY DEF Init, Empty
  <2>3. /\ saved.inodes = inodes /\ saved.xattrs = xattrs
        /\ saved.xwant = xwant /\ saved.nextIno = nextIno
    BY <2>2 DEF RootRecord
  <2>4. XattrsOK(inodes, xattrs, xwant, nextIno)
    BY <2>2 DEF XattrsOK
  <2> QED
    BY <2>1, <2>3, <2>4 DEF XattrInv
<1>2. XattrInv => XattrsAreMaps
  <2> SUFFICES ASSUME XattrInv PROVE XattrsAreMaps
    OBVIOUS
  <2>1. \A i \in DOMAIN inodes : Holds(LoadXattrs(i), xwant[i])
    BY DEF XattrInv, XattrsOK, Loaded, LoadXattrs
  <2> QED
    BY <2>1, HoldsAnswers DEF XattrsAreMaps
<1>3. XattrInv /\ [Next]_vars => XattrInv'
  BY XattrNext
<1> QED
  BY <1>1, <1>2, <1>3, PTL DEF Spec

-----------------------------------------------------------------------------
(* Listings.                                                               *)

USE ConstantsAssumption

\* Ranks are numbers below the size of the set, and grow with the names.
LEMMA RankOrder ==
    ASSUME NEW S \in SUBSET Nat, IsFiniteSet(S)
    PROVE  /\ \A n \in S : Rank(S, n) \in 0 .. Cardinality(S) - 1
           /\ \A n, m \in S : n < m => Rank(S, n) < Rank(S, m)
           /\ \A n, m \in S : Rank(S, n) = Rank(S, m) => n = m
<1> DEFINE below(n) == {m \in S : m < n}
<1>1. \A n \in S : IsFiniteSet(below(n)) /\ Cardinality(below(n)) \in Nat
  BY FS_Subset, FS_CardinalityType
<1>2. ASSUME NEW n \in S PROVE Rank(S, n) \in 0 .. Cardinality(S) - 1
  <2>1. Cardinality(below(n)) <= Cardinality(S)
        /\ (Cardinality(S) = Cardinality(below(n)) => S = below(n))
    BY FS_Subset
  <2>2. S # below(n)
    OBVIOUS
  <2> HIDE DEF below
  <2>3. Cardinality(below(n)) \in Nat /\ Cardinality(S) \in Nat
    BY <1>1, FS_CardinalityType
  <2>4. Cardinality(below(n)) \in 0 .. Cardinality(S) - 1
    BY <2>1, <2>2, <2>3
  <2> QED
    BY <2>4 DEF below, Rank
<1>3. ASSUME NEW n \in S, NEW m \in S, n < m PROVE Rank(S, n) < Rank(S, m)
  <2>1. below(n) \in SUBSET below(m) /\ below(n) # below(m)
    <3>1. n \in Nat /\ m \in Nat /\ S \subseteq Nat
      OBVIOUS
    <3>2. n \in below(m) /\ n \notin below(n)
      BY <1>3, <3>1
    <3>3. \A k \in S : k < n => k < m
      BY <1>3, <3>1
    <3> QED
      BY <3>2, <3>3
  <2> HIDE DEF below
  <2>2. Cardinality(below(n)) <= Cardinality(below(m))
        /\ (Cardinality(below(m)) = Cardinality(below(n)) => below(m) = below(n))
    BY <1>1, <2>1, FS_Subset
  <2>3. Cardinality(below(n)) < Cardinality(below(m))
    BY <1>1, <2>1, <2>2
  <2> QED
    BY <2>3 DEF below, Rank
<1>4. ASSUME NEW n \in S, NEW m \in S, Rank(S, n) = Rank(S, m) PROVE n = m
  <2>1. Rank(S, n) \in Nat
    BY <1>2
  <2>2. ~(n < m) /\ ~(m < n)
    BY <1>3, <1>4, <2>1
  <2>3. n \in Nat /\ m \in Nat
    OBVIOUS
  <2> QED
    BY <2>2, <2>3
<1> QED
  BY <1>2, <1>3, <1>4

\* Every number below the size of the set is a rank.
LEMMA RankOnto ==
    ASSUME NEW S \in SUBSET Nat, IsFiniteSet(S), NEW k \in 0 .. Cardinality(S) - 1
    PROVE  \E n \in S : Rank(S, n) = k
<1> DEFINE R == 0 .. Cardinality(S) - 1
           f == [n \in S |-> Rank(S, n)]
<1>1. Cardinality(S) \in Nat
  BY FS_CardinalityType
<1>2. IsFiniteSet(R) /\ Cardinality(R) = Cardinality(S)
  <2>1. Cardinality(S) - 1 \in Int /\ 0 \in Int
    BY <1>1
  <2>2. IsFiniteSet(R) /\ Cardinality(R) = IF 0 > Cardinality(S) - 1 THEN 0
                                          ELSE (Cardinality(S) - 1) - 0 + 1
    BY <2>1, FS_Interval
  <2> QED
    BY <1>1, <2>2
<1>3. f \in Injection(S, R)
  <2>1. \A n \in S : Rank(S, n) \in R
    BY RankOrder
  <2>2. \A n, m \in S : Rank(S, n) = Rank(S, m) => n = m
    BY RankOrder
  <2>3. \A n, m \in S : f[n] = f[m] => n = m
    BY <2>2
  <2>4. f \in [S -> R]
    BY <2>1
  <2> HIDE DEF f, R
  <2> QED
    BY <2>3, <2>4 DEF Injection, IsInjective
<1> HIDE DEF f, R
<1>4. f \in Surjection(S, R)
  BY <1>2, <1>3, FS_Injection
<1>5. PICK n \in S : f[n] = k
  BY <1>4 DEF Surjection, R
<1> QED
  BY <1>5 DEF f

\* A new name moves the others by at most one.
LEMMA RankAdd ==
    ASSUME NEW S \in SUBSET Nat, IsFiniteSet(S), NEW x \in Nat, x \notin S, NEW n \in Nat
    PROVE  /\ Rank(S, n) \in Nat
           /\ Rank(S \cup {x}, n) \in {Rank(S, n), Rank(S, n) + 1}
<1> DEFINE below == {m \in S : m < n}
<1>1. IsFiniteSet(below) /\ Cardinality(below) \in Nat
  BY FS_Subset, FS_CardinalityType
<1>2. CASE x < n
  <2>1. {m \in S \cup {x} : m < n} = below \cup {x} /\ x \notin below
    BY <1>2
  <2> HIDE DEF below
  <2>2. Cardinality(below \cup {x}) = Cardinality(below) + 1
    BY <1>1, <2>1, FS_AddElement
  <2> QED
    BY <1>1, <2>1, <2>2 DEF Rank, below
<1>3. CASE ~(x < n)
  <2>1. {m \in S \cup {x} : m < n} = below
    BY <1>3
  <2> QED
    BY <1>1, <2>1 DEF Rank
<1> QED
  BY <1>2, <1>3

\* A set with at most one element more.
LEMMA OneMore ==
    ASSUME NEW A, IsFiniteSet(A), NEW B,
           \A x, y \in B : x \notin A /\ y \notin A => x = y
    PROVE  IsFiniteSet(B) /\ Cardinality(B) <= Cardinality(A) + 1
<1>0. Cardinality(A) \in Nat
  BY FS_CardinalityType
<1>1. CASE B \in SUBSET A
  <2>1. IsFiniteSet(B) /\ Cardinality(B) <= Cardinality(A)
    BY <1>1, FS_Subset
  <2>2. Cardinality(B) \in Nat
    BY <2>1, FS_CardinalityType
  <2> QED
    BY <1>0, <2>1, <2>2
<1>2. CASE ~(B \in SUBSET A)
  <2>1. PICK x \in B : x \notin A
    BY <1>2
  <2>2. B \in SUBSET (A \cup {x})
    BY <2>1
  <2>3. IsFiniteSet(A \cup {x}) /\ Cardinality(A \cup {x}) = Cardinality(A) + 1
    BY <2>1, FS_AddElement
  <2> QED
    BY <2>2, <2>3, FS_Subset
<1> QED
  BY <1>1, <1>2
-----------------------------------------------------------------------------
\* What the listing gave at least once, and more than once.
Once(got) == {got[k] : k \in DOMAIN got}
Twice(got) == {n \in Once(got) : \E j, k \in DOMAIN got : j # k /\ got[j] = n /\ got[k] = n}

\* Entries that were there all the time, that the listing is past and that it
\* did not give; and the ones it gave twice or will give again.
Skipped(l, S) == {n \in l.stable : Rank(S, n) < l.offset /\ n \notin Once(l.got)}
Again(l, S) ==
    {n \in l.stable : n \in Twice(l.got) \/ (n \in Once(l.got) /\ Rank(S, n) >= l.offset)}

\* The inductive invariant of a listing, of the directory with the names S.
ListingOK(l, S) ==
    l.on => /\ l.offset \in Nat /\ l.got \in Seq(Names) /\ l.stable \subseteq S
            /\ l.removed \in Nat /\ l.added \in Nat
            /\ Cardinality(Skipped(l, S)) <= l.removed
            /\ Cardinality(Again(l, S)) <= l.added

ListingState ==
    [on : BOOLEAN, offset : Nat, got : Seq(Names), stable : SUBSET Names,
     removed : Nat, added : Nat]

ListingInv ==
    TypeInv /\ listing \in ListingState /\ ListingOK(listing, DOMAIN entries)

\* The names of a directory are finitely many.
LEMMA NamesFinite ==
    ASSUME TypeInv
    PROVE  /\ DOMAIN entries \in SUBSET Names /\ DOMAIN entries \in SUBSET Nat
           /\ IsFiniteSet(DOMAIN entries)
           /\ \A T \in SUBSET DOMAIN entries : IsFiniteSet(T) /\ Cardinality(T) \in Nat
<1>1. DOMAIN entries \in SUBSET Names /\ DOMAIN entries \in SUBSET Nat
  BY DEF TypeInv, StoreOK
<1>2. IsFiniteSet(DOMAIN entries)
  BY <1>1, FS_Subset
<1> QED
  BY <1>1, <1>2, FS_Subset, FS_CardinalityType

\* A name more in the directory: what was passed may be ahead again.
LEMMA ListingAdd ==
    ASSUME ListingInv, NEW x \in Names, x \notin DOMAIN entries, NEW l,
           l = [listing EXCEPT !.stable = listing.stable \cap (DOMAIN entries \cup {x}),
                               !.removed = @ + 0, !.added = @ + 1]
    PROVE  ListingOK(l, DOMAIN entries \cup {x})
<1> DEFINE S == DOMAIN entries
           R == DOMAIN entries \cup {x}
<1> SUFFICES ASSUME listing.on PROVE ListingOK(l, R)
  BY DEF ListingOK, ListingInv
<1>1. TypeInv /\ ListingOK(listing, S)
  BY DEF ListingInv
<1>2. S \in SUBSET Names /\ S \in SUBSET Nat /\ IsFiniteSet(S) /\ x \in Nat
      /\ \A T \in SUBSET S : IsFiniteSet(T) /\ Cardinality(T) \in Nat
  BY <1>1, NamesFinite
<1>3. /\ listing.offset \in Nat /\ listing.got \in Seq(Names) /\ listing.stable \subseteq S
      /\ listing.removed \in Nat /\ listing.added \in Nat
      /\ Cardinality(Skipped(listing, S)) <= listing.removed
      /\ Cardinality(Again(listing, S)) <= listing.added
  BY <1>1 DEF ListingOK
<1>4. /\ l.offset = listing.offset /\ l.got = listing.got /\ l.stable = listing.stable
      /\ l.removed = listing.removed /\ l.added = listing.added + 1
  BY <1>3 DEF ListingInv, ListingState
<1> HIDE DEF S, R
<1>5. \A n \in S : Rank(S, n) \in Nat /\ Rank(R, n) \in {Rank(S, n), Rank(S, n) + 1}
  BY <1>2, RankAdd DEF S, R
<1>6. Skipped(l, R) \subseteq Skipped(listing, S)
  BY <1>3, <1>4, <1>5 DEF Skipped
<1>7. Skipped(listing, S) \in SUBSET S /\ Again(listing, S) \in SUBSET S
  BY <1>3 DEF Skipped, Again
<1>8. Cardinality(Skipped(l, R)) <= listing.removed
  <2>1. IsFiniteSet(Skipped(listing, S)) /\ Cardinality(Skipped(listing, S)) \in Nat
    BY <1>2, <1>7
  <2>2. Cardinality(Skipped(l, R)) <= Cardinality(Skipped(listing, S))
        /\ Skipped(l, R) \in SUBSET S
    BY <1>6, <1>7, <2>1, FS_Subset
  <2>3. Cardinality(Skipped(l, R)) \in Nat
    BY <1>2, <2>2
  <2> QED
    BY <1>3, <2>1, <2>2, <2>3
<1>9. \A y, z \in Again(l, R) :
          y \notin Again(listing, S) /\ z \notin Again(listing, S) => y = z
  <2> SUFFICES ASSUME NEW y \in Again(l, R), NEW z \in Again(l, R),
                      y \notin Again(listing, S), z \notin Again(listing, S)
               PROVE  y = z
    OBVIOUS
  <2>1. y \in S /\ z \in S
    BY <1>3, <1>4 DEF Again
  <2>2. Rank(S, y) < listing.offset /\ Rank(R, y) >= listing.offset
        /\ Rank(S, z) < listing.offset /\ Rank(R, z) >= listing.offset
    BY <1>3, <1>4, <1>5, <2>1, SMTT(40) DEF Again
  <2>3. Rank(S, y) = Rank(S, z)
    BY <1>3, <1>5, <2>1, <2>2, SMTT(40)
  <2> QED
    BY <1>2, <2>1, <2>3, RankOrder
<1>10. Cardinality(Again(l, R)) <= listing.added + 1
  <2>1. IsFiniteSet(Again(listing, S)) /\ Cardinality(Again(listing, S)) \in Nat
    BY <1>2, <1>7
  <2>2. IsFiniteSet(Again(l, R)) /\ Cardinality(Again(l, R)) <= Cardinality(Again(listing, S)) + 1
    BY <1>9, <2>1, OneMore
  <2>3. Cardinality(Again(l, R)) \in Nat
    BY <2>2, FS_CardinalityType
  <2> QED
    BY <1>3, <2>1, <2>2, <2>3
<1>11. l.stable \subseteq R
  BY <1>3, <1>4 DEF S, R
<1> QED
  BY <1>3, <1>4, <1>8, <1>10, <1>11 DEF ListingOK

\* A name less: what was ahead may have been passed.
LEMMA ListingRemove ==
    ASSUME ListingInv, NEW x \in DOMAIN entries, NEW l,
           l = [listing EXCEPT !.stable = listing.stable \cap (DOMAIN entries \ {x}),
                               !.removed = @ + 1, !.added = @ + 0]
    PROVE  ListingOK(l, DOMAIN entries \ {x})
<1> DEFINE S == DOMAIN entries
           R == DOMAIN entries \ {x}
<1> SUFFICES ASSUME listing.on PROVE ListingOK(l, R)
  BY DEF ListingOK, ListingInv
<1>1. TypeInv /\ ListingOK(listing, S)
  BY DEF ListingInv
<1>2. S \in SUBSET Names /\ S \in SUBSET Nat /\ IsFiniteSet(S) /\ x \in Nat
      /\ \A T \in SUBSET S : IsFiniteSet(T) /\ Cardinality(T) \in Nat
  BY <1>1, NamesFinite
<1>3. /\ listing.offset \in Nat /\ listing.got \in Seq(Names) /\ listing.stable \subseteq S
      /\ listing.removed \in Nat /\ listing.added \in Nat
      /\ Cardinality(Skipped(listing, S)) <= listing.removed
      /\ Cardinality(Again(listing, S)) <= listing.added
  BY <1>1 DEF ListingOK
<1>4. /\ l.offset = listing.offset /\ l.got = listing.got /\ l.stable = listing.stable \cap R
      /\ l.removed = listing.removed + 1 /\ l.added = listing.added
  BY <1>3 DEF ListingInv, ListingState
<1>0. R \in SUBSET Nat /\ IsFiniteSet(R) /\ x \notin R /\ R \cup {x} = S /\ R \subseteq S
  BY <1>2, FS_Subset
<1> HIDE DEF S, R
<1>5. \A n \in R : Rank(R, n) \in Nat /\ Rank(S, n) \in {Rank(R, n), Rank(R, n) + 1}
  <2> SUFFICES ASSUME NEW n \in R
               PROVE  Rank(R, n) \in Nat /\ Rank(S, n) \in {Rank(R, n), Rank(R, n) + 1}
    OBVIOUS
  <2>1. Rank(R, n) \in Nat /\ Rank(R \cup {x}, n) \in {Rank(R, n), Rank(R, n) + 1}
    BY <1>0, <1>2, RankAdd
  <2> QED
    BY <1>0, <2>1
<1>6. Again(l, R) \subseteq Again(listing, S)
  BY <1>3, <1>4, <1>5 DEF Again
<1>7. Skipped(listing, S) \in SUBSET S /\ Again(listing, S) \in SUBSET S
  BY <1>3 DEF Skipped, Again
<1>8. Cardinality(Again(l, R)) <= listing.added
  <2>1. IsFiniteSet(Again(listing, S)) /\ Cardinality(Again(listing, S)) \in Nat
    BY <1>2, <1>7
  <2>2. Cardinality(Again(l, R)) <= Cardinality(Again(listing, S))
        /\ Again(l, R) \in SUBSET S
    BY <1>6, <1>7, <2>1, FS_Subset
  <2>3. Cardinality(Again(l, R)) \in Nat
    BY <1>2, <2>2
  <2> QED
    BY <1>3, <2>1, <2>2, <2>3
<1>9. \A y, z \in Skipped(l, R) :
          y \notin Skipped(listing, S) /\ z \notin Skipped(listing, S) => y = z
  <2> SUFFICES ASSUME NEW y \in Skipped(l, R), NEW z \in Skipped(l, R),
                      y \notin Skipped(listing, S), z \notin Skipped(listing, S)
               PROVE  y = z
    OBVIOUS
  <2>1. y \in R /\ z \in R /\ y \in listing.stable /\ z \in listing.stable
    BY <1>4 DEF Skipped
  <2>2. Rank(R, y) < listing.offset /\ ~(Rank(S, y) < listing.offset)
        /\ Rank(R, z) < listing.offset /\ ~(Rank(S, z) < listing.offset)
    BY <1>4, <2>1 DEF Skipped
  <2>3. Rank(R, y) = Rank(R, z)
    BY <1>3, <1>5, <2>1, <2>2
  <2> QED
    BY <1>0, <2>1, <2>3, RankOrder
<1>10. Cardinality(Skipped(l, R)) <= listing.removed + 1
  <2>1. IsFiniteSet(Skipped(listing, S)) /\ Cardinality(Skipped(listing, S)) \in Nat
    BY <1>2, <1>7
  <2>2. IsFiniteSet(Skipped(l, R))
        /\ Cardinality(Skipped(l, R)) <= Cardinality(Skipped(listing, S)) + 1
    BY <1>9, <2>1, OneMore
  <2>3. Cardinality(Skipped(l, R)) \in Nat
    BY <2>2, FS_CardinalityType
  <2> QED
    BY <1>3, <2>1, <2>2, <2>3
<1> QED
  BY <1>3, <1>4, <1>8, <1>10 DEF ListingOK

\* The page of readdir holds the k names from the offset on, each once.
LEMMA PageNames ==
    ASSUME TypeInv, NEW offset \in Nat, NEW k \in Nat \ {0},
           k <= Len(SubSeq(ListDirEntries, offset + 1, Cardinality(DOMAIN entries)))
    PROVE  LET S == DOMAIN entries
               page == SubSeq(SubSeq(ListDirEntries, offset + 1, Cardinality(S)), 1, k)
           IN  /\ page \in Seq(S) /\ Len(page) = k
               /\ \A j \in 1 .. k : Rank(S, page[j]) = offset + j - 1
               /\ \A n \in S : offset <= Rank(S, n) /\ Rank(S, n) < offset + k
                                  => n = page[Rank(S, n) - offset + 1]
<1> DEFINE S == DOMAIN entries
           c == Cardinality(S)
           L == ListDirEntries
           all == SubSeq(L, offset + 1, c)
           page == SubSeq(all, 1, k)
<1>1. S \in SUBSET Nat /\ IsFiniteSet(S) /\ c \in Nat
  BY NamesFinite, FS_CardinalityType
<1>2. L = [j \in 1 .. c |-> CHOOSE n \in S : Rank(S, n) = j - 1]
  BY DEF ListDirEntries
<1>3. \A j \in 1 .. c : L[j] \in S /\ Rank(S, L[j]) = j - 1
  <2> SUFFICES ASSUME NEW j \in 1 .. c PROVE L[j] \in S /\ Rank(S, L[j]) = j - 1
    OBVIOUS
  <2>1. j - 1 \in 0 .. c - 1
    BY <1>1
  <2>2. \E n \in S : Rank(S, n) = j - 1
    BY <1>1, <2>1, RankOnto
  <2>3. L[j] = CHOOSE n \in S : Rank(S, n) = j - 1
    BY <1>2
  <2> HIDE DEF L, S, c
  <2> QED
    BY <2>2, <2>3
<1> HIDE DEF S, c, L
<1>4. L \in Seq(S) /\ Len(L) = c
  <2>1. L \in [1 .. c -> S]
    BY <1>2, <1>3
  <2> QED
    BY <1>1, <2>1
<1>5. /\ all \in Seq(S) /\ Len(all) = IF offset + 1 <= c THEN c - (offset + 1) + 1 ELSE 0
      /\ \A i \in 1 .. c - (offset + 1) + 1 : all[i] = L[offset + 1 + i - 1]
  <2>1. \A i \in offset + 1 .. c : L[i] \in S
    BY <1>3
  <2>2. offset + 1 \in Int /\ c \in Int
    BY <1>1
  <2> QED
    BY <2>1, <2>2, SubSeqProperties
<1>6. k <= Len(all)
  BY DEF S, c, L
<1>7. offset + k <= c /\ Len(all) = c - offset
  BY <1>1, <1>5, <1>6
<1> HIDE DEF all
<1>8. /\ page \in Seq(S) /\ Len(page) = k
      /\ \A i \in 1 .. k : page[i] = all[i]
  <2>1. \A i \in 1 .. k : all[i] \in S
    BY <1>1, <1>5, <1>6
  <2>2. /\ page \in Seq(S) /\ Len(page) = IF 1 <= k THEN k - 1 + 1 ELSE 0
        /\ \A i \in 1 .. k - 1 + 1 : page[i] = all[1 + i - 1]
    BY <2>1, SubSeqProperties
  <2>3. \A i \in 1 .. k : i \in 1 .. k - 1 + 1 /\ 1 + i - 1 = i
    OBVIOUS
  <2> HIDE DEF page
  <2> QED
    BY <2>2, <2>3
<1> HIDE DEF page
<1>9. \A j \in 1 .. k : page[j] = L[offset + j] /\ offset + j \in 1 .. c
  <2> SUFFICES ASSUME NEW j \in 1 .. k PROVE page[j] = L[offset + j] /\ offset + j \in 1 .. c
    OBVIOUS
  <2>1. offset + 1 + j - 1 = offset + j /\ j \in 1 .. c - (offset + 1) + 1
        /\ offset + j \in 1 .. c
    BY <1>1, <1>7
  <2> QED
    BY <1>5, <1>8, <2>1
<1>10. \A j \in 1 .. k : Rank(S, page[j]) = offset + j - 1
  BY <1>3, <1>9
<1>11. ASSUME NEW n \in S, offset <= Rank(S, n), Rank(S, n) < offset + k
       PROVE  n = page[Rank(S, n) - offset + 1]
  <2> DEFINE r == Rank(S, n)
             j == r - offset + 1
  <2>1. r \in Nat
    BY <1>1, RankOrder DEF c
  <2>2. j \in 1 .. k /\ offset + j - 1 = r
    BY <1>11, <2>1
  <2>3. Rank(S, page[j]) = r /\ page[j] \in S
    BY <1>8, <1>10, <2>2
  <2> HIDE DEF j
  <2>4. n = page[j]
    <3>1. \A a, b \in S : Rank(S, a) = Rank(S, b) => a = b
      BY <1>1, RankOrder
    <3> QED
      BY <2>3, <3>1
  <2> QED
    BY <2>4 DEF j
<1>12. /\ page \in Seq(S) /\ Len(page) = k
       /\ \A j \in 1 .. k : Rank(S, page[j]) = offset + j - 1
       /\ \A n \in S : offset <= Rank(S, n) /\ Rank(S, n) < offset + k
                          => n = page[Rank(S, n) - offset + 1]
  BY <1>8, <1>10, <1>11
<1> QED
  BY <1>12 DEF page, all, L, c, S

\* readdir: what it gives is what it passes.
LEMMA ListingRead ==
    ASSUME ListingInv, NEW k \in 1 .. Cardinality(Names), Readdir(k)
    PROVE  ListingInv'
<1> DEFINE S == DOMAIN entries
           page == SubSeq(SubSeq(ListDirEntries, listing.offset + 1, Cardinality(S)), 1, k)
<1>1. TypeInv /\ ListingOK(listing, S)
  BY DEF ListingInv
<1>2. listing.on /\ UNCHANGED entries
      /\ k <= Len(SubSeq(ListDirEntries, listing.offset + 1, Cardinality(S)))
      /\ listing' = [listing EXCEPT !.got = @ \o page, !.offset = @ + (k - 1) + 1]
  BY DEF Readdir, NextOffset, store
<1>3. /\ listing.offset \in Nat /\ listing.got \in Seq(Names) /\ listing.stable \subseteq S
      /\ listing.removed \in Nat /\ listing.added \in Nat
      /\ Cardinality(Skipped(listing, S)) <= listing.removed
      /\ Cardinality(Again(listing, S)) <= listing.added
  BY <1>1, <1>2 DEF ListingOK
<1>4. k \in Nat \ {0}
  BY FS_CardinalityType
<1>5. /\ page \in Seq(S) /\ Len(page) = k
      /\ \A j \in 1 .. k : Rank(S, page[j]) = listing.offset + j - 1
      /\ \A n \in S : listing.offset <= Rank(S, n) /\ Rank(S, n) < listing.offset + k
                         => n = page[Rank(S, n) - listing.offset + 1]
  BY <1>1, <1>2, <1>3, <1>4, PageNames
<1> HIDE DEF page
<1>6. S \in SUBSET Names /\ S \in SUBSET Nat /\ IsFiniteSet(S)
      /\ \A T \in SUBSET S : IsFiniteSet(T) /\ Cardinality(T) \in Nat
  BY <1>1, NamesFinite
<1> DEFINE l == listing'
           g == listing.got
           h == g \o page
<1>7. /\ l.offset = listing.offset + k /\ l.got = h /\ l.stable = listing.stable
      /\ l.removed = listing.removed /\ l.added = listing.added /\ l.on = listing.on
      /\ listing' = [listing EXCEPT !.got = h, !.offset = listing.offset + k]
  <2>1. listing \in ListingState /\ (listing.offset + (k - 1)) + 1 = listing.offset + k
    BY <1>3, <1>4 DEF ListingInv
  <2>2. listing' = [listing EXCEPT !.got = h, !.offset = listing.offset + k]
    BY <1>2, <2>1 DEF ListingState
  <2> HIDE DEF h
  <2> QED
    BY <2>1, <2>2 DEF ListingState
<1>8. page \in Seq(Names)
  BY <1>5, <1>6
<1>9. /\ h \in Seq(Names) /\ Len(h) = Len(g) + k /\ Len(g) \in Nat
      /\ DOMAIN g = 1 .. Len(g) /\ DOMAIN h = 1 .. Len(g) + k
      /\ \A i \in 1 .. Len(g) + k : h[i] = IF i <= Len(g) THEN g[i] ELSE page[i - Len(g)]
  <2>1. g \in Seq(Names)
    BY <1>3
  <2>2. /\ h \in Seq(Names) /\ Len(h) = Len(g) + Len(page)
        /\ \A i \in 1 .. Len(g) + Len(page) : h[i] = IF i <= Len(g) THEN g[i]
                                                    ELSE page[i - Len(g)]
    BY <1>8, <2>1, ConcatProperties
  <2> QED
    BY <1>5, <2>1, <2>2
<1>10. \A n \in S : Rank(S, n) \in Nat
  BY <1>6, RankOrder, FS_CardinalityType
<1> HIDE DEF S, l, g, h
<1>11. \A i \in DOMAIN h \ DOMAIN g :
           /\ i - Len(g) \in 1 .. k /\ h[i] = page[i - Len(g)] /\ h[i] \in S
           /\ Rank(S, h[i]) = listing.offset + (i - Len(g)) - 1
  <2> SUFFICES ASSUME NEW i \in DOMAIN h \ DOMAIN g
               PROVE  /\ i - Len(g) \in 1 .. k /\ h[i] = page[i - Len(g)] /\ h[i] \in S
                      /\ Rank(S, h[i]) = listing.offset + (i - Len(g)) - 1
    OBVIOUS
  <2>1. i \in 1 .. Len(g) + k /\ ~(i <= Len(g)) /\ i - Len(g) \in 1 .. k
    BY <1>4, <1>9
  <2>2. h[i] = page[i - Len(g)]
    BY <1>9, <2>1
  <2>3. page[i - Len(g)] \in S
    BY <1>5, <2>1
  <2> QED
    BY <1>5, <2>1, <2>2, <2>3
<1>12. DOMAIN g \subseteq DOMAIN h /\ \A i \in DOMAIN g : h[i] = g[i]
  BY <1>4, <1>9
<1>13. \A n \in S : n \in Once(h) => \/ n \in Once(g)
                                     \/ /\ listing.offset <= Rank(S, n)
                                        /\ Rank(S, n) < listing.offset + k
  <2> SUFFICES ASSUME NEW i \in DOMAIN h, h[i] \in S, h[i] \notin Once(g)
               PROVE  /\ listing.offset <= Rank(S, h[i])
                      /\ Rank(S, h[i]) < listing.offset + k
    BY DEF Once
  <2>1. i \notin DOMAIN g
    BY <1>12 DEF Once
  <2>2. i - Len(g) \in 1 .. k /\ Rank(S, h[i]) = listing.offset + (i - Len(g)) - 1
    BY <1>11, <2>1
  <2> QED
    BY <1>3, <1>4, <2>2
<1>14. \A n \in S : listing.offset <= Rank(S, n) /\ Rank(S, n) < listing.offset + k
                       => n \in Once(h)
  <2> SUFFICES ASSUME NEW n \in S, listing.offset <= Rank(S, n),
                      Rank(S, n) < listing.offset + k
               PROVE  n \in Once(h)
    OBVIOUS
  <2> DEFINE r == Rank(S, n)
             i == Len(g) + (r - listing.offset + 1)
  <2>1. r \in Nat /\ listing.offset <= r /\ r < listing.offset + k
    BY <1>10
  <2>2. i \in 1 .. Len(g) + k /\ ~(i <= Len(g)) /\ i - Len(g) = r - listing.offset + 1
    <3>1. Len(g) \in Nat /\ listing.offset \in Nat /\ k \in Nat
      BY <1>3, <1>4, <1>9
    <3> HIDE DEF r
    <3> DEFINE x == Len(g)
               y == listing.offset
    <3>2. /\ x \in Nat /\ y \in Nat /\ k \in Nat /\ r \in Nat /\ y <= r /\ r < y + k
          /\ i = x + (r - y + 1)
      BY <2>1, <3>1
    <3> HIDE DEF x, y, i
    <3>3. i \in 1 .. x + k /\ ~(i <= x) /\ i - x = r - y + 1
      BY ONLY <3>2
    <3> QED
      BY <3>3 DEF x, y
  <2>3. h[i] = page[r - listing.offset + 1]
    <3> HIDE DEF r, i
    <3>1. h[i] = page[i - Len(g)]
      BY <1>9, <2>2
    <3> QED
      BY <2>2, <3>1
  <2>4. h[i] = n
    BY <1>5, <2>3
  <2> HIDE DEF i
  <2> QED
    BY <1>9, <2>2, <2>4 DEF Once
<1>15. Skipped(l, S) \subseteq Skipped(listing, S)
  <2> SUFFICES ASSUME NEW n \in Skipped(l, S) PROVE n \in Skipped(listing, S)
    OBVIOUS
  <2>1. n \in listing.stable /\ Rank(S, n) < listing.offset + k /\ n \notin Once(h) /\ n \in S
    BY <1>3, <1>7 DEF Skipped
  <2>2. Rank(S, n) < listing.offset
    BY <1>3, <1>10, <1>14, <2>1
  <2>3. n \notin Once(g)
    BY <1>12, <2>1 DEF Once
  <2> QED
    BY <2>1, <2>2, <2>3 DEF Skipped, g
<1>16. Again(l, S) \subseteq Again(listing, S)
  <2> SUFFICES ASSUME NEW n \in Again(l, S) PROVE n \in Again(listing, S)
    OBVIOUS
  <2>1. n \in listing.stable /\ n \in S
        /\ (n \in Twice(h) \/ (n \in Once(h) /\ Rank(S, n) >= listing.offset + k))
    BY <1>3, <1>7 DEF Again
  <2>2. CASE n \in Once(h) /\ Rank(S, n) >= listing.offset + k
    <3>1. n \in Once(g)
      BY <1>3, <1>4, <1>10, <1>13, <2>1, <2>2
    <3>2. Rank(S, n) >= listing.offset
      BY <1>3, <1>4, <1>10, <2>1, <2>2
    <3> QED
      BY <2>1, <3>1, <3>2 DEF Again, g
  <2>3. CASE n \in Twice(h)
    <3>1. PICK i \in DOMAIN h, j \in DOMAIN h : i # j /\ h[i] = n /\ h[j] = n
      BY <2>3 DEF Twice
    <3>2. CASE i \in DOMAIN g /\ j \in DOMAIN g
      <4>1. n \in Twice(g)
        BY <1>12, <3>1, <3>2 DEF Twice, Once
      <4> QED
        BY <2>1, <4>1 DEF Again, g
    <3>3. ASSUME NEW a \in DOMAIN g, NEW b \in DOMAIN h, b \notin DOMAIN g,
                 h[a] = n, h[b] = n
          PROVE  n \in Again(listing, S)
      <4>1. n \in Once(g)
        BY <1>12, <3>3 DEF Once
      <4>2. b - Len(g) \in 1 .. k /\ Rank(S, n) = listing.offset + (b - Len(g)) - 1
        BY <1>11, <3>3
      <4>3. Rank(S, n) >= listing.offset
        BY <1>3, <1>4, <4>2
      <4> QED
        BY <2>1, <4>1, <4>3 DEF Again, g
    <3>4. CASE i \notin DOMAIN g /\ j \notin DOMAIN g
      <4>1. /\ i - Len(g) \in 1 .. k /\ Rank(S, n) = listing.offset + (i - Len(g)) - 1
            /\ j - Len(g) \in 1 .. k /\ Rank(S, n) = listing.offset + (j - Len(g)) - 1
        BY <1>11, <3>1, <3>4
      <4>2. i \in Int /\ j \in Int /\ Len(g) \in Int /\ listing.offset \in Int
        BY <1>3, <1>9
      <4>3. i - Len(g) = j - Len(g)
        <5> DEFINE a == i - Len(g)
                   b == j - Len(g)
        <5>1. a \in Int /\ b \in Int /\ listing.offset + a - 1 = listing.offset + b - 1
          BY <4>1
        <5> HIDE DEF a, b
        <5>2. a = b
          BY <4>2, <5>1
        <5> QED
          BY <5>2 DEF a, b
      <4>4. i = j
        BY <4>2, <4>3
      <4> QED
        BY <3>1, <4>4
    <3> QED
      BY <3>1, <3>2, <3>3, <3>4
  <2> QED
    BY <2>1, <2>2, <2>3
<1>17. Skipped(listing, S) \in SUBSET S /\ Again(listing, S) \in SUBSET S
  BY <1>3 DEF Skipped, Again
<1>18. \A A, B : A \subseteq B /\ B \in SUBSET S =>
          /\ Cardinality(A) \in Nat /\ Cardinality(B) \in Nat
          /\ Cardinality(A) <= Cardinality(B)
  <2> SUFFICES ASSUME NEW A, NEW B, A \subseteq B, B \in SUBSET S
               PROVE  /\ Cardinality(A) \in Nat /\ Cardinality(B) \in Nat
                      /\ Cardinality(A) <= Cardinality(B)
    OBVIOUS
  <2>1. IsFiniteSet(B) /\ A \in SUBSET S /\ A \in SUBSET B
    BY <1>6
  <2> QED
    BY <1>6, <2>1, FS_Subset
<1>19. Cardinality(Skipped(l, S)) <= listing.removed
  BY <1>3, <1>15, <1>17, <1>18
<1>20. Cardinality(Again(l, S)) <= listing.added
  BY <1>3, <1>16, <1>17, <1>18
<1>21. listing.offset + k \in Nat
  BY <1>3, <1>4
<1>22. ListingOK(l, S)
  BY <1>3, <1>7, <1>9, <1>19, <1>20, <1>21 DEF ListingOK
<1>23. TypeInv'
  BY TypeNext DEF ListingInv, Next
<1>24. listing' \in ListingState
  <2>1. listing' = [listing EXCEPT !.got = h, !.offset = listing.offset + k]
    BY <1>7
  <2> QED
    BY <1>9, <1>21, <2>1 DEF ListingInv, ListingState
<1> QED
  BY <1>2, <1>22, <1>23, <1>24 DEF ListingInv, l, S

\* Every step keeps the invariant of the listing.
LEMMA ListingNext ==
    ASSUME ListingInv, [Next]_vars
    PROVE  ListingInv'
<1>0. TypeInv' /\ TypeInv /\ listing \in ListingState
  BY TypeNext DEF ListingInv
<1>1. ASSUME UNCHANGED <<listing, entries>> PROVE ListingInv'
  BY <1>0, <1>1 DEF ListingInv
<1>2. ASSUME NEW n \in Names, NEW m, MakeNode(n, m) PROVE ListingInv'
  <2>1. CASE n \in DOMAIN entries
    BY <1>1, <1>2, <2>1 DEF MakeNode
  <2>2. CASE n \notin DOMAIN entries
    <3> DEFINE S == DOMAIN entries
               R == S \cup {n}
    <3>1. DOMAIN entries' = R /\ ListingSees(entries')
      BY <1>2, <2>2 DEF MakeNode, With
    <3>2. CASE ~listing.on
      <4>1. listing' = listing
        BY <3>1, <3>2 DEF ListingSees
      <4> QED
        BY <1>0, <3>2, <4>1 DEF ListingInv, ListingOK
    <3>3. CASE listing.on
      <4>1. S \ R = {} /\ R \ S = {n}
        BY <2>2
      <4>2. Cardinality(S \ R) = 0 /\ Cardinality(R \ S) = 1
        BY <4>1, FS_EmptySet, FS_Singleton
      <4>3. listing' = [listing EXCEPT !.stable = @ \cap R,
                            !.removed = @ + Cardinality(S \ R), !.added = @ + Cardinality(R \ S)]
        BY <3>1, <3>3 DEF ListingSees
      <4>4. listing' = [listing EXCEPT !.stable = listing.stable \cap R,
                                       !.removed = @ + 0, !.added = @ + 1]
        BY <4>2, <4>3
      <4>5. ListingOK(listing', R)
        BY <2>2, <4>4, ListingAdd
      <4>6. listing' \in ListingState
        <5>1. /\ listing.removed + 0 \in Nat /\ listing.removed + 1 \in Nat
              /\ listing.added + 0 \in Nat /\ listing.added + 1 \in Nat
              /\ listing.stable \cap R \in SUBSET Names
          BY <1>0 DEF ListingState
        <5> HIDE DEF R
        <5> QED
          BY <1>0, <4>4, <5>1 DEF ListingState
      <4> QED
        BY <1>0, <3>1, <4>5, <4>6 DEF ListingInv
    <3> QED
      BY <3>2, <3>3
  <2> QED
    BY <2>1, <2>2
<1>3. ASSUME NEW n \in workload.names,
             \/ Mknod(n, Bits, Creator) \/ Mkdir(n, Bits, Creator)
             \/ \E target \in 1 .. MaxSize : Symlink(n, Creator, target)
             \/ \E h \in Handles : Create(n, Bits, Creator, h)
      PROVE  ListingInv'
  <2>1. n \in Names
    BY <1>0 DEF TypeInv, Workload
  <2> QED
    BY <1>2, <1>3, <2>1 DEF Mknod, Mkdir, Symlink, Create
<1>4. ASSUME NEW n \in Names, Unlink(n) PROVE ListingInv'
  <2> DEFINE S == DOMAIN entries
             R == S \ {n}
  <2>1. n \in S /\ DOMAIN entries' = R /\ ListingSees(entries')
    BY <1>4 DEF Unlink, Without
  <2>2. CASE ~listing.on
    <3>1. listing' = listing
      BY <2>1, <2>2 DEF ListingSees
    <3> QED
      BY <1>0, <2>2, <3>1 DEF ListingInv, ListingOK
  <2>3. CASE listing.on
    <3>1. S \ R = {n} /\ R \ S = {}
      BY <2>1
    <3>2. Cardinality(S \ R) = 1 /\ Cardinality(R \ S) = 0
      BY <3>1, FS_EmptySet, FS_Singleton
    <3>3. listing' = [listing EXCEPT !.stable = @ \cap R,
                          !.removed = @ + Cardinality(S \ R), !.added = @ + Cardinality(R \ S)]
      BY <2>1, <2>3 DEF ListingSees
    <3>4. listing' = [listing EXCEPT !.stable = listing.stable \cap R,
                                     !.removed = @ + 1, !.added = @ + 0]
      BY <3>2, <3>3
    <3>5. ListingOK(listing', R)
      BY <2>1, <3>4, ListingRemove
    <3>6. listing' \in ListingState
      <4>1. /\ listing.removed + 0 \in Nat /\ listing.removed + 1 \in Nat
            /\ listing.added + 0 \in Nat /\ listing.added + 1 \in Nat
            /\ listing.stable \cap R \in SUBSET Names
        BY <1>0 DEF ListingState
      <4> HIDE DEF R
      <4> QED
        BY <1>0, <3>4, <4>1 DEF ListingState
    <3> QED
      BY <1>0, <2>1, <3>5, <3>6 DEF ListingInv
  <2> QED
    BY <2>2, <2>3
<1>5. CASE Opendir
  <2> DEFINE S == DOMAIN entries
  <2>1. listing' = [on |-> TRUE, offset |-> 0, got |-> <<>>, stable |-> S,
                    removed |-> 0, added |-> 0] /\ entries' = entries
    BY <1>5 DEF Opendir, NoListing, store
  <2>2. S \in SUBSET Nat /\ IsFiniteSet(S) /\ S \subseteq Names
    BY <1>0, NamesFinite
  <2>3. \A n \in S : Rank(S, n) \in Nat
    BY <2>2, RankOrder, FS_CardinalityType
  <2>4. Once(<<>>) = {} /\ Twice(<<>>) = {}
    BY DEF Once, Twice
  <2>5. Skipped(listing', S) = {} /\ Again(listing', S) = {}
    BY <2>1, <2>3, <2>4 DEF Skipped, Again
  <2>6. listing' \in ListingState
    BY <2>1, <2>2 DEF ListingState
  <2>7. Cardinality({}) <= 0
    BY FS_EmptySet
  <2> QED
    BY <1>0, <2>1, <2>5, <2>6, <2>7 DEF ListingInv, ListingOK, ListingState
<1>6. ASSUME listing' = NoListing PROVE ListingInv'
  <2>1. NoListing \in ListingState /\ ~NoListing.on
    BY DEF NoListing, ListingState
  <2> QED
    BY <1>0, <1>6, <2>1 DEF ListingInv, ListingOK
<1>7. CASE Closedir \/ Remount \/ CrashAndMount
  BY <1>6, <1>7 DEF Closedir, Remount, CrashAndMount, LoadFromRoot
<1>8. ASSUME NEW i \in DOMAIN inodes,
             \/ \E mode, uid, mtime, size, fh : Setattr(i, mode, uid, mtime, size, fh)
             \/ \E n, v : SetXattr(i, n, v)
             \/ \E n : RemoveXattr(i, n)
             \/ \E h : Open(h, i)
      PROVE  ListingInv'
  <2>1. ASSUME NEW mode, NEW uid, NEW mtime, NEW size, NEW fh,
               Setattr(i, mode, uid, mtime, size, fh)
        PROVE  UNCHANGED <<listing, entries>>
    BY <2>1, Zenon DEF Setattr
  <2>2. ASSUME (\E n, v : SetXattr(i, n, v)) \/ (\E n : RemoveXattr(i, n)) \/ \E h : Open(h, i)
        PROVE  UNCHANGED <<listing, entries>>
    BY <2>2 DEF SetXattr, RemoveXattr, Open, store
  <2> QED
    BY <1>1, <1>8, <2>1, <2>2
<1>9. ASSUME NEW h \in DOMAIN open, Write(h) \/ Flush(h) \/ Release(h) PROVE ListingInv'
  BY <1>1, <1>9 DEF Write, Flush, Release, store
<1>10. CASE UNCHANGED vars
  BY <1>1, <1>10 DEF vars, store
<1> QED
  BY <1>3, <1>4, <1>5, <1>7, <1>8, <1>9, <1>10, ListingRead DEF Next

\* How often the listing gave a name, counted.
LEMMA GotCount ==
    ASSUME NEW got \in Seq(Names), NEW n
    PROVE  LET c == Cardinality({k \in DOMAIN got : got[k] = n})
           IN  (c = 0 => n \notin Once(got)) /\ (c > 1 => n \in Twice(got))
<1> DEFINE K == {k \in DOMAIN got : got[k] = n}
<1>1. IsFiniteSet(K)
  <2>1. DOMAIN got = 1 .. Len(got) /\ Len(got) \in Nat
    OBVIOUS
  <2>2. IsFiniteSet(DOMAIN got)
    BY <2>1, FS_Interval
  <2> QED
    BY <2>2, FS_Subset
<1>2. Cardinality(K) = 0 => n \notin Once(got)
  <2>1. Cardinality(K) = 0 => K = {}
    BY <1>1, FS_EmptySet
  <2> QED
    BY <2>1 DEF Once
<1>3. ASSUME Cardinality(K) > 1 PROVE n \in Twice(got)
  <2> HIDE DEF K
  <2>1. Cardinality(K) # 0 /\ Cardinality(K) # 1
    BY <1>3
  <2>2. K # {}
    BY <2>1, FS_EmptySet
  <2>3. PICK j \in K : TRUE
    BY <2>2
  <2>4. K # {j}
    BY <2>1, FS_Singleton
  <2>5. PICK k \in K : k # j
    BY <2>3, <2>4, Zenon
  <2> USE DEF K
  <2> QED
    BY <2>3, <2>5 DEF Twice, Once
<1> QED
  BY <1>2, <1>3

\* A listing in any number of calls, while names come and go, misses no more of
\* the entries that stay than were removed and repeats no more than were added:
\* handle_readdir's offsets are indexes into the directory as it is then.
THEOREM ListingsBounded == Spec => []ListingDamageBounded
<1>1. Init => ListingInv
  <2>1. NoListing \in ListingState /\ ~NoListing.on
    BY DEF NoListing, ListingState
  <2> QED
    BY <2>1, TypeInit DEF Init, ListingInv, ListingOK
<1>2. ListingInv => ListingDamageBounded
  <2> SUFFICES ASSUME ListingInv, AtEnd
               PROVE  /\ Cardinality(Missed) <= listing.removed
                      /\ Cardinality(Repeated) <= listing.added
    BY DEF ListingDamageBounded
  <2> DEFINE S == DOMAIN entries
             l == listing
  <2>1. /\ l.offset \in Nat /\ l.got \in Seq(Names) /\ l.stable \subseteq S
        /\ l.removed \in Nat /\ l.added \in Nat
        /\ Cardinality(Skipped(l, S)) <= l.removed
        /\ Cardinality(Again(l, S)) <= l.added
    BY DEF ListingInv, ListingOK, AtEnd
  <2>2. S \in SUBSET Nat /\ IsFiniteSet(S)
        /\ \A T \in SUBSET S : IsFiniteSet(T) /\ Cardinality(T) \in Nat
    BY NamesFinite DEF ListingInv
  <2>3. \A n \in S : Rank(S, n) < l.offset
    <3>1. \A n \in S : Rank(S, n) \in 0 .. Cardinality(S) - 1
      BY <2>2, RankOrder
    <3>2. l.offset >= Cardinality(S) /\ Cardinality(S) \in Nat
      BY <2>2, FS_CardinalityType DEF AtEnd
    <3> QED
      BY <2>1, <3>1, <3>2
  <2>4. \A n \in l.stable : /\ Got(n) = 0 => n \notin Once(l.got)
                            /\ Got(n) > 1 => n \in Twice(l.got)
    BY <2>1, GotCount DEF Got
  <2>5. Missed \subseteq Skipped(l, S) /\ Repeated \subseteq Again(l, S)
    BY <2>1, <2>3, <2>4 DEF Missed, Repeated, Skipped, Again
  <2>6. Skipped(l, S) \in SUBSET S /\ Again(l, S) \in SUBSET S
    BY <2>1 DEF Skipped, Again
  <2>7. /\ IsFiniteSet(Skipped(l, S)) /\ IsFiniteSet(Again(l, S))
        /\ Cardinality(Skipped(l, S)) \in Nat /\ Cardinality(Again(l, S)) \in Nat
        /\ Cardinality(Missed) \in Nat /\ Cardinality(Repeated) \in Nat
    <3>1. Missed \in SUBSET S /\ Repeated \in SUBSET S
      BY <2>5, <2>6
    <3> QED
      BY <2>2, <2>6, <3>1
  <2>8. Cardinality(Missed) <= Cardinality(Skipped(l, S))
        /\ Cardinality(Repeated) <= Cardinality(Again(l, S))
    BY <2>5, <2>7, FS_Subset
  <2> QED
    BY <2>1, <2>7, <2>8
<1>3. ListingInv /\ [Next]_vars => ListingInv'
  BY ListingNext
<1> QED
  BY <1>1, <1>2, <1>3, PTL DEF Spec
=============================================================================
