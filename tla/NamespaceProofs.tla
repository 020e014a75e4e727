--------------------------- MODULE NamespaceProofs ---------------------------
(***************************************************************************)
(* Theorems about Namespace for any set of names, any bounds and any       *)
(* number of mounts and crashes.                                           *)
(*                                                                         *)
(* A mount reads the maps that some commit wrote, so the inductive         *)
(* invariant is a predicate on the maps, which holds of those in memory    *)
(* and of those committed.                                                 *)
(***************************************************************************)
EXTENDS Namespace, FiniteSetTheorems, TLAPS

Meta == [dir : BOOLEAN, nlinks : Nat]

\* The entries of any directory, deleted ones included, that lead to i.
Leading(ds, i) ==
    {x \in (DOMAIN ds) \X Names : x[2] \in DOMAIN ds[x[1]] /\ ds[x[1]][x[2]] = i}

\* Types, and that next_ino is above every number in use.
Shape(max, is, ds, at, nx) ==
    /\ nx \in 2 .. max + 1
    /\ DOMAIN is \subseteq Nat \ {0} /\ DOMAIN ds \subseteq Nat \ {0} /\ at \subseteq Nat \ {0}
    /\ \A i \in DOMAIN is \cup DOMAIN ds \cup at : i < nx
    /\ \A i \in DOMAIN is : is[i] \in Meta
    /\ \A d \in DOMAIN ds : DOMAIN ds[d] \subseteq Names
    /\ Root \in DOMAIN is /\ is[Root].dir

\* Entries lead to live inodes below the root; the directories are the inodes
\* with an entry list, and those deleted have an empty one.
Resolved(is, ds) ==
    /\ \A d \in DOMAIN ds : \A n \in DOMAIN ds[d] : ds[d][n] \in DOMAIN is \ {Root}
    /\ \A i \in DOMAIN is : is[i].dir <=> i \in DOMAIN ds
    /\ \A d \in DOMAIN ds : d \notin DOMAIN is => DOMAIN ds[d] = {}

\* The link count of a file is the number of its names; a directory has one
\* name at most, and no more links than inodes were made.
Counted(meta, names, nx) ==
    /\ meta.dir => meta.nlinks <= nx /\ \A x, y \in names : x = y
    /\ ~meta.dir => /\ IsFiniteSet(names)
                    /\ meta.nlinks = Cardinality(names)
                    /\ meta.nlinks <= MaxLinks

Linked(is, ds, nx) == \A i \in DOMAIN is : Counted(is[i], Leading(ds, i), nx)

Good(max, is, ds, at, nx) ==
    Shape(max, is, ds, at, nx) /\ Resolved(is, ds) /\ Linked(is, ds, nx)

IInv ==
    /\ bounds \in Bounds /\ mounts \in 0 .. bounds.mounts
    /\ Good(bounds.ino, inodes, dirs, attached, nextIno)
    /\ Good(bounds.ino, saved.inodes, saved.dirs, saved.attached, saved.nextIno)
    /\ count = Cardinality(DOMAIN inodes)
-----------------------------------------------------------------------------
(* The store's maps.                                                       *)

\* A map with a binding set, for a key it had or had not.
LEMMA WithFacts ==
    ASSUME NEW f, NEW x, NEW v
    PROVE  /\ DOMAIN With(f, x, v) = DOMAIN f \cup {x}
           /\ With(f, x, v)[x] = v
           /\ \A y \in DOMAIN f : y # x => With(f, x, v)[y] = f[y]
  BY DEF With

\* A map with a binding removed.
LEMMA WithoutFacts ==
    ASSUME NEW f, NEW x
    PROVE  /\ DOMAIN Without(f, x) = DOMAIN f \ {x}
           /\ \A y \in DOMAIN f : y # x => Without(f, x)[y] = f[y]
  BY DEF Without

\* A link more or less for inode i, and nothing else.
LEMMA AddLinksFacts ==
    ASSUME NEW is, NEW i \in DOMAIN is, is[i] \in Meta, NEW k \in Int,
           is[i].nlinks + k \in Nat
    PROVE  /\ DOMAIN AddLinks(is, i, k) = DOMAIN is
           /\ AddLinks(is, i, k)[i] \in Meta
           /\ AddLinks(is, i, k)[i].dir = is[i].dir
           /\ AddLinks(is, i, k)[i].nlinks = is[i].nlinks + k
           /\ \A j \in DOMAIN is : j # i => AddLinks(is, i, k)[j] = is[j]
  BY DEF AddLinks, Meta

\* es is ds with an entry more, name n of directory d for inode i.
EntryAdded(ds, es, d, n, i) ==
    /\ DOMAIN es = DOMAIN ds
    /\ DOMAIN es[d] = DOMAIN ds[d] \cup {n}
    /\ es[d][n] = i
    /\ \A m \in DOMAIN ds[d] : es[d][m] = ds[d][m]
    /\ \A e \in DOMAIN ds : e # d => es[e] = ds[e]
    /\ Leading(es, i) = Leading(ds, i) \cup {<<d, n>>}
    /\ <<d, n>> \notin Leading(ds, i)
    /\ \A j : j # i => Leading(es, j) = Leading(ds, j)

\* es is ds without name n of directory d.
EntryRemoved(ds, es, d, n) ==
    /\ DOMAIN es = DOMAIN ds
    /\ DOMAIN es[d] = DOMAIN ds[d] \ {n}
    /\ \A m \in DOMAIN ds[d] : m # n => es[d][m] = ds[d][m]
    /\ \A e \in DOMAIN ds : e # d => es[e] = ds[e]
    /\ \A j : Leading(es, j) = Leading(ds, j) \ {<<d, n>>}

\* add_dir_entry under a name that is free.
LEMMA AddEntryFacts ==
    ASSUME NEW ds, NEW d \in DOMAIN ds, NEW n \in Names, NEW i,
           n \notin DOMAIN ds[d]
    PROVE  EntryAdded(ds, AddEntry(ds, d, n, i), d, n, i)
<1> DEFINE es == AddEntry(ds, d, n, i)
<1>1. DOMAIN es = DOMAIN ds /\ es[d] = With(ds[d], n, i)
      /\ \A e \in DOMAIN ds : e # d => es[e] = ds[e]
  BY DEF AddEntry
<1>2. DOMAIN es[d] = DOMAIN ds[d] \cup {n} /\ es[d][n] = i
      /\ \A m \in DOMAIN ds[d] : es[d][m] = ds[d][m]
  BY <1>1 DEF With
<1> HIDE DEF es
<1>3. <<d, n>> \notin Leading(ds, i)
  BY DEF Leading
<1>4. ASSUME NEW j, NEW x
      PROVE  x \in Leading(es, j) <=> x \in Leading(ds, j) \/ (j = i /\ x = <<d, n>>)
  <2>1. CASE x \in (DOMAIN ds) \X Names
    <3>1. CASE x = <<d, n>>
      BY <1>1, <1>2, <3>1 DEF Leading
    <3>2. CASE x # <<d, n>>
      <4>1. x[1] # d \/ x[2] # n
        BY <2>1, <3>2
      <4>2. x[1] \in DOMAIN ds
        BY <2>1
      <4> QED
        BY <1>1, <1>2, <2>1, <3>2, <4>1, <4>2 DEF Leading
    <3> QED
      BY <3>1, <3>2
  <2>2. CASE x \notin (DOMAIN ds) \X Names
    BY <1>1, <2>2 DEF Leading
  <2> QED
    BY <2>1, <2>2
<1>5. Leading(es, i) = Leading(ds, i) \cup {<<d, n>>}
  BY <1>4
<1>6. \A j : j # i => Leading(es, j) = Leading(ds, j)
  BY <1>4
<1> QED
  BY <1>1, <1>2, <1>3, <1>5, <1>6 DEF es, EntryAdded

\* remove_dir_entry.
LEMMA RemoveEntryFacts ==
    ASSUME NEW ds, NEW d \in DOMAIN ds, NEW n
    PROVE  EntryRemoved(ds, RemoveEntry(ds, d, n), d, n)
<1> DEFINE es == RemoveEntry(ds, d, n)
<1>1. DOMAIN es = DOMAIN ds /\ es[d] = Without(ds[d], n)
      /\ \A e \in DOMAIN ds : e # d => es[e] = ds[e]
  BY DEF RemoveEntry
<1>2. DOMAIN es[d] = DOMAIN ds[d] \ {n}
      /\ \A m \in DOMAIN ds[d] : m # n => es[d][m] = ds[d][m]
  BY <1>1 DEF Without
<1> HIDE DEF es
<1>3. ASSUME NEW j, NEW x
      PROVE  x \in Leading(es, j) <=> x \in Leading(ds, j) /\ x # <<d, n>>
  <2>1. CASE x \in (DOMAIN ds) \X Names
    <3>1. CASE x = <<d, n>>
      BY <1>1, <1>2, <3>1 DEF Leading
    <3>2. CASE x # <<d, n>>
      <4>1. x[1] # d \/ x[2] # n
        BY <2>1, <3>2
      <4>2. x[1] \in DOMAIN ds
        BY <2>1
      <4> QED
        BY <1>1, <1>2, <2>1, <3>2, <4>1, <4>2 DEF Leading
    <3> QED
      BY <3>1, <3>2
  <2>2. CASE x \notin (DOMAIN ds) \X Names
    BY <1>1, <2>2 DEF Leading
  <2> QED
    BY <2>1, <2>2
<1>4. \A j : Leading(es, j) = Leading(ds, j) \ {<<d, n>>}
  BY <1>3
<1> QED
  BY <1>1, <1>2, <1>4 DEF es, EntryRemoved

\* An entry is among those that lead where it leads.
LEMMA LeadingHas ==
    ASSUME NEW ds, NEW d \in DOMAIN ds, NEW n \in DOMAIN ds[d], n \in Names
    PROVE  \A i : <<d, n>> \in Leading(ds, i) <=> ds[d][n] = i
  BY DEF Leading

\* A new directory has no entries, and no entry leads anywhere new for it.
LEMMA NewEntriesFacts ==
    ASSUME NEW ds, NEW i, i \notin DOMAIN ds
    PROVE  \A j : Leading(With(ds, i, NoEntries), j) = Leading(ds, j)
<1> DEFINE es == With(ds, i, NoEntries)
<1>1. DOMAIN es = DOMAIN ds \cup {i} /\ es[i] = NoEntries
      /\ \A e \in DOMAIN ds : es[e] = ds[e]
  BY DEF With
<1>2. DOMAIN NoEntries = {}
  BY DEF NoEntries
<1> HIDE DEF es
<1>3. ASSUME NEW j, NEW x PROVE x \in Leading(es, j) <=> x \in Leading(ds, j)
  BY <1>1, <1>2 DEF Leading
<1> QED
  BY <1>3 DEF es

\* Live inodes are finitely many.
LEMMA LiveFinite ==
    ASSUME NEW max \in Nat, NEW is, NEW ds, NEW at, NEW nx, Shape(max, is, ds, at, nx)
    PROVE  IsFiniteSet(DOMAIN is) /\ Cardinality(DOMAIN is) \in Nat
<1>1. DOMAIN is \subseteq 1 .. max
  BY DEF Shape
<1>2. IsFiniteSet(1 .. max)
  BY FS_Interval
<1> QED
  BY <1>1, <1>2, FS_Subset, FS_CardinalityType

\* What is counted stays so when more inodes are made.
LEMMA CountedLater ==
    ASSUME NEW meta \in Meta, NEW names, NEW nx \in Nat, Counted(meta, names, nx)
    PROVE  Counted(meta, names, nx + 1)
  BY DEF Counted, Meta

-----------------------------------------------------------------------------
(* What the callbacks do to the maps.                                      *)

\* mknod, create and symlink under a free name.
LEMMA FileMade ==
    ASSUME NEW max \in Nat, NEW is, NEW ds, NEW at, NEW nx, Good(max, is, ds, at, nx),
           NEW d \in DOMAIN ds, d \in DOMAIN is, NEW n \in Names, n \notin DOMAIN ds[d],
           nx <= max, NEW bt, bt \subseteq at \cup {nx}
    PROVE  Good(max, With(is, nx, NewFile), AddEntry(ds, d, n, nx), bt, nx + 1)
<1> DEFINE js == With(is, nx, NewFile)
           es == AddEntry(ds, d, n, nx)
<1>1. nx \in Nat /\ nx >= 2 /\ nx \notin DOMAIN is /\ nx \notin DOMAIN ds /\ nx # Root
  BY DEF Good, Shape, Root
<1>2. DOMAIN js = DOMAIN is \cup {nx} /\ js[nx] = NewFile
      /\ \A i \in DOMAIN is : js[i] = is[i]
  BY <1>1 DEF With
<1>3. NewFile \in Meta /\ ~NewFile.dir /\ NewFile.nlinks = 1
  BY DEF NewFile, Meta
<1>4. EntryAdded(ds, es, d, n, nx)
  BY AddEntryFacts
<1> HIDE DEF js, es
<1>5. Leading(es, nx) = {<<d, n>>}
  <2>1. Leading(ds, nx) = {}
    BY <1>1 DEF Good, Resolved, Leading
  <2> QED
    BY <2>1, <1>4 DEF EntryAdded
<1>6. Shape(max, js, es, bt, nx + 1)
  <2>1. nx + 1 \in 2 .. max + 1 /\ \A i \in Nat : i <= nx => i < nx + 1
    BY <1>1
  <2>2. \A i \in DOMAIN is \cup DOMAIN ds \cup at : i \in Nat \ {0} /\ i <= nx
    <3> SUFFICES ASSUME NEW i \in DOMAIN is \cup DOMAIN ds \cup at
                 PROVE  i \in Nat \ {0} /\ i <= nx
      OBVIOUS
    <3>1. i \in Nat \ {0} /\ i < nx
      BY DEF Good, Shape
    <3> QED
      BY <1>1, <3>1
  <2>3. \A e \in DOMAIN es : DOMAIN es[e] \subseteq Names
    BY <1>4 DEF EntryAdded, Good, Shape
  <2>4. \A i \in DOMAIN js : js[i] \in Meta
    BY <1>2, <1>3 DEF Good, Shape
  <2>5. Root \in DOMAIN js /\ js[Root].dir
    BY <1>1, <1>2 DEF Good, Shape
  <2>6. DOMAIN es = DOMAIN ds
    BY <1>4 DEF EntryAdded
  <2>7. \A i \in DOMAIN js \cup DOMAIN es \cup bt : i \in Nat \ {0} /\ i < nx + 1
    BY <1>1, <1>2, <2>1, <2>2, <2>6
  <2> QED
    BY <2>1, <2>3, <2>4, <2>5, <2>7 DEF Shape
<1>7. Resolved(js, es)
  BY <1>1, <1>2, <1>3, <1>4 DEF Good, Resolved, EntryAdded
<1>8. Linked(js, es, nx + 1)
  <2> SUFFICES ASSUME NEW i \in DOMAIN js PROVE Counted(js[i], Leading(es, i), nx + 1)
    BY DEF Linked
  <2>1. CASE i = nx
    <3>1. IsFiniteSet({<<d, n>>}) /\ Cardinality({<<d, n>>}) = 1
      BY FS_Singleton
    <3> QED
      BY <2>1, <1>2, <1>3, <1>5, <3>1, ConstantsAssumption DEF Counted
  <2>2. CASE i # nx
    <3>1. i \in DOMAIN is /\ js[i] = is[i] /\ Leading(es, i) = Leading(ds, i) /\ is[i] \in Meta
      BY <1>2, <1>4, <2>2 DEF Good, Shape, EntryAdded
    <3>2. Counted(is[i], Leading(ds, i), nx)
      BY <3>1 DEF Good, Linked
    <3> QED
      BY <1>1, <3>1, <3>2, CountedLater
  <2> QED
    BY <2>1, <2>2
<1> QED
  BY <1>6, <1>7, <1>8 DEF Good, js, es

\* create_directory under a free name.
LEMMA DirMade ==
    ASSUME NEW max \in Nat, NEW is, NEW ds, NEW at, NEW nx, Good(max, is, ds, at, nx),
           NEW d \in DOMAIN ds, d \in DOMAIN is, is[d].dir,
           NEW n \in Names, n \notin DOMAIN ds[d], nx <= max
    PROVE  Good(max, AddLinks(With(is, nx, NewDirectory), d, 1),
                With(AddEntry(ds, d, n, nx), nx, NoEntries), at, nx + 1)
<1> DEFINE ks == With(is, nx, NewDirectory)
           js == AddLinks(ks, d, 1)
           cs == AddEntry(ds, d, n, nx)
           es == With(cs, nx, NoEntries)
<1>1. nx \in Nat /\ nx >= 2 /\ nx \notin DOMAIN is /\ nx \notin DOMAIN ds /\ nx # Root /\ nx # d
  BY DEF Good, Shape, Root
<1>2. DOMAIN ks = DOMAIN is \cup {nx} /\ ks[nx] = NewDirectory
      /\ \A i \in DOMAIN is : ks[i] = is[i]
  BY <1>1 DEF With
<1>3. NewDirectory \in Meta /\ NewDirectory.dir /\ NewDirectory.nlinks = 2
  BY DEF NewDirectory, Meta
<1> HIDE DEF ks
<1>4. is[d] \in Meta /\ is[d].nlinks \in Nat
  BY DEF Good, Shape, Meta
<1>5. /\ DOMAIN js = DOMAIN is \cup {nx}
      /\ js[d] \in Meta /\ js[d].dir /\ js[d].nlinks = is[d].nlinks + 1
      /\ js[nx] = NewDirectory
      /\ \A i \in DOMAIN is : i # d => js[i] = is[i]
  <2>1. d \in DOMAIN ks /\ ks[d] = is[d] /\ ks[d] \in Meta /\ ks[d].nlinks + 1 \in Nat
    BY <1>2, <1>4
  <2>2. /\ DOMAIN js = DOMAIN ks /\ js[d] \in Meta /\ js[d].dir = ks[d].dir
        /\ js[d].nlinks = ks[d].nlinks + 1
        /\ \A i \in DOMAIN ks : i # d => js[i] = ks[i]
    BY <2>1, AddLinksFacts
  <2> HIDE DEF js
  <2> QED
    BY <1>1, <1>2, <2>1, <2>2
<1>6. EntryAdded(ds, cs, d, n, nx)
  BY AddEntryFacts
<1> HIDE DEF cs, js
<1>7. DOMAIN es = DOMAIN ds \cup {nx} /\ DOMAIN es[nx] = {}
      /\ \A e \in DOMAIN ds : es[e] = cs[e]
  BY <1>1, <1>6 DEF With, NoEntries, EntryAdded
<1>8. \A j : Leading(es, j) = Leading(cs, j)
  <2>1. nx \notin DOMAIN cs
    BY <1>1, <1>6 DEF EntryAdded
  <2> QED
    BY <2>1, NewEntriesFacts
<1> HIDE DEF es
<1>9. Leading(es, nx) = {<<d, n>>}
  <2>1. Leading(ds, nx) = {}
    BY <1>1 DEF Good, Resolved, Leading
  <2> QED
    BY <2>1, <1>6, <1>8 DEF EntryAdded
<1>10. Shape(max, js, es, at, nx + 1)
  <2>1. nx + 1 \in 2 .. max + 1 /\ \A i \in Nat : i <= nx => i < nx + 1
    BY <1>1
  <2>2. \A i \in DOMAIN is \cup DOMAIN ds \cup at : i \in Nat \ {0} /\ i <= nx
    <3> SUFFICES ASSUME NEW i \in DOMAIN is \cup DOMAIN ds \cup at
                 PROVE  i \in Nat \ {0} /\ i <= nx
      OBVIOUS
    <3>1. i \in Nat \ {0} /\ i < nx
      BY DEF Good, Shape
    <3> QED
      BY <1>1, <3>1
  <2>3. \A e \in DOMAIN es : DOMAIN es[e] \subseteq Names
    BY <1>6, <1>7 DEF EntryAdded, Good, Shape
  <2>4. \A i \in DOMAIN js : js[i] \in Meta
    BY <1>3, <1>5 DEF Good, Shape
  <2>5. Root \in DOMAIN js /\ js[Root].dir
    BY <1>1, <1>5 DEF Good, Shape
  <2>6. \A i \in DOMAIN js \cup DOMAIN es \cup at : i \in Nat \ {0} /\ i < nx + 1
    BY <1>1, <1>5, <1>7, <2>1, <2>2
  <2> QED
    BY <2>1, <2>3, <2>4, <2>5, <2>6 DEF Shape
<1>11. Resolved(js, es)
  BY <1>1, <1>3, <1>5, <1>6, <1>7 DEF Good, Resolved, EntryAdded
<1>12. Linked(js, es, nx + 1)
  <2> SUFFICES ASSUME NEW i \in DOMAIN js PROVE Counted(js[i], Leading(es, i), nx + 1)
    BY DEF Linked
  <2>1. CASE i = nx
    BY <2>1, <1>1, <1>3, <1>5, <1>9 DEF Counted
  <2>2. CASE i # nx
    <3>1. i \in DOMAIN is /\ Leading(es, i) = Leading(ds, i) /\ is[i] \in Meta
      BY <1>5, <1>6, <1>8, <2>2 DEF Good, Shape, EntryAdded
    <3>2. Counted(is[i], Leading(ds, i), nx)
      BY <3>1 DEF Good, Linked
    <3>3. CASE i = d
      BY <1>1, <1>4, <1>5, <3>1, <3>2, <3>3 DEF Counted
    <3>4. CASE i # d
      BY <1>1, <1>5, <3>1, <3>2, <3>4, CountedLater
    <3> QED
      BY <3>3, <3>4
  <2> QED
    BY <2>1, <2>2
<1> QED
  BY <1>10, <1>11, <1>12 DEF Good, js, es, cs, ks

\* The same inodes and numbers: what Shape says of the maps otherwise.
LEMMA ShapeKept ==
    ASSUME NEW max \in Nat, NEW is, NEW ds, NEW at, NEW nx, Shape(max, is, ds, at, nx),
           NEW js, NEW es, DOMAIN js \subseteq DOMAIN is, DOMAIN es = DOMAIN ds,
           \A i \in DOMAIN js : js[i] \in Meta /\ js[i].dir = is[i].dir,
           \A d \in DOMAIN ds : DOMAIN es[d] \subseteq Names,
           Root \in DOMAIN js
    PROVE  Shape(max, js, es, at, nx)
<1>1. \A i \in DOMAIN js \cup DOMAIN es \cup at : i \in Nat \ {0} /\ i < nx
  BY DEF Shape
<1> QED
  BY <1>1 DEF Shape

\* link under a free name.
LEMMA LinkMade ==
    ASSUME NEW max \in Nat, NEW is, NEW ds, NEW at, NEW nx, Good(max, is, ds, at, nx),
           NEW d \in DOMAIN ds, d \in DOMAIN is, NEW n \in Names, n \notin DOMAIN ds[d],
           NEW i \in DOMAIN is, ~is[i].dir, is[i].nlinks < MaxLinks
    PROVE  Good(max, AddLinks(is, i, 1), AddEntry(ds, d, n, i), at, nx)
<1> DEFINE js == AddLinks(is, i, 1)
           es == AddEntry(ds, d, n, i)
<1>1. is[i] \in Meta /\ is[i].nlinks \in Nat /\ is[i].nlinks + 1 \in Nat /\ i # Root
  BY DEF Good, Shape, Meta
<1>2. /\ DOMAIN js = DOMAIN is
      /\ js[i] \in Meta /\ js[i].dir = is[i].dir /\ js[i].nlinks = is[i].nlinks + 1
      /\ \A j \in DOMAIN is : j # i => js[j] = is[j]
  BY <1>1, AddLinksFacts
<1>3. EntryAdded(ds, es, d, n, i)
  BY AddEntryFacts
<1> HIDE DEF js, es
<1>4. Shape(max, js, es, at, nx)
  <2>1. \A e \in DOMAIN ds : DOMAIN es[e] \subseteq Names
    BY <1>3 DEF EntryAdded, Good, Shape
  <2>2. \A j \in DOMAIN js : js[j] \in Meta /\ js[j].dir = is[j].dir
    BY <1>2 DEF Good, Shape
  <2>3. Root \in DOMAIN js /\ DOMAIN es = DOMAIN ds /\ Shape(max, is, ds, at, nx)
    BY <1>2, <1>3 DEF Good, Shape, EntryAdded
  <2> QED
    BY <1>2, <2>1, <2>2, <2>3, ShapeKept
<1>5. Resolved(js, es)
  BY <1>1, <1>2, <1>3 DEF Good, Resolved, EntryAdded
<1>6. Linked(js, es, nx)
  <2> SUFFICES ASSUME NEW j \in DOMAIN js PROVE Counted(js[j], Leading(es, j), nx)
    BY DEF Linked
  <2>1. Counted(is[j], Leading(ds, j), nx)
    BY <1>2 DEF Good, Linked
  <2>2. CASE j = i
    <3>1. /\ IsFiniteSet(Leading(ds, i)) /\ Cardinality(Leading(ds, i)) = is[i].nlinks
          /\ Leading(es, i) = Leading(ds, i) \cup {<<d, n>>} /\ <<d, n>> \notin Leading(ds, i)
      BY <1>3, <2>1, <2>2 DEF Counted, EntryAdded
    <3>2. IsFiniteSet(Leading(es, i)) /\ Cardinality(Leading(es, i)) = is[i].nlinks + 1
      BY <3>1, FS_AddElement, ZenonT(40)
    <3> QED
      BY <1>1, <1>2, <2>2, <3>2, ConstantsAssumption DEF Counted
  <2>3. CASE j # i
    BY <1>2, <1>3, <2>1, <2>3 DEF EntryAdded
  <2> QED
    BY <2>2, <2>3
<1> QED
  BY <1>4, <1>5, <1>6 DEF Good, js, es

\* A name of a file goes (unlink, or rename over it): the last one takes the
\* inode along.
LEMMA NameDropped ==
    ASSUME NEW max \in Nat, NEW is, NEW ds, NEW at, NEW nx, Good(max, is, ds, at, nx),
           NEW d \in DOMAIN ds, NEW n \in DOMAIN ds[d], NEW i, i = ds[d][n], ~is[i].dir
    PROVE  /\ i \in DOMAIN is
           /\ Good(max, IF is[i].nlinks <= 1 THEN Without(is, i) ELSE AddLinks(is, i, -1),
                   RemoveEntry(ds, d, n), at, nx)
<1> DEFINE es == RemoveEntry(ds, d, n)
<1>1. i \in DOMAIN is /\ i # Root /\ i \notin DOMAIN ds /\ is[i] \in Meta
      /\ is[i].nlinks \in Nat /\ n \in Names
  BY DEF Good, Shape, Resolved, Meta
<1>2. EntryRemoved(ds, es, d, n)
  BY RemoveEntryFacts
<1>3. <<d, n>> \in Leading(ds, i) /\ \A j : j # i => <<d, n>> \notin Leading(ds, j)
  BY <1>1, LeadingHas
<1> HIDE DEF es
<1>4. Counted(is[i], Leading(ds, i), nx)
  BY <1>1 DEF Good, Linked
<1>5. /\ IsFiniteSet(Leading(es, i)) /\ Cardinality(Leading(es, i)) = is[i].nlinks - 1
      /\ Cardinality(Leading(es, i)) \in Nat
  BY <1>1, <1>2, <1>3, <1>4, FS_RemoveElement, FS_CardinalityType DEF Counted, EntryRemoved
<1>6. \A j \in DOMAIN is : j # i => Leading(es, j) = Leading(ds, j)
  BY <1>2, <1>3 DEF EntryRemoved
<1>7. \A e \in DOMAIN ds : DOMAIN es[e] \subseteq Names
  BY <1>2 DEF EntryRemoved, Good, Shape
<1>8. DOMAIN es = DOMAIN ds /\ Shape(max, is, ds, at, nx)
  BY <1>2 DEF Good, EntryRemoved
<1>9. CASE is[i].nlinks <= 1
  <2> DEFINE js == Without(is, i)
  <2>1. DOMAIN js = DOMAIN is \ {i} /\ \A j \in DOMAIN is : j # i => js[j] = is[j]
    BY DEF Without
  <2> HIDE DEF js
  <2>2. Leading(es, i) = {}
    <3>1. Cardinality(Leading(es, i)) = 0
      BY <1>1, <1>5, <1>9
    <3> QED
      BY <1>5, <3>1, FS_EmptySet
  <2>3. \A e \in DOMAIN es : \A m \in DOMAIN es[e] : es[e][m] # i
    <3> SUFFICES ASSUME NEW e \in DOMAIN es, NEW m \in DOMAIN es[e], es[e][m] = i
                 PROVE  FALSE
      OBVIOUS
    <3>1. m \in Names
      BY <1>7, <1>8
    <3>2. <<e, m>> \in Leading(es, i)
      BY <3>1 DEF Leading
    <3> QED
      BY <2>2, <3>2
  <2>4. Shape(max, js, es, at, nx)
    <3>1. \A j \in DOMAIN js : js[j] \in Meta /\ js[j].dir = is[j].dir
      BY <2>1 DEF Good, Shape
    <3>2. Root \in DOMAIN js
      BY <1>1, <2>1 DEF Good, Shape
    <3> QED
      BY <1>7, <1>8, <2>1, <3>1, <3>2, ShapeKept
  <2>5. Resolved(js, es)
    BY <1>1, <1>2, <2>1, <2>3 DEF Good, Resolved, EntryRemoved
  <2>6. Linked(js, es, nx)
    BY <1>6, <2>1 DEF Good, Linked
  <2> QED
    BY <1>1, <1>9, <2>4, <2>5, <2>6 DEF Good, js, es
<1>10. CASE ~(is[i].nlinks <= 1)
  <2> DEFINE js == AddLinks(is, i, -1)
  <2>1. /\ DOMAIN js = DOMAIN is
        /\ js[i] \in Meta /\ js[i].dir = is[i].dir /\ js[i].nlinks = is[i].nlinks - 1
        /\ \A j \in DOMAIN is : j # i => js[j] = is[j]
    <3>1. is[i].nlinks + (-1) \in Nat /\ is[i].nlinks + (-1) = is[i].nlinks - 1
      BY <1>1, <1>10
    <3> QED
      BY <1>1, <3>1, AddLinksFacts
  <2> HIDE DEF js
  <2>2. Shape(max, js, es, at, nx)
    <3>1. \A j \in DOMAIN js : js[j] \in Meta /\ js[j].dir = is[j].dir
      BY <2>1 DEF Good, Shape
    <3>2. Root \in DOMAIN js
      BY <2>1 DEF Good, Shape
    <3> QED
      BY <1>7, <1>8, <2>1, <3>1, <3>2, ShapeKept
  <2>3. Resolved(js, es)
    BY <1>1, <1>2, <2>1 DEF Good, Resolved, EntryRemoved
  <2>4. Linked(js, es, nx)
    <3> SUFFICES ASSUME NEW j \in DOMAIN js PROVE Counted(js[j], Leading(es, j), nx)
      BY DEF Linked
    <3>1. CASE j = i
      <4>1. is[i].nlinks - 1 <= MaxLinks
        BY <1>1, <1>4, ConstantsAssumption DEF Counted
      <4> QED
        BY <1>5, <2>1, <3>1, <4>1 DEF Counted
    <3>2. CASE j # i
      BY <1>6, <2>1, <3>2 DEF Good, Linked
    <3> QED
      BY <3>1, <3>2
  <2> QED
    BY <1>1, <1>10, <2>2, <2>3, <2>4 DEF Good, js, es
<1> QED
  BY <1>9, <1>10

\* A directory loses its name: rename replaces it, and it keeps its entries.
LEMMA DirUnnamed ==
    ASSUME NEW max \in Nat, NEW is, NEW ds, NEW at, NEW nx, Good(max, is, ds, at, nx),
           NEW d \in DOMAIN ds, NEW n \in DOMAIN ds[d], NEW i, i = ds[d][n], is[i].dir
    PROVE  Good(max, IF is[i].nlinks > 1 THEN AddLinks(is, i, -1) ELSE is,
                RemoveEntry(ds, d, n), at, nx)
<1> DEFINE es == RemoveEntry(ds, d, n)
           js == IF is[i].nlinks > 1 THEN AddLinks(is, i, -1) ELSE is
<1>1. i \in DOMAIN is /\ is[i] \in Meta /\ is[i].nlinks \in Nat
  BY DEF Good, Shape, Resolved, Meta
<1>2. EntryRemoved(ds, es, d, n)
  BY RemoveEntryFacts
<1>3. /\ DOMAIN js = DOMAIN is
      /\ js[i] \in Meta /\ js[i].dir /\ js[i].nlinks \in Nat /\ js[i].nlinks <= is[i].nlinks
      /\ \A j \in DOMAIN is : j # i => js[j] = is[j]
  <2>1. CASE is[i].nlinks > 1
    <3>1. is[i].nlinks + (-1) \in Nat /\ is[i].nlinks + (-1) <= is[i].nlinks
      BY <1>1, <2>1
    <3>2. js = AddLinks(is, i, -1)
      BY <2>1
    <3> QED
      BY <1>1, <3>1, <3>2, AddLinksFacts
  <2>2. CASE ~(is[i].nlinks > 1)
    BY <1>1, <2>2
  <2> QED
    BY <2>1, <2>2
<1> HIDE DEF es, js
<1>4. Shape(max, js, es, at, nx)
  <2>1. \A e \in DOMAIN ds : DOMAIN es[e] \subseteq Names
    BY <1>2 DEF EntryRemoved, Good, Shape
  <2>2. \A j \in DOMAIN js : js[j] \in Meta /\ js[j].dir = is[j].dir
    BY <1>1, <1>3 DEF Good, Shape, Meta
  <2>3. Root \in DOMAIN js /\ DOMAIN es = DOMAIN ds /\ Shape(max, is, ds, at, nx)
    BY <1>2, <1>3 DEF Good, Shape, EntryRemoved
  <2> QED
    BY <1>3, <2>1, <2>2, <2>3, ShapeKept
<1>5. Resolved(js, es)
  BY <1>1, <1>2, <1>3 DEF Good, Resolved, EntryRemoved
<1>6. Linked(js, es, nx)
  <2> SUFFICES ASSUME NEW j \in DOMAIN js PROVE Counted(js[j], Leading(es, j), nx)
    BY DEF Linked
  <2>1. Counted(is[j], Leading(ds, j), nx) /\ nx \in Nat
    BY <1>3 DEF Good, Linked, Shape
  <2>2. Leading(es, j) = Leading(ds, j) \ {<<d, n>>}
    BY <1>2 DEF EntryRemoved
  <2>3. CASE j = i
    BY <1>1, <1>3, <2>1, <2>2, <2>3 DEF Counted
  <2>4. CASE j # i
    <3>1. <<d, n>> \notin Leading(ds, j)
      BY <2>4, LeadingHas DEF Good, Shape
    <3> QED
      BY <1>3, <2>1, <2>2, <2>4, <3>1
  <2> QED
    BY <2>3, <2>4
<1> QED
  BY <1>4, <1>5, <1>6 DEF Good, js, es

\* rmdir of an empty directory.
LEMMA DirRemoved ==
    ASSUME NEW max \in Nat, NEW is, NEW ds, NEW at, NEW nx, Good(max, is, ds, at, nx),
           NEW d \in DOMAIN ds, d \in DOMAIN is, NEW n \in DOMAIN ds[d], NEW i, i = ds[d][n],
           is[i].dir, DOMAIN ds[i] = {}, NEW rest, rest = Without(is, i)
    PROVE  /\ i \in DOMAIN is
           /\ DOMAIN (IF rest[d].nlinks > 0 THEN AddLinks(rest, d, -1) ELSE rest)
                = DOMAIN is \ {i}
           /\ Good(max, IF rest[d].nlinks > 0 THEN AddLinks(rest, d, -1) ELSE rest,
                   RemoveEntry(ds, d, n), at, nx)
<1> DEFINE es == RemoveEntry(ds, d, n)
           js == IF rest[d].nlinks > 0 THEN AddLinks(rest, d, -1) ELSE rest
<1>1. i \in DOMAIN is /\ i # Root /\ i # d /\ n \in Names
  BY DEF Good, Shape, Resolved
<1>2. EntryRemoved(ds, es, d, n)
  BY RemoveEntryFacts
<1>3. DOMAIN rest = DOMAIN is \ {i} /\ \A j \in DOMAIN is : j # i => rest[j] = is[j]
  BY DEF Without
<1>4. d \in DOMAIN rest /\ rest[d] = is[d] /\ is[d] \in Meta /\ is[d].nlinks \in Nat
  BY <1>1, <1>3 DEF Good, Shape, Meta
<1>5. /\ DOMAIN js = DOMAIN is \ {i}
      /\ js[d] \in Meta /\ js[d].dir = is[d].dir
      /\ js[d].nlinks \in Nat /\ js[d].nlinks <= is[d].nlinks
      /\ \A j \in DOMAIN is : j # i /\ j # d => js[j] = is[j]
  <2>1. CASE rest[d].nlinks > 0
    <3>1. rest[d].nlinks + (-1) \in Nat /\ rest[d].nlinks + (-1) <= rest[d].nlinks
      BY <1>4, <2>1
    <3>2. js = AddLinks(rest, d, -1)
      BY <2>1
    <3>3. /\ DOMAIN js = DOMAIN rest
          /\ js[d] \in Meta /\ js[d].dir = rest[d].dir /\ js[d].nlinks = rest[d].nlinks + (-1)
          /\ \A j \in DOMAIN rest : j # d => js[j] = rest[j]
      BY <1>4, <3>1, <3>2, AddLinksFacts
    <3> HIDE DEF js
    <3> QED
      BY <1>3, <1>4, <3>1, <3>3
  <2>2. CASE ~(rest[d].nlinks > 0)
    <3>1. js = rest
      BY <2>2
    <3> HIDE DEF js
    <3> QED
      BY <1>3, <1>4, <3>1
  <2> QED
    BY <2>1, <2>2
<1> HIDE DEF es, js
<1>6. is[d].dir
  BY DEF Good, Resolved
<1>7. \A e \in DOMAIN ds : DOMAIN es[e] \subseteq Names
  BY <1>2 DEF EntryRemoved, Good, Shape
<1>8. Leading(es, i) = {}
  <2>1. \A x, y \in Leading(ds, i) : x = y
    BY <1>1 DEF Good, Linked, Counted
  <2>2. <<d, n>> \in Leading(ds, i)
    BY <1>1, LeadingHas
  <2> QED
    BY <1>2, <2>1, <2>2 DEF EntryRemoved
<1>9. \A e \in DOMAIN es : \A m \in DOMAIN es[e] : es[e][m] # i
  <2> SUFFICES ASSUME NEW e \in DOMAIN es, NEW m \in DOMAIN es[e], es[e][m] = i
               PROVE  FALSE
    OBVIOUS
  <2>1. m \in Names
    BY <1>2, <1>7 DEF EntryRemoved
  <2>2. <<e, m>> \in Leading(es, i)
    BY <2>1 DEF Leading
  <2> QED
    BY <1>8, <2>2
<1>10. Shape(max, js, es, at, nx)
  <2>1. \A j \in DOMAIN js : js[j] \in Meta /\ js[j].dir = is[j].dir
    BY <1>5 DEF Good, Shape
  <2>2. Root \in DOMAIN js /\ DOMAIN es = DOMAIN ds /\ Shape(max, is, ds, at, nx)
    BY <1>1, <1>2, <1>5 DEF Good, Shape, EntryRemoved
  <2>3. DOMAIN js \subseteq DOMAIN is
    BY <1>5
  <2> QED
    BY <1>7, <2>1, <2>2, <2>3, ShapeKept
<1>11. Resolved(js, es)
  <2>1. \A e \in DOMAIN es : \A m \in DOMAIN es[e] : es[e][m] \in DOMAIN js \ {Root}
    BY <1>2, <1>5, <1>9 DEF Good, Resolved, EntryRemoved
  <2>2. \A j \in DOMAIN js : js[j].dir <=> j \in DOMAIN es
    BY <1>2, <1>5 DEF Good, Resolved, EntryRemoved
  <2>3. \A e \in DOMAIN es : e \notin DOMAIN js => DOMAIN es[e] = {}
    BY <1>1, <1>2, <1>5 DEF Good, Resolved, EntryRemoved
  <2> QED
    BY <2>1, <2>2, <2>3 DEF Resolved
<1>12. Linked(js, es, nx)
  <2> SUFFICES ASSUME NEW j \in DOMAIN js PROVE Counted(js[j], Leading(es, j), nx)
    BY DEF Linked
  <2>1. j \in DOMAIN is /\ j # i /\ Counted(is[j], Leading(ds, j), nx) /\ nx \in Nat
    BY <1>5 DEF Good, Linked, Shape
  <2>2. Leading(es, j) = Leading(ds, j)
    <3>1. <<d, n>> \notin Leading(ds, j)
      BY <1>1, <2>1, LeadingHas
    <3> QED
      BY <1>2, <3>1 DEF EntryRemoved
  <2>3. CASE j = d
    <3>1. is[d].nlinks <= nx /\ \A x, y \in Leading(es, j) : x = y
      BY <1>6, <2>1, <2>2, <2>3 DEF Counted
    <3>2. js[d].nlinks <= nx
      BY <1>4, <1>5, <2>1, <3>1
    <3> QED
      BY <1>5, <1>6, <2>3, <3>1, <3>2 DEF Counted
  <2>4. CASE j # d
    BY <1>5, <2>1, <2>2, <2>4
  <2> QED
    BY <2>3, <2>4
<1> QED
  BY <1>1, <1>5, <1>10, <1>11, <1>12 DEF Good, js, es

\* rename onto a free name.
LEMMA NameMoved ==
    ASSUME NEW max \in Nat, NEW is, NEW ds, NEW at, NEW nx, Good(max, is, ds, at, nx),
           NEW d \in DOMAIN ds, NEW n \in DOMAIN ds[d],
           NEW e \in DOMAIN ds, e \in DOMAIN is, NEW m \in Names, m \notin DOMAIN ds[e]
    PROVE  Good(max, is, RemoveEntry(AddEntry(ds, e, m, ds[d][n]), d, n), at, nx)
<1> DEFINE i == ds[d][n]
           cs == AddEntry(ds, e, m, i)
           es == RemoveEntry(cs, d, n)
<1>1. i \in DOMAIN is /\ i # Root /\ n \in Names
  BY DEF Good, Shape, Resolved
<1> HIDE DEF i
<1>2. EntryAdded(ds, cs, e, m, i)
  BY AddEntryFacts
<1> HIDE DEF cs
<1>3. EntryRemoved(cs, es, d, n)
  BY <1>2, RemoveEntryFacts DEF EntryAdded
<1> HIDE DEF es
<1>4. <<d, n>> \in Leading(ds, i) /\ \A j : j # i => <<d, n>> \notin Leading(ds, j)
  BY <1>1, LeadingHas DEF i
<1>5. <<d, n>> # <<e, m>> /\ <<e, m>> \notin Leading(ds, i)
  BY <1>2, <1>4 DEF EntryAdded
<1>6. Leading(es, i) = (Leading(ds, i) \ {<<d, n>>}) \cup {<<e, m>>}
      /\ \A j : j # i => Leading(es, j) = Leading(ds, j)
  <2>1. Leading(cs, i) = Leading(ds, i) \cup {<<e, m>>}
        /\ \A j : j # i => Leading(cs, j) = Leading(ds, j)
    BY <1>2 DEF EntryAdded
  <2>2. \A j : Leading(es, j) = Leading(cs, j) \ {<<d, n>>}
    BY <1>3 DEF EntryRemoved
  <2>3. Leading(es, i) = (Leading(ds, i) \ {<<d, n>>}) \cup {<<e, m>>}
    <3>1. Leading(es, i) = Leading(cs, i) \ {<<d, n>>}
      BY <2>2
    <3> QED
      BY <2>1, <3>1, <1>5
  <2>4. ASSUME NEW j, j # i PROVE Leading(es, j) = Leading(ds, j)
    <3>1. Leading(es, j) = Leading(cs, j) \ {<<d, n>>} /\ Leading(cs, j) = Leading(ds, j)
      BY <2>1, <2>2, <2>4
    <3>2. <<d, n>> \notin Leading(ds, j)
      BY <1>4, <2>4
    <3> QED
      BY <3>1, <3>2
  <2> QED
    BY <2>3, <2>4
<1>7. DOMAIN es = DOMAIN ds
  BY <1>2, <1>3 DEF EntryAdded, EntryRemoved
<1>8. \A f \in DOMAIN ds : DOMAIN cs[f] \subseteq Names
      /\ \A k \in DOMAIN cs[f] : cs[f][k] \in DOMAIN is \ {Root}
  BY <1>1, <1>2 DEF EntryAdded, Good, Shape, Resolved
<1>9. \A f \in DOMAIN ds : f \notin DOMAIN is => DOMAIN cs[f] = {}
  BY <1>2 DEF EntryAdded, Good, Resolved
<1>10. \A f \in DOMAIN ds : DOMAIN es[f] \subseteq DOMAIN cs[f]
      /\ \A k \in DOMAIN es[f] : es[f][k] = cs[f][k]
  BY <1>2, <1>3 DEF EntryAdded, EntryRemoved
<1>11. Shape(max, is, es, at, nx)
  <2>1. \A f \in DOMAIN ds : DOMAIN es[f] \subseteq Names
    BY <1>8, <1>10
  <2>2. Root \in DOMAIN is /\ Shape(max, is, ds, at, nx)
        /\ \A j \in DOMAIN is : is[j] \in Meta /\ is[j].dir = is[j].dir
    BY DEF Good, Shape
  <2> QED
    BY <1>7, <2>1, <2>2, ShapeKept
<1>12. Resolved(is, es)
  <2>1. \A j \in DOMAIN is : is[j].dir <=> j \in DOMAIN es
    BY <1>7 DEF Good, Resolved
  <2> QED
    BY <1>7, <1>8, <1>9, <1>10, <2>1 DEF Resolved
<1>13. Linked(is, es, nx)
  <2> SUFFICES ASSUME NEW j \in DOMAIN is PROVE Counted(is[j], Leading(es, j), nx)
    BY DEF Linked
  <2>1. Counted(is[j], Leading(ds, j), nx)
    BY DEF Good, Linked
  <2>2. CASE j = i /\ is[i].dir
    BY <1>4, <1>6, <2>1, <2>2 DEF Counted
  <2>3. CASE j = i /\ ~is[i].dir
    <3> DEFINE L == Leading(ds, i) \ {<<d, n>>}
    <3>1. IsFiniteSet(Leading(ds, i)) /\ Cardinality(Leading(ds, i)) = is[i].nlinks
          /\ is[i].nlinks \in Nat
      BY <2>1, <2>3 DEF Counted, Good, Shape, Meta
    <3>2. IsFiniteSet(L) /\ Cardinality(L) = is[i].nlinks - 1
      BY <1>4, <3>1, FS_RemoveElement, ZenonT(40)
    <3>3. <<e, m>> \notin L
      BY <1>5
    <3> HIDE DEF L
    <3>4. IsFiniteSet(L \cup {<<e, m>>}) /\ Cardinality(L \cup {<<e, m>>}) = is[i].nlinks - 1 + 1
      BY <3>2, <3>3, FS_AddElement
    <3>5. Leading(es, i) = L \cup {<<e, m>>}
      BY <1>6 DEF L
    <3>6. IsFiniteSet(Leading(es, i)) /\ Cardinality(Leading(es, i)) = is[i].nlinks
      BY <3>1, <3>4, <3>5
    <3> QED
      BY <2>1, <2>3, <3>6 DEF Counted
  <2>4. CASE j # i
    BY <1>6, <2>1, <2>4
  <2> QED
    BY <2>2, <2>3, <2>4
<1> QED
  BY <1>11, <1>12, <1>13 DEF Good, es, cs, i

-----------------------------------------------------------------------------
(* One lemma per action: it preserves the inductive invariant.             *)

\* What a callback has to show: the committed maps are out of its reach.
LEMMA CallbackKeeps ==
    ASSUME IInv, UNCHANGED given,
           Good(bounds.ino, inodes', dirs', attached', nextIno'),
           count' = Cardinality(DOMAIN inodes')
    PROVE  IInv'
  BY DEF IInv, given

\* Facts about the state in which a callback runs.
LEMMA CallbackContext ==
    ASSUME IInv
    PROVE  /\ bounds.ino \in Nat
           /\ Good(bounds.ino, inodes, dirs, attached, nextIno)
           /\ nextIno \in Nat /\ nextIno \notin DOMAIN inodes
           /\ IsFiniteSet(DOMAIN inodes) /\ count = Cardinality(DOMAIN inodes)
           /\ count \in Nat
           /\ \A d \in Parents : d \in DOMAIN dirs /\ d \in DOMAIN inodes /\ inodes[d].dir
<1>1. bounds.ino \in Nat
  BY ConstantsAssumption DEF IInv
<1>2. Shape(bounds.ino, inodes, dirs, attached, nextIno)
  BY DEF IInv, Good
<1>3. nextIno \in Nat /\ nextIno \notin DOMAIN inodes
  BY <1>1, <1>2 DEF Shape
<1>4. IsFiniteSet(DOMAIN inodes) /\ Cardinality(DOMAIN inodes) \in Nat
  BY <1>1, <1>2, LiveFinite
<1> QED
  BY <1>1, <1>3, <1>4 DEF IInv, Parents, IsDir

\* A number is spent, and nothing is made: the name was taken.
LEMMA NumberSpent ==
    ASSUME NEW max \in Nat, NEW is, NEW ds, NEW at, NEW nx, Good(max, is, ds, at, nx), nx <= max
    PROVE  Good(max, is, ds, at, nx + 1)
<1>1. nx \in Nat /\ nx + 1 \in 2 .. max + 1
  BY DEF Good, Shape
<1>2. \A i \in DOMAIN is \cup DOMAIN ds \cup at : i < nx + 1
  <2> SUFFICES ASSUME NEW i \in DOMAIN is \cup DOMAIN ds \cup at PROVE i < nx + 1
    OBVIOUS
  <2>1. i \in Nat /\ i < nx
    BY DEF Good, Shape
  <2> QED
    BY <1>1, <2>1
<1>3. Shape(max, is, ds, at, nx + 1)
  BY <1>1, <1>2 DEF Good, Shape
<1>4. Linked(is, ds, nx + 1)
  <2> SUFFICES ASSUME NEW i \in DOMAIN is PROVE Counted(is[i], Leading(ds, i), nx + 1)
    BY DEF Linked
  <2>1. is[i] \in Meta /\ Counted(is[i], Leading(ds, i), nx)
    BY DEF Good, Shape, Linked
  <2> QED
    BY <1>1, <2>1, CountedLater
<1> QED
  BY <1>3, <1>4 DEF Good

\* mknod, create and symlink.
LEMMA MknodStep ==
    ASSUME IInv, NEW d \in Parents, NEW n \in Names, NEW content,
           content \subseteq {nextIno}, Mknod(d, n, content)
    PROVE  IInv'
<1>1. d \in DOMAIN dirs /\ d \in DOMAIN inodes /\ nextIno <= bounds.ino
      /\ nextIno' = nextIno + 1 /\ UNCHANGED given
  BY CallbackContext DEF Mknod
<1>2. CASE n \in DOMAIN dirs[d]
  <2>1. UNCHANGED <<inodes, dirs, attached, count>>
    BY <1>2 DEF Mknod
  <2>2. Good(bounds.ino, inodes, dirs, attached, nextIno + 1)
    BY <1>1, CallbackContext, NumberSpent
  <2>3. Good(bounds.ino, inodes', dirs', attached', nextIno')
    BY <1>1, <2>1, <2>2
  <2>4. count' = Cardinality(DOMAIN inodes')
    BY <2>1, CallbackContext
  <2> QED
    BY <1>1, <2>3, <2>4, CallbackKeeps
<1>3. CASE n \notin DOMAIN dirs[d]
  <2>1. /\ inodes' = With(inodes, nextIno, NewFile)
        /\ dirs' = AddEntry(dirs, d, n, nextIno)
        /\ attached' \subseteq attached \cup {nextIno}
        /\ count' = count + 1
    BY <1>3 DEF Mknod
  <2>2. Good(bounds.ino, With(inodes, nextIno, NewFile), AddEntry(dirs, d, n, nextIno),
             attached', nextIno + 1)
    BY <1>1, <1>3, <2>1, CallbackContext, FileMade
  <2>3. Good(bounds.ino, inodes', dirs', attached', nextIno')
    BY <1>1, <2>1, <2>2
  <2>4. count' = Cardinality(DOMAIN inodes')
    <3>1. DOMAIN inodes' = DOMAIN inodes \cup {nextIno}
      BY <2>1 DEF With
    <3>2. Cardinality(DOMAIN inodes \cup {nextIno}) = Cardinality(DOMAIN inodes) + 1
      BY CallbackContext, FS_AddElement
    <3> QED
      BY <2>1, <3>1, <3>2, CallbackContext
  <2> QED
    BY <1>1, <2>3, <2>4, CallbackKeeps
<1> QED
  BY <1>2, <1>3

\* create_directory.
LEMMA MkdirStep ==
    ASSUME IInv, NEW d \in Parents, NEW n \in Names, Mkdir(d, n)
    PROVE  IInv'
<1>1. d \in DOMAIN dirs /\ d \in DOMAIN inodes /\ inodes[d].dir /\ nextIno <= bounds.ino
      /\ nextIno' = nextIno + 1 /\ attached' = attached /\ UNCHANGED given
  BY CallbackContext DEF Mkdir
<1>2. CASE n \in DOMAIN dirs[d]
  <2>1. UNCHANGED <<inodes, dirs, count>>
    BY <1>2 DEF Mkdir
  <2>2. Good(bounds.ino, inodes, dirs, attached, nextIno + 1)
    BY <1>1, CallbackContext, NumberSpent
  <2>3. Good(bounds.ino, inodes', dirs', attached', nextIno')
    BY <1>1, <2>1, <2>2
  <2>4. count' = Cardinality(DOMAIN inodes')
    BY <2>1, CallbackContext
  <2> QED
    BY <1>1, <2>3, <2>4, CallbackKeeps
<1>3. CASE n \notin DOMAIN dirs[d]
  <2>1. /\ inodes' = AddLinks(With(inodes, nextIno, NewDirectory), d, 1)
        /\ dirs' = With(AddEntry(dirs, d, n, nextIno), nextIno, NoEntries)
        /\ count' = count + 1
    BY <1>3 DEF Mkdir
  <2>2. Good(bounds.ino, AddLinks(With(inodes, nextIno, NewDirectory), d, 1),
             With(AddEntry(dirs, d, n, nextIno), nextIno, NoEntries), attached, nextIno + 1)
    BY <1>1, <1>3, CallbackContext, DirMade
  <2>3. Good(bounds.ino, inodes', dirs', attached', nextIno')
    BY <1>1, <2>1, <2>2
  <2>4. count' = Cardinality(DOMAIN inodes')
    <3>1. DOMAIN inodes' = DOMAIN inodes \cup {nextIno}
      BY <2>1 DEF With, AddLinks
    <3>2. Cardinality(DOMAIN inodes \cup {nextIno}) = Cardinality(DOMAIN inodes) + 1
      BY CallbackContext, FS_AddElement
    <3> QED
      BY <2>1, <3>1, <3>2, CallbackContext
  <2> QED
    BY <1>1, <2>3, <2>4, CallbackKeeps
<1> QED
  BY <1>2, <1>3

\* rmdir.
LEMMA RmdirStep ==
    ASSUME IInv, NEW d \in Parents, NEW n \in Names, Rmdir(d, n)
    PROVE  IInv'
<1> DEFINE i == dirs[d][n]
           rest == Without(inodes, i)
           js == IF rest[d].nlinks > 0 THEN AddLinks(rest, d, -1) ELSE rest
<1>1. /\ d \in DOMAIN dirs /\ d \in DOMAIN inodes /\ n \in DOMAIN dirs[d]
      /\ inodes[i].dir /\ DOMAIN dirs[i] = {}
      /\ dirs' = RemoveEntry(dirs, d, n) /\ inodes' = js /\ count' = count - 1
      /\ attached' = attached /\ nextIno' = nextIno /\ UNCHANGED given
  BY CallbackContext DEF Rmdir, IsDir
<1>2. /\ i \in DOMAIN inodes /\ DOMAIN js = DOMAIN inodes \ {i}
      /\ Good(bounds.ino, js, RemoveEntry(dirs, d, n), attached, nextIno)
  BY <1>1, CallbackContext, DirRemoved
<1> HIDE DEF i, js
<1>3. Good(bounds.ino, inodes', dirs', attached', nextIno')
  BY <1>1, <1>2
<1>4. count' = Cardinality(DOMAIN inodes')
  BY <1>1, <1>2, CallbackContext, FS_RemoveElement
<1> QED
  BY <1>1, <1>3, <1>4, CallbackKeeps

\* A name of a file is dropped: the maps and the count.
LEMMA DropNameEffect ==
    ASSUME IInv, NEW d \in DOMAIN dirs, NEW n \in DOMAIN dirs[d], NEW i, i = dirs[d][n],
           ~IsDir(i), DropName(i)
    PROVE  /\ Good(bounds.ino, inodes', RemoveEntry(dirs, d, n), attached, nextIno)
           /\ count' = Cardinality(DOMAIN inodes')
<1> DEFINE js == IF inodes[i].nlinks <= 1 THEN Without(inodes, i) ELSE AddLinks(inodes, i, -1)
<1>1. i \in DOMAIN inodes /\ ~inodes[i].dir
  BY DEF IInv, Good, Resolved, IsDir
<1>2. Good(bounds.ino, js, RemoveEntry(dirs, d, n), attached, nextIno)
  BY <1>1, CallbackContext, NameDropped
<1>3. inodes' = js
  BY DEF DropName
<1>4. count' = Cardinality(DOMAIN inodes')
  <2>1. CASE inodes[i].nlinks <= 1
    <3>1. DOMAIN inodes' = DOMAIN inodes \ {i} /\ count' = count - 1
      BY <2>1 DEF DropName, Without
    <3> QED
      BY <1>1, <3>1, CallbackContext, FS_RemoveElement
  <2>2. CASE ~(inodes[i].nlinks <= 1)
    <3>1. DOMAIN inodes' = DOMAIN inodes /\ count' = count
      BY <2>2 DEF DropName, AddLinks
    <3> QED
      BY <3>1, CallbackContext
  <2> QED
    BY <2>1, <2>2
<1> QED
  BY <1>2, <1>3, <1>4

\* unlink.
LEMMA UnlinkStep ==
    ASSUME IInv, NEW d \in Parents, NEW n \in Names, Unlink(d, n)
    PROVE  IInv'
<1>1. /\ d \in DOMAIN dirs /\ n \in DOMAIN dirs[d] /\ ~IsDir(dirs[d][n])
      /\ dirs' = RemoveEntry(dirs, d, n) /\ DropName(dirs[d][n])
      /\ attached' = attached /\ nextIno' = nextIno /\ UNCHANGED given
  BY CallbackContext DEF Unlink
<1>2. /\ Good(bounds.ino, inodes', RemoveEntry(dirs, d, n), attached, nextIno)
      /\ count' = Cardinality(DOMAIN inodes')
  BY <1>1, DropNameEffect
<1> QED
  BY <1>1, <1>2, CallbackKeeps

\* link.
LEMMA LinkStep ==
    ASSUME IInv, NEW d \in Parents, NEW n \in Names, NEW i \in DOMAIN inodes, Link(i, d, n)
    PROVE  IInv'
<1>1. /\ d \in DOMAIN dirs /\ d \in DOMAIN inodes /\ n \notin DOMAIN dirs[d]
      /\ ~inodes[i].dir /\ inodes[i].nlinks < MaxLinks
      /\ dirs' = AddEntry(dirs, d, n, i) /\ inodes' = AddLinks(inodes, i, 1)
      /\ UNCHANGED <<attached, nextIno, count>> /\ UNCHANGED given
  BY CallbackContext DEF Link, IsDir
<1>2. Good(bounds.ino, AddLinks(inodes, i, 1), AddEntry(dirs, d, n, i), attached, nextIno)
  BY <1>1, CallbackContext, LinkMade
<1>3. Good(bounds.ino, inodes', dirs', attached', nextIno')
  BY <1>1, <1>2
<1>4. count' = Cardinality(DOMAIN inodes')
  <2>1. DOMAIN inodes' = DOMAIN inodes
    BY <1>1 DEF AddLinks
  <2> QED
    BY <1>1, <2>1, CallbackContext
<1> QED
  BY <1>1, <1>3, <1>4, CallbackKeeps

\* rename: the name it replaces goes first, then the other one moves.
LEMMA RenameStep ==
    ASSUME IInv, NEW d \in Parents, NEW n \in Names, NEW e \in Parents, NEW m \in Names,
           Rename(d, n, e, m)
    PROVE  IInv'
<1> DEFINE src == dirs[d][n]
           dst == dirs[e][m]
           cleared == IF m \in DOMAIN dirs[e] THEN RemoveEntry(dirs, e, m) ELSE dirs
<1>1. /\ d \in DOMAIN dirs /\ e \in DOMAIN dirs /\ n \in DOMAIN dirs[d]
      /\ e \in DOMAIN inodes
      /\ m \in DOMAIN dirs[e] => dst # src
      /\ dirs' = RemoveEntry(AddEntry(cleared, e, m, src), d, n)
      /\ attached' = attached /\ nextIno' = nextIno /\ UNCHANGED given
  BY CallbackContext DEF Rename, KernelRenames
<1>2. /\ Good(bounds.ino, inodes', cleared, attached, nextIno)
      /\ count' = Cardinality(DOMAIN inodes')
  <2>1. CASE m \notin DOMAIN dirs[e]
    <3>1. inodes' = inodes /\ count' = count /\ cleared = dirs
      BY <2>1 DEF Rename
    <3> QED
      BY <3>1, CallbackContext
  <2>2. CASE m \in DOMAIN dirs[e] /\ IsDir(dst)
    <3>1. /\ inodes' = IF inodes[dst].nlinks > 1 THEN AddLinks(inodes, dst, -1) ELSE inodes
          /\ count' = count /\ cleared = RemoveEntry(dirs, e, m)
      BY <2>2 DEF Rename
    <3>2. Good(bounds.ino, inodes', RemoveEntry(dirs, e, m), attached, nextIno)
      BY <1>1, <2>2, <3>1, CallbackContext, DirUnnamed DEF IsDir
    <3>3. DOMAIN inodes' = DOMAIN inodes
      BY <3>1 DEF AddLinks
    <3> QED
      BY <3>1, <3>2, <3>3, CallbackContext
  <2>3. CASE m \in DOMAIN dirs[e] /\ ~IsDir(dst)
    <3>1. DropName(dst) /\ cleared = RemoveEntry(dirs, e, m)
      BY <2>3 DEF Rename
    <3> QED
      BY <1>1, <2>3, <3>1, DropNameEffect
  <2> QED
    BY <2>1, <2>2, <2>3
<1>3. e \in DOMAIN inodes'
  <2>1. CASE m \in DOMAIN dirs[e] /\ ~IsDir(dst)
    <3>1. e # dst /\ DropName(dst)
      BY <2>1, CallbackContext DEF Rename, IsDir
    <3> QED
      BY <1>1, <3>1 DEF DropName, Without, AddLinks
  <2>2. CASE ~(m \in DOMAIN dirs[e] /\ ~IsDir(dst))
    BY <1>1, <2>2 DEF Rename, AddLinks
  <2> QED
    BY <2>1, <2>2
<1>4. /\ d \in DOMAIN cleared /\ n \in DOMAIN cleared[d] /\ cleared[d][n] = src
      /\ e \in DOMAIN cleared /\ m \notin DOMAIN cleared[e]
  <2>1. CASE m \in DOMAIN dirs[e]
    <3>1. EntryRemoved(dirs, cleared, e, m)
      BY <1>1, <2>1, RemoveEntryFacts
    <3>2. d # e \/ n # m
      BY <1>1, <2>1
    <3> HIDE DEF cleared
    <3> QED
      BY <1>1, <3>1, <3>2 DEF EntryRemoved
  <2>2. CASE m \notin DOMAIN dirs[e]
    BY <1>1, <2>2
  <2> QED
    BY <2>1, <2>2
<1> HIDE DEF cleared, src
<1>5. Good(bounds.ino, inodes', RemoveEntry(AddEntry(cleared, e, m, src), d, n),
           attached, nextIno)
  BY <1>2, <1>3, <1>4, CallbackContext, NameMoved
<1> QED
  BY <1>1, <1>2, <1>5, CallbackKeeps

\* set_manifest and set_xattr.
LEMMA AttachStep ==
    ASSUME IInv, NEW i \in DOMAIN inodes, Attach(i)
    PROVE  IInv'
<1>1. attached' = attached \cup {i} /\ UNCHANGED <<inodes, dirs, nextIno, count>>
      /\ UNCHANGED given
  BY DEF Attach
<1>2. Good(bounds.ino, inodes, dirs, attached \cup {i}, nextIno)
  BY CallbackContext DEF Good, Shape
<1> QED
  BY <1>1, <1>2, CallbackContext, CallbackKeeps

\* A mount after a commit and a mount after a crash.
LEMMA MountStep ==
    ASSUME IInv, Remount \/ CrashAndMount
    PROVE  IInv'
<1>1. bounds' = bounds /\ mounts' \in 0 .. bounds.mounts
  BY ConstantsAssumption DEF IInv, Remount, CrashAndMount, LoadFromRoot
<1>2. CASE Remount
  <2>1. /\ inodes' = inodes /\ dirs' = dirs /\ attached' = attached /\ nextIno' = nextIno
        /\ count' = Cardinality(DOMAIN inodes)
        /\ saved'.inodes = inodes /\ saved'.dirs = dirs
        /\ saved'.attached = attached /\ saved'.nextIno = nextIno
    BY <1>2 DEF Remount, LoadFromRoot, RootRecord
  <2> QED
    BY <1>1, <2>1 DEF IInv
<1>3. CASE CrashAndMount
  BY <1>1, <1>3 DEF CrashAndMount, LoadFromRoot, IInv
<1> QED
  BY <1>2, <1>3

\* The invariant holds of the root directory alone.
LEMMA InitIInv == Init => IInv
<1> SUFFICES ASSUME Init PROVE IInv
  OBVIOUS
<1>1. bounds \in Bounds /\ bounds.ino \in Nat \ {0} /\ mounts \in 0 .. bounds.mounts
  BY ConstantsAssumption DEF Init
<1>2. /\ DOMAIN inodes = {1} /\ inodes[1] \in Meta /\ inodes[1].dir /\ inodes[1].nlinks = 2
      /\ DOMAIN dirs = {1} /\ DOMAIN dirs[1] = {} /\ attached = {} /\ nextIno = 2
  BY DEF Init, Root, NewDirectory, NoEntries, Meta
<1>3. Shape(bounds.ino, inodes, dirs, attached, nextIno)
  BY <1>1, <1>2 DEF Shape, Root
<1>4. Resolved(inodes, dirs)
  BY <1>2 DEF Resolved
<1>5. Linked(inodes, dirs, nextIno)
  BY <1>2 DEF Linked, Counted, Leading
<1>6. Good(bounds.ino, inodes, dirs, attached, nextIno)
  BY <1>3, <1>4, <1>5 DEF Good
<1>7. /\ saved.inodes = inodes /\ saved.dirs = dirs /\ saved.attached = attached
      /\ saved.nextIno = nextIno
  BY DEF Init
<1>8. count = Cardinality(DOMAIN inodes)
  BY <1>2, FS_Singleton DEF Init
<1> QED
  BY <1>1, <1>6, <1>7, <1>8 DEF IInv

\* Every callback, commit, mount and crash keeps the invariant.
LEMMA NextIInv == IInv /\ [Next]_vars => IInv'
<1> SUFFICES ASSUME IInv, [Next]_vars PROVE IInv'
  OBVIOUS
<1>1. ASSUME NEW d \in Parents, NEW n \in Names,
             Mknod(d, n, {}) \/ Mknod(d, n, {nextIno}) \/ Mkdir(d, n)
      PROVE  IInv'
  BY <1>1, MknodStep, MkdirStep
<1>2. ASSUME NEW d \in Parents, NEW n \in Names,
             Rmdir(d, n) \/ Unlink(d, n) \/ \E i \in DOMAIN inodes : InTree(i) /\ Link(i, d, n)
      PROVE  IInv'
  BY <1>2, RmdirStep, UnlinkStep, LinkStep
<1>3. ASSUME NEW d \in Parents, NEW n \in Names, NEW e \in Parents, NEW m \in Names,
             Rename(d, n, e, m)
      PROVE  IInv'
  BY <1>3, RenameStep
<1>4. ASSUME NEW i \in DOMAIN inodes, Attach(i) PROVE IInv'
  BY <1>4, AttachStep
<1>5. CASE Remount \/ CrashAndMount
  BY <1>5, MountStep
<1>6. CASE UNCHANGED vars
  <2>1. UNCHANGED given
        /\ inodes' = inodes /\ dirs' = dirs /\ attached' = attached /\ nextIno' = nextIno
        /\ count' = count
    BY <1>6 DEF vars
  <2> QED
    BY <2>1, CallbackContext, CallbackKeeps
<1> QED
  BY <1>1, <1>2, <1>3, <1>4, <1>5, <1>6 DEF Next

\* The invariant holds in every reachable state.
LEMMA IInvHolds == Spec => []IInv
  BY InitIInv, NextIInv, PTL DEF Spec

-----------------------------------------------------------------------------
\* Types of the variables: link counts stay between zero and the bound, inode
\* numbers and entries within the numbers that next_ino has handed out.
THEOREM TypeCorrect == Spec => []TypeOK
<1>1. IInv => TypeOK
  <2> SUFFICES ASSUME IInv PROVE TypeOK
    OBVIOUS
  <2>1. /\ bounds.ino \in Nat /\ MaxLinks \in Nat \ {0}
        /\ Shape(bounds.ino, inodes, dirs, attached, nextIno) /\ count \in Nat
    BY ConstantsAssumption, CallbackContext DEF Good
  <2>2. \A i \in DOMAIN inodes \cup DOMAIN dirs \cup attached : i \in 1 .. bounds.ino
    <3> SUFFICES ASSUME NEW i \in DOMAIN inodes \cup DOMAIN dirs \cup attached
                 PROVE  i \in 1 .. bounds.ino
      OBVIOUS
    <3>1. i \in Nat \ {0} /\ i < nextIno /\ nextIno \in 2 .. bounds.ino + 1
      BY <2>1 DEF Shape
    <3> QED
      BY <2>1, <3>1
  <2>3. ASSUME NEW i \in DOMAIN inodes
        PROVE  inodes[i] \in [dir : BOOLEAN, nlinks : 0 .. bounds.ino + MaxLinks]
    <3>1. inodes[i] \in Meta /\ Counted(inodes[i], Leading(dirs, i), nextIno)
          /\ nextIno \in 2 .. bounds.ino + 1
      BY <2>1 DEF IInv, Good, Linked, Shape
    <3>2. inodes[i].nlinks <= nextIno \/ inodes[i].nlinks <= MaxLinks
      BY <3>1 DEF Counted, Meta
    <3>3. inodes[i].nlinks \in 0 .. bounds.ino + MaxLinks
      BY <2>1, <3>1, <3>2 DEF Meta
    <3> QED
      BY <3>1, <3>3 DEF Meta
  <2>4. \A d \in DOMAIN dirs : DOMAIN dirs[d] \subseteq Names
          /\ \A n \in DOMAIN dirs[d] : dirs[d][n] \in 1 .. bounds.ino
    BY <2>1, <2>2 DEF IInv, Good, Resolved, Shape
  <2> QED
    BY <2>1, <2>2, <2>3, <2>4 DEF TypeOK, IInv, Shape
<1> QED
  BY <1>1, IInvHolds, PTL

\* lookup, after any links, unlinks, renames, mounts and crashes, never finds a
\* name whose inode is gone.
THEOREM NoDanglingEntries == Spec => []EntriesResolve
<1>1. IInv => EntriesResolve
  BY DEF IInv, Good, Resolved, EntriesResolve, Parents
<1> QED
  BY <1>1, IInvHolds, PTL

\* A file's nlinks is the number of its names in every state, so that unlink
\* and rename delete it with its last name and never before.
THEOREM LinkCountsExact == Spec => []LinksAreNames
<1>1. IInv => LinksAreNames
  <2> SUFFICES ASSUME IInv, NEW i \in DOMAIN inodes, ~inodes[i].dir
               PROVE  inodes[i].nlinks = Cardinality(EntriesOf(i))
    BY DEF LinksAreNames
  <2>1. inodes[i].nlinks = Cardinality(Leading(dirs, i))
    BY DEF IInv, Good, Linked, Counted
  <2>2. \A d \in DOMAIN dirs : DOMAIN dirs[d] \subseteq Names
          /\ (d \notin DOMAIN inodes => DOMAIN dirs[d] = {})
    BY DEF IInv, Good, Shape, Resolved
  <2>3. EntriesOf(i) \subseteq Leading(dirs, i)
    <3> SUFFICES ASSUME NEW x \in EntriesOf(i) PROVE x \in Leading(dirs, i)
      OBVIOUS
    <3>1. PICK d \in DOMAIN dirs \cap DOMAIN inodes :
              x \in {<<d, n>> : n \in {m \in DOMAIN dirs[d] : dirs[d][m] = i}}
      BY DEF EntriesOf
    <3>2. PICK n \in DOMAIN dirs[d] : x = <<d, n>> /\ dirs[d][n] = i
      BY <3>1
    <3> QED
      BY <2>2, <3>2 DEF Leading
  <2>4. Leading(dirs, i) \subseteq EntriesOf(i)
    <3> SUFFICES ASSUME NEW x \in Leading(dirs, i) PROVE x \in EntriesOf(i)
      OBVIOUS
    <3>1. /\ x[1] \in DOMAIN dirs /\ x[2] \in DOMAIN dirs[x[1]]
          /\ dirs[x[1]][x[2]] = i /\ x = <<x[1], x[2]>>
      BY DEF Leading
    <3>2. x[1] \in DOMAIN dirs \cap DOMAIN inodes
      BY <2>2, <3>1
    <3>3. x \in {<<x[1], n>> : n \in {m \in DOMAIN dirs[x[1]] : dirs[x[1]][m] = i}}
      BY <3>1
    <3> QED
      BY <3>2, <3>3 DEF EntriesOf
  <2>5. EntriesOf(i) = Leading(dirs, i)
    BY <2>3, <2>4
  <2> QED
    BY <2>1, <2>5
<1> QED
  BY <1>1, IInvHolds, PTL

\* A number under which any map holds something is below next_ino, across
\* commits, mounts and crashes: create_inode cannot hand it out again.
THEOREM NumbersNotReused == Spec => []NumbersSpent
<1>1. IInv => NumbersSpent
  BY DEF IInv, Good, Shape, NumbersSpent
<1> QED
  BY <1>1, IInvHolds, PTL

\* statfs reports the number of inodes that exist.
THEOREM FileCountExact == Spec => []CountIsExact
<1>1. IInv => CountIsExact
  BY DEF IInv, CountIsExact, Statfs
<1> QED
  BY <1>1, IInvHolds, PTL
=============================================================================
