----------------------------- MODULE Attributes -----------------------------
(***************************************************************************)
(* What a mounted SliceFS answers about its files: attributes, extended    *)
(* attributes, directory listings and the logical size of the store.       *)
(*                                                                         *)
(* fuser serves one request at a time, so every callback is one step; the  *)
(* hazards are in the sequences.  Every change of an attribute loads the   *)
(* whole inode, changes a field and stores it again, writes commit sizes   *)
(* and times long after they were made, xattrs are kept as one encoded     *)
(* list, and a listing is a series of calls that carry an index between    *)
(* them while the directory changes.  One directory stands for all:        *)
(* Namespace.tla has the tree and the links, WritePath.tla the content.    *)
(***************************************************************************)
EXTENDS Integers, Sequences, FiniteSets, SequencesExt

CONSTANTS
    Names,      \* names of entries: numbers, ordered as the names' keys are
    Bits,       \* permission bits; a mode's permissions are a set of them
    Umask,      \* the umask of the applications
    Uids,       \* owners a file may be given
    Creator,    \* the owner of new files
    Times,      \* times a setattr may ask for; "before" is before 1970
    XNames,     \* names of xattrs, as sequences of bytes
    XValues,    \* values of xattrs, as sequences of bytes
    Handles,    \* file handles that may be open for writing
    MaxSize,    \* bound on the size of a file
    Workloads   \* what applications do in a behaviour, see below

\* A behaviour is one workload: the kinds of requests in it beside mknod and
\* unlink, the names, and bounds on inode numbers and mounts.
Requests == {"node", "setattr", "write", "xattr", "readdir"}
Workload == [requests : SUBSET Requests, names : SUBSET Names,
             maxIno : Nat \ {0}, maxMounts : Nat]

ASSUME ConstantsAssumption ==
    /\ Names \subseteq Nat /\ IsFiniteSet(Names)
    /\ Umask \subseteq Bits
    /\ XNames \subseteq Seq(Nat) /\ XValues \subseteq Seq(Nat)
    /\ MaxSize \in Nat
    /\ Workloads \subseteq Workload

VARIABLES
    inodes,    \* inode_data: inode number -> InodeMeta
    entries,   \* the directory: name -> inode number
    nextIno,   \* InodeMap.next_ino
    bytes,     \* logical_bytes
    open,      \* open_files: handle -> [ino, count, committed]
    xattrs,    \* xattr_data: inode number -> encoded list
    listing,   \* the reader of the directory: its offset and what it got
    saved,     \* the committed root record
    mounts,    \* number of mounts so far
    workload,  \* what the applications of this behaviour do
    want,      \* history: inode number -> the attributes it should have
    xwant      \* history: inode number -> (name -> value) last asked for

store == <<inodes, entries, nextIno, bytes, xattrs>>
history == <<want, xwant>>
rest == <<saved, mounts, workload>>
vars == <<store, open, listing, history, rest>>

With(f, x, v) == [y \in DOMAIN f \cup {x} |-> IF y = x THEN v ELSE f[y]]
Without(f, x) == [y \in DOMAIN f \ {x} |-> f[y]]
Empty == [x \in {} |-> {}]

\* saturating_sub
Less(a, b) == IF b > a THEN 0 ELSE a - b

Sum(is) == MapThenSumSet(LAMBDA i : is[i].size, DOMAIN is)

-----------------------------------------------------------------------------
(* Inodes.                                                                 *)

\* InodeMeta, without the number, links and ctime.
InodeMeta(type, perm, uid, size) ==
    [mode |-> [type |-> type, perm |-> perm], uid |-> uid, size |-> size,
     mtime |-> "epoch"]

\* inode_to_file_attr
FileAttr(m) ==
    [kind |-> m.mode.type, perm |-> m.mode.perm, uid |-> m.uid, mtime |-> m.mtime,
     size |-> m.size, blocks |-> (m.size + 511) \div 512]

\* Mutation of UpdateInode: the old size is not taken off.
UpdateAddsSize(i, m) == inodes' = [inodes EXCEPT ![i] = m] /\ bytes' = bytes + m.size

\* update_inode: logical_bytes moves by the difference of the sizes.
UpdateInode(i, m) ==
    /\ inodes' = [inodes EXCEPT ![i] = m]
    /\ bytes' = IF m.size > inodes[i].size THEN bytes + (m.size - inodes[i].size)
                ELSE Less(bytes, inodes[i].size - m.size)

\* delete_inode: the inode and its size go, the xattrs stay.
DeleteInode(i) ==
    /\ inodes' = Without(inodes, i)
    /\ bytes' = Less(bytes, inodes[i].size)

-----------------------------------------------------------------------------
(* The encoded list of xattrs: for every attribute the length of its name, *)
(* the name, the length of its value and the value.  A length is one cell. *)

\* MetaError::Corrupted, as a list that nothing decodes to.
Corrupted == <<[name |-> <<-1>>, value |-> <<>>]>>

\* One attribute of the list.
EncodeXattr(a) == <<Len(a.name)>> \o a.name \o <<Len(a.value)>> \o a.value

\* serialize_xattrs
Serialize(list) == FlattenSeq([k \in DOMAIN list |-> EncodeXattr(list[k])])

\* deserialize_xattrs: from cell k to the end, or Corrupted.
Deserialize(b) ==
    LET from[k \in 1 .. Len(b) + 1] ==
            IF k > Len(b) THEN <<>>
            ELSE LET v == k + b[k] + 1
                 IN  IF v > Len(b) \/ v + b[v] > Len(b) THEN Corrupted
                     ELSE LET others == from[v + b[v] + 1]
                          IN  IF others = Corrupted THEN Corrupted
                              ELSE <<[name  |-> SubSeq(b, k + 1, v - 1),
                                      value |-> SubSeq(b, v + 1, v + b[v])]>> \o others
    IN  from[1]

\* load_xattrs, or the empty list when the inode has none.
LoadXattrs(i) == IF i \in DOMAIN xattrs THEN Deserialize(xattrs[i]) ELSE <<>>

\* Mutation of SetXattrEntry: an attribute is added without looking for it.
PushXattrEntry(list, n, v) == Append(list, [name |-> n, value |-> v])

\* set_xattr_entry: the first entry of that name, or a new one at the end.
SetXattrEntry(list, n, v) ==
    LET found == {k \in DOMAIN list : list[k].name = n}
    IN  IF found = {} THEN Append(list, [name |-> n, value |-> v])
        ELSE [list EXCEPT ![CHOOSE k \in found : \A j \in found : k <= j].value = v]

\* get_xattr_entry: the value as a set of at most one.
GetXattrEntry(list, n) ==
    LET found == {k \in DOMAIN list : list[k].name = n}
    IN  {list[k].value : k \in {j \in found : \A l \in found : j <= l}}

\* remove_xattr_entry
RemoveXattrEntry(list, n) ==
    FlattenSeq([k \in DOMAIN list |-> IF list[k].name = n THEN <<>> ELSE <<list[k]>>])

\* getxattr and listxattr, as the callbacks answer them.
GetXattr(i, n) == GetXattrEntry(LoadXattrs(i), n)
ListXattrs(i) == [k \in DOMAIN LoadXattrs(i) |-> LoadXattrs(i)[k].name]

-----------------------------------------------------------------------------
(* Listings.                                                               *)

NoListing ==
    [on |-> FALSE, offset |-> 0, got |-> <<>>, stable |-> {}, removed |-> 0, added |-> 0]

\* How many of the names of S come before n.
Rank(S, n) == Cardinality({m \in S : m < n})

\* list_dir_entries: the names in the order of their keys.
ListDirEntries ==
    [k \in 1 .. Cardinality(DOMAIN entries) |->
        CHOOSE n \in DOMAIN entries : Rank(DOMAIN entries, n) = k - 1]

\* How an open listing sees the directory change to the entries es.
ListingSees(es) ==
    listing' = IF ~listing.on THEN listing
               ELSE [listing EXCEPT
                        !.stable = @ \cap DOMAIN es,
                        !.removed = @ + Cardinality(DOMAIN entries \ DOMAIN es),
                        !.added = @ + Cardinality(DOMAIN es \ DOMAIN entries)]

-----------------------------------------------------------------------------
(* A new store, mounted.                                                   *)

\* What a commit writes and load_from_root reads.  The histories are saved
\* with it: they tell what a crash leaves.
RootRecord ==
    [inodes |-> inodes, entries |-> entries, nextIno |-> nextIno, xattrs |-> xattrs,
     want |-> want, xwant |-> xwant]

Init ==
    /\ inodes = Empty /\ entries = Empty /\ xattrs = Empty
    /\ nextIno = 2
    /\ bytes = 0
    /\ open = Empty
    /\ listing = NoListing
    /\ want = Empty /\ xwant = Empty
    /\ saved = RootRecord
    /\ mounts = 0
    /\ workload \in Workloads

Uses(r) == r \in workload.requests

-----------------------------------------------------------------------------
(* Callbacks that make and remove nodes.                                   *)

\* create_inode and link; when the name is taken the inode is deleted again.
MakeNode(n, m) ==
    /\ nextIno <= workload.maxIno
    /\ nextIno' = nextIno + 1
    /\ IF n \in DOMAIN entries
       THEN /\ bytes' = Less(bytes + m.size, m.size)
            /\ UNCHANGED <<inodes, entries, listing, want, xwant>>
       ELSE /\ bytes' = bytes + m.size
            /\ inodes' = With(inodes, nextIno, m)
            /\ entries' = With(entries, n, nextIno)
            /\ ListingSees(With(entries, n, nextIno))
            /\ want' = With(want, nextIno,
                            [perm |-> m.mode.perm, uid |-> m.uid, mtime |-> m.mtime])
            /\ xwant' = With(xwant, nextIno, Empty)
    /\ UNCHANGED <<xattrs, rest>>

\* mknod
Mknod(n, perm, uid) ==
    MakeNode(n, InodeMeta("file", perm \ Umask, uid, 0)) /\ UNCHANGED open

\* mkdir; its parent's links are in Namespace.
Mkdir(n, perm, uid) ==
    Uses("node") /\ MakeNode(n, InodeMeta("dir", perm \ Umask, uid, 0)) /\ UNCHANGED open

\* symlink: all permissions, as long as its target.
Symlink(n, uid, target) ==
    Uses("node") /\ MakeNode(n, InodeMeta("link", Bits, uid, target)) /\ UNCHANGED open

\* create: as mknod, with a handle when the name was free.
Create(n, perm, uid, h) ==
    /\ Uses("write")
    /\ h \notin DOMAIN open
    /\ MakeNode(n, InodeMeta("file", perm \ Umask, uid, 0))
    /\ open' = IF n \in DOMAIN entries THEN open
               ELSE With(open, h, [ino |-> nextIno, count |-> 0, committed |-> FALSE])

\* unlink and rmdir of a node with one name.
Unlink(n) ==
    /\ n \in DOMAIN entries
    /\ DeleteInode(entries[n])
    /\ entries' = Without(entries, n)
    /\ ListingSees(Without(entries, n))
    /\ want' = Without(want, entries[n])
    /\ xwant' = Without(xwant, entries[n])
    /\ UNCHANGED <<nextIno, open, xattrs, rest>>

-----------------------------------------------------------------------------
(* Writes, as far as they reach the inode.                                 *)

\* open for writing
Open(h, i) ==
    /\ Uses("write")
    /\ h \notin DOMAIN open
    /\ inodes[i].mode.type = "file"
    /\ open' = With(open, h, [ino |-> i, count |-> 0, committed |-> FALSE])
    /\ UNCHANGED <<store, listing, history, rest>>

\* write of one byte at the end of what the handle holds: nothing reaches the
\* inode yet.
Write(h) ==
    /\ Uses("write")
    /\ open[h].count < MaxSize
    /\ open' = [open EXCEPT ![h].count = @ + 1, ![h].committed = FALSE]
    /\ UNCHANGED <<store, listing, history, rest>>

\* The last steps of flush and release: size and time of an inode that is
\* loaded then.  An inode that was deleted is not found, and stays so.
CommitInode(i, count) ==
    IF i \in DOMAIN inodes
    THEN /\ UpdateInode(i, [inodes[i] EXCEPT !.size = count, !.mtime = "now"])
         /\ want' = [want EXCEPT ![i].mtime = "now"]
    ELSE UNCHANGED <<inodes, bytes, want>>

\* flush and fsync: nothing to do for a handle without bytes.
Flush(h) ==
    /\ Uses("write")
    /\ open[h].count > 0
    /\ open' = [open EXCEPT ![h].committed = TRUE]
    /\ CommitInode(open[h].ino, open[h].count)
    /\ UNCHANGED <<entries, nextIno, xattrs, listing, xwant, rest>>

\* release: what a flush has committed is not committed again.
Release(h) ==
    /\ Uses("write")
    /\ open' = Without(open, h)
    /\ IF open[h].count = 0 \/ open[h].committed THEN UNCHANGED <<inodes, bytes, want>>
       ELSE CommitInode(open[h].ino, open[h].count)
    /\ UNCHANGED <<entries, nextIno, xattrs, listing, xwant, rest>>

-----------------------------------------------------------------------------
(* setattr.  What a request does not ask for is the empty set.             *)

Asked(option, current) == IF option = {} THEN current ELSE CHOOSE v \in option : TRUE

\* Mutation of ToPair: a time before the epoch goes through.
ToPairAsIs(t) == t

\* The callback's conversion: no time is before the epoch.
ToPair(t) == IF t = "before" THEN "epoch" ELSE t

\* Mutation of Setattr: the inode is loaded again before it is stored.
SetattrReloads(i, mode, uid, mtime, size, fh) ==
    /\ Uses("setattr")
    /\ size = {}
    /\ UpdateInode(i, inodes[i])
    /\ want' = [want EXCEPT ![i].perm = Asked(mode, @), ![i].uid = Asked(uid, @)]
    /\ UNCHANGED <<entries, nextIno, open, xattrs, listing, xwant, rest>>

\* With a size the file is truncated, in the handle when one is given, and the
\* inode is loaded again: the other changes of the request are lost.
Setattr(i, mode, uid, mtime, size, fh) ==
    LET asked == [inodes[i] EXCEPT !.mode.perm = Asked(mode, @), !.uid = Asked(uid, @),
                                   !.mtime = Asked({ToPair(t) : t \in mtime}, @)]
        length == Asked(size, inodes[i].size)
    IN  /\ Uses("setattr")
        /\ ~(mode = {} /\ uid = {} /\ mtime = {} /\ size = {})
        /\ size # {} => inodes[i].mode.type = "file"
        /\ IF size = {} THEN UpdateInode(i, asked)
           ELSE UpdateInode(i, [inodes[i] EXCEPT !.size = length])
        /\ open' = [h \in DOMAIN open |->
                      IF size # {} /\ h \in fh
                      THEN [open[h] EXCEPT !.count = length, !.committed = FALSE]
                      ELSE open[h]]
        /\ want' = IF size # {} THEN want
                   ELSE [want EXCEPT ![i].perm = Asked(mode, @), ![i].uid = Asked(uid, @),
                                     ![i].mtime = Asked({ToPair(t) : t \in mtime}, @)]
        /\ UNCHANGED <<entries, nextIno, xattrs, listing, xwant, rest>>

-----------------------------------------------------------------------------
(* Extended attributes.                                                    *)

SetXattr(i, n, v) ==
    /\ Uses("xattr")
    /\ LoadXattrs(i) # Corrupted
    /\ xattrs' = With(xattrs, i, Serialize(SetXattrEntry(LoadXattrs(i), n, v)))
    /\ xwant' = [xwant EXCEPT ![i] = With(@, n, v)]
    /\ UNCHANGED <<inodes, entries, nextIno, bytes, open, listing, want, rest>>

\* removexattr of a name that is not there answers ENODATA.
RemoveXattr(i, n) ==
    /\ Uses("xattr")
    /\ i \in DOMAIN xattrs /\ LoadXattrs(i) # Corrupted
    /\ GetXattr(i, n) # {}
    /\ xattrs' = With(xattrs, i, Serialize(RemoveXattrEntry(LoadXattrs(i), n)))
    /\ xwant' = [xwant EXCEPT ![i] = Without(@, n)]
    /\ UNCHANGED <<inodes, entries, nextIno, bytes, open, listing, want, rest>>

-----------------------------------------------------------------------------
(* Reading the directory.                                                  *)

Opendir ==
    /\ Uses("readdir")
    /\ ~listing.on
    /\ listing' = [NoListing EXCEPT !.on = TRUE, !.stable = DOMAIN entries]
    /\ UNCHANGED <<store, open, history, rest>>

\* Mutation of NextOffset: the offset of an entry is its own index.
OffsetOfEntry(offset, index) == offset + index

\* The offset that goes with entry number index (from 0) of a reply: the kernel
\* asks from there next.
NextOffset(offset, index) == offset + index + 1

\* readdir: the buffer takes k of the entries from the offset on.
Readdir(k) ==
    LET page == SubSeq(ListDirEntries, listing.offset + 1, Cardinality(DOMAIN entries))
    IN  /\ Uses("readdir")
        /\ listing.on
        /\ k <= Len(page)
        /\ Len(listing.got) < 2 * Cardinality(Names)
        /\ listing' = [listing EXCEPT !.got = @ \o SubSeq(page, 1, k),
                                      !.offset = NextOffset(@, k - 1)]
        /\ UNCHANGED <<store, open, history, rest>>

\* The listing ends with a reply that has no entries.
AtEnd == listing.on /\ listing.offset >= Cardinality(DOMAIN entries)

Closedir ==
    /\ Uses("readdir")
    /\ AtEnd
    /\ listing' = NoListing
    /\ UNCHANGED <<store, open, history, rest>>

-----------------------------------------------------------------------------
(* Mounts.                                                                 *)

\* load_from_root: logical_bytes is computed anew.
LoadFromRoot(rec) ==
    /\ mounts < workload.maxMounts
    /\ mounts' = mounts + 1
    /\ inodes' = rec.inodes /\ entries' = rec.entries /\ xattrs' = rec.xattrs
    /\ nextIno' = rec.nextIno
    /\ bytes' = Sum(rec.inodes)
    /\ open' = Empty
    /\ listing' = NoListing
    /\ want' = rec.want /\ xwant' = rec.xwant
    /\ UNCHANGED workload

\* unmount, with no file open, and mount again.
Remount == open = Empty /\ LoadFromRoot(RootRecord) /\ saved' = RootRecord

\* The mount is killed, and the store is mounted again.
CrashAndMount == LoadFromRoot(saved) /\ UNCHANGED saved

-----------------------------------------------------------------------------
Maybe(S) == {{}} \cup {{v} : v \in S}

Next ==
    \/ \E n \in workload.names, uid \in {Creator} :
        \/ Mknod(n, Bits, uid)
        \/ Mkdir(n, Bits, uid)
        \/ \E target \in 1 .. MaxSize : Symlink(n, uid, target)
        \/ \E h \in Handles : Create(n, Bits, uid, h)
    \/ \E n \in Names : Unlink(n)
    \/ \E h \in Handles, i \in DOMAIN inodes : Open(h, i)
    \/ \E h \in DOMAIN open : Write(h) \/ Flush(h) \/ Release(h)
    \/ \E i \in DOMAIN inodes :
        \/ \E mode \in Maybe({Bits, {}}), uid \in Maybe(Uids), mtime \in Maybe(Times),
              size \in Maybe(0 .. MaxSize),
              fh \in Maybe({h \in DOMAIN open : open[h].ino = i}) :
              Setattr(i, mode, uid, mtime, size, fh)
        \/ \E n \in XNames, v \in XValues : SetXattr(i, n, v)
        \/ \E n \in XNames : RemoveXattr(i, n)
    \/ Opendir \/ Closedir
    \/ \E k \in 1 .. Cardinality(Names) : Readdir(k)
    \/ Remount
    \/ CrashAndMount

Spec == Init /\ [][Next]_vars
-----------------------------------------------------------------------------
(* Properties.                                                             *)

\* Types of the variables.
TypeOK ==
    /\ DOMAIN inodes \subseteq 2 .. workload.maxIno
    /\ \A i \in DOMAIN inodes :
          /\ inodes[i].mode \in [type : {"file", "dir", "link"}, perm : SUBSET Bits]
          /\ inodes[i].uid \in Uids \cup {Creator} /\ inodes[i].size \in 0 .. MaxSize
          /\ inodes[i].mtime \in (Times \ {"before"}) \cup {"epoch", "now"}
    /\ DOMAIN entries \subseteq Names /\ \A n \in DOMAIN entries : entries[n] \in DOMAIN inodes
    /\ nextIno \in 2 .. workload.maxIno + 1 /\ bytes \in Nat /\ mounts \in 0 .. workload.maxMounts
    /\ DOMAIN open \subseteq Handles
    /\ DOMAIN xattrs \subseteq 2 .. workload.maxIno

\* getattr answers the permissions and the owner that were asked for last, and
\* as the time the later of the time asked for and of the last commit of bytes
\* to the file, whatever writes, flushes, truncations, releases and mounts come
\* between, each of which loads and stores the whole inode.  A request with a
\* size asks for nothing else, although POSIX lets it, and a commit counts when
\* it is made: a utimes of an open file is gone after the close that commits
\* the bytes written before it.
AttributesKept ==
    \A i \in DOMAIN inodes :
        LET attr == FileAttr(inodes[i])
        IN  /\ attr.perm = want[i].perm
            /\ attr.uid = want[i].uid
            /\ attr.mtime = want[i].mtime

\* The logical size of the store, which stats reports, is the sum of the sizes
\* of its files, although it is kept by differences: creations that are undone,
\* truncations, commits to deleted files and mounts included.
LogicalBytesExact == bytes = Sum(inodes)

\* The encoded lists behave as maps from names to values: every attribute set
\* and not removed is found with its last value, no other is, and a list names
\* each once, after any mount and for a file whose number others might have had.
XattrsAreMaps ==
    \A i \in DOMAIN inodes :
        /\ LoadXattrs(i) # Corrupted
        /\ \A n \in XNames :
              GetXattr(i, n) = {xwant[i][m] : m \in DOMAIN xwant[i] \cap {n}}
        /\ IsInjective(ListXattrs(i)) /\ ToSet(ListXattrs(i)) = DOMAIN xwant[i]

Got(n) == Cardinality({k \in DOMAIN listing.got : listing.got[k] = n})
Missed == {n \in listing.stable : Got(n) = 0}
Repeated == {n \in listing.stable : Got(n) > 1}

\* A listing in as many calls as it takes misses no more of the entries that
\* were there all the time than entries were removed meanwhile, and repeats no
\* more of them than were added; an undisturbed one gives every entry once.
ListingDamageBounded ==
    AtEnd => /\ Cardinality(Missed) <= listing.removed
             /\ Cardinality(Repeated) <= listing.added
=============================================================================
