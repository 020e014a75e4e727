------------------------------ MODULE Namespace ------------------------------
(***************************************************************************)
(* Inodes and directories of a mounted SliceFS, and what a commit and the  *)
(* next mount keep of them.                                                *)
(*                                                                         *)
(* fuser serves one request at a time, so every callback is one step.  The *)
(* store keeps several maps keyed by inode number; deleting an inode takes *)
(* it out of inode_data only, so its manifest, xattrs and directory        *)
(* entries stay behind under its number.                                   *)
(***************************************************************************)
EXTENDS Integers, Sequences, FiniteSets

CONSTANTS
    Names,      \* names a directory entry may have
    MaxLinks,   \* bound on a file's link count
    Bounds      \* bounds on inode numbers and mounts: a behaviour is within one

Root == 1

ASSUME ConstantsAssumption ==
    MaxLinks \in Nat \ {0} /\ Bounds \subseteq [ino : Nat \ {0}, mounts : Nat]

VARIABLES
    inodes,    \* inode_data: inode number -> [dir, nlinks]
    dirs,      \* dir_data: inode number -> (name -> inode number)
    attached,  \* inode numbers with a manifest or xattrs
    nextIno,   \* InodeMap.next_ino
    count,     \* inode_count, what statfs reports
    saved,     \* the committed root record
    mounts,    \* number of mounts so far
    bounds     \* the bounds of this behaviour

given == <<saved, mounts, bounds>>
vars == <<inodes, dirs, attached, nextIno, count, given>>

-----------------------------------------------------------------------------
(* The store's maps.                                                       *)

With(f, x, v) == [y \in DOMAIN f \cup {x} |-> IF y = x THEN v ELSE f[y]]
Without(f, x) == [y \in DOMAIN f \ {x} |-> f[y]]

\* InodeMeta::new_file and InodeMeta::new_directory.
NewFile == [dir |-> FALSE, nlinks |-> 1]
NewDirectory == [dir |-> TRUE, nlinks |-> 2]

\* create_dir_entries; "." and ".." never change and are left out.
NoEntries == [n \in {} |-> 0]

\* add_dir_entry and remove_dir_entry on the entry list of directory d.
AddEntry(ds, d, n, i) == [ds EXCEPT ![d] = With(@, n, i)]
RemoveEntry(ds, d, n) == [ds EXCEPT ![d] = Without(@, n)]

\* Mutation of AddLinks: links are taken away instead of added.
SubtractLinks(is, i, k) == [is EXCEPT ![i].nlinks = @ - k]

AddLinks(is, i, k) == [is EXCEPT ![i].nlinks = @ + k]

IsDir(i) == i \in DOMAIN inodes /\ inodes[i].dir

Init ==
    /\ inodes = [i \in {Root} |-> NewDirectory]
    /\ dirs = [i \in {Root} |-> NoEntries]
    /\ attached = {}
    /\ nextIno = 2
    /\ count = 1
    /\ saved = [inodes |-> inodes, dirs |-> dirs, attached |-> {}, nextIno |-> 2]
    /\ mounts = 0
    /\ bounds \in Bounds

-----------------------------------------------------------------------------
(* What the kernel checks before it sends a request: it walks paths from   *)
(* the root, so the directories it names are in the tree.                  *)

\* d is below, or is, directory a.
Below(a, d) ==
    LET above(S) ==
            S \cup {b \in DOMAIN dirs : \E n \in DOMAIN dirs[b] : dirs[b][n] \in S}
        up[k \in Nat] == IF k = 0 THEN {d} ELSE LET S == up[k - 1] IN above(S)
    IN  a \in up[bounds.ino]

InTree(i) == Below(Root, i)

\* Directories a request can name.
Parents == {d \in DOMAIN dirs : IsDir(d) /\ InTree(d)}

-----------------------------------------------------------------------------
(* Callbacks.                                                              *)

\* mknod, create and symlink: create_inode, then link; when the name is taken
\* the inode is deleted again and its number is spent.  A symlink gets its
\* manifest at once.
Mknod(d, n, content) ==
    /\ nextIno <= bounds.ino
    /\ nextIno' = nextIno + 1
    /\ IF n \in DOMAIN dirs[d]
       THEN UNCHANGED <<inodes, dirs, attached, count>>
       ELSE /\ inodes' = With(inodes, nextIno, NewFile)
            /\ dirs' = AddEntry(dirs, d, n, nextIno)
            /\ attached' = attached \cup content
            /\ count' = count + 1
    /\ UNCHANGED <<given>>

\* create_directory: the number is spent before the name is checked.
Mkdir(d, n) ==
    /\ nextIno <= bounds.ino
    /\ nextIno' = nextIno + 1
    /\ IF n \in DOMAIN dirs[d]
       THEN UNCHANGED <<inodes, dirs, count>>
       ELSE /\ inodes' = AddLinks(With(inodes, nextIno, NewDirectory), d, 1)
            /\ dirs' = With(AddEntry(dirs, d, n, nextIno), nextIno, NoEntries)
            /\ count' = count + 1
    /\ UNCHANGED <<attached, given>>

Rmdir(d, n) ==
    LET i == dirs[d][n]
    IN  /\ n \in DOMAIN dirs[d]
        /\ IsDir(i)
        /\ DOMAIN dirs[i] = {}
        /\ dirs' = RemoveEntry(dirs, d, n)
        /\ inodes' = LET rest == Without(inodes, i)
                     IN  IF rest[d].nlinks > 0 THEN AddLinks(rest, d, -1) ELSE rest
        /\ count' = count - 1
        /\ UNCHANGED <<attached, nextIno, given>>

\* Mutations of DropName: the inode goes with any of its names; the inode
\* count is not kept.
DropInode(i) == inodes' = Without(inodes, i) /\ count' = count - 1
DropUncounted(i) ==
    /\ inodes' = IF inodes[i].nlinks <= 1 THEN Without(inodes, i)
                 ELSE AddLinks(inodes, i, -1)
    /\ UNCHANGED count

\* One name of file i is gone: the last one takes the inode with it.
DropName(i) ==
    IF inodes[i].nlinks <= 1
    THEN inodes' = Without(inodes, i) /\ count' = count - 1
    ELSE inodes' = AddLinks(inodes, i, -1) /\ UNCHANGED count

Unlink(d, n) ==
    LET i == dirs[d][n]
    IN  /\ n \in DOMAIN dirs[d]
        /\ ~IsDir(i)
        /\ dirs' = RemoveEntry(dirs, d, n)
        /\ DropName(i)
        /\ UNCHANGED <<attached, nextIno, given>>

\* Mutation of Link: the link count is not raised.
LinkUncounted(i, d, n) ==
    /\ i \in DOMAIN inodes
    /\ ~IsDir(i)
    /\ n \notin DOMAIN dirs[d]
    /\ dirs' = AddEntry(dirs, d, n, i)
    /\ UNCHANGED <<inodes, attached, nextIno, count, given>>

Link(i, d, n) ==
    /\ i \in DOMAIN inodes
    /\ ~IsDir(i)
    /\ inodes[i].nlinks < MaxLinks
    /\ n \notin DOMAIN dirs[d]
    /\ dirs' = AddEntry(dirs, d, n, i)
    /\ inodes' = AddLinks(inodes, i, 1)
    /\ UNCHANGED <<attached, nextIno, count, given>>

\* The kernel sends a rename only of two different inodes that are both or
\* neither directories, and neither of them above the other's place.
KernelRenames(d, n, e, m) ==
    /\ n \in DOMAIN dirs[d]
    /\ ~Below(dirs[d][n], e)
    /\ m \in DOMAIN dirs[e] =>
         /\ dirs[e][m] # dirs[d][n]
         /\ IsDir(dirs[e][m]) = IsDir(dirs[d][n])
         /\ ~Below(dirs[e][m], d)

\* rename without RENAME_NOREPLACE: the entry it replaces is removed first.  A
\* replaced directory loses a link and stays behind, entries and all.
Rename(d, n, e, m) ==
    LET src == dirs[d][n]
        dst == dirs[e][m]
        cleared == IF m \in DOMAIN dirs[e] THEN RemoveEntry(dirs, e, m) ELSE dirs
    IN  /\ KernelRenames(d, n, e, m)
        /\ dirs' = RemoveEntry(AddEntry(cleared, e, m, src), d, n)
        /\ \/ m \notin DOMAIN dirs[e] /\ UNCHANGED <<inodes, count>>
           \/ /\ m \in DOMAIN dirs[e]
              /\ IF IsDir(dst)
                 THEN /\ inodes' = IF inodes[dst].nlinks > 1
                                   THEN AddLinks(inodes, dst, -1) ELSE inodes
                      /\ UNCHANGED count
                 ELSE DropName(dst)
        /\ UNCHANGED <<attached, nextIno, given>>

\* set_manifest (release, fsync, truncate) and set_xattr: a map entry under i.
Attach(i) ==
    /\ i \in DOMAIN inodes
    /\ attached' = attached \cup {i}
    /\ UNCHANGED <<inodes, dirs, nextIno, count, given>>

\* compute_statfs; the space is that of the host's file system.
Statfs == [files |-> count]

-----------------------------------------------------------------------------
(* Commit and mount.                                                       *)

\* Mutation of RootRecord: next_ino is one above the live inodes.
RootRecordOfLive ==
    [inodes |-> inodes, dirs |-> dirs, attached |-> attached,
     nextIno |-> 1 + CHOOSE i \in DOMAIN inodes : \A j \in DOMAIN inodes : j <= i]

\* commit: every map, and next_ino, in one root record.
RootRecord ==
    [inodes |-> inodes, dirs |-> dirs, attached |-> attached, nextIno |-> nextIno]

\* load_from_root: the maps as they were committed; next_ino comes from the
\* record, the inode count is computed anew.
LoadFromRoot(rec) ==
    /\ mounts < bounds.mounts
    /\ mounts' = mounts + 1
    /\ inodes' = rec.inodes
    /\ dirs' = rec.dirs
    /\ attached' = rec.attached
    /\ nextIno' = rec.nextIno
    /\ count' = Cardinality(DOMAIN rec.inodes)
    /\ UNCHANGED bounds

\* destroy commits, and the store is mounted again.
Remount == saved' = RootRecord /\ LoadFromRoot(RootRecord)

\* The mount is killed, and the store is mounted again.
CrashAndMount == LoadFromRoot(saved) /\ UNCHANGED saved

Next ==
    \/ \E d \in Parents, n \in Names :
        \/ Mknod(d, n, {}) \/ Mknod(d, n, {nextIno}) \/ Mkdir(d, n)
        \/ Rmdir(d, n) \/ Unlink(d, n)
        \/ \E i \in DOMAIN inodes : InTree(i) /\ Link(i, d, n)
        \/ \E e \in Parents, m \in Names : Rename(d, n, e, m)
    \/ \E i \in DOMAIN inodes : Attach(i)
    \/ Remount
    \/ CrashAndMount

Spec == Init /\ [][Next]_vars
-----------------------------------------------------------------------------
(* Properties.                                                             *)

EntriesOf(i) ==
    UNION {{<<d, n>> : n \in {m \in DOMAIN dirs[d] : dirs[d][m] = i}} :
              d \in DOMAIN dirs \cap DOMAIN inodes}

\* Types of the variables.
TypeOK ==
    /\ DOMAIN inodes \subseteq 1 .. bounds.ino /\ Root \in DOMAIN inodes
    /\ \A i \in DOMAIN inodes :
          inodes[i] \in [dir : BOOLEAN, nlinks : 0 .. bounds.ino + MaxLinks]
    /\ \A d \in DOMAIN dirs :
          DOMAIN dirs[d] \subseteq Names /\ \A n \in DOMAIN dirs[d] : dirs[d][n] \in 1 .. bounds.ino
    /\ attached \subseteq 1 .. bounds.ino
    /\ nextIno \in 2 .. bounds.ino + 1 /\ count \in Nat /\ mounts \in 0 .. bounds.mounts

\* No entry of the tree leads to a deleted inode: whatever links, unlinks and
\* renames came before, lookup never finds a name and then fails with ENOENT.
EntriesResolve ==
    \A d \in Parents : \A n \in DOMAIN dirs[d] : dirs[d][n] \in DOMAIN inodes

\* A file's link count is the number of its names, so that the unlink of the
\* last name, and no earlier one, deletes it.
LinksAreNames ==
    \A i \in DOMAIN inodes :
        ~inodes[i].dir => inodes[i].nlinks = Cardinality(EntriesOf(i))

\* An inode number under which any map still holds something, of a live or
\* of a deleted inode, is never handed out again, mounts and crashes between
\* or not: a new file cannot come up with a dead file's content or xattrs.
NumbersSpent ==
    \A i \in DOMAIN inodes \cup DOMAIN dirs \cup attached : i < nextIno

\* statfs reports as many files as there are, although the number is counted up
\* and down by callbacks that may undo what they did, and anew by every mount.
CountIsExact == Statfs.files = Cardinality(DOMAIN inodes)
=============================================================================
