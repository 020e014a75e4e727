------------------------------ MODULE WritePath ------------------------------
(***************************************************************************)
(* File content in a mounted SliceFS: open write handles, the manifests    *)
(* they commit to, block reference counts and inode sizes.                 *)
(*                                                                         *)
(* fuser serves one request at a time, so every callback is one step.      *)
(* Content is a short sequence of bytes; the store is content addressed,   *)
(* so a block's digest is its content.  Directories, names and link counts *)
(* are in Namespace.tla.                                                   *)
(***************************************************************************)
EXTENDS Integers, Sequences, FiniteSets

CONSTANTS
    Inodes,     \* inode numbers; each is created at most once
    Handles,    \* file handles that may be open for writing
    Bytes,      \* the byte values applications write; 0 is the filler
    MaxLen,     \* bound on the length of a file
    MaxCalls,   \* bound on the number of calls
    SeedContent \* what files have that slicefs seed put into the store

ASSUME ConstantsAssumption ==
    /\ IsFiniteSet(Inodes) /\ IsFiniteSet(Handles)
    /\ Bytes \subseteq Nat
    /\ MaxLen \in Nat \ {0}
    /\ MaxCalls \in Nat
    /\ SeedContent \subseteq UNION {[1 .. n -> Bytes \cup {0}] : n \in 0 .. MaxLen}

VARIABLES
    live,      \* inode_data: inode -> [size]
    spent,     \* inode numbers allocated so far
    manifest,  \* manifest_data: inode -> content (<<>>: the empty manifest)
    open,      \* open_files: handle -> OpenFileState
    refs,      \* refcounts: content -> count (absent: 0)
    posix,     \* history: inode -> content a POSIX file would have
    stale,     \* history: files emptied through a handle, with the old manifest
    astray,    \* history: files a call was made on that POSIX has differently
    short,     \* history: blocks whose count was not made, or taken back twice
    calls      \* the number of calls made

vars == <<live, spent, manifest, open, refs, posix, stale, astray, short, calls>>

-----------------------------------------------------------------------------
(* Content.                                                                *)

Byte == Bytes \cup {0}
Content == UNION {[1 .. n -> Byte] : n \in 0 .. MaxLen}

\* Vec::resize(n, 0)
Resize(c, n) == [k \in 1 .. n |-> IF k <= Len(c) THEN c[k] ELSE 0]

\* pwrite: data at offset, zeros between the old end and the offset.
Pwrite(c, offset, data) ==
    LET end == offset + Len(data)
        base == IF end > Len(c) THEN Resize(c, end) ELSE c
    IN  [k \in 1 .. Len(base) |->
            IF offset < k /\ k <= end THEN data[k - offset] ELSE base[k]]

-----------------------------------------------------------------------------
(* Reference counts and manifests.                                         *)

\* No committed root.  Content with no bytes is never counted, so the empty
\* sequence is free to stand for it.
NoRoot == <<>>

RefCount(rc, d) == IF d \in DOMAIN rc THEN rc[d] ELSE 0

\* Mutation of Increment: a block that is there already is not counted again.
IncrementOnce(rc, d) ==
    IF d \in DOMAIN rc THEN rc
    ELSE [c \in DOMAIN rc \cup {d} |-> IF c = d THEN 1 ELSE rc[c]]

Increment(rc, d) ==
    [c \in DOMAIN rc \cup {d} |-> IF c = d THEN RefCount(rc, d) + 1 ELSE rc[c]]

\* Mutation of Decrement: an entry stays in the map when it reaches 0.
DecrementToZero(rc, d) ==
    IF d \in DOMAIN rc THEN [rc EXCEPT ![d] = @ - 1] ELSE rc

\* A digest that is not tracked (NoRoot, an empty manifest) is ignored, a
\* count of 1 removes the entry.
Decrement(rc, d) ==
    IF RefCount(rc, d) <= 1 THEN [c \in DOMAIN rc \ {d} |-> rc[c]]
    ELSE [rc EXCEPT ![d] = @ - 1]

\* get_manifest, with a missing or an empty manifest read as no content.
Committed(i) == IF i \in DOMAIN manifest THEN manifest[i] ELSE <<>>

SetManifest(i, c) ==
    manifest' = [j \in DOMAIN manifest \cup {i} |-> IF j = i THEN c ELSE manifest[j]]

\* get_inode and update_inode: the size of a live inode; an error, with
\* everything before it done, when the inode was deleted.
SetSize(i, n) ==
    live' = IF i \in DOMAIN live THEN [live EXCEPT ![i].size = n] ELSE live

-----------------------------------------------------------------------------
(* Handles.  In both write modes byte_count is the length of data, and in  *)
(* streaming mode it is the next expected offset too.                      *)

NewHandle(i) ==
    [ino |-> i, mode |-> "streaming", data |-> <<>>, cas_committed |-> FALSE,
     last_committed_root |-> NoRoot]

OpenFileState ==
    [ino : Inodes, mode : {"streaming", "buffered"}, data : Content,
     cas_committed : BOOLEAN, last_committed_root : Content]

WithHandle(h, s) ==
    open' = [g \in DOMAIN open \cup {h} |-> IF g = h THEN s ELSE open[g]]

WithoutHandle(h) == open' = [g \in DOMAIN open \ {h} |-> open[g]]

HandlesOn(i) == {h \in DOMAIN open : open[h].ino = i}

\* The handles test_read takes content from.
Writers(i) == {h \in HandlesOn(i) : open[h].data # <<>>}

\* EIO, in the place of content.
ReadError == <<-1>>

\* Mutation of Read: the manifest is looked at before the open handles.
ReadManifest(i) ==
    IF i \in DOMAIN manifest THEN {manifest[i]}
    ELSE {open[h].data : h \in HandlesOn(i)}

\* What test_read may return for the whole of inode i: the content of a handle
\* with bytes in it (the hash map's first, so any), else the manifest.
Read(i) ==
    IF Writers(i) # {} THEN {open[h].data : h \in Writers(i)}
    ELSE IF i \in DOMAIN manifest THEN {manifest[i]} ELSE {ReadError}

-----------------------------------------------------------------------------
(* Where the code is not POSIX.  The calls below are accepted and answered *)
(* with success; the history variables remember that they were made, so    *)
(* that the properties can say what holds of every other file and block.   *)

\* Another handle on h's file holds content: each handle has its own copy.
Shared(h) == Writers(open[h].ino) \ {h} # {}

\* A handle that holds nothing starts from nothing, not from the file, unless
\* the first write through it is past the start of the file (see Write).
\* The write is as in POSIX when it replaces all that the file has.
StartsOver(h, offset, data) ==
    LET s == open[h]
    IN  /\ s.data = <<>> /\ posix[s.ino] # <<>>
        /\ s.mode = "buffered" \/ offset = 0
        /\ offset > 0 \/ Len(data) < Len(posix[s.ino])

\* The first write is past the start, and starts from a manifest of old.
Resurrects(h, offset) ==
    LET s == open[h]
    IN  s.data = <<>> /\ s.mode = "streaming" /\ offset > 0 /\ s.ino \in stale

\* The file's manifest is its own to count down: no handle has committed it
\* or, having taken its count back, is to replace it.
Settled(i) ==
    /\ i \in DOMAIN live \ stale
    /\ \A h \in Writers(i) :
          open[h].cas_committed /\ open[h].last_committed_root # Committed(i)

\* A call leaves file i, if it is live, astray or not, and with content c in
\* POSIX, which is not followed while the file is astray.
Follow(i, stray, c) ==
    /\ astray' = IF stray /\ i \in DOMAIN live THEN astray \cup {i} ELSE astray \ {i}
    /\ posix' = [posix EXCEPT ![i] = IF i \notin DOMAIN live \/ stray THEN <<>> ELSE c]

\* File i is emptied through a handle, which its manifest outlives.  That brings
\* the file back on its way if no other handle holds content of it.
Emptied(i, others) ==
    /\ stale' = IF i \in DOMAIN live /\ Committed(i) # <<>> THEN stale \cup {i} ELSE stale
    /\ Follow(i, others, <<>>)

\* The count of file i's manifest is taken back by a call on the file.
TakesBack(i) ==
    short' = IF Settled(i) \/ Committed(i) = <<>> THEN short ELSE short \cup {Committed(i)}

\* The store slicefs seed left: files with manifests that nothing counted.
Init ==
    \E seeded \in UNION {[S -> SeedContent] : S \in SUBSET Inodes} :
        /\ live = [i \in DOMAIN seeded |-> [size |-> Len(seeded[i])]]
        /\ spent = DOMAIN seeded
        /\ calls = 0
        /\ manifest = seeded
        /\ open = [h \in {} |-> <<>>]
        /\ refs = [c \in {} |-> 0]
        /\ posix = [i \in Inodes |-> IF i \in DOMAIN seeded THEN seeded[i] ELSE <<>>]
        /\ stale = {}
        /\ astray = {}
        /\ short = {seeded[i] : i \in DOMAIN seeded} \ {<<>>}

-----------------------------------------------------------------------------
(* Callbacks.                                                              *)

Create(i, h) ==
    /\ i \notin spent
    /\ h \notin DOMAIN open
    /\ spent' = spent \cup {i}
    /\ live' = [j \in DOMAIN live \cup {i} |->
                   IF j = i THEN [size |-> 0] ELSE live[j]]
    /\ WithHandle(h, NewHandle(i))
    /\ UNCHANGED <<manifest, refs, posix, stale, astray, short>>

\* open for writing.  O_TRUNC truncates the new handle, and the inode's size,
\* to 0; the manifest stays.
Open(i, h, trunc) ==
    /\ i \in DOMAIN live
    /\ h \notin DOMAIN open
    /\ WithHandle(h, NewHandle(i))
    /\ IF trunc THEN SetSize(i, 0) /\ Emptied(i, Writers(i) # {})
       ELSE UNCHANGED <<live, posix, stale, astray>>
    /\ UNCHANGED <<spent, manifest, refs, short>>

\* write.  Out of sequence, a streaming handle becomes a buffered one, from
\* what was streamed or, if nothing was, from the committed content.
Write(h, offset, data) ==
    LET s == open[h]
        dirty == [s EXCEPT !.cas_committed = FALSE]
        base == IF s.data # <<>> THEN s.data ELSE Committed(s.ino)
    IN  /\ h \in DOMAIN open
        /\ offset + Len(data) <= MaxLen
        /\ \/ /\ s.mode = "streaming"
              /\ offset = Len(s.data)
              /\ WithHandle(h, [dirty EXCEPT !.data = s.data \o data])
              /\ UNCHANGED refs
           \/ /\ s.mode = "streaming"
              /\ offset # Len(s.data)
              /\ WithHandle(h, [dirty EXCEPT !.mode = "buffered",
                                             !.data = Pwrite(base, offset, data),
                                             !.last_committed_root = NoRoot])
              /\ refs' = Decrement(refs, s.last_committed_root)
           \/ /\ s.mode = "buffered"
              /\ WithHandle(h, [dirty EXCEPT !.data = Pwrite(s.data, offset, data)])
              /\ UNCHANGED refs
        /\ Follow(s.ino,
                  \/ s.ino \in astray
                  \/ Shared(h) \/ StartsOver(h, offset, data) \/ Resurrects(h, offset),
                  Pwrite(posix[s.ino], offset, data))
        /\ UNCHANGED <<live, spent, manifest, stale, short>>

\* Mutation of CommitContent: the inode's size is not updated.
CommitManifest(s) ==
    LET old == s.last_committed_root
    IN  /\ SetManifest(s.ino, s.data)
        /\ refs' = IF old = s.data THEN refs
                   ELSE Increment(Decrement(refs, old), s.data)
        /\ stale' = stale \ {s.ino}
        /\ UNCHANGED live

\* The manifest becomes the handle's content and the count moves from the
\* handle's last committed root to it.
CommitContent(s) ==
    LET old == s.last_committed_root
    IN  /\ SetManifest(s.ino, s.data)
        /\ refs' = IF old = s.data THEN refs
                   ELSE Increment(Decrement(refs, old), s.data)
        /\ SetSize(s.ino, Len(s.data))
        /\ stale' = stale \ {s.ino}

\* flush_buffer_for_fsync, called by flush and fsync.
Flush(h) ==
    LET s == open[h]
    IN  /\ h \in DOMAIN open
        /\ s.data # <<>>
        /\ CommitContent(s)
        /\ WithHandle(h, [s EXCEPT !.cas_committed = TRUE,
                                   !.last_committed_root = s.data])
        /\ UNCHANGED <<spent, posix, astray, short>>

\* release.  A handle nothing was written through leaves existing content
\* alone, and one whose content the last flush committed has nothing to do.
Release(h) ==
    LET s == open[h]
    IN  /\ h \in DOMAIN open
        /\ WithoutHandle(h)
        /\ \/ /\ s.data = <<>>
              /\ IF ~s.cas_committed /\ Committed(s.ino) = <<>>
                 THEN SetManifest(s.ino, <<>>) ELSE UNCHANGED manifest
              /\ UNCHANGED <<live, refs, stale>>
           \/ /\ s.data # <<>>
              /\ s.last_committed_root = s.data /\ s.cas_committed
              /\ UNCHANGED <<live, manifest, refs, stale>>
           \/ /\ s.data # <<>>
              /\ ~(s.last_committed_root = s.data /\ s.cas_committed)
              /\ CommitContent(s)
        /\ UNCHANGED <<spent, posix, astray, short>>

\* setattr(size) with a file handle: the handle's content is resized, the
\* manifest stays.  A buffered handle resized to n > 0 keeps its last root.
TruncateHandle(h, n) ==
    LET s == open[h]
        keeps == s.mode = "buffered" /\ n # 0
    IN  /\ h \in DOMAIN open
        /\ WithHandle(h, [s EXCEPT
               !.data = Resize(s.data, n),
               !.cas_committed = FALSE,
               !.last_committed_root = IF keeps THEN @ ELSE NoRoot])
        /\ refs' = IF keeps THEN refs
                   ELSE Decrement(refs, s.last_committed_root)
        /\ SetSize(s.ino, n)
        /\ \/ /\ n = 0
              /\ Emptied(s.ino, Shared(h))
           \/ /\ n > 0
              /\ Follow(s.ino,
                        \/ s.ino \in astray
                        \/ Shared(h) \/ (s.data = <<>> /\ posix[s.ino] # <<>>),
                        Resize(posix[s.ino], n))
              /\ UNCHANGED stale
        /\ UNCHANGED <<spent, manifest, short>>

\* setattr(size) by path: the committed content is resized and committed.
TruncatePath(i, n) ==
    LET old == Committed(i)
        new == Resize(old, n)
        dropped == Decrement(refs, old)
    IN  /\ i \in DOMAIN live
        /\ SetManifest(i, new)
        /\ refs' = IF new = <<>> THEN dropped ELSE Increment(dropped, new)
        /\ TakesBack(i)
        /\ SetSize(i, n)
        /\ stale' = stale \ {i}
        /\ Follow(i, Writers(i) # {} \/ (n > 0 /\ i \in stale \cup astray),
                  Resize(posix[i], n))
        /\ UNCHANGED <<spent, open>>

\* unlink of the last name, or rename over it: the manifest's block loses a
\* count and the inode is deleted, open or not; the manifest entry stays.
Unlink(i) ==
    /\ i \in DOMAIN live
    /\ refs' = Decrement(refs, Committed(i))
    /\ live' = [j \in DOMAIN live \ {i} |-> live[j]]
    /\ posix' = [posix EXCEPT ![i] = <<>>]
    /\ stale' = stale \ {i}
    /\ astray' = astray \ {i}
    /\ TakesBack(i)
    /\ UNCHANGED <<spent, manifest, open>>

Next ==
    /\ calls < MaxCalls /\ calls' = calls + 1
    /\ \/ \E i \in Inodes, h \in Handles :
            Create(i, h) \/ Open(i, h, TRUE) \/ Open(i, h, FALSE)
       \/ \E h \in DOMAIN open :
            \/ \E offset \in 0 .. MaxLen - 1, b \in Bytes : Write(h, offset, <<b>>)
            \/ Flush(h) \/ Release(h)
            \/ \E n \in 0 .. MaxLen : TruncateHandle(h, n)
       \/ \E i \in DOMAIN live :
            Unlink(i) \/ \E n \in 0 .. MaxLen : TruncatePath(i, n)

Spec == Init /\ [][Next]_vars
-----------------------------------------------------------------------------
(* Properties.                                                             *)

\* Types of the variables.
TypeOK ==
    /\ live \in [DOMAIN live -> [size : 0 .. MaxLen]]
    /\ DOMAIN live \subseteq spent /\ spent \subseteq Inodes
    /\ manifest \in [DOMAIN manifest -> Content] /\ DOMAIN manifest \subseteq spent
    /\ open \in [DOMAIN open -> OpenFileState] /\ DOMAIN open \subseteq Handles
    /\ refs \in [DOMAIN refs -> Nat \ {0}] /\ DOMAIN refs \subseteq Content
    /\ posix \in [Inodes -> Content]
    /\ stale \subseteq DOMAIN live /\ astray \subseteq DOMAIN live
    /\ short \subseteq Content
    /\ calls \in 0 .. MaxCalls

\* A read returns what POSIX says the file holds, while it is written through
\* a handle in either mode, opened with O_TRUNC or not, across flushes,
\* truncations and the switch from streaming to buffered, and after the last
\* handle is gone.  It holds of the files that no call led astray.  (The read
\* of an empty file may fail: a file never released has no manifest.  Of a file
\* emptied through a handle and not written since, the old content is still
\* served, but stat gives size 0, which the kernel's reads are limited to.)
PosixContent ==
    \A i \in DOMAIN live \ astray :
        CASE i \in stale /\ Writers(i) = {} -> posix[i] = <<>> /\ live[i].size = 0
          [] posix[i] = <<>> /\ ~(i \in stale /\ Writers(i) = {}) ->
                Read(i) \subseteq {<<>>, ReadError}
          [] OTHER -> Read(i) = {posix[i]}

\* Once a file is closed, the size stat reports is the length of its content,
\* astray or not, which size and manifest get from different calls; or the file
\* was emptied through a handle, which leaves its manifest, and the size is 0.
SizeIsLength ==
    \A i \in DOMAIN live : HandlesOn(i) = {} =>
        live[i].size = IF i \in stale THEN 0 ELSE Len(Committed(i))

References(d) == {i \in DOMAIN live \ stale : Committed(i) = d}

\* With every file closed, a block counts at least as many references as
\* files have it as their content, files with equal content included: freeing
\* blocks that count 0 would free nothing a file needs.  Not so the blocks of
\* seeded files, which were never counted, and those whose count was taken back
\* by an unlink or a truncate(2) of a file that a handle was writing to.
RefcountsCover ==
    DOMAIN open = {} =>
        \A d \in {Committed(i) : i \in DOMAIN live} \ ({<<>>} \cup short) :
            RefCount(refs, d) >= Cardinality(References(d))
=============================================================================
