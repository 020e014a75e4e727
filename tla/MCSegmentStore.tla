--------------------------- MODULE MCSegmentStore ---------------------------
(* SegmentStore on small instances: the commands each run may start.       *)
EXTENDS SegmentStore, TLC

\* Processes are interchangeable.
ProcSymmetry == Permutations(Procs)

None == [k \in Bounded |-> 0]

\* One command after the other, with crashes, a buffering WAL and no garbage
\* collection.  The mount with auto-snapshot makes the snapshot that the
\* snapshot mount and the switch need.
CrashBudget ==
    [None EXCEPT !["seed"] = 1, !["mount"] = 1, !["automount"] = 1,
                 !["snapmount"] = 1, !["switch"] = 1]

\* One command after the other, no crash, two garbage collections.
GcBudget ==
    [None EXCEPT !["seed"] = 1, !["mount"] = 1, !["create"] = 2,
                 !["switch"] = 1, !["gc"] = 2]

\* Two commands at a time, in every order.
ConcurrentBudget ==
    [None EXCEPT !["seed"] = 1, !["mount"] = 2, !["create"] = 1,
                 !["gc"] = 1, !["unmount"] = 1, !["fsync"] = 1]

\* A mount that is killed, then another mount and a garbage collection.
GcAbortBudget == [None EXCEPT !["seed"] = 1, !["mount"] = 3, !["gc"] = 1]

\* One mount with an fsync.
FsyncBudget == [None EXCEPT !["seed"] = 1, !["mount"] = 1, !["fsync"] = 1]
=============================================================================
