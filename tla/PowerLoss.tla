------------------------------ MODULE PowerLoss ------------------------------
(***************************************************************************)
(* SegmentStore on a machine that may lose power.  SegmentWriter::sync     *)
(* calls sync_all, so a written record is stable; StoreIo::write is a      *)
(* plain fs::write, so a blob is stable only once the operating system has *)
(* written it back in its own time.  (A record that is written but not yet *)
(* synced is taken to survive; losing it too would only lose the commit.)  *)
(***************************************************************************)
EXTENDS MCSegmentStore

CONSTANT MaxPowerLosses   \* bound on the number of power losses

VARIABLES
    stable,   \* the blobs that are on the medium, not only in the page cache
    losses    \* power losses so far

PowerInit == Init /\ stable = {} /\ losses = 0

\* The operating system writes a blob back.
Writeback(b) ==
    /\ b \in blobs \ stable
    /\ stable' = stable \cup {b}
    /\ UNCHANGED <<vars, losses>>

\* Power goes: every process dies, and any blob not written back may be gone.
LosePower ==
    /\ losses < MaxPowerLosses
    /\ losses' = losses + 1
    /\ blobs' = stable
    /\ proc' = [p \in Procs |-> IdleProc]
    /\ cleaning' = FALSE
    /\ UNCHANGED <<files, lock, states, budget, crashes, history, stable>>

PowerNext ==
    \/ Next /\ UNCHANGED <<stable, losses>>
    \/ \E b \in blobs : Writeback(b)
    \/ LosePower

PowerSpec == PowerInit /\ [][PowerNext]_<<vars, stable, losses>>

\* "Log RootUpdate to WAL AFTER all nodes are flushed to disk (crash-safe
\* ordering)": a root in the WAL has its blobs, whenever the machine stops.
RootsResolveAfterPowerLoss == RootsResolve
=============================================================================
