---------------------------- MODULE MountSession ----------------------------
(***************************************************************************)
(* The life of a mount: run_mount from its checks to the removal of        *)
(* mount.lock, the background collection thread beside it, the unmount     *)
(* command, and the kernel's mount table between them.  What a mount does  *)
(* to the store is in SegmentStore.tla, where the lock is one file among   *)
(* others; here it is about who holds it, when, and who ends last.         *)
(*                                                                         *)
(* All mounts are of one store at one mountpoint.                          *)
(***************************************************************************)
EXTENDS Integers, Sequences, FiniteSets

CONSTANTS
    Mounts,      \* processes that may run the mount command
    Installed,   \* versions of FUSE-T whose libraries are in /usr/local/lib
    FsKit,       \* is the FSKit backend available?
    Flags,       \* values of --backend that are used, "" for none
    Threshold,   \* orphan_threshold of the background collection
    Scenarios    \* what a behaviour may be: each is of one of them, see below

\* A scenario is the platform, what the user does beyond the usual, and bounds
\* on mount commands, unmount commands and crashes.
\* impatient:  a mount may start, or a session end, while another mount is
\*             ending or starting
\* store_flag: unmount may be told the store, and removes its lock
Scenario == [platform : {"linux", "macos"}, usage : SUBSET {"impatient", "store_flag"},
             maxStarts : Nat, maxUnmounts : Nat, maxCrashes : Nat]

Backends == {"fskit", "smb", "nfs"}

ASSUME ConstantsAssumption ==
    /\ Scenarios \subseteq Scenario
    /\ \A v \in Installed : v \in Nat \X Nat \X Nat
    /\ FsKit \in BOOLEAN
    /\ Threshold \in Nat

VARIABLES
    lock,      \* does mount.lock exist?
    proc,      \* mount -> [at, backend, failed]
    fs,        \* mount -> is its SliceFsFilesystem alive, and the store with it?
    shutdown,  \* mount -> gc_shutdown
    gc,        \* mount -> where its background thread is
    busy,      \* do applications have files open at the mountpoint?
    command,   \* the unmount command: where it is, and whether it has --store
    scenario,  \* the one of this behaviour
    starts, unmounts, crashes

thread == <<fs, shutdown, gc>>
counts == <<starts, unmounts, crashes>>
vars == <<lock, proc, thread, busy, command, scenario, counts>>

Off == [at |-> "off", backend |-> "", failed |-> FALSE]

Init ==
    /\ lock = FALSE
    /\ proc = [m \in Mounts |-> Off]
    /\ fs = [m \in Mounts |-> FALSE]
    /\ shutdown = [m \in Mounts |-> FALSE]
    /\ gc = [m \in Mounts |-> "none"]
    /\ busy = FALSE
    /\ command = [at |-> "idle", store |-> FALSE]
    /\ scenario \in Scenarios
    /\ starts = 0 /\ unmounts = 0 /\ crashes = 0

At(m, where) == proc[m].at = where
To(m, where) == proc' = [proc EXCEPT ![m].at = where]

\* An error before there is a thread: the process ends, and drops what it has.
Fail(m) == proc' = [proc EXCEPT ![m] = Off]

\* The mount table: sessions that a path walk still reaches.
InUse == \E m \in Mounts : At(m, "serving")

-----------------------------------------------------------------------------
(* The mount command, before it touches the store.                         *)

Quiet == \A m \in Mounts : proc[m].at \in {"off", "serving"}

\* A user who is not impatient waits for the mount before to have ended, or
\* mounts where it is still in use.
Start(m) ==
    /\ At(m, "off") /\ starts < scenario.maxStarts
    /\ Quiet \/ "impatient" \in scenario.usage
    /\ command.at = "idle" \/ "impatient" \in scenario.usage
    /\ To(m, "check")
    /\ starts' = starts + 1
    /\ UNCHANGED <<lock, thread, busy, command, scenario, unmounts, crashes>>

\* Mutation of CheckMountpoint: nothing is looked up.
SkipCheck(m) ==
    /\ At(m, "check")
    /\ To(m, IF scenario.platform = "macos" THEN "backend" ELSE "acquire")
    /\ UNCHANGED <<lock, thread, busy, command, scenario, counts>>

\* check_mountpoint_not_in_use
CheckMountpoint(m) ==
    /\ At(m, "check")
    /\ IF InUse THEN Fail(m)
       ELSE To(m, IF scenario.platform = "macos" THEN "backend" ELSE "acquire")
    /\ UNCHANGED <<lock, thread, busy, command, scenario, counts>>

\* The order of version tuples.
Older(v, w) ==
    \/ v[1] < w[1]
    \/ v[1] = w[1] /\ v[2] < w[2]
    \/ v[1] = w[1] /\ v[2] = w[2] /\ v[3] < w[3]

MinVersion == <<1, 0, 35>>

\* Mutation of SelectBackend: no flag is no backend.
SelectRequested(flag, version) ==
    IF Older(version, MinVersion) \/ (flag = "fskit" /\ ~FsKit) THEN {} ELSE {flag}

\* select_backend: at most one; the flag --force makes no difference.
SelectBackend(flag, version) ==
    IF Older(version, MinVersion) \/ (flag = "fskit" /\ ~FsKit) THEN {}
    ELSE IF flag = "" THEN {"nfs"} ELSE {flag}

\* parse_backend_flag and select_backend_auto.  The first library that the
\* directory lists gives the version.
PickBackend(m, flag) ==
    LET versions == IF Installed = {} THEN {<<0, 0, 0>>} ELSE Installed
    IN  /\ At(m, "backend")
        /\ \E v \in versions :
              LET choice == IF flag \in Backends \cup {""} THEN SelectBackend(flag, v) ELSE {}
              IN  IF choice = {} THEN Fail(m)
                  ELSE \E b \in choice :
                          proc' = [proc EXCEPT ![m].at = "acquire", ![m].backend = b]
        /\ UNCHANGED <<lock, thread, busy, command, scenario, counts>>

-----------------------------------------------------------------------------
(* load_store and the start of the session.                                *)

\* acquire_mount_lock: a lock that exists is taken for the trace of a crash.
Acquire(m) ==
    /\ At(m, "acquire")
    /\ To(m, IF lock THEN "dirty" ELSE "create")
    /\ UNCHANGED <<lock, thread, busy, command, scenario, counts>>

RemoveStale(m) ==
    /\ At(m, "dirty")
    /\ lock' = FALSE
    /\ To(m, "reacquire")
    /\ UNCHANGED <<thread, busy, command, scenario, counts>>

Reacquire(m) ==
    /\ At(m, "reacquire")
    /\ IF lock THEN Fail(m) ELSE To(m, "create")
    /\ UNCHANGED <<lock, thread, busy, command, scenario, counts>>

CreateLock(m) ==
    /\ At(m, "create")
    /\ lock' = TRUE
    /\ To(m, "load")
    /\ UNCHANGED <<thread, busy, command, scenario, counts>>

\* Mutation of LoadFails: the guard is not dropped.
LoadFailsLocked(m) ==
    /\ At(m, "load")
    /\ Fail(m)
    /\ UNCHANGED <<lock, thread, busy, command, scenario, counts>>

\* No committed root, a blob that is missing, or a snapshot that is not found:
\* the error drops the MountLock.
LoadFails(m) ==
    /\ At(m, "load")
    /\ lock' = FALSE
    /\ Fail(m)
    /\ UNCHANGED <<thread, busy, command, scenario, counts>>

\* The rest of load_store, SliceFsFilesystem::new and spawn_background_gc.
LoadAndSpawn(m) ==
    /\ At(m, "load")
    /\ fs' = [fs EXCEPT ![m] = TRUE]
    /\ shutdown' = [shutdown EXCEPT ![m] = FALSE]
    /\ gc' = [gc EXCEPT ![m] = "sleep"]
    /\ To(m, "mount2")
    /\ UNCHANGED <<lock, busy, command, scenario, counts>>

Mount2(m) ==
    /\ At(m, "mount2")
    /\ To(m, "serving")
    /\ UNCHANGED <<lock, thread, busy, command, scenario, counts>>

\* mount2 returns an error, at once or from the session: fs is dropped in it,
\* the handle of the thread sets the flag and does not wait.
Mount2Fails(m) ==
    /\ proc[m].at \in {"mount2", "serving"}
    /\ At(m, "mount2") \/ Quiet \/ "impatient" \in scenario.usage
    /\ proc' = [proc EXCEPT ![m].at = "unlock", ![m].failed = TRUE]
    /\ fs' = [fs EXCEPT ![m] = FALSE]
    /\ shutdown' = [shutdown EXCEPT ![m] = TRUE]
    /\ busy' = (busy /\ At(m, "mount2"))
    /\ UNCHANGED <<lock, gc, command, scenario, counts>>

-----------------------------------------------------------------------------
(* The end of a mount.                                                     *)

\* destroy commits and mount2 returns, with fs dropped.
SessionEnds(m) ==
    /\ At(m, "destroy")
    /\ fs' = [fs EXCEPT ![m] = FALSE]
    /\ To(m, "stop")
    /\ UNCHANGED <<lock, shutdown, gc, busy, command, scenario, counts>>

\* gc_shutdown.store
SetShutdown(m) ==
    /\ At(m, "stop")
    /\ shutdown' = [shutdown EXCEPT ![m] = TRUE]
    /\ To(m, "join")
    /\ UNCHANGED <<lock, fs, gc, busy, command, scenario, counts>>

\* Mutation of Join: the handle is dropped, which does not wait.
JoinNot(m) ==
    /\ At(m, "join")
    /\ To(m, "unlock")
    /\ UNCHANGED <<lock, thread, busy, command, scenario, counts>>

\* gc_handle.shutdown()
Join(m) ==
    /\ At(m, "join")
    /\ gc[m] = "ended"
    /\ To(m, "unlock")
    /\ UNCHANGED <<lock, thread, busy, command, scenario, counts>>

\* MountLock::drop
Unlock(m) ==
    /\ At(m, "unlock")
    /\ lock' = FALSE
    /\ To(m, "exit")
    /\ UNCHANGED <<thread, busy, command, scenario, counts>>

\* main returns, or exits with the error: the thread ends with the process.
Exit(m) ==
    /\ At(m, "exit")
    /\ proc' = [proc EXCEPT ![m] = Off]
    /\ gc' = [gc EXCEPT ![m] = "none"]
    /\ UNCHANGED <<lock, fs, shutdown, busy, command, scenario, counts>>

\* The process is killed.
Crash(m) ==
    /\ ~At(m, "off") /\ crashes < scenario.maxCrashes
    /\ crashes' = crashes + 1
    /\ proc' = [proc EXCEPT ![m] = Off]
    /\ fs' = [fs EXCEPT ![m] = FALSE]
    /\ gc' = [gc EXCEPT ![m] = "none"]
    /\ busy' = (busy /\ ~At(m, "serving") /\ ~At(m, "detached"))
    /\ UNCHANGED <<lock, shutdown, command, scenario, starts, unmounts>>

-----------------------------------------------------------------------------
(* The background thread.                                                  *)

GcTo(m, where) ==
    /\ gc' = [gc EXCEPT ![m] = where]
    /\ UNCHANGED <<lock, proc, fs, shutdown, busy, command, scenario, counts>>

\* Mutation of GcWake: the thread asks nobody whether to go on.
GcWakeAlways(m) == gc[m] = "sleep" /\ GcTo(m, "holding")

\* After the sleep: the flag.
GcWake(m) == gc[m] = "sleep" /\ GcTo(m, IF shutdown[m] THEN "ended" ELSE "upgrade")

\* Weak::upgrade
GcUpgrade(m) == gc[m] = "upgrade" /\ GcTo(m, IF fs[m] THEN "holding" ELSE "ended")

\* The stand-in for a count of orphans.
OrphanCount == 1

GcExamine(m) ==
    gc[m] = "holding" /\ GcTo(m, IF OrphanCount > Threshold THEN "collecting" ELSE "sleep")

\* run_gc_roots_only has returned, and the store is dropped.
GcDrop(m) == gc[m] = "collecting" /\ GcTo(m, "sleep")

-----------------------------------------------------------------------------
(* Applications and the unmount command.                                   *)

OpenFile == InUse /\ ~busy /\ busy' = TRUE
            /\ UNCHANGED <<lock, proc, thread, command, scenario, counts>>

CloseFile == busy /\ busy' = FALSE
             /\ UNCHANGED <<lock, proc, thread, command, scenario, counts>>

Command(where) == command' = [command EXCEPT !.at = where]

StartUnmount(store) ==
    /\ command.at = "idle" /\ unmounts < scenario.maxUnmounts
    /\ Quiet \/ "impatient" \in scenario.usage
    /\ ~store \/ "store_flag" \in scenario.usage
    /\ command' = [at |-> "soft", store |-> store]
    /\ unmounts' = unmounts + 1
    /\ UNCHANGED <<lock, proc, thread, busy, scenario, starts, crashes>>

\* try_soft_unmount: the kernel refuses while files are open, and when nothing
\* is mounted.
SoftUnmount ==
    /\ command.at = "soft"
    /\ IF InUse /\ ~busy
       THEN /\ \E m \in Mounts : At(m, "serving") /\ To(m, "destroy")
            /\ Command("clean")
       ELSE Command("kill") /\ UNCHANGED proc
    /\ UNCHANGED <<lock, thread, busy, scenario, counts>>

\* kill_processes_at_mountpoint and the second after it: applications may end.
KillProcesses(gone) ==
    /\ command.at = "kill"
    /\ busy' = (busy /\ ~gone)
    /\ Command("force")
    /\ UNCHANGED <<lock, proc, thread, scenario, counts>>

\* try_force_unmount: diskutil ends the session, a lazy unmount takes it out of
\* the tree and leaves it to the open files.
ForceUnmount ==
    /\ command.at = "force" /\ InUse
    /\ \E m \in Mounts : At(m, "serving")
                         /\ To(m, IF busy /\ scenario.platform = "linux" THEN "detached" ELSE "destroy")
    /\ busy' = (busy /\ scenario.platform = "linux")
    /\ Command("clean")
    /\ UNCHANGED <<lock, thread, scenario, counts>>

\* The last file of a detached session is closed.
DetachedEnds(m) ==
    /\ At(m, "detached") /\ ~busy
    /\ To(m, "destroy")
    /\ UNCHANGED <<lock, thread, busy, command, scenario, counts>>

\* Every way to unmount fails: the command reports it.
ForceFails ==
    /\ command.at = "force"
    /\ Command("idle")
    /\ UNCHANGED <<lock, proc, thread, busy, scenario, counts>>

\* clean_mount_lock
CleanMountLock ==
    /\ command.at = "clean"
    /\ lock' = (lock /\ ~command.store)
    /\ Command("idle")
    /\ UNCHANGED <<proc, thread, busy, scenario, counts>>

-----------------------------------------------------------------------------
\* The steps of run_mount that need nobody else, but the thread in Join.
MountStep(m) ==
    \/ CheckMountpoint(m)
    \/ \E flag \in Flags : PickBackend(m, flag)
    \/ Acquire(m) \/ RemoveStale(m) \/ Reacquire(m) \/ CreateLock(m)
    \/ LoadFails(m) \/ LoadAndSpawn(m) \/ Mount2(m)
    \/ SessionEnds(m) \/ SetShutdown(m) \/ Join(m) \/ Unlock(m) \/ Exit(m)

GcStep(m) == GcWake(m) \/ GcUpgrade(m) \/ GcExamine(m) \/ GcDrop(m)

UnmountStep ==
    \/ SoftUnmount \/ \E gone \in BOOLEAN : KillProcesses(gone)
    \/ ForceUnmount \/ ForceFails \/ CleanMountLock

Next ==
    \/ \E m \in Mounts :
          Start(m) \/ MountStep(m) \/ GcStep(m) \/ DetachedEnds(m)
          \/ Mount2Fails(m) \/ Crash(m)
    \/ OpenFile \/ CloseFile
    \/ \E store \in BOOLEAN : StartUnmount(store)
    \/ UnmountStep

\* The scheduler runs every thread, and programs that unmount calls return.
\* Nothing is said about applications, users or crashes.
Fairness ==
    /\ \A m \in Mounts : WF_vars(MountStep(m)) /\ WF_vars(GcStep(m))
    /\ WF_vars(UnmountStep)

Spec == Init /\ [][Next]_vars /\ Fairness
-----------------------------------------------------------------------------
(* Properties.                                                             *)

\* Types of the variables.
TypeOK ==
    /\ lock \in BOOLEAN /\ busy \in BOOLEAN
    /\ proc \in [Mounts -> [at : {"off", "check", "backend", "acquire", "dirty", "reacquire",
                                  "create", "load", "mount2", "serving", "detached",
                                  "destroy", "stop", "join", "unlock", "exit"},
                            backend : Backends \cup {""}, failed : BOOLEAN]]
    /\ \A m \in Mounts : proc[m].at \notin {"off", "check", "backend"} =>
          (proc[m].backend # "" <=> scenario.platform = "macos")
    /\ fs \in [Mounts -> BOOLEAN] /\ shutdown \in [Mounts -> BOOLEAN]
    /\ gc \in [Mounts -> {"none", "sleep", "upgrade", "holding", "collecting", "ended"}]
    /\ command \in [at : {"idle", "soft", "kill", "force", "clean"}, store : BOOLEAN]
    /\ scenario \in Scenarios

\* While a mount has the store open its lock is there, for the offline commands
\* to see: other mount commands at the same mountpoint, failures of theirs,
\* crashes before and forced unmounts do not take it away, from a user who waits
\* for mounts to end and does not let unmount remove the lock.
LockedWhileOpen ==
    scenario.usage = {} => \A m \in Mounts :
        proc[m].at \in {"mount2", "serving", "detached", "destroy", "stop", "join"} => lock

\* A lock nobody stands behind is the trace of a crash: every error of run_mount
\* and every order of its ends removes it, also when mounts overlap.
LockLeftMeansCrash == lock /\ (\A m \in Mounts : At(m, "off")) => crashes > 0

\* A collection in the background ends before the lock goes: segments are never
\* rewritten while an offline command may think the store its own.  (Not when
\* mount2 fails: then nobody waits for the thread.)
CollectsUnderLock ==
    scenario.usage = {} => \A m \in Mounts : gc[m] = "collecting" => lock \/ proc[m].failed

\* A session that has ended lets its process end, and take the thread with it:
\* the wait for the thread is finite wherever the thread is in its loop.
EndedSessionExits ==
    \A m \in Mounts : At(m, "destroy") ~> (At(m, "off") /\ gc[m] = "none")
=============================================================================
