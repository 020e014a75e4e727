------------------------- MODULE MountSessionProofs -------------------------
(***************************************************************************)
(* Theorems about MountSession for any number of mount processes, any      *)
(* scenarios and any number of mounts, unmounts and crashes.               *)
(***************************************************************************)
EXTENDS MountSession, TLAPS

USE ConstantsAssumption

\* Where a mount has made the lock and not yet removed it.
Holding == {"load", "mount2", "serving", "detached", "destroy", "stop", "join", "unlock"}

\* Before the thread is spawned.
Threadless == {"off", "check", "backend", "acquire", "dirty", "reacquire", "create", "load"}

Ats == {"off", "check", "backend", "acquire", "dirty", "reacquire", "create", "load",
        "mount2", "serving", "detached", "destroy", "stop", "join", "unlock", "exit"}

Process == [at : Ats, backend : Backends \cup {""}, failed : BOOLEAN]

\* The part of TypeOK that says of one variable what it may be.
Typing ==
    /\ lock \in BOOLEAN /\ busy \in BOOLEAN /\ crashes \in Nat
    /\ proc \in [Mounts -> Process]
    /\ fs \in [Mounts -> BOOLEAN] /\ shutdown \in [Mounts -> BOOLEAN]
    /\ gc \in [Mounts -> {"none", "sleep", "upgrade", "holding", "collecting", "ended"}]
    /\ command \in [at : {"idle", "soft", "kill", "force", "clean"}, store : BOOLEAN]
    /\ scenario \in Scenarios

\* A backend is chosen in the step "backend" and nowhere before, and only
\* macOS comes there.
BackendInv ==
    \A m \in Mounts :
        /\ proc[m].at \in {"off", "check", "backend"} => proc[m].backend = ""
        /\ At(m, "backend") => scenario.platform = "macos"
        /\ proc[m].at \notin {"off", "check", "backend"} =>
              (proc[m].backend # "" <=> scenario.platform = "macos")

\* The background thread lives between its spawn and the end of the process,
\* and a mount that did not fail has waited for it before it unlocks.
ThreadInv ==
    \A m \in Mounts :
        /\ proc[m].at \in Threadless => gc[m] = "none"
        /\ proc[m].at \in {"unlock", "exit"} /\ ~proc[m].failed => gc[m] = "ended"

\* The lock has a holder until there is a crash.
HolderInv == lock => crashes > 0 \/ \E m \in Mounts : proc[m].at \in Holding

\* From a user who waits, two mount processes meet only where the one looks at
\* the mountpoint that the other serves, and no unmount runs meanwhile.
AloneInv ==
    scenario.usage = {} =>
        /\ \A m, n \in Mounts : m # n /\ ~At(m, "off") /\ ~At(n, "off") =>
              \/ At(m, "check") /\ At(n, "serving")
              \/ At(m, "serving") /\ At(n, "check")
        /\ (\E m \in Mounts : At(m, "check")) => command.at = "idle"
        /\ ~command.store

\* The lock is there from CreateLock to Unlock.
LockInv ==
    scenario.usage = {} => \A m \in Mounts : proc[m].at \in Holding => lock

IInv ==
    /\ Typing
    /\ BackendInv
    /\ ThreadInv
    /\ HolderInv
    /\ AloneInv
    /\ LockInv

-----------------------------------------------------------------------------
(* What a step does to the process that takes it, and leaves to others.    *)

\* Typing and the invariant about backends make TypeOK.
LEMMA TypeOKHolds == Typing /\ BackendInv => TypeOK
  BY DEF Typing, BackendInv, TypeOK, Process, Ats

\* A mount goes on to another place and keeps its backend.
LEMMA ToEffect ==
    ASSUME Typing, NEW m \in Mounts, NEW where \in Ats, To(m, where)
    PROVE  /\ proc' \in [Mounts -> Process]
           /\ At(m, where)'
           /\ proc'[m].backend = proc[m].backend /\ proc'[m].failed = proc[m].failed
           /\ \A n \in Mounts : n # m => proc'[n] = proc[n]
  BY DEF Typing, To, At, Process

\* A mount command ends with an error.
LEMMA FailEffect ==
    ASSUME Typing, NEW m \in Mounts, proc' = [proc EXCEPT ![m] = Off]
    PROVE  /\ proc' \in [Mounts -> Process]
           /\ At(m, "off")'
           /\ proc'[m].backend = "" /\ ~proc'[m].failed
           /\ \A n \in Mounts : n # m => proc'[n] = proc[n]
<1>1. Off \in Process
  BY DEF Off, Process, Ats
<1> QED
  BY <1>1 DEF Typing, Off, At

-----------------------------------------------------------------------------
(* One lemma per action: it preserves the inductive invariant.              *)

\* A mount command starts where nothing else is going on.
LEMMA StartStep ==
    ASSUME IInv, NEW m \in Mounts, Start(m)
    PROVE  IInv'
<1>1. proc' \in [Mounts -> Process] /\ At(m, "check")'
      /\ proc'[m].backend = proc[m].backend /\ proc'[m].failed = proc[m].failed
      /\ \A n \in Mounts : n # m => proc'[n] = proc[n]
  BY ToEffect DEF IInv, Start, Ats
<1>2. Typing'
  BY <1>1 DEF IInv, Typing, thread, counts, Start
<1>3. BackendInv'
  BY <1>1 DEF IInv, BackendInv, At, Start
<1>4. ThreadInv'
  BY <1>1 DEF IInv, ThreadInv, Threadless, thread, At, Start
<1>5. HolderInv'
  BY <1>1 DEF IInv, HolderInv, Holding, counts, At, Start
<1>6. AloneInv'
  BY <1>1 DEF IInv, AloneInv, Quiet, InUse, At, Start
<1>7. LockInv'
  BY <1>1 DEF IInv, LockInv, AloneInv, Holding, At, Start
<1> QED
  BY <1>2, <1>3, <1>4, <1>5, <1>6, <1>7 DEF IInv

\* The lock is looked at, and nothing but the place changes.
LEMMA AcquireStep ==
    ASSUME IInv, NEW m \in Mounts, Acquire(m)
    PROVE  IInv'
<1>1. proc' \in [Mounts -> Process] /\ At(m, IF lock THEN "dirty" ELSE "create")'
      /\ proc'[m].backend = proc[m].backend /\ proc'[m].failed = proc[m].failed
      /\ \A n \in Mounts : n # m => proc'[n] = proc[n]
  BY ToEffect DEF IInv, Acquire, Ats
<1>2. Typing'
  BY <1>1 DEF IInv, Typing, thread, counts, Acquire
<1>3. BackendInv'
  BY <1>1 DEF IInv, BackendInv, At, Acquire
<1>4. ThreadInv'
  BY <1>1 DEF IInv, ThreadInv, Threadless, thread, At, Acquire
<1>5. HolderInv'
  BY <1>1 DEF IInv, HolderInv, Holding, counts, At, Acquire
<1>6. AloneInv'
  BY <1>1 DEF IInv, AloneInv, Quiet, InUse, At, Acquire
<1>7. LockInv'
  BY <1>1 DEF IInv, LockInv, AloneInv, Holding, At, Acquire
<1> QED
  BY <1>2, <1>3, <1>4, <1>5, <1>6, <1>7 DEF IInv

\* A stale lock is removed: nobody else is past the check of the mountpoint.
LEMMA RemoveStaleStep ==
    ASSUME IInv, NEW m \in Mounts, RemoveStale(m)
    PROVE  IInv'
<1>1. proc' \in [Mounts -> Process] /\ At(m, "reacquire")'
      /\ proc'[m].backend = proc[m].backend /\ proc'[m].failed = proc[m].failed
      /\ \A n \in Mounts : n # m => proc'[n] = proc[n]
  BY ToEffect DEF IInv, RemoveStale, Ats
<1>2. Typing'
  BY <1>1 DEF IInv, Typing, thread, counts, RemoveStale
<1>3. BackendInv'
  BY <1>1 DEF IInv, BackendInv, At, RemoveStale
<1>4. ThreadInv'
  BY <1>1 DEF IInv, ThreadInv, Threadless, thread, At, RemoveStale
<1>5. HolderInv'
  BY <1>1 DEF IInv, HolderInv, Holding, counts, At, RemoveStale
<1>6. AloneInv'
  BY <1>1 DEF IInv, AloneInv, Quiet, InUse, At, RemoveStale
<1>7. LockInv'
  BY <1>1 DEF IInv, LockInv, AloneInv, Holding, At, RemoveStale
<1> QED
  BY <1>2, <1>3, <1>4, <1>5, <1>6, <1>7 DEF IInv

\* The lock is made, and its holder is in the next place.
LEMMA CreateLockStep ==
    ASSUME IInv, NEW m \in Mounts, CreateLock(m)
    PROVE  IInv'
<1>1. proc' \in [Mounts -> Process] /\ At(m, "load")'
      /\ proc'[m].backend = proc[m].backend /\ proc'[m].failed = proc[m].failed
      /\ \A n \in Mounts : n # m => proc'[n] = proc[n]
  BY ToEffect DEF IInv, CreateLock, Ats
<1>2. Typing'
  BY <1>1 DEF IInv, Typing, thread, counts, CreateLock
<1>3. BackendInv'
  BY <1>1 DEF IInv, BackendInv, At, CreateLock
<1>4. ThreadInv'
  BY <1>1 DEF IInv, ThreadInv, Threadless, thread, At, CreateLock
<1>5. HolderInv'
  BY <1>1 DEF IInv, HolderInv, Holding, counts, At, CreateLock
<1>6. AloneInv'
  BY <1>1 DEF IInv, AloneInv, Quiet, InUse, At, CreateLock
<1>7. LockInv'
  BY <1>1 DEF IInv, LockInv, AloneInv, Holding, At, CreateLock
<1> QED
  BY <1>2, <1>3, <1>4, <1>5, <1>6, <1>7 DEF IInv

\* The thread is spawned under the lock.
LEMMA LoadAndSpawnStep ==
    ASSUME IInv, NEW m \in Mounts, LoadAndSpawn(m)
    PROVE  IInv'
<1>1. proc' \in [Mounts -> Process] /\ At(m, "mount2")'
      /\ proc'[m].backend = proc[m].backend /\ proc'[m].failed = proc[m].failed
      /\ \A n \in Mounts : n # m => proc'[n] = proc[n]
  BY ToEffect DEF IInv, LoadAndSpawn, Ats
<1>2. Typing'
  BY <1>1 DEF IInv, Typing, thread, counts, LoadAndSpawn
<1>3. BackendInv'
  BY <1>1 DEF IInv, BackendInv, At, LoadAndSpawn
<1>4. ThreadInv'
  BY <1>1 DEF IInv, ThreadInv, Threadless, thread, At, LoadAndSpawn
<1>5. HolderInv'
  BY <1>1 DEF IInv, HolderInv, Holding, counts, At, LoadAndSpawn
<1>6. AloneInv'
  BY <1>1 DEF IInv, AloneInv, Quiet, InUse, At, LoadAndSpawn
<1>7. LockInv'
  BY <1>1 DEF IInv, LockInv, AloneInv, Holding, At, LoadAndSpawn
<1> QED
  BY <1>2, <1>3, <1>4, <1>5, <1>6, <1>7 DEF IInv

\* The session begins where no other mount is on its way.
LEMMA Mount2Step ==
    ASSUME IInv, NEW m \in Mounts, Mount2(m)
    PROVE  IInv'
<1>1. proc' \in [Mounts -> Process] /\ At(m, "serving")'
      /\ proc'[m].backend = proc[m].backend /\ proc'[m].failed = proc[m].failed
      /\ \A n \in Mounts : n # m => proc'[n] = proc[n]
  BY ToEffect DEF IInv, Mount2, Ats
<1>2. Typing'
  BY <1>1 DEF IInv, Typing, thread, counts, Mount2
<1>3. BackendInv'
  BY <1>1 DEF IInv, BackendInv, At, Mount2
<1>4. ThreadInv'
  BY <1>1 DEF IInv, ThreadInv, Threadless, thread, At, Mount2
<1>5. HolderInv'
  BY <1>1 DEF IInv, HolderInv, Holding, counts, At, Mount2
<1>6. AloneInv'
  BY <1>1 DEF IInv, AloneInv, Quiet, InUse, At, Mount2
<1>7. LockInv'
  BY <1>1 DEF IInv, LockInv, AloneInv, Holding, At, Mount2
<1> QED
  BY <1>2, <1>3, <1>4, <1>5, <1>6, <1>7 DEF IInv

\* The session is over, lock and thread stay.
LEMMA SessionEndsStep ==
    ASSUME IInv, NEW m \in Mounts, SessionEnds(m)
    PROVE  IInv'
<1>1. proc' \in [Mounts -> Process] /\ At(m, "stop")'
      /\ proc'[m].backend = proc[m].backend /\ proc'[m].failed = proc[m].failed
      /\ \A n \in Mounts : n # m => proc'[n] = proc[n]
  BY ToEffect DEF IInv, SessionEnds, Ats
<1>2. Typing'
  BY <1>1 DEF IInv, Typing, thread, counts, SessionEnds
<1>3. BackendInv'
  BY <1>1 DEF IInv, BackendInv, At, SessionEnds
<1>4. ThreadInv'
  BY <1>1 DEF IInv, ThreadInv, Threadless, thread, At, SessionEnds
<1>5. HolderInv'
  BY <1>1 DEF IInv, HolderInv, Holding, counts, At, SessionEnds
<1>6. AloneInv'
  BY <1>1 DEF IInv, AloneInv, Quiet, InUse, At, SessionEnds
<1>7. LockInv'
  BY <1>1 DEF IInv, LockInv, AloneInv, Holding, At, SessionEnds
<1> QED
  BY <1>2, <1>3, <1>4, <1>5, <1>6, <1>7 DEF IInv

\* The flag is set, lock and thread stay.
LEMMA SetShutdownStep ==
    ASSUME IInv, NEW m \in Mounts, SetShutdown(m)
    PROVE  IInv'
<1>1. proc' \in [Mounts -> Process] /\ At(m, "join")'
      /\ proc'[m].backend = proc[m].backend /\ proc'[m].failed = proc[m].failed
      /\ \A n \in Mounts : n # m => proc'[n] = proc[n]
  BY ToEffect DEF IInv, SetShutdown, Ats
<1>2. Typing'
  BY <1>1 DEF IInv, Typing, thread, counts, SetShutdown
<1>3. BackendInv'
  BY <1>1 DEF IInv, BackendInv, At, SetShutdown
<1>4. ThreadInv'
  BY <1>1 DEF IInv, ThreadInv, Threadless, thread, At, SetShutdown
<1>5. HolderInv'
  BY <1>1 DEF IInv, HolderInv, Holding, counts, At, SetShutdown
<1>6. AloneInv'
  BY <1>1 DEF IInv, AloneInv, Quiet, InUse, At, SetShutdown
<1>7. LockInv'
  BY <1>1 DEF IInv, LockInv, AloneInv, Holding, At, SetShutdown
<1> QED
  BY <1>2, <1>3, <1>4, <1>5, <1>6, <1>7 DEF IInv

\* The thread has ended before the lock may go.
LEMMA JoinStep ==
    ASSUME IInv, NEW m \in Mounts, Join(m)
    PROVE  IInv'
<1>1. proc' \in [Mounts -> Process] /\ At(m, "unlock")'
      /\ proc'[m].backend = proc[m].backend /\ proc'[m].failed = proc[m].failed
      /\ \A n \in Mounts : n # m => proc'[n] = proc[n]
  BY ToEffect DEF IInv, Join, Ats
<1>2. Typing'
  BY <1>1 DEF IInv, Typing, thread, counts, Join
<1>3. BackendInv'
  BY <1>1 DEF IInv, BackendInv, At, Join
<1>4. ThreadInv'
  BY <1>1 DEF IInv, ThreadInv, Threadless, thread, At, Join
<1>5. HolderInv'
  BY <1>1 DEF IInv, HolderInv, Holding, counts, At, Join
<1>6. AloneInv'
  BY <1>1 DEF IInv, AloneInv, Quiet, InUse, At, Join
<1>7. LockInv'
  BY <1>1 DEF IInv, LockInv, AloneInv, Holding, At, Join
<1> QED
  BY <1>2, <1>3, <1>4, <1>5, <1>6, <1>7 DEF IInv

\* The lock goes with its only holder.
LEMMA UnlockStep ==
    ASSUME IInv, NEW m \in Mounts, Unlock(m)
    PROVE  IInv'
<1>1. proc' \in [Mounts -> Process] /\ At(m, "exit")'
      /\ proc'[m].backend = proc[m].backend /\ proc'[m].failed = proc[m].failed
      /\ \A n \in Mounts : n # m => proc'[n] = proc[n]
  BY ToEffect DEF IInv, Unlock, Ats
<1>2. Typing'
  BY <1>1 DEF IInv, Typing, thread, counts, Unlock
<1>3. BackendInv'
  BY <1>1 DEF IInv, BackendInv, At, Unlock
<1>4. ThreadInv'
  BY <1>1 DEF IInv, ThreadInv, Threadless, thread, At, Unlock
<1>5. HolderInv'
  BY <1>1 DEF IInv, HolderInv, Holding, counts, At, Unlock
<1>6. AloneInv'
  BY <1>1 DEF IInv, AloneInv, Quiet, InUse, At, Unlock
<1>7. LockInv'
  BY <1>1 DEF IInv, LockInv, AloneInv, Holding, At, Unlock
<1> QED
  BY <1>2, <1>3, <1>4, <1>5, <1>6, <1>7 DEF IInv

\* A lazily unmounted session ends under its lock.
LEMMA DetachedEndsStep ==
    ASSUME IInv, NEW m \in Mounts, DetachedEnds(m)
    PROVE  IInv'
<1>1. proc' \in [Mounts -> Process] /\ At(m, "destroy")'
      /\ proc'[m].backend = proc[m].backend /\ proc'[m].failed = proc[m].failed
      /\ \A n \in Mounts : n # m => proc'[n] = proc[n]
  BY ToEffect DEF IInv, DetachedEnds, Ats
<1>2. Typing'
  BY <1>1 DEF IInv, Typing, thread, counts, DetachedEnds
<1>3. BackendInv'
  BY <1>1 DEF IInv, BackendInv, At, DetachedEnds
<1>4. ThreadInv'
  BY <1>1 DEF IInv, ThreadInv, Threadless, thread, At, DetachedEnds
<1>5. HolderInv'
  BY <1>1 DEF IInv, HolderInv, Holding, counts, At, DetachedEnds
<1>6. AloneInv'
  BY <1>1 DEF IInv, AloneInv, Quiet, InUse, At, DetachedEnds
<1>7. LockInv'
  BY <1>1 DEF IInv, LockInv, AloneInv, Holding, At, DetachedEnds
<1> QED
  BY <1>2, <1>3, <1>4, <1>5, <1>6, <1>7 DEF IInv

\* A mount that finds the mountpoint in use fails, and is alone otherwise.
LEMMA CheckMountpointStep ==
    ASSUME IInv, NEW m \in Mounts, CheckMountpoint(m)
    PROVE  IInv'
<1>1. CASE InUse
  <2>1. proc' \in [Mounts -> Process] /\ At(m, "off")'
        /\ proc'[m].backend = "" /\ ~proc'[m].failed
        /\ \A n \in Mounts : n # m => proc'[n] = proc[n]
    BY <1>1, FailEffect DEF IInv, Fail, CheckMountpoint
  <2>2. Typing'
    BY <1>1, <2>1 DEF IInv, Typing, thread, counts, CheckMountpoint
  <2>3. BackendInv'
    BY <1>1, <2>1 DEF IInv, BackendInv, At, CheckMountpoint
  <2>4. ThreadInv'
    BY <1>1, <2>1 DEF IInv, ThreadInv, Threadless, thread, At, CheckMountpoint
  <2>5. HolderInv'
    BY <1>1, <2>1 DEF IInv, HolderInv, Holding, counts, At, CheckMountpoint
  <2>6. AloneInv'
    BY <1>1, <2>1 DEF IInv, AloneInv, Quiet, InUse, At, CheckMountpoint
  <2>7. LockInv'
    BY <1>1, <2>1 DEF IInv, LockInv, AloneInv, Holding, At, CheckMountpoint
  <2> QED
    BY <2>2, <2>3, <2>4, <2>5, <2>6, <2>7 DEF IInv
<1>2. CASE ~InUse
  <2>1. proc' \in [Mounts -> Process]
        /\ At(m, IF scenario.platform = "macos" THEN "backend" ELSE "acquire")'
        /\ proc'[m].backend = proc[m].backend /\ proc'[m].failed = proc[m].failed
        /\ \A n \in Mounts : n # m => proc'[n] = proc[n]
    BY <1>2, ToEffect DEF IInv, CheckMountpoint, Ats
  <2>2. Typing'
    BY <1>2, <2>1 DEF IInv, Typing, thread, counts, CheckMountpoint
  <2>3. BackendInv'
    BY <1>2, <2>1 DEF IInv, BackendInv, At, CheckMountpoint
  <2>4. ThreadInv'
    BY <1>2, <2>1 DEF IInv, ThreadInv, Threadless, thread, At, CheckMountpoint
  <2>5. HolderInv'
    BY <1>2, <2>1 DEF IInv, HolderInv, Holding, counts, At, CheckMountpoint
  <2>6. AloneInv'
    BY <1>2, <2>1 DEF IInv, AloneInv, Quiet, InUse, At, CheckMountpoint
  <2>7. LockInv'
    BY <1>2, <2>1 DEF IInv, LockInv, AloneInv, Holding, At, CheckMountpoint
  <2> QED
    BY <2>2, <2>3, <2>4, <2>5, <2>6, <2>7 DEF IInv
<1> QED
  BY <1>1, <1>2

\* Only a named backend is chosen.
LEMMA PickBackendStep ==
    ASSUME IInv, NEW m \in Mounts, NEW flag, PickBackend(m, flag)
    PROVE  IInv'
<1> DEFINE versions == IF Installed = {} THEN {<<0, 0, 0>>} ELSE Installed
           choice(v) == IF flag \in Backends \cup {""} THEN SelectBackend(flag, v) ELSE {}
<1>1. PICK v \in versions :
          IF choice(v) = {} THEN Fail(m)
          ELSE \E b \in choice(v) :
                  proc' = [proc EXCEPT ![m].at = "acquire", ![m].backend = b]
  BY DEF PickBackend
<1>2. At(m, "backend") /\ UNCHANGED <<lock, thread, busy, command, scenario, counts>>
  BY DEF PickBackend
<1>3. choice(v) \subseteq Backends
  BY DEF SelectBackend, Backends
<1> HIDE DEF choice
<1>4. CASE choice(v) = {}
  <2>1. proc' \in [Mounts -> Process] /\ At(m, "off")'
        /\ proc'[m].backend = "" /\ ~proc'[m].failed
        /\ \A n \in Mounts : n # m => proc'[n] = proc[n]
    BY <1>1, <1>4, FailEffect DEF IInv, Fail
  <2>2. Typing'
    BY <1>2, <2>1 DEF IInv, Typing, thread, counts
  <2>3. BackendInv'
    BY <1>2, <2>1 DEF IInv, BackendInv, At
  <2>4. ThreadInv'
    BY <1>2, <2>1 DEF IInv, ThreadInv, Threadless, thread, At
  <2>5. HolderInv'
    BY <1>2, <2>1 DEF IInv, HolderInv, Holding, counts, At
  <2>6. AloneInv'
    BY <1>2, <2>1 DEF IInv, AloneInv, Quiet, InUse, At
  <2>7. LockInv'
    BY <1>2, <2>1 DEF IInv, LockInv, AloneInv, Holding, At
  <2> QED
    BY <2>2, <2>3, <2>4, <2>5, <2>6, <2>7 DEF IInv
<1>5. CASE choice(v) # {}
  <2>1. PICK b \in Backends : proc' = [proc EXCEPT ![m].at = "acquire", ![m].backend = b]
    BY <1>1, <1>3, <1>5
  <2>2. proc' \in [Mounts -> Process] /\ At(m, "acquire")'
        /\ proc'[m].backend = b /\ proc'[m].failed = proc[m].failed
        /\ \A n \in Mounts : n # m => proc'[n] = proc[n]
    BY <2>1, ZenonT(40) DEF IInv, Typing, Process, At, Ats
  <2>3. b # ""
    BY DEF Backends
  <2>4. Typing'
    BY <1>2, <2>2, <2>3 DEF IInv, Typing, thread, counts
  <2>5. BackendInv'
    BY <1>2, <2>2, <2>3 DEF IInv, BackendInv, At
  <2>6. ThreadInv'
    BY <1>2, <2>2, <2>3 DEF IInv, ThreadInv, Threadless, thread, At
  <2>7. HolderInv'
    BY <1>2, <2>2, <2>3 DEF IInv, HolderInv, Holding, counts, At
  <2>8. AloneInv'
    BY <1>2, <2>2 DEF IInv, AloneInv, At
  <2>9. LockInv'
    BY <1>2, <2>2, <2>3 DEF IInv, LockInv, AloneInv, Holding, At
  <2> QED
    BY <2>4, <2>5, <2>6, <2>7, <2>8, <2>9 DEF IInv
<1> QED
  BY <1>4, <1>5

\* A second lock found is an error, with nothing held.
LEMMA ReacquireStep ==
    ASSUME IInv, NEW m \in Mounts, Reacquire(m)
    PROVE  IInv'
<1>1. CASE lock
  <2>1. proc' \in [Mounts -> Process] /\ At(m, "off")'
        /\ proc'[m].backend = "" /\ ~proc'[m].failed
        /\ \A n \in Mounts : n # m => proc'[n] = proc[n]
    BY <1>1, FailEffect DEF IInv, Fail, Reacquire
  <2>2. Typing'
    BY <1>1, <2>1 DEF IInv, Typing, thread, counts, Reacquire
  <2>3. BackendInv'
    BY <1>1, <2>1 DEF IInv, BackendInv, At, Reacquire
  <2>4. ThreadInv'
    BY <1>1, <2>1 DEF IInv, ThreadInv, Threadless, thread, At, Reacquire
  <2>5. HolderInv'
    BY <1>1, <2>1 DEF IInv, HolderInv, Holding, counts, At, Reacquire
  <2>6. AloneInv'
    BY <1>1, <2>1 DEF IInv, AloneInv, Quiet, InUse, At, Reacquire
  <2>7. LockInv'
    BY <1>1, <2>1 DEF IInv, LockInv, AloneInv, Holding, At, Reacquire
  <2> QED
    BY <2>2, <2>3, <2>4, <2>5, <2>6, <2>7 DEF IInv
<1>2. CASE ~lock
  <2>1. proc' \in [Mounts -> Process] /\ At(m, "create")'
        /\ proc'[m].backend = proc[m].backend /\ proc'[m].failed = proc[m].failed
        /\ \A n \in Mounts : n # m => proc'[n] = proc[n]
    BY <1>2, ToEffect DEF IInv, Reacquire, Ats
  <2>2. Typing'
    BY <1>2, <2>1 DEF IInv, Typing, thread, counts, Reacquire
  <2>3. BackendInv'
    BY <1>2, <2>1 DEF IInv, BackendInv, At, Reacquire
  <2>4. ThreadInv'
    BY <1>2, <2>1 DEF IInv, ThreadInv, Threadless, thread, At, Reacquire
  <2>5. HolderInv'
    BY <1>2, <2>1 DEF IInv, HolderInv, Holding, counts, At, Reacquire
  <2>6. AloneInv'
    BY <1>2, <2>1 DEF IInv, AloneInv, Quiet, InUse, At, Reacquire
  <2>7. LockInv'
    BY <1>2, <2>1 DEF IInv, LockInv, AloneInv, Holding, At, Reacquire
  <2> QED
    BY <2>2, <2>3, <2>4, <2>5, <2>6, <2>7 DEF IInv
<1> QED
  BY <1>1, <1>2

\* An error of load_store takes the lock along.
LEMMA LoadFailsStep ==
    ASSUME IInv, NEW m \in Mounts, LoadFails(m)
    PROVE  IInv'
<1>1. proc' \in [Mounts -> Process] /\ At(m, "off")'
      /\ proc'[m].backend = "" /\ ~proc'[m].failed
      /\ \A n \in Mounts : n # m => proc'[n] = proc[n]
  BY FailEffect DEF IInv, Fail, LoadFails
<1>2. Typing'
  BY <1>1 DEF IInv, Typing, thread, counts, LoadFails
<1>3. BackendInv'
  BY <1>1 DEF IInv, BackendInv, At, LoadFails
<1>4. ThreadInv'
  BY <1>1 DEF IInv, ThreadInv, Threadless, thread, At, LoadFails
<1>5. HolderInv'
  BY <1>1 DEF IInv, HolderInv, Holding, counts, At, LoadFails
<1>6. AloneInv'
  BY <1>1 DEF IInv, AloneInv, Quiet, InUse, At, LoadFails
<1>7. LockInv'
  BY <1>1 DEF IInv, LockInv, AloneInv, Holding, At, LoadFails
<1> QED
  BY <1>2, <1>3, <1>4, <1>5, <1>6, <1>7 DEF IInv

\* The process ends with its thread, and holds nothing.
LEMMA ExitStep ==
    ASSUME IInv, NEW m \in Mounts, Exit(m)
    PROVE  IInv'
<1>1. proc' \in [Mounts -> Process] /\ At(m, "off")'
      /\ proc'[m].backend = "" /\ ~proc'[m].failed
      /\ \A n \in Mounts : n # m => proc'[n] = proc[n]
  BY FailEffect DEF IInv, Fail, Exit
<1>2. Typing'
  BY <1>1 DEF IInv, Typing, thread, counts, Exit
<1>3. BackendInv'
  BY <1>1 DEF IInv, BackendInv, At, Exit
<1>4. ThreadInv'
  BY <1>1 DEF IInv, Typing, ThreadInv, Threadless, thread, At, Exit
<1>5. HolderInv'
  BY <1>1 DEF IInv, HolderInv, Holding, counts, At, Exit
<1>6. AloneInv'
  BY <1>1 DEF IInv, AloneInv, Quiet, InUse, At, Exit
<1>7. LockInv'
  BY <1>1 DEF IInv, LockInv, AloneInv, Holding, At, Exit
<1> QED
  BY <1>2, <1>3, <1>4, <1>5, <1>6, <1>7 DEF IInv

\* A crash may leave the lock, and is counted.
LEMMA CrashStep ==
    ASSUME IInv, NEW m \in Mounts, Crash(m)
    PROVE  IInv'
<1>1. proc' \in [Mounts -> Process] /\ At(m, "off")'
      /\ proc'[m].backend = "" /\ ~proc'[m].failed
      /\ \A n \in Mounts : n # m => proc'[n] = proc[n]
  BY FailEffect DEF IInv, Fail, Crash
<1>2. Typing'
  <2>1. crashes' = crashes + 1 /\ busy' = (busy /\ ~At(m, "serving") /\ ~At(m, "detached"))
        /\ fs' = [fs EXCEPT ![m] = FALSE] /\ gc' = [gc EXCEPT ![m] = "none"]
        /\ UNCHANGED <<lock, shutdown, command, scenario>>
    BY DEF Crash
  <2>2. crashes' \in Nat
    BY <2>1 DEF IInv, Typing
  <2>3. busy' \in BOOLEAN
    BY <2>1
  <2> QED
    BY <1>1, <2>1, <2>2, <2>3 DEF IInv, Typing
<1>3. BackendInv'
  BY <1>1 DEF IInv, BackendInv, At, Crash
<1>4. ThreadInv'
  BY <1>1 DEF IInv, Typing, ThreadInv, Threadless, thread, At, Crash
<1>5. HolderInv'
  <2>1. crashes' = crashes + 1 /\ crashes \in Nat
    BY DEF Crash, IInv, Typing
  <2> QED
    BY <2>1 DEF HolderInv
<1>6. AloneInv'
  BY <1>1 DEF IInv, AloneInv, Quiet, InUse, At, Crash
<1>7. LockInv'
  BY <1>1 DEF IInv, LockInv, AloneInv, Holding, At, Crash
<1> QED
  BY <1>2, <1>3, <1>4, <1>5, <1>6, <1>7 DEF IInv

\* A session that fails is marked, goes on to unlock and keeps the lock until then.
LEMMA Mount2FailsStep ==
    ASSUME IInv, NEW m \in Mounts, Mount2Fails(m)
    PROVE  IInv'
<1>1. proc' \in [Mounts -> Process] /\ At(m, "unlock")'
      /\ proc'[m].backend = proc[m].backend /\ proc'[m].failed
      /\ \A n \in Mounts : n # m => proc'[n] = proc[n]
  BY DEF IInv, Typing, Process, Ats, At, Mount2Fails
<1>2. Typing'
  BY <1>1 DEF IInv, Typing, thread, counts, Mount2Fails
<1>3. BackendInv'
  BY <1>1, ZenonT(40) DEF IInv, BackendInv, At, Mount2Fails
<1>4. ThreadInv'
  BY <1>1 DEF IInv, ThreadInv, Threadless, thread, At, Mount2Fails
<1>5. HolderInv'
  BY <1>1 DEF IInv, HolderInv, Holding, counts, At, Mount2Fails
<1>6. AloneInv'
  BY <1>1 DEF IInv, AloneInv, Quiet, InUse, At, Mount2Fails
<1>7. LockInv'
  BY <1>1 DEF IInv, LockInv, AloneInv, Holding, At, Mount2Fails
<1> QED
  BY <1>2, <1>3, <1>4, <1>5, <1>6, <1>7 DEF IInv

\* The thread moves only itself, and not once it has ended.
LEMMA GcStepStep ==
    ASSUME IInv, NEW m \in Mounts, GcStep(m)
    PROVE  IInv'
<1> USE DEF GcStep, GcWake, GcUpgrade, GcExamine, GcDrop, GcTo
<1>1. Typing'
  BY DEF IInv, Typing, thread, counts
<1>2. BackendInv'
  BY DEF IInv, BackendInv, At
<1>3. ThreadInv'
  BY DEF IInv, Typing, ThreadInv, Threadless, thread, At
<1>4. HolderInv'
  BY DEF IInv, HolderInv, Holding, counts, At
<1>5. AloneInv'
  BY DEF IInv, AloneInv, Quiet, InUse, At
<1>6. LockInv'
  BY DEF IInv, LockInv, AloneInv, Holding, At
<1> QED
  BY <1>1, <1>2, <1>3, <1>4, <1>5, <1>6 DEF IInv

\* Applications open files.
LEMMA OpenFileStep ==
    ASSUME IInv, OpenFile
    PROVE  IInv'
<1>1. Typing'
  BY DEF IInv, Typing, thread, counts, OpenFile, Command
<1>2. BackendInv'
  BY DEF IInv, BackendInv, At, OpenFile, Command
<1>3. ThreadInv'
  BY DEF IInv, ThreadInv, Threadless, thread, At, OpenFile, Command
<1>4. HolderInv'
  BY DEF IInv, HolderInv, Holding, counts, At, OpenFile, Command
<1>5. AloneInv'
  BY DEF IInv, AloneInv, Quiet, InUse, At, OpenFile, Command
<1>6. LockInv'
  BY DEF IInv, LockInv, AloneInv, Holding, At, OpenFile, Command
<1> QED
  BY <1>1, <1>2, <1>3, <1>4, <1>5, <1>6 DEF IInv

\* Applications close files.
LEMMA CloseFileStep ==
    ASSUME IInv, CloseFile
    PROVE  IInv'
<1>1. Typing'
  BY DEF IInv, Typing, thread, counts, CloseFile, Command
<1>2. BackendInv'
  BY DEF IInv, BackendInv, At, CloseFile, Command
<1>3. ThreadInv'
  BY DEF IInv, ThreadInv, Threadless, thread, At, CloseFile, Command
<1>4. HolderInv'
  BY DEF IInv, HolderInv, Holding, counts, At, CloseFile, Command
<1>5. AloneInv'
  BY DEF IInv, AloneInv, Quiet, InUse, At, CloseFile, Command
<1>6. LockInv'
  BY DEF IInv, LockInv, AloneInv, Holding, At, CloseFile, Command
<1> QED
  BY <1>1, <1>2, <1>3, <1>4, <1>5, <1>6 DEF IInv

\* An unmount begins while no mount is starting or ending.
LEMMA StartUnmountStep ==
    ASSUME IInv, NEW store \in BOOLEAN, StartUnmount(store)
    PROVE  IInv'
<1>1. Typing'
  BY DEF IInv, Typing, thread, counts, StartUnmount, Command
<1>2. BackendInv'
  BY DEF IInv, BackendInv, At, StartUnmount, Command
<1>3. ThreadInv'
  BY DEF IInv, ThreadInv, Threadless, thread, At, StartUnmount, Command
<1>4. HolderInv'
  BY DEF IInv, HolderInv, Holding, counts, At, StartUnmount, Command
<1>5. AloneInv'
  BY DEF IInv, AloneInv, Quiet, InUse, At, StartUnmount, Command
<1>6. LockInv'
  BY DEF IInv, LockInv, AloneInv, Holding, At, StartUnmount, Command
<1> QED
  BY <1>1, <1>2, <1>3, <1>4, <1>5, <1>6 DEF IInv

\* Applications are killed.
LEMMA KillProcessesStep ==
    ASSUME IInv, NEW gone \in BOOLEAN, KillProcesses(gone)
    PROVE  IInv'
<1>1. Typing'
  BY DEF IInv, Typing, thread, counts, KillProcesses, Command
<1>2. BackendInv'
  BY DEF IInv, BackendInv, At, KillProcesses, Command
<1>3. ThreadInv'
  BY DEF IInv, ThreadInv, Threadless, thread, At, KillProcesses, Command
<1>4. HolderInv'
  BY DEF IInv, HolderInv, Holding, counts, At, KillProcesses, Command
<1>5. AloneInv'
  BY DEF IInv, AloneInv, Quiet, InUse, At, KillProcesses, Command
<1>6. LockInv'
  BY DEF IInv, LockInv, AloneInv, Holding, At, KillProcesses, Command
<1> QED
  BY <1>1, <1>2, <1>3, <1>4, <1>5, <1>6 DEF IInv

\* Nothing could be unmounted.
LEMMA ForceFailsStep ==
    ASSUME IInv, ForceFails
    PROVE  IInv'
<1>1. Typing'
  BY DEF IInv, Typing, thread, counts, ForceFails, Command
<1>2. BackendInv'
  BY DEF IInv, BackendInv, At, ForceFails, Command
<1>3. ThreadInv'
  BY DEF IInv, ThreadInv, Threadless, thread, At, ForceFails, Command
<1>4. HolderInv'
  BY DEF IInv, HolderInv, Holding, counts, At, ForceFails, Command
<1>5. AloneInv'
  BY DEF IInv, AloneInv, Quiet, InUse, At, ForceFails, Command
<1>6. LockInv'
  BY DEF IInv, LockInv, AloneInv, Holding, At, ForceFails, Command
<1> QED
  BY <1>1, <1>2, <1>3, <1>4, <1>5, <1>6 DEF IInv

\* The lock is removed only for a user who names the store.
LEMMA CleanMountLockStep ==
    ASSUME IInv, CleanMountLock
    PROVE  IInv'
<1>1. Typing'
  BY DEF IInv, Typing, thread, counts, CleanMountLock, Command
<1>2. BackendInv'
  BY DEF IInv, BackendInv, At, CleanMountLock, Command
<1>3. ThreadInv'
  BY DEF IInv, ThreadInv, Threadless, thread, At, CleanMountLock, Command
<1>4. HolderInv'
  BY DEF IInv, HolderInv, Holding, counts, At, CleanMountLock, Command
<1>5. AloneInv'
  BY DEF IInv, AloneInv, Quiet, InUse, At, CleanMountLock, Command
<1>6. LockInv'
  BY DEF IInv, LockInv, AloneInv, Holding, At, CleanMountLock, Command
<1> QED
  BY <1>1, <1>2, <1>3, <1>4, <1>5, <1>6 DEF IInv

\* The one session that serves is ended, nobody being at the check.
LEMMA SoftUnmountStep ==
    ASSUME IInv, SoftUnmount
    PROVE  IInv'
<1>1. CASE InUse /\ ~busy
  <2>1. PICK k \in Mounts : At(k, "serving") /\ To(k, "destroy")
    BY <1>1 DEF SoftUnmount
  <2>2. proc' \in [Mounts -> Process] /\ At(k, "destroy")'
        /\ proc'[k].backend = proc[k].backend /\ proc'[k].failed = proc[k].failed
        /\ \A n \in Mounts : n # k => proc'[n] = proc[n]
    BY <2>1, ToEffect DEF IInv, Ats
  <2>3. Typing'
    BY <1>1, <2>1, <2>2 DEF IInv, Typing, thread, counts, SoftUnmount, Command
  <2>4. BackendInv'
    BY <1>1, <2>1, <2>2, ZenonT(40) DEF IInv, BackendInv, At, SoftUnmount, Command
  <2>5. ThreadInv'
    BY <1>1, <2>1, <2>2 DEF IInv, ThreadInv, Threadless, thread, At, SoftUnmount, Command
  <2>6. HolderInv'
    BY <1>1, <2>1, <2>2 DEF IInv, HolderInv, Holding, counts, At, SoftUnmount, Command
  <2>7. AloneInv'
    BY <1>1, <2>1, <2>2 DEF IInv, Typing, AloneInv, Quiet, InUse, At, SoftUnmount, Command
  <2>8. LockInv'
    BY <1>1, <2>1, <2>2 DEF IInv, LockInv, AloneInv, Holding, At, SoftUnmount, Command
  <2> QED
    BY <2>3, <2>4, <2>5, <2>6, <2>7, <2>8 DEF IInv
<1>2. CASE ~(InUse /\ ~busy)
  <2>1. Typing'
    BY <1>2 DEF IInv, Typing, thread, counts, SoftUnmount, Command
  <2>2. BackendInv'
    BY <1>2 DEF IInv, BackendInv, At, SoftUnmount, Command
  <2>3. ThreadInv'
    BY <1>2 DEF IInv, ThreadInv, Threadless, thread, At, SoftUnmount, Command
  <2>4. HolderInv'
    BY <1>2 DEF IInv, HolderInv, Holding, counts, At, SoftUnmount, Command
  <2>5. AloneInv'
    BY <1>2 DEF IInv, Typing, AloneInv, Quiet, InUse, At, SoftUnmount, Command
  <2>6. LockInv'
    BY <1>2 DEF IInv, LockInv, AloneInv, Holding, At, SoftUnmount, Command
  <2> QED
    BY <2>1, <2>2, <2>3, <2>4, <2>5, <2>6 DEF IInv
<1> QED
  BY <1>1, <1>2

\* The one session that serves is ended or detached.
LEMMA ForceUnmountStep ==
    ASSUME IInv, ForceUnmount
    PROVE  IInv'
<1> DEFINE place == IF busy /\ scenario.platform = "linux" THEN "detached" ELSE "destroy"
<1>1. PICK k \in Mounts : At(k, "serving") /\ To(k, place)
  BY DEF ForceUnmount
<1>2. proc' \in [Mounts -> Process] /\ proc'[k].at = place
      /\ proc'[k].backend = proc[k].backend /\ proc'[k].failed = proc[k].failed
      /\ \A n \in Mounts : n # k => proc'[n] = proc[n]
  <2>1. place \in Ats
    BY DEF Ats
  <2> QED
    BY <1>1, <2>1, ToEffect DEF IInv, At
<1>3. Typing'
  BY <1>1, <1>2 DEF IInv, Typing, thread, counts, ForceUnmount, Command
<1>4. BackendInv'
  BY <1>1, <1>2 DEF IInv, BackendInv, At, ForceUnmount, Command
<1>5. ThreadInv'
  BY <1>1, <1>2 DEF IInv, ThreadInv, Threadless, thread, At, ForceUnmount, Command
<1>6. HolderInv'
  BY <1>1, <1>2 DEF IInv, HolderInv, Holding, counts, At, ForceUnmount, Command
<1>7. AloneInv'
  BY <1>1, <1>2 DEF IInv, AloneInv, Quiet, InUse, At, ForceUnmount, Command
<1>8. LockInv'
  BY <1>1, <1>2 DEF IInv, LockInv, AloneInv, Holding, At, ForceUnmount, Command
<1> QED
  BY <1>3, <1>4, <1>5, <1>6, <1>7, <1>8 DEF IInv

-----------------------------------------------------------------------------
\* Nothing runs and nothing is locked.
LEMMA InitIInv == Init => IInv
<1> SUFFICES ASSUME Init PROVE IInv
  OBVIOUS
<1>1. Typing
  <2>1. Off \in Process
    BY DEF Off, Process, Ats
  <2> QED
    BY <2>1 DEF Init, Typing
<1>2. \A m \in Mounts : proc[m].at = "off" /\ proc[m].backend = ""
  BY DEF Init, Off
<1>3. BackendInv /\ ThreadInv /\ HolderInv /\ AloneInv /\ LockInv
  BY <1>2 DEF Init, BackendInv, ThreadInv, HolderInv, AloneInv, LockInv, At, Holding
<1> QED
  BY <1>1, <1>3 DEF IInv

\* The invariant is inductive.
LEMMA NextIInv == IInv /\ [Next]_vars => IInv'
<1> SUFFICES ASSUME IInv, [Next]_vars PROVE IInv'
  OBVIOUS
<1>1. ASSUME NEW m \in Mounts, MountStep(m) PROVE IInv'
  BY <1>1, CheckMountpointStep, PickBackendStep, AcquireStep, RemoveStaleStep,
     ReacquireStep, CreateLockStep, LoadFailsStep, LoadAndSpawnStep, Mount2Step,
     SessionEndsStep, SetShutdownStep, JoinStep, UnlockStep, ExitStep
     DEF MountStep
<1>2. ASSUME NEW m \in Mounts,
             Start(m) \/ GcStep(m) \/ DetachedEnds(m) \/ Mount2Fails(m) \/ Crash(m)
      PROVE  IInv'
  BY <1>2, StartStep, GcStepStep, DetachedEndsStep, Mount2FailsStep, CrashStep
<1>3. ASSUME UnmountStep PROVE IInv'
  BY <1>3, SoftUnmountStep, KillProcessesStep, ForceUnmountStep, ForceFailsStep,
     CleanMountLockStep DEF UnmountStep
<1>4. ASSUME OpenFile \/ CloseFile \/ \E store \in BOOLEAN : StartUnmount(store)
      PROVE  IInv'
  BY <1>4, OpenFileStep, CloseFileStep, StartUnmountStep
<1>5. CASE UNCHANGED vars
  BY <1>5 DEF vars, thread, counts, IInv, Typing, BackendInv, ThreadInv, HolderInv,
              AloneInv, LockInv, At
<1> QED
  BY <1>1, <1>2, <1>3, <1>4, <1>5 DEF Next

\* The invariant holds in every behaviour.
LEMMA IInvHolds == Spec => []IInv
  BY InitIInv, NextIInv, PTL DEF Spec

\* Types of the variables; a mount past the choice of a backend has one exactly
\* on macOS (select_backend_auto).
THEOREM TypeCorrect == Spec => []TypeOK
<1>1. IInv => TypeOK
  BY TypeOKHolds DEF IInv
<1> QED
  BY <1>1, IInvHolds, PTL

\* A mount that has the store open has its lock, whatever other mount commands,
\* crashes and unmounts go on, from a user who waits for mounts to end and does
\* not let unmount remove the lock (acquire_mount_lock and MountLock::drop).
THEOREM LockKeptWhileOpen == Spec => []LockedWhileOpen
<1>1. IInv => LockedWhileOpen
  BY DEF IInv, LockInv, LockedWhileOpen, Holding
<1> QED
  BY <1>1, IInvHolds, PTL

\* A lock that is left when no mount runs is the trace of a crash, for any user:
\* no error path of run_mount and no overlap of mounts leaves one.
THEOREM NoLockLeftWithoutCrash == Spec => []LockLeftMeansCrash
<1>1. IInv => LockLeftMeansCrash
  BY DEF IInv, HolderInv, LockLeftMeansCrash, Holding, At
<1> QED
  BY <1>1, IInvHolds, PTL

\* The background thread rewrites segments only while the lock is there, unless
\* the session failed and nobody waits for the thread.
THEOREM CollectionIsLocked == Spec => []CollectsUnderLock
<1>1. IInv => CollectsUnderLock
  <2> SUFFICES ASSUME IInv, scenario.usage = {}, NEW m \in Mounts,
                      gc[m] = "collecting", ~proc[m].failed
               PROVE  lock
    BY DEF CollectsUnderLock
  <2>1. proc[m].at \in Ats
    BY DEF IInv, Typing, Process
  <2>2. proc[m].at \notin Threadless /\ proc[m].at \notin {"unlock", "exit"}
    BY DEF IInv, ThreadInv
  <2> QED
    BY <2>1, <2>2 DEF IInv, LockInv, Ats, Threadless, Holding
<1> QED
  BY <1>1, IInvHolds, PTL
=============================================================================
