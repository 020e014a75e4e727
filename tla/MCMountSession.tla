--------------------------- MODULE MCMountSession ---------------------------
(* Values for MountSession.                                                *)
EXTENDS MountSession

\* A library that is too old beside the one in use.
TwoVersions == {<<1, 0, 34>>, <<1, 2, 0>>}

Of(p, u, s, n, c) ==
    [platform |-> p, usage |-> u, maxStarts |-> s, maxUnmounts |-> n, maxCrashes |-> c]

ManyScenarios ==
    {Of(p, {}, 3, 2, 1) : p \in {"linux", "macos"}}
        \cup {Of("linux", {"impatient"}, 3, 1, 0), Of("linux", {"store_flag"}, 3, 2, 1),
              Of("macos", {"impatient", "store_flag"}, 2, 1, 0)}
=============================================================================
