---------------------------- MODULE DurableStore ----------------------------
(***************************************************************************)
(* What the store promises to whoever mounts it next: one live root and a  *)
(* set of immutable, numbered snapshots.  Nothing else changes them, so a  *)
(* crash, a failed command or a half-written segment is a stuttering step. *)
(***************************************************************************)
EXTENDS Integers

VARIABLES
    root,       \* the live root the next mount loads; 0 before the first commit
    newest,     \* the newest state ever committed
    snapshots   \* set of [version, root, name]

store == <<root, newest, snapshots>>

Init == root = 0 /\ newest = 0 /\ snapshots = {}

\* A commit makes a state live that is newer than every committed one.
Commit ==
    /\ root' \in Nat
    /\ root' > newest
    /\ newest' = root'
    /\ UNCHANGED snapshots

\* A snapshot of the live root gets the next version number.
TakeSnapshot ==
    /\ \E s \in snapshots' \ snapshots :
        /\ s.root = root
        /\ \A t \in snapshots : t.version < s.version
        /\ snapshots' = snapshots \cup {s}
    /\ UNCHANGED <<root, newest>>

\* A switch makes a snapshot's root live, when the replaced root has a snapshot.
Switch ==
    /\ \E s \in snapshots : root' = s.root
    /\ \E s \in snapshots : root = s.root
    /\ UNCHANGED <<newest, snapshots>>

Next == Commit \/ TakeSnapshot \/ Switch

Spec == Init /\ [][Next]_store
=============================================================================
