----------------------------- MODULE Inspection -----------------------------
(***************************************************************************)
(* scrub and stats beside the other commands: they look for mount.lock     *)
(* only to say so, and read the segments one by one while a mount, a       *)
(* snapshot command or a garbage collection goes on writing.               *)
(***************************************************************************)
EXTENDS SegmentStore

CONSTANT Spared  \* how much of the budget behaviours with scans leave alone

ASSUME SparedAssumption == Spared \in [Bounded -> Nat]

VARIABLES
    scan,   \* a scrub or stats: what it has read, and two histories
    scans   \* are there any in this behaviour?

\* listing: the segments it has yet to read
\* root, snaps: what load_store_from_segments has collected
\* todo: the roots scrub has yet to resolve; errors: those it could not
\* since: history, every root that was live since the listing
\* before: history, the snapshots that were saved at the listing
NoScan ==
    [pc |-> "none", kind |-> "none", mounted |-> FALSE, listing |-> {}, root |-> 0,
     snaps |-> {}, todo |-> {}, errors |-> {}, since |-> {}, before |-> {}]

InspectInit == Init /\ scan = NoScan /\ scans \in BOOLEAN

\* The look at mount.lock, the checks, and the listing.
ScanStart(k) ==
    /\ scans /\ scan.pc = "none"
    /\ DOMAIN files # {}
    /\ scan' = [NoScan EXCEPT !.pc = "read", !.kind = k, !.mounted = lock,
                              !.listing = DOMAIN files, !.since = {ReplayRoot},
                              !.before = Saved]

\* Mutation of NextPath: the listing is sorted downwards.
NextPathDown(S) == {i \in S : \A j \in S \ {i} : LexLess(j, i)}

\* The listing is read in the order of the names: the first one of S.
NextPath(S) == {i \in S : \A j \in S \ {i} : LexLess(i, j)}

\* One segment: a file without a header is skipped.
ScanSegment ==
    \E i \in NextPath(scan.listing) :
        LET es == IF files[i].header THEN files[i].records ELSE <<>>
            roots == {k \in DOMAIN es : es[k].type = "root"}
        IN  /\ scan.pc = "read"
            /\ scan' = [scan EXCEPT
                  !.listing = @ \ {i},
                  !.root = IF roots = {} THEN @ ELSE es[Largest(roots)].root,
                  !.snaps = @ \cup {es[k] : k \in DOMAIN es \ roots}]

\* scrub collects the roots to verify; stats goes on without.
ScanCollect ==
    /\ scan.pc = "read" /\ scan.listing = {}
    /\ scan' = [scan EXCEPT
          !.pc = "verify",
          !.todo = IF scan.kind = "stats" THEN {}
                   ELSE ({scan.root} \ {0}) \cup {s.root : s \in scan.snaps}]

\* file_storage_get of one root.
ScanVerify ==
    \E r \in scan.todo :
        /\ scan.pc = "verify"
        /\ scan' = [scan EXCEPT !.todo = @ \ {r}, !.errors = @ \cup ({r} \ blobs)]

\* load_from_root of the live root, by both.
ScanReload ==
    /\ scan.pc = "verify" /\ scan.todo = {}
    /\ scan' = [scan EXCEPT
          !.pc = "report",
          !.errors = @ \cup ({scan.root} \ (blobs \cup {0}))]

ScanReport == scan.pc = "report" /\ scan' = NoScan

ScanStep ==
    \/ \E k \in {"scrub", "stats"} : ScanStart(k)
    \/ ScanSegment \/ ScanCollect \/ ScanVerify \/ ScanReload \/ ScanReport

\* A step of another command, which the histories see.
StoreStep ==
    /\ Next
    /\ scans => \A k \in Bounded : budget'[k] >= Spared[k]
    /\ UNCHANGED scans
    /\ scan' = IF scan.pc = "none" THEN scan
               ELSE [scan EXCEPT !.since = @ \cup {ReplayRoot'}]

InspectNext == StoreStep \/ (ScanStep /\ UNCHANGED <<vars, scans>>)

InspectSpec == InspectInit /\ [][InspectNext]_<<vars, scan, scans>>
-----------------------------------------------------------------------------
\* What scrub and stats report was true of the store at some moment of their
\* scan, whatever else ran: no root is reported missing, the live root was the
\* live root, no snapshot is left out that was there before, none is made up.
ReportTruthful ==
    scan.pc = "report" =>
        /\ scan.errors = {}
        /\ scan.root \in scan.since
        /\ scan.before \subseteq scan.snaps
        /\ scan.snaps \subseteq Saved
=============================================================================
