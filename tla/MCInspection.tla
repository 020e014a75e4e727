---------------------------- MODULE MCInspection ----------------------------
(* Inspection on the instances of MCSegmentStore.                          *)
EXTENDS Inspection, MCSegmentStore

\* With scans there is one snapshot command and one garbage collection.
OneOfEach == [None EXCEPT !["create"] = 1, !["switch"] = 1, !["gc"] = 1]
=============================================================================
