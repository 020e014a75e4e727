--------------------------- MODULE MCSegmentFile ---------------------------
(* Values for SegmentFile.                                                 *)
EXTENDS SegmentFile

\* Cells of a name that look like the type or the length of a record.
TwoNames == {<<>>, <<2, 1>>}
=============================================================================
