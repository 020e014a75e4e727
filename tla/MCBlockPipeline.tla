--------------------------- MODULE MCBlockPipeline ---------------------------
(* Data and filter for BlockPipeline.                                      *)
EXTENDS BlockPipeline, TLC

\* Chunks <<1, 1>> and <<2>>: one is in both.
TwoData == {<<1, 1>>, <<1, 1, 2>>}

\* The bits of <<2>> are all set by the other chunk: a false positive.
FewBits == [c \in Chunks |-> IF c = <<2>> THEN {2} ELSE {1, 2}]

WriterSymmetry == Permutations(Writers)
=============================================================================
