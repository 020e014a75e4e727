----------------------------- MODULE MCWritePath -----------------------------
(* WritePath on small instances.                                           *)
EXTENDS WritePath, TLC

\* Inodes, and handles, are interchangeable.
FileSymmetry == Permutations(Inodes) \cup Permutations(Handles)

\* What a seeded file holds.
SeedFiles == {<<1>>}
=============================================================================
