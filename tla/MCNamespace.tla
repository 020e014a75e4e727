----------------------------- MODULE MCNamespace -----------------------------
(* Namespace on small instances.                                           *)
EXTENDS Namespace, TLC

\* Names are interchangeable.
NameSymmetry == Permutations(Names)

\* More inodes within one mount, or fewer over three mounts.
DeepOrLong == {[ino |-> 4, mounts |-> 0], [ino |-> 3, mounts |-> 2]}
=============================================================================
