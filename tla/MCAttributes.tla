---------------------------- MODULE MCAttributes ----------------------------
(* Model values and workloads for Attributes.                              *)
EXTENDS Attributes

\* One name is the beginning of the other, and a value may look like a length.
TwoXNames == {<<1>>, <<1, 1>>}
TwoXValues == {<<>>, <<1, 1>>}

Doing(r, n, i, m) == [requests |-> r, names |-> n, maxIno |-> i, maxMounts |-> m]
FourWorkloads ==
    {Doing({"setattr", "write"}, {1}, 3, 1),
     Doing({"node", "write"}, {1, 2}, 3, 1),
     Doing({"xattr"}, {1}, 3, 1),
     Doing({"readdir"}, {1, 2, 3, 4}, 6, 0)}
=============================================================================
