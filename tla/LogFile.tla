------------------------------ MODULE LogFile ------------------------------
(***************************************************************************)
(* A segment file as SegmentStore.tla takes it to be: first its header,    *)
(* then whole records, one after the other in the order they were logged.  *)
(***************************************************************************)
EXTENDS Naturals, Sequences

CONSTANT Entry    \* what may be logged

VARIABLES
    header,   \* is the header there?
    records,  \* the records in the file
    logged    \* what was logged to it

vars == <<header, records, logged>>

Init == header = FALSE /\ records = <<>> /\ logged = <<>>

Log(e) == logged' = Append(logged, e) /\ UNCHANGED <<header, records>>

WriteHeader == ~header /\ header' = TRUE /\ UNCHANGED <<records, logged>>

WriteRecord ==
    /\ header
    /\ Len(records) < Len(logged)
    /\ records' = Append(records, logged[Len(records) + 1])
    /\ UNCHANGED <<header, logged>>

Next == WriteHeader \/ WriteRecord \/ \E e \in Entry : Log(e)

Spec == Init /\ [][Next]_vars
=============================================================================
