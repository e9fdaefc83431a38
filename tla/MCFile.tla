------------------------------- MODULE MCFile -------------------------------
(* Values for File's constants. *)
EXTENDS File

CONSTANTS r1, w1, w2

MCOffsets == {-1, 0}
MCWhole == {-1}

\* w1 may be written in two parts.
MCLength == [w \in Writers |-> IF w = w1 THEN 2 ELSE 1]
==============================================================================
