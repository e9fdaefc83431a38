------------------------------- MODULE Listing -------------------------------
(***************************************************************************)
(* What Directory.read and Directory.iter promise: each answer is either   *)
(* one more entry, or UV_EOF once every entry was answered, or an error.   *)
(***************************************************************************)
EXTENDS Naturals

CONSTANT N          \* the directory's number of entries

VARIABLES count,    \* entries answered so far
          last      \* the last answer: none, entry, eof, error

Init == count = 0 /\ last = "none"

Entry == count < N /\ count' = count + 1 /\ last' = "entry"

Eof == count = N /\ last' = "eof" /\ UNCHANGED count

Failure == last' = "error" /\ UNCHANGED count

Next == Entry \/ Eof \/ Failure

Spec == Init /\ [][Next]_<<count, last>>
==============================================================================
