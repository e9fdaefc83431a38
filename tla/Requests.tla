------------------------------ MODULE Requests ------------------------------
(***************************************************************************)
(* What every asynchronous call of cpp.asio promises its caller: a request *)
(* that was made is answered through its callback, and answered once; one  *)
(* that is refused is answered before the call returns.                    *)
(***************************************************************************)
EXTENDS Naturals

CONSTANT Calls          \* the requests that may be made

VARIABLES pending,      \* the requests made and not answered
          answers       \* how often each callback was called

Init == pending = {} /\ answers = [c \in Calls |-> 0]

Make(c) ==
    /\ c \notin pending /\ answers[c] = 0
    /\ pending' = pending \cup {c}
    /\ UNCHANGED answers

Answer(c) ==
    /\ c \in pending
    /\ pending' = pending \ {c}
    /\ answers' = [answers EXCEPT ![c] = @ + 1]

Refuse(c) ==
    /\ c \notin pending /\ answers[c] = 0
    /\ answers' = [answers EXCEPT ![c] = 1]
    /\ UNCHANGED pending

Next == \E c \in Calls : Make(c) \/ Answer(c) \/ Refuse(c)

Spec == Init /\ [][Next]_<<pending, answers>>
==============================================================================
