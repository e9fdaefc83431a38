------------------------------- MODULE Wakeup -------------------------------
(* What uv_async_send promises, without its flags: a call takes effect once *)
(* between its start and its end, by asking for the callback of its handle; *)
(* calls coalesce; what was asked for is answered while a loop runs, unless *)
(* the handle is closed first.                                              *)

CONSTANTS Handles, Senders, Nobody

VARIABLES
    open,       \* handles that may be sent to
    asked,      \* handles whose callback is due
    to,         \* the handle a sender is sending to, or Nobody
    took,       \* senders whose call has taken effect
    running     \* a loop is there to answer

wakeupVars == <<open, asked, to, took, running>>

Init ==
    /\ open \subseteq Handles /\ asked = {}
    /\ to = [s \in Senders |-> Nobody]
    /\ took = {}
    /\ running = FALSE

Open(h) ==
    /\ open' = open \cup {h}
    /\ UNCHANGED <<asked, to, took, running>>

Call(s, h) ==
    /\ to[s] = Nobody
    /\ to' = [to EXCEPT ![s] = h]
    /\ UNCHANGED <<open, asked, took, running>>

Effect(s) ==
    /\ to[s] # Nobody /\ s \notin took
    /\ asked' = asked \cup ({to[s]} \cap open)
    /\ took' = took \cup {s}
    /\ UNCHANGED <<open, to, running>>

\* A call that finds its callback due already has nothing to do.
Return(s) ==
    /\ to[s] # Nobody
    /\ s \in took \/ to[s] \in asked \/ to[s] \notin open
    /\ to' = [to EXCEPT ![s] = Nobody]
    /\ took' = took \ {s}
    /\ UNCHANGED <<open, asked, running>>

Answer(h) ==
    /\ running /\ h \in asked
    /\ asked' = asked \ {h}
    /\ UNCHANGED <<open, to, took, running>>

\* Closing may be the end of several handles at once.
Close(hs) ==
    /\ open' = open \ hs
    /\ asked' = asked \ hs
    /\ UNCHANGED <<to, took, running>>

\* The loop is entered, or returns.
Run ==
    /\ running' = ~running
    /\ UNCHANGED <<open, asked, to, took>>

Next ==
    \/ Run
    \/ \E h \in Handles : Open(h) \/ Answer(h)
    \/ \E hs \in SUBSET Handles : Close(hs)
    \/ \E s \in Senders :
         Effect(s) \/ Return(s) \/ \E h \in Handles : Call(s, h)

Answered == \A h \in Handles : WF_wakeupVars(Answer(h))

Spec == Init /\ [][Next]_wakeupVars /\ Answered
=============================================================================
