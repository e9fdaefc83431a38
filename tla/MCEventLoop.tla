----------------------------- MODULE MCEventLoop -----------------------------
(* EventLoop with one repeating timer, one run-once timer, one async and    *)
(* one request: enough for a callback of each kind to close, send to or     *)
(* submit each other kind.                                                  *)
EXTENDS EventLoop

CONSTANTS t1, u1, a1, q1

MCRepeat   == {t1}
MCRun      == {u1}
MCAsyncs   == {a1}
MCRequests == {q1}
==============================================================================
