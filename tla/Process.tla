------------------------------- MODULE Process -------------------------------
(***************************************************************************)
(* cpp::luv::process::spawn, its exit callback and its three pipes, over   *)
(* libuv's uv_spawn and uv__wait_children.  A child's end reaches the loop *)
(* as a SIGCHLD, which the kernel coalesces, through the signal pipe of    *)
(* module Signals, which the program's own signal handles share.           *)
(*                                                                         *)
(* The exit wrapper deletes the uv_process_t, which was never closed and   *)
(* is still in the loop's handle queue.  Taking its neighbour out of that  *)
(* queue then writes to freed memory; the model goes on with the outcome   *)
(* in which the block was not in use again.                                *)
(***************************************************************************)
EXTENDS Signals

CONSTANTS
    Procs,      \* the processes a program spawns
    None        \* no process

ASSUME ProcessAssumption == None \notin Procs

VARIABLES
    child,      \* each child: none, running, zombie, gone, told, failed
    raised,     \* a SIGCHLD the kernel has yet to deliver
    pipes,      \* its three pipes: none, open, closing, freed
    toCheck,    \* processes uv__wait_children has yet to wait for
    telling     \* the process whose exit callback runs, or None

procVars == <<child, raised, pipes, toCheck, telling>>

ProcessInit ==
    /\ child = [p \in Procs |-> "none"]
    /\ raised = FALSE
    /\ pipes = [p \in Procs |-> "none"]
    /\ toCheck = {} /\ telling = None

-----------------------------------------------------------------------------
\* uv_spawn starts the watcher of SIGCHLD before it forks, and keeps it on
\* even if the exec fails; then the pipes, and the process in the handle
\* queue, stay as they are.
Spawn(p) ==
    /\ HaxeRuns
    /\ child[p] = "none"
    /\ watch' = [watch EXCEPT ![Child] = "SIGCHLD"]
    /\ \E outcome \in {"running", "failed"} :
         child' = [child EXCEPT ![p] = outcome]
    /\ pipes' = [pipes EXCEPT ![p] = "open"]
    /\ UNCHANGED <<sig, data, ints, pipe, batch, again, dropped, phase,
                   raised, toCheck, telling>>

\* The child ends, at any moment.
Exit(p) ==
    /\ child[p] = "running"
    /\ child' = [child EXCEPT ![p] = "zombie"]
    /\ raised' = TRUE
    /\ UNCHANGED <<signalVars, phase, pipes, toCheck, telling>>

\* The kernel delivers SIGCHLD; one raised again before that is the same one.
\* Without a watcher there is no handler, and the signal is ignored.
ChildSignal ==
    /\ raised /\ raised' = FALSE
    /\ Deliver("SIGCHLD")
    /\ UNCHANGED <<ints, phase, child, pipes, toCheck, telling>>

\* uv__chld: uv__wait_children starts at the head of process_handles.
WaitChildren ==
    /\ phase = "events" /\ batch # <<>>
    /\ ~Stale(Head(batch)) /\ Head(batch)[1] = Child
    /\ toCheck' = {p \in Procs : child[p] \in {"running", "zombie"}}
    /\ phase' = "wait"
    /\ UNCHANGED <<signalVars, child, raised, pipes, telling>>

\* Slip: one SIGCHLD is taken for one child.
SlipWaitForOne(p) ==
    /\ phase = "wait" /\ p \in toCheck
    /\ toCheck' = IF child[p] = "zombie" THEN {} ELSE toCheck \ {p}
    /\ child' = [child EXCEPT ![p] = IF @ = "zombie" THEN "gone" ELSE @]
    /\ UNCHANGED <<signalVars, phase, raised, pipes, telling>>

\* waitpid(WNOHANG) on one process; the others may end meanwhile.  What was
\* reaped waits in a list of its own until every process has been looked at.
WaitFor(p) ==
    /\ phase = "wait" /\ p \in toCheck
    /\ toCheck' = toCheck \ {p}
    /\ child' = [child EXCEPT ![p] = IF @ = "zombie" THEN "gone" ELSE @]
    /\ UNCHANGED <<signalVars, phase, raised, pipes, telling>>

\* The exit callback of a reaped process: the wrapper leaves the GC-free zone
\* and calls into Haxe, which may spawn again.
CallExit(p) ==
    /\ phase = "wait" /\ toCheck = {}
    /\ child[p] = "gone"
    /\ telling' = p
    /\ phase' = "exitCb"
    /\ UNCHANGED <<signalVars, child, raised, pipes, toCheck>>

\* The wrapper ends: ~SpawnData closes the pipes, read to their end or not,
\* and the uv_process_t is deleted.
ExitCbReturns ==
    /\ phase = "exitCb"
    /\ child' = [child EXCEPT ![telling] = "told"]
    /\ pipes' = [pipes EXCEPT ![telling] = "closing"]
    /\ telling' = None
    /\ phase' = "wait"
    /\ UNCHANGED <<signalVars, raised, toCheck>>

WaitDone ==
    /\ phase = "wait" /\ toCheck = {}
    /\ \A p \in Procs : child[p] # "gone"
    /\ Dispatched
    /\ UNCHANGED procVars

\* The pipes' close callback deletes them.
FinishPipes ==
    /\ pipes' = [p \in Procs |-> IF pipes[p] = "closing" THEN "freed" ELSE pipes[p]]
    /\ UNCHANGED <<child, raised, toCheck, telling>>

\* A uv_process_t is active until it is reaped.  SIGCHLD's watcher is
\* unreferenced; a pipe nobody reads or writes is not active.
ProcessAlive ==
    \/ \E p \in Procs : child[p] \in {"running", "zombie", "gone"}
    \/ \E p \in Procs : pipes[p] = "closing"

ProcessStep ==
    \/ WaitChildren \/ ExitCbReturns \/ WaitDone
    \/ \E p \in Procs : WaitFor(p) \/ CallExit(p)
==============================================================================
