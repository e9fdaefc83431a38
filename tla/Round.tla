-------------------------------- MODULE Round --------------------------------
(***************************************************************************)
(* Where a loop's thread is within one iteration of uv_run, for the        *)
(* modules that describe what the poll phase dispatches: Tcp, Signals and  *)
(* Process.  uv__io_poll serves the sockets first and the signal pipe      *)
(* last; then uv__run_closing_handles ends the iteration.                  *)
(***************************************************************************)
VARIABLE phase

Phases == {"out",                           \* not in uv_run
           "serve", "connCb",               \* a server's uv__server_io
           "read", "events", "signalCb",    \* uv__signal_event
           "wait", "exitCb",                \* uv__wait_children
           "closing", "next"}

\* What a Haxe program may call it calls outside uv_run or inside a callback.
HaxeRuns == phase \in {"out", "connCb", "signalCb", "exitCb"}
=============================================================================
