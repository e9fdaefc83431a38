--------------------------------- MODULE Tcp ---------------------------------
(***************************************************************************)
(* cpp::luv::tcp over libuv's uv__server_io and uv_accept: a listening     *)
(* server takes one connection at a time from the kernel's backlog, holds  *)
(* its descriptor until the program accepts it, and stops polling when the *)
(* program leaves the callback without having done so.  What is read and   *)
(* written on an accepted connection is in modules StreamRead and Stream.  *)
(*                                                                         *)
(* TcpRequest.reject does nothing, so a program that rejects a connection  *)
(* is one that calls nothing here.                                         *)
(***************************************************************************)
EXTENDS Naturals, Round

CONSTANTS
    Conns,      \* connections other hosts make
    MaxEmfiles, \* how often accept finds the process out of descriptors
    MaxLost     \* how often the program accepts when there is nothing to accept

ASSUME TcpAssumption == MaxEmfiles \in Nat /\ MaxLost \in Nat

VARIABLES
    server,     \* life of the uv_tcp_t: none, bound, listening, closing, freed
    root,       \* the callback's root in its data field: none, rooted, removed
    polled,     \* the loop polls the listening socket for POLLIN
    conn,       \* each connection: none, backlog, held, open, closing, freed;
                \* shed if it was never offered, dropped if it was never accepted
    spare,      \* loop->emfile_fd is a descriptor
    emfiles,    \* how often EMFILE was met
    lost        \* clients deleted while the loop still has them in its queue

tcpVars == <<server, root, polled, conn, spare, emfiles, lost>>

\* In the backlog of the socket, or in the server's accepted_fd.
Backlog == {c \in Conns : conn[c] = "backlog"}
Held    == {c \in Conns : conn[c] = "held"}

TcpInit ==
    /\ server = "none" /\ root = "none" /\ polled = FALSE
    /\ conn = [c \in Conns |-> "none"]
    /\ spare = FALSE /\ emfiles = 0 /\ lost = 0

-----------------------------------------------------------------------------
(* The program.                                                            *)

\* uv__stream_init, for every stream, tries to open the spare if it is missing.
SpareTried == IF spare THEN UNCHANGED spare ELSE spare' \in BOOLEAN

\* A handle that could not be bound is closed at once; the program never has it.
Bind ==
    /\ HaxeRuns /\ server = "none"
    /\ server' \in {"bound", "closing"}
    /\ SpareTried
    /\ UNCHANGED <<root, polled, conn, emfiles, lost>>

\* A second listen leaks the first root.  While a connection is held it would
\* poll again and run into uv__server_io's assertion: programs do not.
Listen ==
    /\ HaxeRuns /\ server \in {"bound", "listening"} /\ Held = {}
    /\ server' = "listening"
    /\ root' = "rooted"
    /\ polled' = TRUE
    /\ UNCHANGED <<conn, spare, emfiles, lost>>

\* Slip: uv_accept does not start polling again.
SlipAcceptStaysDeaf ==
    /\ HaxeRuns
    /\ \E c \in Held : conn' = [conn EXCEPT ![c] = "open"]
    /\ SpareTried
    /\ UNCHANGED <<server, root, polled, emfiles, lost>>

\* tcp::accept of the connection that is held.
Accept ==
    /\ HaxeRuns
    /\ \E c \in Held : conn' = [conn EXCEPT ![c] = "open"]
    /\ polled' = TRUE
    /\ SpareTried
    /\ UNCHANGED <<server, root, emfiles, lost>>

\* accept of a request accepted or closed before: uv_accept answers EAGAIN,
\* and the client is deleted although uv_tcp_init put it in the loop's queue
\* (the model goes on with the outcome in which its block is not reused).
AcceptNothing ==
    /\ HaxeRuns /\ server \in {"listening", "closing"}
    /\ Held = {}
    /\ \E c \in Conns : conn[c] \in {"open", "closing", "freed", "dropped"}
    /\ lost < MaxLost
    /\ lost' = lost + 1
    /\ SpareTried
    /\ UNCHANGED <<server, root, polled, conn, emfiles>>

\* Slip: uv__stream_close forgets the connection the server holds.
SlipCloseForgetsHeld ==
    /\ HaxeRuns /\ server \in {"bound", "listening"}
    /\ server' = "closing"
    /\ polled' = FALSE
    /\ conn' = [c \in Conns |-> IF c \in Backlog THEN "shed" ELSE conn[c]]
    /\ UNCHANGED <<root, spare, emfiles, lost>>

\* stream::close of the server: uv__stream_close drops the connection held,
\* and the kernel those in the backlog.
ServerClose ==
    /\ HaxeRuns /\ server \in {"bound", "listening"}
    /\ server' = "closing"
    /\ polled' = FALSE
    /\ conn' = [c \in Conns |-> CASE c \in Backlog -> "shed"
                                 [] c \in Held    -> "dropped"
                                 [] OTHER         -> conn[c]]
    /\ UNCHANGED <<root, spare, emfiles, lost>>

ClientClose ==
    /\ HaxeRuns
    /\ \E c \in Conns : conn[c] = "open" /\ conn' = [conn EXCEPT ![c] = "closing"]
    /\ UNCHANGED <<server, root, polled, spare, emfiles, lost>>

TcpCall == Bind \/ Listen \/ Accept \/ AcceptNothing \/ ServerClose \/ ClientClose

\* Another host connects.
Connect(c) ==
    /\ server = "listening" /\ conn[c] = "none"
    /\ conn' = [conn EXCEPT ![c] = "backlog"]
    /\ UNCHANGED <<server, root, polled, spare, emfiles, lost>>

-----------------------------------------------------------------------------
(* The loop.  POLLIN is reported while a polled server has a backlog.      *)

Ready == polled /\ Backlog # {}

\* Slip: uv__server_io closes what it accepted and does not offer it.
SlipOfferDiscards ==
    /\ phase = "serve" /\ Ready
    /\ \E c \in Backlog : conn' = [conn EXCEPT ![c] = "shed"]
    /\ phase' = "read"
    /\ UNCHANGED <<server, root, polled, spare, emfiles, lost>>

\* uv__server_io: a connection is accepted and offered to the program.
Offer ==
    /\ phase = "serve" /\ Ready
    /\ \E c \in Backlog : conn' = [conn EXCEPT ![c] = "held"]
    /\ phase' = "connCb"
    /\ UNCHANGED <<server, root, polled, spare, emfiles, lost>>

\* Slip: uv__emfile_trick is used when there is no spare.
SlipShedsWithoutSpare ==
    /\ phase = "serve" /\ Ready
    /\ emfiles < MaxEmfiles /\ emfiles' = emfiles + 1
    /\ \E shed \in SUBSET Backlog :
         conn' = [c \in Conns |-> IF c \in shed THEN "shed" ELSE conn[c]]
    /\ spare' \in BOOLEAN
    /\ phase' = "read"
    /\ UNCHANGED <<server, root, polled, lost>>

\* uv__emfile_trick: the spare descriptor makes room to accept and close what
\* is waiting, unless another thread takes the room; without it, nothing is
\* accepted.  The spare is opened again if it can be.
ShedLoad ==
    /\ phase = "serve" /\ Ready
    /\ emfiles < MaxEmfiles /\ emfiles' = emfiles + 1
    /\ \E shed \in IF spare THEN SUBSET Backlog ELSE {{}} :
         conn' = [c \in Conns |-> IF c \in shed THEN "shed" ELSE conn[c]]
    /\ IF spare THEN spare' \in BOOLEAN ELSE UNCHANGED spare
    /\ phase' = "read"
    /\ UNCHANGED <<server, root, polled, lost>>

\* Slip: the server goes on polling while it holds a connection.
SlipOfferedPollsOn ==
    /\ phase = "connCb"
    /\ phase' = "read"
    /\ UNCHANGED tcpVars

\* The connection callback returns.
Offered ==
    /\ phase = "connCb"
    /\ polled' = (polled /\ Held = {})
    /\ phase' = "read"
    /\ UNCHANGED <<server, root, conn, spare, emfiles, lost>>

NothingToServe ==
    /\ phase = "serve" /\ ~Ready
    /\ phase' = "read"
    /\ UNCHANGED tcpVars

\* The callbacks of stream::close.  A server's data is deleted as the
\* StreamData of a connection, of which a root is the first word; what lies
\* behind it is undefined, and the model goes on as if it were null.
FinishSockets ==
    /\ server' = IF server = "closing" THEN "freed" ELSE server
    /\ root' = IF server = "closing" /\ root = "rooted" THEN "removed" ELSE root
    /\ conn' = [c \in Conns |-> IF conn[c] = "closing" THEN "freed" ELSE conn[c]]
    /\ UNCHANGED <<polled, spare, emfiles, lost>>

\* A listening handle keeps the loop alive, and so do closing ones.
TcpAlive ==
    server \in {"listening", "closing"} \/ \E c \in Conns : conn[c] = "closing"

TcpStep == Offer \/ ShedLoad \/ Offered \/ NothingToServe
=============================================================================
