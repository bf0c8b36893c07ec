--------------------------------- MODULE Daemon ---------------------------------
(***************************************************************************)
(* The life of a VhostUserDaemon: its owner binds a listener, accepts or   *)
(* makes connections, waits for the thread that serves one and drops the   *)
(* daemon, or does it all with serve; other threads hold ShutdownHandles;  *)
(* frontends connect, send requests and hang up.                           *)
(*                                                                         *)
(* What a request does is in Session and VringWorkers.  Here it may        *)
(* succeed, fail or panic.  A socket that was shut down here still yields  *)
(* what had arrived before.                                                *)
(***************************************************************************)
EXTENDS Integers, Sequences

CONSTANTS
    Conns,       \* connections, positive numbers
    Stoppers,    \* threads that hold ShutdownHandles
    MaxInbox     \* bound: requests in a socket at a time

None == 0

\* Connections are named by positive numbers.
Numbered == Conns \subseteq Nat \ {0} /\ MaxInbox \in Nat

VARIABLES
    listening,   \* is there a listener?
    backlog,     \* connections that wait to be accepted
    peer,        \* the frontend of each connection
    inbox,       \* requests that wait in the socket
    sock,        \* our end of each connection: "closed", "open" or "shut"
    flag,        \* ConnectionState.shutdown_requested
    thread,      \* the thread of start_daemon: "none", "running", "closing" or "ended"
    result,      \* the error its loop ended with; wait tells only SocketBroken from the others
    owner,       \* where the owner of the daemon is
    serving,     \* is the owner in serve?
    main_thread, \* connection of VhostUserDaemon.main_thread
    conn_state,  \* connection of VhostUserDaemon.conn_state
    joined,      \* the thread that wait has taken out of main_thread
    handles,     \* connections that shutdown_handle could be called for
    stopping,    \* the connection each thread in ShutdownHandle::shutdown is half-way through
    poisoned,    \* the mutex of the VhostUserHandler, after a panic
    exitSent,    \* history: send_exit_event was called since the latest Listener::new
    closedHere,  \* history: connections that came to their end by our own shutdown
    blamed       \* history: those of them that wait returned an error for

peers == <<listening, backlog, peer, inbox>>
conns == <<sock, flag>>
loops == <<thread, result, poisoned, closedHere>>
daemon == <<owner, serving, main_thread, conn_state, joined, handles>>
rest == <<exitSent, blamed>>
vars == <<peers, conns, loops, daemon, stopping, rest>>

\* VhostUserDaemon::new.
Init ==
    /\ listening = FALSE /\ backlog = <<>>
    /\ peer = [c \in Conns |-> "away"]
    /\ inbox = [c \in Conns |-> 0]
    /\ sock = [c \in Conns |-> "closed"]
    /\ flag = [c \in Conns |-> FALSE]
    /\ thread = [c \in Conns |-> "none"]
    /\ result = [c \in Conns |-> "none"]
    /\ owner = "idle" /\ serving = FALSE
    /\ main_thread = None /\ conn_state = None /\ joined = None
    /\ handles = {} /\ stopping = [s \in Stoppers |-> None]
    /\ poisoned = FALSE /\ exitSent = FALSE
    /\ closedHere = {} /\ blamed = {}
-------------------------------------------------------------------------------
(* Frontends *)

\* Connections are numbered in the order in which they begin.
Fresh(c) == peer[c] = "away" /\ \A d \in Conns : d < c => peer[d] # "away"

\* A frontend connects (how it finds the listener is in Rendezvous), sends or hangs up.
PeerStep(c) ==
    /\ \/ /\ Fresh(c) /\ listening
          /\ peer' = [peer EXCEPT ![c] = "connected"]
          /\ sock' = [sock EXCEPT ![c] = "open"]
          /\ backlog' = Append(backlog, c)
          /\ inbox' = inbox
       \/ /\ peer[c] = "connected" /\ sock[c] = "open" /\ thread[c] # "ended"
          /\ inbox[c] < MaxInbox
          /\ inbox' = [inbox EXCEPT ![c] = @ + 1]
          /\ UNCHANGED <<peer, sock, backlog>>
       \/ /\ peer[c] = "connected"
          /\ peer' = [peer EXCEPT ![c] = "gone"]
          /\ UNCHANGED <<inbox, sock, backlog>>
    /\ UNCHANGED <<listening, flag, loops, daemon, stopping, rest>>
-------------------------------------------------------------------------------
(* The thread of start_daemon *)

\* The loop ends: nothing more is read.
Leave(c, error, to) ==
    /\ result' = [result EXCEPT ![c] = error]
    /\ thread' = [thread EXCEPT ![c] = to]
    /\ inbox' = [inbox EXCEPT ![c] = 0]

\* handle_request fails because either end closed the socket.
SocketEnds(c, error) ==
    /\ Leave(c, error, "closing")
    /\ closedHere' = IF peer[c] = "gone" THEN closedHere ELSE closedHere \cup {c}
    /\ poisoned' = poisoned

\* A request is served.  Its answer cannot be sent if either end closed the socket; a
\* handler whose mutex is poisoned panics.
HandleRequest(c) ==
    /\ thread[c] = "running" /\ inbox[c] > 0
    /\ \/ /\ ~ poisoned
          /\ inbox' = [inbox EXCEPT ![c] = @ - 1]
          /\ UNCHANGED loops
       \/ /\ ~ poisoned /\ (sock[c] = "shut" \/ peer[c] = "gone")
          /\ SocketEnds(c, "SocketBroken")
       \/ /\ ~ poisoned
          /\ Leave(c, "Other", "closing")
          /\ UNCHANGED <<poisoned, closedHere>>
       \/ /\ Leave(c, "Panicked", "ended")
          /\ poisoned' = TRUE
          /\ closedHere' = closedHere
    /\ UNCHANGED <<listening, backlog, peer, conns, daemon, stopping, rest>>

\* The end of the stream, between messages or within one, or a reset by the peer.
ReadEnd(c) ==
    /\ thread[c] = "running" /\ inbox[c] = 0
    /\ \/ sock[c] = "shut" /\ SocketEnds(c, "Other")
       \/ peer[c] = "gone" /\ \E e \in {"Other", "SocketBroken"} : SocketEnds(c, e)
    /\ UNCHANGED <<listening, backlog, peer, conns, daemon, stopping, rest>>

\* Mutant: leaves the socket to the last of its clones.
LeaveSocket(c) == thread[c] = "closing" /\ thread' = [thread EXCEPT ![c] = "ended"] /\ sock' = sock

\* conn.shutdown after the loop.
CloseSocket(c) ==
    /\ thread[c] = "closing"
    /\ thread' = [thread EXCEPT ![c] = "ended"]
    /\ sock' = [sock EXCEPT ![c] = "shut"]

ThreadStep(c) ==
    \/ HandleRequest(c)
    \/ ReadEnd(c)
    \/ CloseSocket(c) /\ UNCHANGED <<peers, flag, result, poisoned, closedHere, daemon, stopping,
                                     rest>>
-------------------------------------------------------------------------------
(* ShutdownHandle::shutdown, by other threads and in request_shutdown *)

BeginShutdown(c) == flag' = [flag EXCEPT ![c] = TRUE] /\ sock' = sock

\* Mutant: leaves the socket alone.
EndShutdownNothing(c) == UNCHANGED conns

EndShutdown(c) == sock' = [sock EXCEPT ![c] = "shut"] /\ flag' = flag

Stop(s) ==
    /\ \/ \E c \in handles : stopping[s] = None /\ BeginShutdown(c)
                                /\ stopping' = [stopping EXCEPT ![s] = c]
       \/ /\ stopping[s] # None /\ EndShutdown(stopping[s])
          /\ stopping' = [stopping EXCEPT ![s] = None]
    /\ UNCHANGED <<peers, loops, daemon, rest>>

RequestShutdown ==
    /\ \/ owner = "idle" /\ conn_state # None /\ BeginShutdown(conn_state) /\ owner' = "stopping"
       \/ owner = "stopping" /\ EndShutdown(conn_state) /\ owner' = "idle"
    /\ UNCHANGED <<peers, loops, serving, main_thread, conn_state, joined, handles, stopping, rest>>
-------------------------------------------------------------------------------
(* The owner: Listener::new, start, start_client, wait, serve and drop *)

\* Listener::new; serve goes on with start.
NewListener(s) ==
    /\ owner = "idle" /\ ~ listening
    /\ listening' = TRUE /\ serving' = s /\ exitSent' = FALSE
    /\ owner' = IF s THEN "accepting" ELSE "idle"
    /\ UNCHANGED <<backlog, peer, inbox, conns, loops, main_thread, conn_state, joined, handles,
                   stopping, blamed>>

\* start, up to BackendListener::accept, which is called again while there is no connection.
Start ==
    /\ owner = "idle" /\ listening /\ owner' = "accepting"
    /\ UNCHANGED <<peers, conns, loops, serving, main_thread, conn_state, joined, handles,
                   stopping, rest>>

\* start_daemon.  shutdown_handle can be called between the calls of the owner, not in serve.
StartDaemon(c) ==
    /\ thread' = [thread EXCEPT ![c] = "running"]
    /\ conn_state' = c /\ main_thread' = c
    /\ owner' = IF serving THEN "waiting" ELSE "idle"
    /\ handles' = IF serving THEN handles ELSE handles \cup {c}

\* Drop of the listener: connections nobody accepted are reset.
DropListener ==
    /\ listening' = FALSE
    /\ backlog' = <<>>
    /\ sock' = [c \in Conns |-> IF \E i \in DOMAIN backlog : backlog[i] = c THEN "shut" ELSE sock[c]]

\* accept and start_daemon; or the connection cannot be cloned or the thread not spawned, and
\* start returns an error, and serve with it, before it has signalled anybody.
Accept ==
    /\ owner = "accepting" /\ backlog # <<>>
    /\ \/ /\ StartDaemon(Head(backlog))
          /\ backlog' = Tail(backlog)
          /\ UNCHANGED <<listening, sock, serving>>
       \/ /\ IF serving THEN DropListener
             ELSE /\ backlog' = Tail(backlog)
                  /\ sock' = [sock EXCEPT ![Head(backlog)] = "shut"]
                  /\ listening' = listening
          /\ owner' = "idle" /\ serving' = FALSE
          /\ UNCHANGED <<thread, conn_state, main_thread, handles>>
    /\ UNCHANGED <<peer, inbox, flag, result, poisoned, closedHere, joined, stopping, rest>>

\* start_client: the frontend listens.
StartClient(c) ==
    /\ owner = "idle" /\ Fresh(c)
    /\ peer' = [peer EXCEPT ![c] = "connected"]
    /\ sock' = [sock EXCEPT ![c] = "open"]
    /\ StartDaemon(c)
    /\ UNCHANGED <<listening, backlog, inbox, flag, result, poisoned, closedHere, serving, joined,
                   stopping, rest>>

\* wait, up to the join: without a thread there is nothing to wait for.
Wait ==
    /\ owner = "idle" \/ owner = "waiting"
    /\ IF main_thread = None
       THEN conn_state' = None /\ UNCHANGED <<owner, main_thread, joined>>
       ELSE /\ owner' = "joining" /\ joined' = main_thread /\ main_thread' = None
            /\ conn_state' = conn_state
    /\ UNCHANGED <<peers, conns, loops, serving, handles, stopping, rest>>

\* Mutant: forgets the connection before it looks at its flag.
WaitResultForgetful(c) ==
    IF result[c] = "Panicked" THEN "panic" ELSE IF result[c] = "SocketBroken" THEN "ok" ELSE "err"

\* The match of wait, with the flag of the connection in conn_state.
WaitResult(c) ==
    IF result[c] = "Panicked" THEN "panic"
    ELSE IF result[c] = "SocketBroken" \/ (conn_state # None /\ flag[conn_state]) THEN "ok"
    ELSE "err"

\* Mutant: serve returns an error of wait at once.
JoinOrReturn ==
    LET returns == serving /\ WaitResult(joined) # "ok"
    IN  /\ owner = "joining" /\ thread[joined] = "ended"
        /\ closedHere' = closedHere \ {joined}
        /\ result' = [result EXCEPT ![joined] = IF @ = "Panicked" THEN @ ELSE "none"]
        /\ conn_state' = IF result[joined] = "Panicked" THEN conn_state ELSE None
        /\ joined' = None
        /\ owner' = IF serving /\ ~ returns THEN "signalling" ELSE "idle"
        /\ serving' = (serving /\ ~ returns)
        /\ UNCHANGED <<peers, conns, thread, poisoned, main_thread, handles, stopping, rest>>

\* The join; a panic is returned at once, and conn_state is kept.
Join ==
    /\ owner = "joining" /\ thread[joined] = "ended"
    /\ blamed' = IF joined \in closedHere /\ WaitResult(joined) # "ok"
                 THEN blamed \cup {joined} ELSE blamed
    /\ closedHere' = closedHere \ {joined}
    /\ result' = [result EXCEPT ![joined] = IF @ = "Panicked" THEN @ ELSE "none"]
    /\ conn_state' = IF result[joined] = "Panicked" THEN conn_state ELSE None
    /\ joined' = None
    /\ owner' = IF serving THEN "signalling" ELSE "idle"
    /\ UNCHANGED <<peers, conns, thread, poisoned, serving, main_thread, handles, stopping,
                   exitSent>>

\* The last part of serve, after wait: send_exit_event, which panics if the mutex is poisoned.
EndServe ==
    /\ owner = "signalling"
    /\ exitSent' = IF poisoned THEN exitSent ELSE TRUE
    /\ owner' = IF poisoned THEN "panicked" ELSE "idle"
    /\ serving' = FALSE
    /\ DropListener
    /\ UNCHANGED <<peer, inbox, flag, loops, main_thread, conn_state, joined, handles, stopping,
                   blamed>>

\* Drop of the daemon, by its owner or when serve panics.
Drop ==
    /\ owner = "idle" \/ owner = "panicked"
    /\ owner' = "dropped"
    /\ sock' = IF conn_state = None THEN sock ELSE [sock EXCEPT ![conn_state] = "shut"]
    /\ conn_state' = None /\ main_thread' = None
    /\ UNCHANGED <<peers, flag, loops, serving, joined, handles, stopping, rest>>

OwnerStep ==
    \/ Accept \/ (owner = "waiting" /\ Wait) \/ Join \/ EndServe
    \/ (owner = "stopping" /\ RequestShutdown)

Next ==
    \/ \E c \in Conns : PeerStep(c) \/ ThreadStep(c) \/ StartClient(c)
    \/ \E s \in Stoppers : Stop(s)
    \/ \E s \in BOOLEAN : NewListener(s)
    \/ Start \/ Accept \/ Wait \/ Join \/ EndServe \/ Drop \/ RequestShutdown

Spec == Init /\ [][Next]_vars

\* Threads run: the request thread of each connection, and a call of the owner or of a
\* handle once it has begun.  Requests come to an end (the subject of VringWorkers).
\* Nobody has to hang up or to make a call.
Fairness ==
    /\ \A c \in Conns : WF_vars(ThreadStep(c))
    /\ \A s \in Stoppers : WF_vars(stopping[s] # None /\ Stop(s))
    /\ WF_vars(OwnerStep)

FairSpec == Spec /\ Fairness
-------------------------------------------------------------------------------
\* Types of the state.
TypeOK ==
    /\ listening \in BOOLEAN /\ serving \in BOOLEAN /\ poisoned \in BOOLEAN
    /\ exitSent \in BOOLEAN
    /\ backlog \in Seq(Conns)
    /\ peer \in [Conns -> {"away", "connected", "gone"}]
    /\ inbox \in [Conns -> 0 .. MaxInbox]
    /\ sock \in [Conns -> {"closed", "open", "shut"}]
    /\ flag \in [Conns -> BOOLEAN]
    /\ thread \in [Conns -> {"none", "running", "closing", "ended"}]
    /\ result \in [Conns -> {"none", "SocketBroken", "Other", "Panicked"}]
    /\ owner \in {"idle", "accepting", "waiting", "joining", "signalling", "stopping",
                  "panicked", "dropped"}
    /\ main_thread \in Conns \cup {None} /\ conn_state \in Conns \cup {None}
    /\ joined \in Conns \cup {None}
    /\ handles \subseteq Conns
    /\ stopping \in [Stoppers -> Conns \cup {None}]
    /\ closedHere \subseteq Conns /\ blamed \subseteq Conns

\* A connection that came to its end by our own shutdown, whoever called it and however
\* late the thread noticed, is no error to wait: it loads the flag of that very connection.
ShutdownIsSuccess == blamed = {}

\* The frontend of a connection whose thread has ended sees the end of the stream, although
\* ConnectionState and every ShutdownHandle still hold a clone of the socket.  A panic is
\* the exception: it unwinds past conn.shutdown.
EndedMeansShut ==
    \A c \in Conns : thread[c] = "ended" => sock[c] = "shut" \/ result[c] = "Panicked"

\* serve has a connection.
ServeConnected == serving /\ owner # "accepting"

\* When the frontend that serve has a connection with hangs up, the workers are told to exit in
\* the end, whatever wait makes of the connection ("Regardless of the result"): serve is not
\* under way for ever, and it ends only with the workers signalled, or with a panic because
\* an earlier one has poisoned the mutex of the handler.
ServeSignalsWorkers ==
    /\ [][ServeConnected /\ ~ serving' => exitSent' \/ poisoned]_vars
    /\ []<> ~ (ServeConnected /\ (conn_state # None => peer[conn_state] = "gone"))

\* wait is not for ever at a connection whose frontend hung up (which is final) or that
\* somebody asked to shut down (the flag stays).
WaitReturns ==
    \A c \in Conns : []<> ~ (joined = c /\ (peer[c] = "gone" \/ flag[c]))
-------------------------------------------------------------------------------
(* The inductive invariant of ThreadsProofs. *)

\* A connection is in the backlog once, and nobody here knows of it yet.
BacklogInv ==
    /\ \A i, j \in DOMAIN backlog : backlog[i] = backlog[j] => i = j
    /\ \A i \in DOMAIN backlog :
          thread[backlog[i]] = "none" /\ sock[backlog[i]] = "open" /\ peer[backlog[i]] # "away"

\* Only connections that have begun have threads, and only those can be shut down.
StartedInv ==
    /\ \A c \in Conns : peer[c] = "away" => thread[c] = "none"
    /\ \A c \in handles : thread[c] # "none"
    /\ \A s \in Stoppers : stopping[s] # None => thread[stopping[s]] # "none" /\ flag[stopping[s]]
    /\ conn_state # None => thread[conn_state] # "none"

\* wait joins the thread of the connection whose flag it loads.
OwnerInv ==
    /\ main_thread # None => conn_state = main_thread
    /\ joined # None => conn_state = joined /\ main_thread = None
    /\ joined # None <=> owner = "joining"
    /\ owner = "stopping" => conn_state # None /\ flag[conn_state]

\* Until the daemon is dropped a socket is shut under its thread only by those who have set
\* the flag, and what the thread then ends with is no error to wait.
ShutInv ==
    owner # "dropped" => \A c \in Conns :
        /\ thread[c] = "running" /\ sock[c] = "shut" => flag[c]
        /\ c \in closedHere => /\ thread[c] \in {"closing", "ended"}
                              /\ \/ result[c] = "SocketBroken"
                                 \/ result[c] = "Other" /\ flag[c]

IInv == TypeOK /\ BacklogInv /\ StartedInv /\ OwnerInv /\ ShutInv /\ ShutdownIsSuccess
================================================================================
