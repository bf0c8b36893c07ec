------------------------------ MODULE DaemonPart ------------------------------
(***************************************************************************)
(* The life cycle of the daemon (Daemon) as a part of the components of    *)
(* the vhost-user-backend crate, and what is promised of it.               *)
(***************************************************************************)
CONSTANTS Conns, Stoppers, MaxInbox

VARIABLES
    listening, backlog, peer, inbox, sock, flag, thread, result, owner, serving, main_thread,
    conn_state, joined, handles, stopping, poisoned, exitSent, closedHere, blamed
-------------------------------------------------------------------------------
D == INSTANCE Daemon

ASSUME DaemonAssumption == D!Numbered

daemonVars == <<listening, backlog, peer, inbox, sock, flag, thread, result, owner, serving,
                main_thread, conn_state, joined, handles, stopping, poisoned, exitSent,
                closedHere, blamed>>
-------------------------------------------------------------------------------
\* A connection that ended by our own shutdown is no error of VhostUserDaemon::wait.
ShutdownIsSuccess == D!ShutdownIsSuccess

\* The thread of a connection does not end without closing the connection.
EndedMeansShut == D!EndedMeansShut

\* Once the frontend has hung up, VhostUserDaemon::serve signals the workers.
ServeSignalsWorkers == D!ServeSignalsWorkers

\* VhostUserDaemon::wait returns once the connection is shut down or the frontend has gone.
WaitReturns == D!WaitReturns
===============================================================================
