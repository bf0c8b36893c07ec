------------------------------- MODULE Rendezvous -------------------------------
(***************************************************************************)
(* How frontends and listeners find each other through a socket file:      *)
(* Listener::new, accept and drop on one side, Frontend::connect on the    *)
(* other.  Several listeners may use the path one after the other or at    *)
(* the same time, and a process may die and leave the file behind.  There  *)
(* are fewer frontends than the backlog of a listener has places: a full   *)
(* one would make connect wait for an accept.                              *)
(***************************************************************************)
EXTENDS Integers

CONSTANTS
    Listeners,   \* listeners made for the path
    Clients,     \* frontends that connect
    Retries      \* retry_count of Frontend::connect

VARIABLES
    file,        \* whose socket the path names, or "absent"
    listener,    \* "none", "unlinked", "bound", "listening", "dropping" or "dead"
    client,      \* "idle", "trying", "queued", "accepted", "reset" or "failed"
    queue,       \* for each client, the listener it is connected to
    retry_count

vars == <<file, listener, client, queue, retry_count>>

Init ==
    /\ file = "absent"
    /\ listener = [l \in Listeners |-> "none"]
    /\ client = [c \in Clients |-> "idle"]
    /\ queue = [c \in Clients |-> "absent"]
    /\ retry_count = [c \in Clients |-> Retries]

\* Listener::new with unlink: remove_file, whoever's socket it is.
RemoveFile(l) ==
    /\ listener[l] = "none"
    /\ file' = "absent"
    /\ listener' = [listener EXCEPT ![l] = "unlinked"]
    /\ UNCHANGED <<client, queue, retry_count>>

\* UnixListener::bind: bind, which fails if there is a file.
Bind(l) ==
    /\ listener[l] \in {"none", "unlinked"}
    /\ IF file = "absent"
       THEN file' = l /\ listener' = [listener EXCEPT ![l] = "bound"]
       ELSE file' = file /\ listener' = [listener EXCEPT ![l] = "dead"]
    /\ UNCHANGED <<client, queue, retry_count>>

\* UnixListener::bind, the second half: listen.  Until then the socket refuses connections.
Listen(l) ==
    /\ listener[l] = "bound"
    /\ listener' = [listener EXCEPT ![l] = "listening"]
    /\ UNCHANGED <<file, client, queue, retry_count>>

\* Listener::accept and BackendListener::accept.
Accept(l, c) ==
    /\ listener[l] = "listening" /\ client[c] = "queued" /\ queue[c] = l
    /\ client' = [client EXCEPT ![c] = "accepted"]
    /\ UNCHANGED <<file, listener, queue, retry_count>>

\* A listening socket goes, and with it the connections nobody accepted.
Close(l) ==
    /\ listener' = [listener EXCEPT ![l] = "dead"]
    /\ client' = [c \in Clients |-> IF client[c] = "queued" /\ queue[c] = l THEN "reset"
                                                                            ELSE client[c]]

\* Drop for Listener: remove_file, whoever's socket it is, and then the descriptor is closed.
Drop(l) ==
    /\ \/ /\ listener[l] = "listening"
          /\ file' = "absent"
          /\ listener' = [listener EXCEPT ![l] = "dropping"]
          /\ client' = client
       \/ listener[l] = "dropping" /\ Close(l) /\ file' = file
    /\ UNCHANGED <<queue, retry_count>>

\* The process of a listener dies.
Crash(l) ==
    /\ listener[l] \in {"bound", "listening"}
    /\ Close(l)
    /\ UNCHANGED <<file, queue, retry_count>>

BeginConnect(c) ==
    /\ client[c] = "idle"
    /\ client' = [client EXCEPT ![c] = "trying"]
    /\ UNCHANGED <<file, listener, queue, retry_count>>

\* Does somebody listen on the file's socket?
Reachable == file # "absent" /\ listener[file] \in {"listening", "dropping"}

\* Mutant: the count is not changed.
RefusedForEver(c) == file # "absent" /\ ~ Reachable /\ UNCHANGED <<client, retry_count>>

\* ConnectionRefused: again after a while, as long as retry_count lasts.
Refused(c) ==
    /\ file # "absent" /\ ~ Reachable
    /\ IF retry_count[c] > 0
       THEN retry_count' = [retry_count EXCEPT ![c] = @ - 1] /\ client' = client
       ELSE retry_count' = retry_count /\ client' = [client EXCEPT ![c] = "failed"]

\* One attempt of Frontend::connect.
Attempt(c) ==
    /\ client[c] = "trying"
    /\ \/ /\ Reachable
          /\ client' = [client EXCEPT ![c] = "queued"]
          /\ queue' = [queue EXCEPT ![c] = file]
          /\ retry_count' = retry_count
       \/ /\ file = "absent"
          /\ client' = [client EXCEPT ![c] = "failed"]
          /\ UNCHANGED <<queue, retry_count>>
       \/ Refused(c) /\ queue' = queue
    /\ UNCHANGED <<file, listener>>

Next ==
    \/ \E l \in Listeners : \/ RemoveFile(l) \/ Bind(l) \/ Listen(l) \/ Drop(l) \/ Crash(l)
                            \/ \E c \in Clients : Accept(l, c)
    \/ \E c \in Clients : BeginConnect(c) \/ Attempt(c)

Spec == Init /\ [][Next]_vars

\* A frontend that is connecting goes on, and a drop that has begun is completed.
Fairness ==
    /\ \A c \in Clients : WF_vars(Attempt(c))
    /\ \A l \in Listeners : WF_vars(listener[l] = "dropping" /\ Drop(l))

FairSpec == Spec /\ Fairness
-------------------------------------------------------------------------------
\* Types of the state.
TypeOK ==
    /\ file \in Listeners \cup {"absent"}
    /\ listener \in [Listeners -> {"none", "unlinked", "bound", "listening", "dropping",
                                "dead"}]
    /\ client \in [Clients -> {"idle", "trying", "queued", "accepted", "reset", "failed"}]
    /\ queue \in [Clients -> Listeners \cup {"absent"}]
    /\ retry_count \in [Clients -> 0 .. Retries]

\* Frontend::connect returns, whatever happens to the file and to the listeners.
ConnectReturns == \A c \in Clients : []<>(client[c] # "trying")
================================================================================
