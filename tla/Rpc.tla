---------------------------------- MODULE Rpc ----------------------------------
(***************************************************************************)
(* What a vhost-user connection promises to the threads that share its     *)
(* frontend: every thread has a mailbox of its own.  Requests are served   *)
(* in the order in which they were sent and once each, and a thread that   *)
(* waits gets the outcome of its own request and nobody else's.            *)
(***************************************************************************)
EXTENDS Sequences

CONSTANT Threads

VARIABLES
    queue,      \* requests sent and not served
    waiting,    \* the threads in a call that waits for an answer
    mailbox,    \* the outcome of a thread's request, once it was served
    up,         \* is the connection still there?
    returned    \* how the latest call ended

vars == <<queue, waiting, mailbox, up, returned>>

Init ==
    /\ queue = <<>>
    /\ waiting = {}
    /\ mailbox = [t \in Threads |-> "none"]
    /\ up = TRUE
    /\ returned = "none"

\* A thread sends a request, and waits for the answer or does not.
Send(t, sync) ==
    /\ t \notin waiting
    /\ queue' = Append(queue, [by |-> t, sync |-> sync])
    /\ waiting' = IF sync THEN waiting \cup {t} ELSE waiting
    /\ returned' = IF sync THEN returned ELSE "posted"
    /\ UNCHANGED <<mailbox, up>>

\* The other side serves the oldest request, with an answer if somebody waits for one.  A
\* request that fails may end the connection, with or without an answer.
Serve ==
    /\ up
    /\ queue # <<>>
    /\ queue' = Tail(queue)
    /\ LET m == Head(queue)
       IN  \/ up' /\ IF m.sync THEN \E o \in {"ok", "err"} : mailbox' = [mailbox EXCEPT ![m.by] = o]
                               ELSE UNCHANGED mailbox
           \/ ~ up' /\ mailbox' \in {mailbox} \cup
                           IF m.sync THEN {[mailbox EXCEPT ![m.by] = "err"]} ELSE {}
    /\ UNCHANGED <<waiting, returned>>

\* A call ends with the outcome of its own request, or because the connection is gone.
Return(t) ==
    /\ t \in waiting
    /\ waiting' = waiting \ {t}
    /\ mailbox' = [mailbox EXCEPT ![t] = "none"]
    /\ \/ mailbox[t] # "none" /\ returned' = mailbox[t]
       \/ ~ up /\ returned' = "broken"
    /\ UNCHANGED <<queue, up>>

Next ==
    \/ \E t \in Threads, sync \in BOOLEAN : Send(t, sync)
    \/ Serve
    \/ \E t \in Threads : Return(t)

Spec == Init /\ [][Next]_vars

\* Every call that waits for an answer returns.
EveryCallReturns == \A t \in Threads : []<>(t \notin waiting)
================================================================================
