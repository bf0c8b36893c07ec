---------------------------- MODULE BackendChannel ----------------------------
(***************************************************************************)
(* A socket on which a backend sends requests to its frontend: the backend *)
(* channel (Backend on one side, FrontendReqHandler on the other) or the   *)
(* GPU channel (GpuBackend; the other side is a display server outside     *)
(* this repository).  The two share no state, so a behaviour has one.      *)
(* Threads of the backend share clones of the proxy.  A method holds the   *)
(* mutex of BackendInternal from its checks to the answer, so that sending *)
(* is one step and receiving is another.                                   *)
(*                                                                         *)
(* Assumed of the application that owns the FrontendReqHandler: it         *)
(* negotiates before it passes the socket, tells the handler what it       *)
(* negotiated, and drops the handler when handle_request fails on a        *)
(* message that it does not ack.                                           *)
(***************************************************************************)
EXTENDS Integers, Sequences

CONSTANTS
    Threads,     \* threads of the backend
    ReqFiles,    \* bound: file descriptors that SET_BACKEND_REQ_FD and GPU_SET_SOCKET carry
    MaxPending   \* bound: requests in a socket at the same time

Flags == {"REPLY_ACK", "SHARED_OBJECT", "SHMEM"}

VARIABLES
    kind,      \* "req" or "gpu"
    acked,     \* VhostUserHandler.acked_protocol_features
    node,      \* BackendInternal
    handler,   \* FrontendReqHandler
    up,        \* is the frontend's end open?
    call,      \* what each thread waits for; it holds the mutex meanwhile
    requests,  \* requests in the socket
    replies,   \* answers in the socket
    returned   \* how the latest call ended

main == <<kind, acked>>
sockets == <<call, requests, replies, returned>>
vars == <<main, node, handler, up, sockets>>

Idle == "none"
Absent == [there |-> FALSE, flags |-> {}, failed |-> FALSE]

Init ==
    /\ kind \in {"req", "gpu"}
    /\ acked = {}
    /\ node = Absent
    /\ handler = [replyAck |-> FALSE, failed |-> FALSE]
    /\ up = TRUE
    /\ call = [t \in Threads |-> Idle]
    /\ requests = <<>>
    /\ replies = <<>>
    /\ returned = "none"
-------------------------------------------------------------------------------
(* Setting up *)

set_protocol_features(s) ==
    /\ kind = "req" /\ ~ node.there
    /\ acked' = s
    /\ UNCHANGED <<kind, node, handler, up, sockets>>

\* FrontendReqHandler::set_reply_ack_flag, before the socket is passed.
set_reply_ack_flag ==
    /\ kind = "req" /\ ~ node.there
    /\ handler' = [handler EXCEPT !.replyAck = "REPLY_ACK" \in acked]
    /\ UNCHANGED <<main, node, up, sockets>>

\* take_single_file, validate_unix_stream_socket_fd.
ValidSocket(files) ==
    /\ Len(files) = 1
    /\ files[1].domain = "AF_UNIX"
    /\ files[1].type = "SOCK_STREAM"

\* The flags VhostUserHandler::set_backend_req_fd copies to the new proxy.
ProxyFlags == acked

set_backend_req_fd(files) ==
    /\ ValidSocket(files)
    /\ kind = "req" /\ ~ node.there
    /\ handler.replyAck = ("REPLY_ACK" \in acked)
    /\ node' = [there |-> TRUE, flags |-> ProxyFlags, failed |-> FALSE]
    /\ UNCHANGED <<main, handler, up, sockets>>

set_gpu_socket(files) ==
    /\ ValidSocket(files)
    /\ kind = "gpu" /\ ~ node.there
    /\ node' = [there |-> TRUE, flags |-> {}, failed |-> FALSE]
    /\ UNCHANGED <<main, handler, up, sockets>>

\* Backend::set_failed and GpuBackend::set_failed, which nothing takes back.
set_failed ==
    /\ node.there
    /\ \A t \in Threads : call[t] = Idle
    /\ node' = [node EXCEPT !.failed = TRUE]
    /\ UNCHANGED <<main, handler, up, sockets>>

\* FrontendReqHandler::set_failed; 0 takes a failure back.
handler_set_failed(error) ==
    /\ kind = "req"
    /\ handler' = [handler EXCEPT !.failed = error # 0]
    /\ UNCHANGED <<main, node, up, sockets>>
-------------------------------------------------------------------------------
(* Sending *)

\* Mutant: the mutex is not held while a thread waits for its answer.
LockPerMessage(t) == call[t] = Idle

\* inner.lock(), node(): nobody else is between its request and its answer.
Lock(t) == \A u \in Threads : call[u] = Idle

\* check_state; send; wait for the answer or not.  A method that fails before it sends
\* changes nothing and is not a step.
Send(t, k, code, file, valid, need, waits) ==
    /\ kind = k
    /\ node.there /\ ~ node.failed
    /\ Lock(t)
    /\ up
    /\ Len(requests) < MaxPending
    /\ requests' = Append(requests,
           [by |-> t, code |-> code, need |-> need, file |-> file, valid |-> valid,
            awaited |-> waits])
    /\ call' = IF waits THEN [call EXCEPT ![t] = code] ELSE call
    /\ returned' = IF waits THEN returned ELSE "posted"
    /\ UNCHANGED <<main, node, handler, up, replies>>

Negotiated(flag) == flag \in node.flags

\* BackendInternal::send_message and wait_for_ack of the backend channel.
Request(t, flag, code, file, valid) ==
    /\ Negotiated(flag)
    /\ Send(t, "req", code, file, valid, Negotiated("REPLY_ACK"), Negotiated("REPLY_ACK"))

shared_object_add(t, valid) == Request(t, "SHARED_OBJECT", "SHARED_OBJECT_ADD", FALSE, valid)
shared_object_remove(t, valid) == Request(t, "SHARED_OBJECT", "SHARED_OBJECT_REMOVE", FALSE, valid)
shared_object_lookup(t, valid) == Request(t, "SHARED_OBJECT", "SHARED_OBJECT_LOOKUP", TRUE, valid)
shmem_map(t, valid) == Request(t, "SHMEM", "SHMEM_MAP", TRUE, valid)
shmem_unmap(t, valid) == Request(t, "SHMEM", "SHMEM_UNMAP", FALSE, valid)

\* send_header or send_message, and recv_reply, of the GPU channel.
Ask(t, code) == Send(t, "gpu", code, FALSE, TRUE, FALSE, TRUE)

\* send_message or send_message_with_payload alone.
Tell(t, code, file) == Send(t, "gpu", code, file, TRUE, FALSE, FALSE)

get_protocol_features(t) == Ask(t, "GET_PROTOCOL_FEATURES")
gpu_set_protocol_features(t) == Tell(t, "SET_PROTOCOL_FEATURES", FALSE)
get_display_info(t) == Ask(t, "GET_DISPLAY_INFO")
get_edid(t) == Ask(t, "GET_EDID")
set_scanout(t) == Tell(t, "SCANOUT", FALSE)
update_scanout(t) == Tell(t, "UPDATE", FALSE)
set_dmabuf_scanout(t, file) == Tell(t, "DMABUF_SCANOUT", file)
set_dmabuf_scanout2(t, file) == Tell(t, "DMABUF_SCANOUT2", file)

update_dmabuf_scanout(t) == Ask(t, "DMABUF_UPDATE")
cursor_pos(t) == Tell(t, "CURSOR_POS", FALSE)
cursor_pos_hide(t) == Tell(t, "CURSOR_POS_HIDE", FALSE)
cursor_update(t) == Tell(t, "CURSOR_UPDATE", FALSE)
-------------------------------------------------------------------------------
(* The frontend's side *)

\* check_attached_files: exactly these codes come with one file.
CheckAttachedFiles(m) == m.file = (m.code \in {"SHARED_OBJECT_LOOKUP", "SHMEM_MAP"})

\* extract_msg_body: the only thing that can be wrong with a body of this Backend.
ExtractMsgBody(m) == m.valid

\* send_ack_message: is there an ack?
Acks(m) == handler.replyAck /\ m.need

\* Mutant: a request whose handler fails is not acked.
SendAckOnSuccess(m, res) ==
    replies' = IF Acks(m) /\ res = "ok"
               THEN Append(replies, [by |-> m.by, code |-> m.code, out |-> res])
               ELSE replies

\* send_ack_message.
SendAckMessage(m, res) ==
    replies' = IF Acks(m)
               THEN Append(replies, [by |-> m.by, code |-> m.code, out |-> res])
               ELSE replies

\* handle_request.  A handler that returns Ok(0) gives "ok"; Ok of another value and Err give
\* "err", by wait_for_ack.  The application may drop the handler when it gets an error back.
handle_request ==
    /\ kind = "req"
    /\ up /\ ~ handler.failed
    /\ requests # <<>>
    /\ LET m == Head(requests)
       IN  \/ /\ CheckAttachedFiles(m) /\ ExtractMsgBody(m)
              /\ \E res \in {"ok", "err"} :
                     /\ SendAckMessage(m, res)
                     /\ up' \in {up} \cup IF res = "err" THEN {FALSE} ELSE {}
           \/ /\ ~ (CheckAttachedFiles(m) /\ ExtractMsgBody(m))
              /\ up' = FALSE
              /\ UNCHANGED replies
    /\ requests' = Tail(requests)
    /\ UNCHANGED <<main, node, handler, call, returned>>

\* handle_request of a failed handler: the application drops it, and what it was called
\* for goes with the socket.
DropHandler ==
    /\ kind = "req"
    /\ up /\ handler.failed
    /\ requests # <<>>
    /\ requests' = Tail(requests)
    /\ up' = FALSE
    /\ UNCHANGED <<main, node, handler, call, replies, returned>>

\* The requests that the display server answers.
Questions == {"GET_PROTOCOL_FEATURES", "GET_DISPLAY_INFO", "GET_EDID", "DMABUF_UPDATE"}

\* The display server answers these, or closes its end.
DisplayServer ==
    /\ kind = "gpu"
    /\ up /\ requests # <<>>
    /\ requests' = Tail(requests)
    /\ LET m == Head(requests)
       IN  \/ /\ replies' = IF m.code \in Questions
                            THEN Append(replies, [by |-> m.by, code |-> m.code, out |-> "ok"])
                            ELSE replies
              /\ UNCHANGED up
           \/ up' = FALSE /\ UNCHANGED replies
    /\ UNCHANGED <<main, node, handler, call, returned>>
-------------------------------------------------------------------------------
(* Receiving *)

\* wait_for_ack and recv_reply: the oldest answer, which must be for this request
\* (is_reply_for), or "err".
Receive(t) ==
    /\ call[t] # Idle
    /\ replies # <<>>
    /\ returned' = IF Head(replies).code = call[t] THEN Head(replies).out ELSE "err"
    /\ replies' = Tail(replies)
    /\ call' = [call EXCEPT ![t] = Idle]
    /\ UNCHANGED <<main, node, handler, up, requests>>

\* recv_body: Disconnected.
ReceiveEnd(t) ==
    /\ call[t] # Idle
    /\ replies = <<>> /\ ~ up
    /\ returned' = "broken"
    /\ call' = [call EXCEPT ![t] = Idle]
    /\ UNCHANGED <<main, node, handler, up, requests, replies>>
-------------------------------------------------------------------------------
Proxy(t) ==
    \/ \E valid \in BOOLEAN :
          \/ shared_object_add(t, valid) \/ shared_object_remove(t, valid)
          \/ shared_object_lookup(t, valid) \/ shmem_map(t, valid) \/ shmem_unmap(t, valid)
    \/ get_protocol_features(t) \/ gpu_set_protocol_features(t) \/ get_display_info(t)
    \/ get_edid(t) \/ set_scanout(t) \/ update_scanout(t) \/ update_dmabuf_scanout(t)
    \/ \E file \in BOOLEAN : set_dmabuf_scanout(t, file) \/ set_dmabuf_scanout2(t, file)
    \/ cursor_pos(t) \/ cursor_pos_hide(t) \/ cursor_update(t)
    \/ Receive(t) \/ ReceiveEnd(t)

Next ==
    \/ \E s \in SUBSET Flags : set_protocol_features(s)
    \/ set_reply_ack_flag
    \/ \E files \in ReqFiles : set_backend_req_fd(files) \/ set_gpu_socket(files)
    \/ set_failed
    \/ \E error \in {0, 1} : handler_set_failed(error)
    \/ \E t \in Threads : Proxy(t)
    \/ handle_request \/ DropHandler \/ DisplayServer

Spec == Init /\ [][Next]_vars

\* The frontend serves its sockets and a thread that waits gets to read what is there.
Fairness ==
    /\ WF_vars(handle_request \/ DropHandler)
    /\ WF_vars(DisplayServer)
    /\ \A t \in Threads : WF_vars(Receive(t) \/ ReceiveEnd(t))

FairSpec == Spec /\ Fairness
-------------------------------------------------------------------------------
Codes == {"SHARED_OBJECT_ADD", "SHARED_OBJECT_REMOVE", "SHARED_OBJECT_LOOKUP", "SHMEM_MAP",
          "SHMEM_UNMAP", "GET_PROTOCOL_FEATURES", "SET_PROTOCOL_FEATURES", "GET_DISPLAY_INFO",
          "GET_EDID", "SCANOUT", "UPDATE", "DMABUF_SCANOUT", "DMABUF_SCANOUT2", "DMABUF_UPDATE",
          "CURSOR_POS", "CURSOR_POS_HIDE", "CURSOR_UPDATE"}

\* Types of both proxies and of the sockets.
TypeOK ==
    /\ kind \in {"req", "gpu"}
    /\ acked \subseteq Flags
    /\ node \in [there : BOOLEAN, flags : SUBSET Flags, failed : BOOLEAN]
    /\ handler \in [replyAck : BOOLEAN, failed : BOOLEAN]
    /\ up \in BOOLEAN
    /\ call \in [Threads -> {Idle} \cup Codes]
    /\ requests \in Seq([by : Threads, code : Codes, need : BOOLEAN, file : BOOLEAN,
                         valid : BOOLEAN, awaited : BOOLEAN])
    /\ replies \in Seq([by : Threads, code : Codes, out : {"ok", "err"}])
    /\ returned \in {"none", "posted", "ok", "err", "broken"}

\* Will the other side answer m?
Answered(m) ==
    IF kind = "req" THEN Acks(m) ELSE m.code \in Questions

\* The inductive invariant: both ends agree on REPLY_ACK, so that exactly the requests that
\* are waited for get an answer; one thread waits at a time, its request is the last in the
\* socket as long as the other side may serve it, and the only answer is for it.
ChannelInv ==
    /\ kind = "req" /\ node.there => (handler.replyAck <=> "REPLY_ACK" \in node.flags)
    /\ \A t, u \in Threads : call[t] # Idle /\ call[u] # Idle => t = u
    /\ requests # <<>> => node.there
    /\ \A i \in DOMAIN requests :
          /\ requests[i].awaited <=> Answered(requests[i])
          /\ up /\ requests[i].awaited =>
                /\ i = Len(requests)
                /\ call[requests[i].by] = requests[i].code
                /\ replies = <<>>
    /\ Len(replies) <= 1
    /\ \A i \in DOMAIN replies : call[replies[i].by] = replies[i].code

Mailbox == [t \in Threads |->
    IF \E i \in DOMAIN replies : replies[i].by = t
    THEN replies[CHOOSE i \in DOMAIN replies : replies[i].by = t].out
    ELSE "none"]

Channel == INSTANCE Rpc WITH
    queue <- [i \in DOMAIN requests |-> [by |-> requests[i].by, sync |-> requests[i].awaited]],
    waiting <- {t \in Threads : call[t] # Idle},
    mailbox <- Mailbox

\* A channel implements one mailbox per thread: a thread that waits in wait_for_ack or
\* recv_reply gets the outcome of its own request, and the frontend answers exactly the
\* requests whose senders wait.
ChannelImplementsRpc == Channel!Spec

\* Every method call on a Backend or a GpuBackend returns.
ChannelCallsReturn == Channel!EveryCallReturns
===============================================================================
