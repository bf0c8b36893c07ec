-------------------------------- MODULE Session --------------------------------
(***************************************************************************)
(* A vhost-user connection: the threads that share a Frontend, the two     *)
(* directions of the Unix socket, and the BackendReqHandler of the other   *)
(* side.  A frontend operation has the name of its method (set_owner), the *)
(* arm of handle_request that serves it the name of the message            *)
(* (SET_OWNER).                                                            *)
(*                                                                         *)
(* A method holds the mutex of FrontendInternal from its checks to the     *)
(* answer, so that sending is one step and receiving is another.  A method *)
(* that fails before it sends changes nothing and is not a step.  Each     *)
(* side decides by itself whether a request is answered: the frontend in   *)
(* wait_for_ack, the backend in send_ack_message.                          *)
(***************************************************************************)
EXTENDS Integers, Sequences, FiniteSets

CONSTANTS
    Threads,        \* threads that share the Frontend
    DeviceFeatures, \* backend.get_features(), of which only PROTOCOL_FEATURES matters
    FeatureChoices, \* the sets of features a caller may pass to set_features
    ProtoChoices,   \* the sets of protocol features a frontend may ack
    MaxQueueNum,    \* max_queue_num given to Frontend::from_stream
    QueueNum,       \* backend.get_queue_num()
    MaxVrings,      \* VHOST_USER_MAX_VRINGS
    FdBit,          \* 0x100: index below it, and the flag for "no descriptor"
    Indices,        \* queue indices that callers use
    ConfigFails,    \* may the device refuse GET_CONFIG?
    MaxPending,     \* bound: requests in the socket at the same time
    Pipelined       \* bound: requests that others are sent behind before they are served

PF == "PROTOCOL_FEATURES"

VARIABLES
    fe,          \* FrontendInternal
    be,          \* BackendReqHandler
    call,        \* what each thread waits for; it holds the mutex meanwhile
    toBackend,   \* requests in the socket
    toFrontend,  \* answers in the socket
    conn,        \* "up", "failing" (handle_request returned an error) or "down"
    returned,    \* how the latest call ended
    refused,     \* history: requests the backend refused without asking the device
    misrouted    \* history: eventfds installed for another ring than the caller's

vars == <<fe, be, call, toBackend, toFrontend, conn, returned, refused, misrouted>>

ProtoFeatures == UNION ProtoChoices

Idle == [code |-> "none", await |-> "none"]

\* FrontendInternal as Frontend::new makes it.
FrontendNew == [features |-> {}, acked |-> {}, proto |-> {}, maxQueueNum |-> MaxQueueNum,
                needReply |-> FALSE]

\* BackendReqHandler::new.
BackendNew == [features |-> {}, acked |-> {}, proto |-> {}, replyAck |-> FALSE]

Init ==
    /\ fe = FrontendNew
    /\ be = BackendNew
    /\ call = [t \in Threads |-> Idle]
    /\ toBackend = <<>> /\ toFrontend = <<>>
    /\ conn = "up"
    /\ returned = "none"
    /\ refused = {}
    /\ misrouted = {}
-------------------------------------------------------------------------------
(* Frontend: sending *)

\* Mutant: the mutex is not held while a thread waits for its answer.
NodeUnlocked(t) == call[t] = Idle

\* node(): nobody else is between its request and its answer.
Node(t) == \A u \in Threads : call[u] = Idle

\* Mutant: waits whenever it asked for a reply.
WaitForAckUnnegotiated(f, need) == IF need THEN "ack" ELSE "none"

\* wait_for_ack: does the caller wait?
WaitForAck(f, need) == IF "REPLY_ACK" \in f.proto /\ need THEN "ack" ELSE "none"

\* The send_request_* methods, and what the caller waits for then.  f is the frontend
\* after the method's own assignments, which follow the sending.
SendRequest(t, code, arg, file, f, await) ==
    /\ Node(t)
    /\ conn # "down"
    /\ Len(toBackend) < MaxPending
    /\ \A i \in DOMAIN toBackend : toBackend[i].code \in Pipelined
    /\ toBackend' = Append(toBackend, [by |-> t, code |-> code, need |-> fe.needReply,
                                       num |-> arg.num, feats |-> arg.feats, valid |-> arg.valid,
                                       file |-> file, awaited |-> await # "none"])
    /\ fe' = f
    /\ call' = IF await = "none" THEN call
                                 ELSE [call EXCEPT ![t] = [code |-> code, await |-> await]]
    /\ returned' = IF await = "none" THEN "posted" ELSE returned
    /\ UNCHANGED <<be, toFrontend, conn, refused, misrouted>>

\* The body of a message: a number or a set of features, and whether is_valid of the type that
\* the backend reads it as lets it through, where the methods of the frontend do not see to it.
NoArg == [num |-> 0, feats |-> {}, valid |-> TRUE]
Num(n) == [num |-> n, feats |-> {}, valid |-> TRUE]
Feats(s) == [num |-> 0, feats |-> s, valid |-> TRUE]
Checked(arg, valid) == [arg EXCEPT !.valid = valid]

\* A request that is acked, with or without an attached descriptor.
Post(t, code, arg, file) == SendRequest(t, code, arg, file, fe, WaitForAck(fe, fe.needReply))

\* A request that is always answered, in one of the shapes of the recv_reply methods.
Ask(t, code, arg, file, shape) == SendRequest(t, code, arg, file, fe, shape)

CheckFeature(f) == f \in fe.features
CheckProto(f) == f \in fe.proto
CheckIndex(i) == i < fe.maxQueueNum

\* send_fd_for_vring: the index is sent as it is, always with a descriptor.
SendFdForVring(t, code, i) == CheckIndex(i) /\ Post(t, code, Num(i), TRUE)

set_hdr_flags(need) ==
    /\ \A u \in Threads : call[u] = Idle
    /\ fe' = [fe EXCEPT !.needReply = need]
    /\ UNCHANGED <<be, call, toBackend, toFrontend, conn, returned, refused, misrouted>>

get_features(t) == Ask(t, "GET_FEATURES", NoArg, FALSE, "body")

\* Mutant: keeps bits that the backend did not offer.
set_features_unmasked(t, s) ==
    LET f == [fe EXCEPT !.acked = s]
    IN  SendRequest(t, "SET_FEATURES", Feats(s), FALSE, f, WaitForAck(f, fe.needReply))

set_features(t, s) ==
    LET f == [fe EXCEPT !.acked = s \cap fe.features]
    IN  SendRequest(t, "SET_FEATURES", Feats(s), FALSE, f, WaitForAck(f, fe.needReply))

set_owner(t) == Post(t, "SET_OWNER", NoArg, FALSE)
reset_owner(t) == Post(t, "RESET_OWNER", NoArg, FALSE)
set_mem_table(t) == Post(t, "SET_MEM_TABLE", NoArg, TRUE)

\* With a log region and LOG_SHMFD the answer is awaited, otherwise only an address is sent.
\* Whether the region has a size and an end is not looked at.
set_log_base(t, region, sized) ==
    IF region /\ CheckProto("LOG_SHMFD")
    THEN Ask(t, "SET_LOG_BASE", Checked(NoArg, sized), TRUE, "body")
    ELSE Ask(t, "SET_LOG_BASE", NoArg, FALSE, "none")

set_log_fd(t) == Post(t, "SET_LOG_FD", NoArg, TRUE)
set_vring_num(t, i) == CheckIndex(i) /\ Post(t, "SET_VRING_NUM", Num(i), FALSE)

\* The flags are looked at, the alignment of the three addresses is not.
set_vring_addr(t, i, aligned) ==
    CheckIndex(i) /\ Post(t, "SET_VRING_ADDR", Checked(Num(i), aligned), FALSE)

set_vring_base(t, i) == CheckIndex(i) /\ Post(t, "SET_VRING_BASE", Num(i), FALSE)
get_vring_base(t, i) == CheckIndex(i) /\ Ask(t, "GET_VRING_BASE", Num(i), FALSE, "body")
set_vring_call(t, i) == CheckIndex(i) /\ SendFdForVring(t, "SET_VRING_CALL", i)
set_vring_kick(t, i) == CheckIndex(i) /\ SendFdForVring(t, "SET_VRING_KICK", i)
set_vring_err(t, i) == CheckIndex(i) /\ SendFdForVring(t, "SET_VRING_ERR", i)

get_protocol_features(t) ==
    CheckFeature(PF) /\ Ask(t, "GET_PROTOCOL_FEATURES", NoArg, FALSE, "body")

set_protocol_features(t, s) ==
    LET f == [fe EXCEPT !.proto = s]
    IN  /\ CheckFeature(PF)
        /\ SendRequest(t, "SET_PROTOCOL_FEATURES", Feats(s), FALSE, f,
                       WaitForAck(f, fe.needReply))

get_queue_num(t) == CheckProto("MQ") /\ Ask(t, "GET_QUEUE_NUM", NoArg, FALSE, "body")
reset_device(t) == CheckProto("RESET_DEVICE") /\ Post(t, "RESET_DEVICE", NoArg, FALSE)

\* Mutant: goes by what the backend offered.
set_vring_enable_offered(t, i) ==
    PF \in fe.features /\ CheckIndex(i) /\ Post(t, "SET_VRING_ENABLE", Num(i), FALSE)

set_vring_enable(t, i) ==
    PF \in fe.acked /\ CheckIndex(i) /\ Post(t, "SET_VRING_ENABLE", Num(i), FALSE)

\* The buffer that is sent along need not have the size that is asked for.
get_config(t, fits) ==
    CheckProto("CONFIG") /\ Ask(t, "GET_CONFIG", Checked(NoArg, fits), FALSE, "payload")

set_config(t) == CheckProto("CONFIG") /\ Post(t, "SET_CONFIG", NoArg, FALSE)
set_backend_request_fd(t) ==
    CheckProto("BACKEND_REQ") /\ Post(t, "SET_BACKEND_REQ_FD", NoArg, TRUE)
get_shared_object(t) ==
    CheckProto("SHARED_OBJECT") /\ Ask(t, "GET_SHARED_OBJECT", NoArg, FALSE, "file")

\* The numbers of queues and of descriptors may be zero, which set_inflight_fd refuses.
get_inflight_fd(t, counts) ==
    /\ CheckProto("INFLIGHT_SHMFD")
    /\ Ask(t, "GET_INFLIGHT_FD", Checked(NoArg, counts), FALSE, "file")
set_inflight_fd(t) ==
    CheckProto("INFLIGHT_SHMFD") /\ Post(t, "SET_INFLIGHT_FD", NoArg, TRUE)
get_max_mem_slots(t) ==
    CheckProto("CONFIGURE_MEM_SLOTS") /\ Ask(t, "GET_MAX_MEM_SLOTS", NoArg, FALSE, "body")
add_mem_region(t) ==
    CheckProto("CONFIGURE_MEM_SLOTS") /\ Post(t, "ADD_MEM_REG", NoArg, TRUE)
remove_mem_region(t) ==
    CheckProto("CONFIGURE_MEM_SLOTS") /\ Post(t, "REM_MEM_REG", NoArg, FALSE)
get_shmem_config(t) ==
    CheckProto("SHMEM") /\ Ask(t, "GET_SHMEM_CONFIG", NoArg, FALSE, "body")
set_device_state_fd(t) ==
    CheckProto("DEVICE_STATE") /\ Ask(t, "SET_DEVICE_STATE_FD", NoArg, TRUE, "optfile")
check_device_state(t) ==
    CheckProto("DEVICE_STATE") /\ Ask(t, "CHECK_DEVICE_STATE", NoArg, FALSE, "body")
postcopy_advise(t) ==
    CheckProto("PAGEFAULT") /\ Ask(t, "POSTCOPY_ADVISE", NoArg, FALSE, "file")
postcopy_listen(t) == CheckProto("PAGEFAULT") /\ Post(t, "POSTCOPY_LISTEN", NoArg, FALSE)
postcopy_end(t) == CheckProto("PAGEFAULT") /\ Post(t, "POSTCOPY_END", NoArg, FALSE)
-------------------------------------------------------------------------------
(* Frontend: receiving *)

\* recv_reply, recv_reply_with_files, recv_reply_with_optional_files, recv_reply_with_payload
\* and the end of wait_for_ack: an answer to another request or with a descriptor nobody
\* expects is an error, and so is one without the descriptor that is expected.
Accepts(c, r) ==
    /\ r.code = c.code
    /\ r.file => c.await \in {"file", "optfile"}
    /\ c.await = "file" => r.file

\* get_queue_num: more rings than there can be are an error.
Learns(c, r) == c.code = "GET_QUEUE_NUM" => r.num <= MaxVrings

\* What a method keeps of its answer.
Remember(c, r) ==
    CASE c.code = "GET_FEATURES"  -> [fe EXCEPT !.features = r.feats]
      [] c.code = "GET_QUEUE_NUM" -> [fe EXCEPT !.maxQueueNum = r.num]
      [] OTHER                    -> fe

EndCall(t, result) ==
    /\ call' = [call EXCEPT ![t] = Idle]
    /\ returned' = result
    /\ UNCHANGED <<be, toBackend, conn, refused, misrouted>>

\* recv_body, recv_payload_into_buf: the latter also waits for the bytes of the payload.
Arrived(t) ==
    /\ call[t] # Idle
    /\ toFrontend # <<>>
    /\ call[t].await = "payload" => Head(toFrontend).payload

Receive(t) ==
    /\ Arrived(t)
    /\ toFrontend' = Tail(toFrontend)
    /\ LET r == Head(toFrontend)
           good == Accepts(call[t], r) /\ Learns(call[t], r)
       IN  /\ fe' = IF good THEN Remember(call[t], r) ELSE fe
           /\ EndCall(t, IF good THEN r.out ELSE "err")

\* The socket ends before the answer is complete.
ReceiveEnd(t) ==
    /\ call[t] # Idle
    /\ ~ Arrived(t)
    /\ conn = "down"
    /\ toFrontend' = <<>>
    /\ fe' = fe
    /\ EndCall(t, "broken")
-------------------------------------------------------------------------------
(* Backend: handle_request *)

Outcomes == {"ok", "err"}

\* update_reply_ack_flag.
UpdateReplyAckFlag(b) ==
    [b EXCEPT !.replyAck = PF \in b.features /\ "REPLY_ACK" \in b.proto]

\* An answer to m: its outcome, data, descriptor and payload.
Answer(m, out, arg, file, payload) ==
    [by |-> m.by, code |-> m.code, out |-> out, num |-> arg.num, feats |-> arg.feats,
     file |-> file, payload |-> payload]

\* send_reply_message, send_reply_with_payload.
SendReply(m, out, arg, file, payload) ==
    toFrontend' = Append(toFrontend, Answer(m, out, arg, file, payload))

\* An error leaves handle_request, and the loop around it, without an answer.
Fail == conn' = "failing" /\ UNCHANGED <<be, toFrontend>>

\* check_proto_feature, check_feature, check_attached_files, the last arm.
Refuse(m) == Fail /\ refused' = refused \cup {m.code} /\ misrouted' = misrouted

\* extract_request_body, get_config and handle_vring_fd_request find something wrong with the
\* body.
Invalid == Fail /\ UNCHANGED <<refused, misrouted>>

\* Takes the arm if the body is valid.
IfValid(m, Arm) == IF m.valid THEN Arm ELSE Invalid

\* send_ack_message: the device's error is passed on after the ack.
SendAckMessage(m, out, b) ==
    /\ IF b.replyAck /\ m.need THEN SendReply(m, out, NoArg, FALSE, FALSE)
                               ELSE UNCHANGED toFrontend
    /\ conn' = IF out = "ok" THEN conn ELSE "failing"

\* The device is called, and its result acked.  b is the handler's new state, which it
\* takes on whatever the result.
CallAndAck(m, b) ==
    /\ be' = b
    /\ \E out \in Outcomes : SendAckMessage(m, out, b)
    /\ UNCHANGED <<refused, misrouted>>

\* The device is called, and its data sent if it succeeds.
CallAndReply(m, arg, file, b) ==
    /\ \/ SendReply(m, "ok", arg, file, FALSE) /\ be' = b /\ conn' = conn
       \/ Fail
    /\ UNCHANGED <<refused, misrouted>>

\* The device is called, and an answer sent in any case: one of the given forms.
CallAndTell(m, forms) ==
    /\ \E a \in forms : SendReply(m, a.out, NoArg, a.file, a.payload)
    /\ UNCHANGED <<be, conn, refused, misrouted>>

Form(out, file, payload) == [out |-> out, file |-> file, payload |-> payload]

\* msg.value as u8.
VringIndex(v) == v % FdBit

\* handle_vring_fd_request: the bit of the flag has to say whether there is a descriptor.  Then
\* the device is called with the lower bits of the value.
CallWithVringFd(m) ==
    IF (m.num \div FdBit) % 2 = (IF m.file THEN 1 ELSE 0) THEN Invalid
    ELSE /\ be' = be
         /\ misrouted' = misrouted \cup ({<<m.num, VringIndex(m.num)>>} \ {<<m.num, m.num>>})
         /\ \E out \in Outcomes : SendAckMessage(m, out, be)
         /\ refused' = refused

\* Takes the arm if the feature was negotiated.
IfProto(feature, m, Arm) == IF feature \in be.proto THEN Arm ELSE Refuse(m)

SET_OWNER(m) == m.code = "SET_OWNER" /\ CallAndAck(m, be)
RESET_OWNER(m) == m.code = "RESET_OWNER" /\ CallAndAck(m, be)
RESET_DEVICE(m) ==
    m.code = "RESET_DEVICE" /\ IfProto("RESET_DEVICE", m, CallAndAck(m, be))
GET_FEATURES(m) ==
    /\ m.code = "GET_FEATURES"
    /\ CallAndReply(m, Feats(DeviceFeatures), FALSE,
                    UpdateReplyAckFlag([be EXCEPT !.features = DeviceFeatures]))
SET_FEATURES(m) ==
    /\ m.code = "SET_FEATURES"
    /\ CallAndAck(m, UpdateReplyAckFlag([be EXCEPT !.acked = m.feats]))
SET_MEM_TABLE(m) == m.code = "SET_MEM_TABLE" /\ CallAndAck(m, be)
SET_VRING_NUM(m) == m.code = "SET_VRING_NUM" /\ CallAndAck(m, be)
SET_VRING_ADDR(m) == m.code = "SET_VRING_ADDR" /\ IfValid(m, CallAndAck(m, be))
SET_VRING_BASE(m) == m.code = "SET_VRING_BASE" /\ CallAndAck(m, be)
GET_VRING_BASE(m) == m.code = "GET_VRING_BASE" /\ CallAndReply(m, NoArg, FALSE, be)
SET_VRING_FD(m) ==
    m.code \in {"SET_VRING_CALL", "SET_VRING_KICK", "SET_VRING_ERR"} /\ CallWithVringFd(m)
GET_PROTOCOL_FEATURES(m) ==
    m.code = "GET_PROTOCOL_FEATURES"
        /\ CallAndReply(m, Feats(ProtoFeatures \cup {"REPLY_ACK"}), FALSE, UpdateReplyAckFlag(be))

SET_PROTOCOL_FEATURES(m) ==
    /\ m.code = "SET_PROTOCOL_FEATURES"
    /\ CallAndAck(m, UpdateReplyAckFlag([be EXCEPT !.proto = m.feats]))
GET_QUEUE_NUM(m) ==
    m.code = "GET_QUEUE_NUM" /\ IfProto("MQ", m, CallAndReply(m, Num(QueueNum), FALSE, be))
SET_VRING_ENABLE(m) ==
    m.code = "SET_VRING_ENABLE" /\ IF PF \in be.acked THEN CallAndAck(m, be) ELSE Refuse(m)
GET_CONFIG(m) ==
    /\ m.code = "GET_CONFIG"
    /\ IfProto("CONFIG", m, IfValid(m,
               CallAndTell(m, {Form("ok", FALSE, TRUE)} \cup
                              IF ConfigFails THEN {Form("err", FALSE, FALSE)} ELSE {})))
SET_CONFIG(m) == m.code = "SET_CONFIG" /\ IfProto("CONFIG", m, CallAndAck(m, be))
SET_BACKEND_REQ_FD(m) ==
    m.code = "SET_BACKEND_REQ_FD" /\ IfProto("BACKEND_REQ", m, CallAndAck(m, be))
GET_SHARED_OBJECT(m) ==
    /\ m.code = "GET_SHARED_OBJECT"
    /\ IfProto("SHARED_OBJECT", m,
               CallAndTell(m, {Form("ok", TRUE, FALSE), Form("err", FALSE, FALSE)}))
GET_INFLIGHT_FD(m) ==
    /\ m.code = "GET_INFLIGHT_FD"
    /\ IfProto("INFLIGHT_SHMFD", m, IfValid(m, CallAndReply(m, NoArg, TRUE, be)))
SET_INFLIGHT_FD(m) ==
    m.code = "SET_INFLIGHT_FD" /\ IfProto("INFLIGHT_SHMFD", m, CallAndAck(m, be))
GET_MAX_MEM_SLOTS(m) ==
    /\ m.code = "GET_MAX_MEM_SLOTS"
    /\ IfProto("CONFIGURE_MEM_SLOTS", m, CallAndReply(m, NoArg, FALSE, be))
ADD_MEM_REG(m) ==
    m.code = "ADD_MEM_REG" /\ IfProto("CONFIGURE_MEM_SLOTS", m, CallAndAck(m, be))
REM_MEM_REG(m) ==
    m.code = "REM_MEM_REG" /\ IfProto("CONFIGURE_MEM_SLOTS", m, CallAndAck(m, be))
SET_DEVICE_STATE_FD(m) ==
    /\ m.code = "SET_DEVICE_STATE_FD"
    /\ CallAndTell(m, {Form("ok", FALSE, FALSE), Form("ok", TRUE, FALSE), Form("err", FALSE, FALSE)})
CHECK_DEVICE_STATE(m) ==
    /\ m.code = "CHECK_DEVICE_STATE"
    /\ CallAndTell(m, {Form("ok", FALSE, FALSE), Form("err", FALSE, FALSE)})
GET_SHMEM_CONFIG(m) ==
    m.code = "GET_SHMEM_CONFIG" /\ IfProto("SHMEM", m, CallAndReply(m, NoArg, FALSE, be))
POSTCOPY_ADVISE(m) ==
    /\ m.code = "POSTCOPY_ADVISE"
    /\ IfProto("PAGEFAULT", m,
               CallAndTell(m, {Form("ok", TRUE, FALSE), Form("err", FALSE, FALSE)}))
POSTCOPY_LISTEN(m) ==
    m.code = "POSTCOPY_LISTEN" /\ IfProto("PAGEFAULT", m, CallAndAck(m, be))
POSTCOPY_END(m) == m.code = "POSTCOPY_END" /\ IfProto("PAGEFAULT", m, CallAndAck(m, be))
SET_LOG_BASE(m) ==
    /\ m.code = "SET_LOG_BASE"
    /\ IfProto("LOG_SHMFD", m, IF m.file THEN IfValid(m, CallAndReply(m, NoArg, FALSE, be))
                                         ELSE Refuse(m))
Unknown(m) == m.code = "SET_LOG_FD" /\ Refuse(m)

\* check_attached_files.
TakesFiles == {"SET_MEM_TABLE", "SET_VRING_CALL", "SET_VRING_KICK", "SET_VRING_ERR",
               "SET_LOG_BASE", "SET_LOG_FD", "SET_BACKEND_REQ_FD", "SET_INFLIGHT_FD",
               "ADD_MEM_REG", "SET_DEVICE_STATE_FD", "GPU_SET_SOCKET"}
CheckAttachedFiles(m) == m.file => m.code \in TakesFiles

Dispatch(m) ==
    \/ SET_OWNER(m) \/ RESET_OWNER(m) \/ RESET_DEVICE(m) \/ GET_FEATURES(m) \/ SET_FEATURES(m)
    \/ SET_MEM_TABLE(m) \/ SET_VRING_NUM(m) \/ SET_VRING_ADDR(m) \/ SET_VRING_BASE(m)
    \/ GET_VRING_BASE(m) \/ SET_VRING_FD(m) \/ GET_PROTOCOL_FEATURES(m)
    \/ SET_PROTOCOL_FEATURES(m) \/ GET_QUEUE_NUM(m) \/ SET_VRING_ENABLE(m) \/ GET_CONFIG(m)
    \/ SET_CONFIG(m) \/ SET_BACKEND_REQ_FD(m) \/ GET_SHARED_OBJECT(m) \/ GET_INFLIGHT_FD(m)
    \/ SET_INFLIGHT_FD(m) \/ GET_MAX_MEM_SLOTS(m) \/ ADD_MEM_REG(m) \/ REM_MEM_REG(m)
    \/ SET_DEVICE_STATE_FD(m) \/ CHECK_DEVICE_STATE(m) \/ GET_SHMEM_CONFIG(m)
    \/ POSTCOPY_ADVISE(m) \/ POSTCOPY_LISTEN(m) \/ POSTCOPY_END(m) \/ SET_LOG_BASE(m)
    \/ Unknown(m)

\* One round of handle_request.
HandleRequest ==
    /\ conn = "up"
    /\ toBackend # <<>>
    /\ toBackend' = Tail(toBackend)
    /\ IF CheckAttachedFiles(Head(toBackend)) THEN Dispatch(Head(toBackend))
                                              ELSE Refuse(Head(toBackend))
    /\ UNCHANGED <<fe, call, returned>>

\* The thread of start_daemon, after the loop: conn.shutdown(), and the handler is dropped.
Shutdown ==
    /\ conn = "failing"
    /\ conn' = "down"
    /\ be' = BackendNew
    /\ UNCHANGED <<fe, call, toBackend, toFrontend, returned, refused, misrouted>>
-------------------------------------------------------------------------------
Frontend(t) ==
    \/ get_features(t) \/ \E s \in FeatureChoices : set_features(t, s)
    \/ set_owner(t) \/ reset_owner(t) \/ set_mem_table(t) \/ set_log_fd(t)
    \/ \E region, sized \in BOOLEAN : set_log_base(t, region, sized)
    \/ \E i \in Indices :
          \/ set_vring_num(t, i) \/ set_vring_base(t, i)
          \/ \E aligned \in BOOLEAN : set_vring_addr(t, i, aligned)
          \/ get_vring_base(t, i) \/ set_vring_enable(t, i)
          \/ set_vring_call(t, i) \/ set_vring_kick(t, i) \/ set_vring_err(t, i)
    \/ get_protocol_features(t) \/ \E s \in ProtoChoices : set_protocol_features(t, s)
    \/ get_queue_num(t) \/ reset_device(t) \/ set_config(t)
    \/ \E valid \in BOOLEAN : get_config(t, valid) \/ get_inflight_fd(t, valid)
    \/ set_backend_request_fd(t) \/ get_shared_object(t)
    \/ set_inflight_fd(t) \/ get_max_mem_slots(t) \/ add_mem_region(t) \/ remove_mem_region(t)
    \/ get_shmem_config(t) \/ set_device_state_fd(t) \/ check_device_state(t)
    \/ postcopy_advise(t) \/ postcopy_listen(t) \/ postcopy_end(t)
    \/ Receive(t) \/ ReceiveEnd(t)

Next ==
    \/ \E t \in Threads : Frontend(t)
    \/ \E need \in BOOLEAN : set_hdr_flags(need)
    \/ HandleRequest
    \/ Shutdown

Spec == Init /\ [][Next]_vars

\* The backend's thread and the threads that wait for an answer run when they can; nobody
\* has to send anything.
Fairness ==
    /\ WF_vars(HandleRequest \/ Shutdown)
    /\ \A t \in Threads : WF_vars(Receive(t) \/ ReceiveEnd(t))

FairSpec == Spec /\ Fairness
-------------------------------------------------------------------------------
Codes == TakesFiles \cup {
    "SET_OWNER", "RESET_OWNER", "RESET_DEVICE", "GET_FEATURES", "SET_FEATURES", "SET_VRING_NUM",
    "SET_VRING_ADDR", "SET_VRING_BASE", "GET_VRING_BASE", "GET_PROTOCOL_FEATURES",
    "SET_PROTOCOL_FEATURES", "GET_QUEUE_NUM", "SET_VRING_ENABLE", "GET_CONFIG", "SET_CONFIG",
    "GET_SHARED_OBJECT", "GET_INFLIGHT_FD", "GET_MAX_MEM_SLOTS", "REM_MEM_REG",
    "CHECK_DEVICE_STATE", "GET_SHMEM_CONFIG", "POSTCOPY_ADVISE", "POSTCOPY_LISTEN",
    "POSTCOPY_END"}

Request == [by : Threads, code : Codes, need : BOOLEAN, num : Nat,
            feats : (SUBSET ProtoFeatures) \cup FeatureChoices, valid : BOOLEAN, file : BOOLEAN,
            awaited : BOOLEAN]
Reply == [by : Threads, code : Codes, out : Outcomes, num : Nat,
          feats : SUBSET (ProtoFeatures \cup DeviceFeatures \cup {"REPLY_ACK"}),
          file : BOOLEAN, payload : BOOLEAN]

\* Types of the state of both ends and of the two directions of the socket.
TypeOK ==
    /\ fe \in [features : SUBSET DeviceFeatures, acked : SUBSET DeviceFeatures,
               proto : SUBSET ProtoFeatures, maxQueueNum : Nat, needReply : BOOLEAN]
    /\ be \in [features : SUBSET DeviceFeatures, acked : FeatureChoices \cup {{}},
               proto : SUBSET ProtoFeatures, replyAck : BOOLEAN]
    /\ call \in [Threads -> {Idle} \cup [code : Codes,
                     await : {"ack", "body", "file", "optfile", "payload"}]]
    /\ toBackend \in Seq(Request) /\ Len(toBackend) <= MaxPending
    /\ toFrontend \in Seq(Reply)
    /\ conn \in {"up", "failing", "down"}
    /\ returned \in {"none", "posted", "ok", "err", "broken"}
    /\ refused \subseteq Codes
    /\ misrouted \subseteq Nat \X (0 .. FdBit - 1)

\* The mailboxes of the abstract specification: the one that an answer in the socket is for.
Mailbox == [t \in Threads |->
    IF \E i \in DOMAIN toFrontend : toFrontend[i].by = t
    THEN toFrontend[CHOOSE i \in DOMAIN toFrontend : toFrontend[i].by = t].out
    ELSE "none"]

Connection == INSTANCE Rpc WITH
    queue <- [i \in DOMAIN toBackend |-> [by |-> toBackend[i].by, sync |-> toBackend[i].awaited]],
    waiting <- {t \in Threads : call[t] # Idle},
    mailbox <- Mailbox,
    up <- conn = "up"

\* Frontend, socket and BackendReqHandler together implement one mailbox per thread: a
\* caller gets the outcome of its own request, requests are executed once and in order,
\* and the backend answers exactly the requests whose senders wait.
ImplementsRpc == Connection!Spec

\* Every method call on a Frontend returns.
EveryCallReturns == Connection!EveryCallReturns

\* What the frontend takes to be negotiated the backend does, too: no request is refused by
\* check_feature, check_proto_feature or check_attached_files or as one that the backend does
\* not know, but the two log requests that have no counterpart, SET_LOG_BASE with an address
\* only and SET_LOG_FD.  (A body that is_valid refuses is another matter: IfValid.)
NothingElseRefused == refused \subseteq {"SET_LOG_BASE", "SET_LOG_FD"}

\* The eventfd of a ring is installed for the ring the caller named: send_fd_for_vring sends
\* what its comment says, the index in bits 0 to 7, from which handle_vring_fd_request takes it.
FdReachesItsRing == misrouted = {}
-------------------------------------------------------------------------------
(* The inductive invariant of SessionProofs. *)

\* What is assumed of the device: there are no more rings than VHOST_USER_MAX_VRINGS.
Fitting ==
    /\ FdBit \in Nat \ {0} /\ Indices \subseteq Nat
    /\ MaxVrings \in Nat /\ QueueNum \in 0 .. MaxVrings
    /\ MaxQueueNum \in Nat /\ MaxPending \in Nat

VringFdCodes == {"SET_VRING_CALL", "SET_VRING_KICK", "SET_VRING_ERR"}

\* Requests that are answered with a descriptor when they succeed, and all that are always
\* answered, but for SET_LOG_BASE.
FileCodes == {"GET_SHARED_OBJECT", "GET_INFLIGHT_FD", "POSTCOPY_ADVISE"}
Asked == FileCodes \cup {"GET_FEATURES", "GET_VRING_BASE", "GET_PROTOCOL_FEATURES", "GET_QUEUE_NUM",
                         "GET_CONFIG", "GET_MAX_MEM_SLOTS", "GET_SHMEM_CONFIG",
                         "SET_DEVICE_STATE_FD", "CHECK_DEVICE_STATE"}

\* What the methods of the frontend make sure of in every request.
WellFormed(m) ==
    /\ CheckAttachedFiles(m)
    /\ m.code \in VringFdCodes => m.file
    /\ m.code = "SET_FEATURES" => m.feats \in FeatureChoices
    /\ m.code = "SET_PROTOCOL_FEATURES" => m.feats \subseteq ProtoFeatures

\* Request m has the protocol features proto that the backend wants it to have.
Allowed(m, proto) ==
    /\ m.code = "GET_QUEUE_NUM" => "MQ" \in proto
    /\ m.code = "RESET_DEVICE" => "RESET_DEVICE" \in proto
    /\ m.code \in {"GET_CONFIG", "SET_CONFIG"} => "CONFIG" \in proto
    /\ m.code = "SET_BACKEND_REQ_FD" => "BACKEND_REQ" \in proto
    /\ m.code = "GET_SHARED_OBJECT" => "SHARED_OBJECT" \in proto
    /\ m.code \in {"GET_INFLIGHT_FD", "SET_INFLIGHT_FD"} => "INFLIGHT_SHMFD" \in proto
    /\ m.code \in {"GET_MAX_MEM_SLOTS", "ADD_MEM_REG", "REM_MEM_REG"} => "CONFIGURE_MEM_SLOTS" \in proto
    /\ m.code = "GET_SHMEM_CONFIG" => "SHMEM" \in proto
    /\ m.code \in {"POSTCOPY_ADVISE", "POSTCOPY_LISTEN", "POSTCOPY_END"} => "PAGEFAULT" \in proto

\* Its sender waits if and only if a backend with the protocol features proto answers it.
AnswerAwaited(m, proto) ==
    /\ m.code \in Asked => m.awaited
    /\ m.code = "SET_LOG_BASE" => m.awaited = m.file
    /\ m.code \notin Asked \cup {"SET_LOG_BASE"} => m.awaited = ("REPLY_ACK" \in proto /\ m.need)

\* The value v of a setting that requests in q change, when number i of them is served: that
\* of the latest such request up to then, or what the backend has.
InForce(q, code, has, i, v) ==
    \/ v = has /\ \A j \in 1 .. i : q[j].code # code
    \/ \E k \in 1 .. i : /\ q[k].code = code /\ q[k].feats = v
                         /\ \A j \in k + 1 .. i : q[j].code # code

Settings(has) == {has} \cup {toBackend[k].feats : k \in DOMAIN toBackend}

\* The frontend knows the protocol features the backend will have once it has served what is
\* in the socket, and every request is one that it will take and answer as expected.
ProtoInv ==
    \A v \in Settings(be.proto) :
        /\ \A i \in DOMAIN toBackend : InForce(toBackend, "SET_PROTOCOL_FEATURES", be.proto, i, v) =>
              Allowed(toBackend[i], v) /\ AnswerAwaited(toBackend[i], v)
        /\ InForce(toBackend, "SET_PROTOCOL_FEATURES", be.proto, Len(toBackend), v) => v = fe.proto

\* The same for VHOST_USER_F_PROTOCOL_FEATURES, which set_vring_enable needs.
AckedInv ==
    \A v \in Settings(be.acked) :
        /\ \A i \in DOMAIN toBackend :
              InForce(toBackend, "SET_FEATURES", be.acked, i, v)
                  /\ toBackend[i].code = "SET_VRING_ENABLE" => PF \in v
        /\ InForce(toBackend, "SET_FEATURES", be.acked, Len(toBackend), v)
              /\ PF \in fe.acked => PF \in v

\* Who speaks of protocol features has asked for the features before.
FeaturesInv ==
    /\ be.replyAck = (PF \in be.features /\ "REPLY_ACK" \in be.proto)
    /\ fe.features # {} => be.features = DeviceFeatures
    /\ be.proto # {} => PF \in be.features
    /\ \A i \in DOMAIN toBackend : toBackend[i].code = "SET_PROTOCOL_FEATURES" => PF \in be.features
    /\ \A i \in DOMAIN toFrontend : toFrontend[i].code = "GET_FEATURES" => be.features = DeviceFeatures

\* One thread waits at a time, in the shape that its request has an answer in.
CallInv ==
    /\ \A t, u \in Threads : call[t] # Idle /\ call[u] # Idle => t = u
    /\ \A t \in Threads :
          /\ call[t].code \in FileCodes <=> call[t].await = "file"
          /\ call[t].code = "SET_DEVICE_STATE_FD" => call[t].await = "optfile"

\* There is at most one answer, which is for the thread that waits.
AnswerInv ==
    \A i \in DOMAIN toFrontend :
        LET r == toFrontend[i]
        IN  /\ i = 1
            /\ call[r.by] # Idle /\ call[r.by].code = r.code
            /\ r.file => r.code \in FileCodes \cup {"SET_DEVICE_STATE_FD"}
            /\ r.code \in FileCodes /\ r.out = "ok" => r.file
            /\ r.code = "GET_FEATURES" => r.feats = DeviceFeatures
            /\ r.code = "GET_QUEUE_NUM" => r.num = QueueNum

\* A request whose sender waits is the last one, and has not been answered yet.
RequestInv ==
    \A i \in DOMAIN toBackend :
        /\ WellFormed(toBackend[i])
        /\ toBackend[i].awaited /\ conn # "down" =>
              /\ i = Len(toBackend) /\ toFrontend = <<>>
              /\ call[toBackend[i].by] # Idle /\ call[toBackend[i].by].code = toBackend[i].code

IInv ==
    /\ TypeOK /\ CallInv /\ AnswerInv /\ RequestInv
    /\ conn = "up" => ProtoInv /\ AckedInv /\ FeaturesInv
    /\ NothingElseRefused
================================================================================
