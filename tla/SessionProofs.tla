----------------------------- MODULE SessionProofs -----------------------------
(***************************************************************************)
(* Proofs about Session, for any number of threads that share a Frontend,  *)
(* any features of the device and any choice of them, and any number of    *)
(* requests in the socket: the invariant that ties what the frontend       *)
(* thinks was negotiated to what the backend will have when it gets to a   *)
(* request, and that the connection implements Rpc.                        *)
(***************************************************************************)
EXTENDS Session, TLAPS
-------------------------------------------------------------------------------
(* Sequences *)

\* Sequences with the same elements are equal.
LEMMA SeqEqual ==
  ASSUME NEW S, NEW s \in Seq(S), NEW t \in Seq(S), Len(s) = Len(t),
         \A i \in 1 .. Len(s) : s[i] = t[i]
  PROVE  s = t
  OBVIOUS

\* The empty sequence is the one without elements.
LEMMA EmptySeq ==
  ASSUME NEW S, NEW s \in Seq(S)
  PROVE  Len(s) \in Nat /\ (s = <<>> <=> Len(s) = 0)
  OBVIOUS
-------------------------------------------------------------------------------
(* Sending *)

FrontendState == [features : SUBSET DeviceFeatures, acked : SUBSET DeviceFeatures,
                  proto : SUBSET ProtoFeatures, maxQueueNum : Nat, needReply : BOOLEAN]
Awaits == {"none", "ack", "body", "file", "optfile", "payload"}

\* The request that SendRequest puts into the socket.
Message(t, code, arg, file, await) ==
    [by |-> t, code |-> code, need |-> fe.needReply, num |-> arg.num, feats |-> arg.feats,
     valid |-> arg.valid, file |-> file, awaited |-> await # "none"]

\* What is known of a request m, the frontend f after it and what its sender waits for.
SoundRequest(t, m, f, await) ==
    /\ m \in Request /\ m.by = t /\ m.awaited = (await # "none")
    /\ WellFormed(m) /\ Allowed(m, f.proto) /\ AnswerAwaited(m, f.proto)
    /\ f \in FrontendState /\ f.features = fe.features
    /\ IF m.code = "SET_PROTOCOL_FEATURES" THEN f.proto = m.feats /\ PF \in fe.features
                                           ELSE f.proto = fe.proto
    /\ IF m.code = "SET_FEATURES" THEN f.acked \subseteq m.feats ELSE f.acked = fe.acked
    /\ m.code = "SET_VRING_ENABLE" => PF \in fe.acked
    /\ await \in Awaits
    /\ m.code \in FileCodes <=> await = "file"
    /\ m.code = "SET_DEVICE_STATE_FD" => await = "optfile"

\* A step that sends it.
Puts(t, m, f, await) ==
    /\ Node(t) /\ conn # "down" /\ Len(toBackend) < MaxPending
    /\ toBackend' = Append(toBackend, m)
    /\ fe' = f
    /\ call' = IF await = "none" THEN call
                                 ELSE [call EXCEPT ![t] = [code |-> m.code, await |-> await]]
    /\ returned' = IF await = "none" THEN "posted" ELSE returned
    /\ UNCHANGED <<be, toFrontend, conn, refused, misrouted>>

Sends(t) == \E m, f, await : SoundRequest(t, m, f, await) /\ Puts(t, m, f, await)

\* send_request_header and its siblings put one sound request into the socket.
LEMMA SendRequestSends ==
  ASSUME NEW t \in Threads, NEW code, NEW arg, NEW file, NEW f, NEW await,
         SendRequest(t, code, arg, file, f, await),
         SoundRequest(t, Message(t, code, arg, file, await), f, await)
  PROVE  Sends(t)
  <1> DEFINE m == Message(t, code, arg, file, await)
  <1>1. Puts(t, m, f, await)
    BY Zenon DEF SendRequest, Puts, Message
  <1> HIDE DEF m
  <1> QED
    BY <1>1, Zenon DEF Sends, m

\* The bodies of requests: a number or a set of features, and whether they are valid.
LEMMA ArgTypes ==
  /\ NoArg.num = 0 /\ NoArg.feats = {} /\ NoArg.valid = TRUE
  /\ \A n : Num(n).num = n /\ Num(n).feats = {} /\ Num(n).valid = TRUE
  /\ \A s : Feats(s).num = 0 /\ Feats(s).feats = s /\ Feats(s).valid = TRUE
  BY Zenon DEF NoArg, Num, Feats

\* A body whose validity the frontend does not see to.
Body(arg) == arg.num \in Nat /\ arg.feats = {} /\ arg.valid \in BOOLEAN

LEMMA CheckedBody ==
  ASSUME NEW valid \in BOOLEAN
  PROVE  Body(Checked(NoArg, valid)) /\ \A n \in Nat : Body(Checked(Num(n), valid))
  <1>1. Checked(NoArg, valid) = [num |-> 0, feats |-> {}, valid |-> valid]
    BY DEF NoArg, Checked
  <1>2. ASSUME NEW n \in Nat PROVE Checked(Num(n), valid) = [num |-> n, feats |-> {}, valid |-> valid]
    BY DEF NoArg, Num, Checked
  <1> QED
    BY <1>1, <1>2 DEF Body

\* Requests that are acked.
LEMMA PostSends ==
  ASSUME TypeOK, NEW t \in Threads, NEW code \in Codes, NEW arg, NEW file \in BOOLEAN,
         Post(t, code, arg, file), Body(arg),
         code \notin Asked \cup {"SET_LOG_BASE", "SET_FEATURES", "SET_PROTOCOL_FEATURES"},
         file => code \in TakesFiles,
         code \in VringFdCodes => file,
         code = "SET_VRING_ENABLE" => PF \in fe.acked,
         Allowed([code |-> code], fe.proto)
  PROVE  Sends(t)
  <1> DEFINE await == WaitForAck(fe, fe.needReply)
             m == Message(t, code, arg, file, await)
  <1>1. /\ m.by = t /\ m.code = code /\ m.need = fe.needReply /\ m.num = arg.num /\ m.feats = {}
        /\ m.file = file /\ m.awaited = (await # "none")
    BY Zenon DEF Message, Body
  <1>2. fe \in FrontendState
    BY Zenon DEF TypeOK, FrontendState
  <1>3. await \in {"none", "ack"} /\ (await # "none") = ("REPLY_ACK" \in fe.proto /\ fe.needReply)
    BY Zenon DEF WaitForAck
  <1>4. m \in Request
    BY <1>2, Zenon DEF Request, Message, FrontendState, Body
  <1>5. WellFormed(m) /\ Allowed(m, fe.proto)
    BY <1>1 DEF WellFormed, Allowed, CheckAttachedFiles
  <1>6. AnswerAwaited(m, fe.proto)
    BY <1>1, <1>3, Zenon DEF AnswerAwaited
  <1>7. SoundRequest(t, m, fe, await)
    <2> HIDE DEF m, await
    <2> QED
      BY <1>1, <1>2, <1>3, <1>4, <1>5, <1>6, Zenon DEF SoundRequest, Awaits, Asked
  <1> QED
    BY <1>7, SendRequestSends, Zenon DEF Post

\* Requests that are always answered.
LEMMA AskSends ==
  ASSUME TypeOK, NEW t \in Threads, NEW code \in Codes, NEW arg, NEW file \in BOOLEAN,
         NEW shape \in Awaits, Ask(t, code, arg, file, shape), Body(arg),
         \/ code \in Asked /\ shape # "none"
         \/ code = "SET_LOG_BASE" /\ (shape = "body") = file /\ shape \in {"body", "none"},
         file => code \in TakesFiles,
         code \in FileCodes <=> shape = "file",
         code = "SET_DEVICE_STATE_FD" => shape = "optfile",
         Allowed([code |-> code], fe.proto)
  PROVE  Sends(t)
  <1> DEFINE m == Message(t, code, arg, file, shape)
  <1>1. /\ m.by = t /\ m.code = code /\ m.need = fe.needReply /\ m.num = arg.num /\ m.feats = {}
        /\ m.file = file /\ m.awaited = (shape # "none")
    BY Zenon DEF Message, Body
  <1>2. fe \in FrontendState
    BY Zenon DEF TypeOK, FrontendState
  <1>3. m \in Request
    BY <1>2, Zenon DEF Request, Message, FrontendState, Body
  <1>4. code \notin VringFdCodes \cup {"SET_FEATURES", "SET_PROTOCOL_FEATURES", "SET_VRING_ENABLE"}
    BY Zenon DEF VringFdCodes, Asked, FileCodes
  <1>5. WellFormed(m) /\ Allowed(m, fe.proto)
    BY <1>1, <1>4 DEF WellFormed, Allowed, CheckAttachedFiles
  <1>6. AnswerAwaited(m, fe.proto)
    BY <1>1, Zenon DEF AnswerAwaited, Asked, FileCodes
  <1>7. SoundRequest(t, m, fe, shape)
    <2> HIDE DEF m
    <2> QED
      BY <1>1, <1>2, <1>3, <1>4, <1>5, <1>6, Zenon DEF SoundRequest
  <1> QED
    BY <1>7, SendRequestSends, Zenon DEF Ask

\* Every method of the Frontend that sends something sends a sound request.
LEMMA FrontendSends ==
  ASSUME Fitting, TypeOK, NEW t \in Threads, Frontend(t)
  PROVE  Sends(t) \/ Receive(t) \/ ReceiveEnd(t)
  <1> DEFINE S == {"SET_LOG_BASE", "SET_FEATURES", "SET_PROTOCOL_FEATURES"}
  <1>1. /\ Body(NoArg) /\ \A v \in BOOLEAN : Body(Checked(NoArg, v))
        /\ \A i \in Indices : Body(Num(i)) /\ \A v \in BOOLEAN : Body(Checked(Num(i), v))
    <2>1. \A i \in Indices : i \in Nat
      BY Zenon DEF Fitting
    <2>0. 0 \in Nat
      OBVIOUS
    <2>2. Body(NoArg) /\ \A n \in Nat : Body(Num(n))
      BY <2>0, ArgTypes, Zenon DEF Body
    <2> QED
      BY <2>1, <2>2, CheckedBody, Zenon
  <1>2. CASE \/ set_owner(t) \/ reset_owner(t) \/ set_mem_table(t) \/ set_log_fd(t)
             \/ reset_device(t) \/ set_config(t) \/ set_backend_request_fd(t)
             \/ set_inflight_fd(t) \/ add_mem_region(t) \/ remove_mem_region(t)
             \/ postcopy_listen(t) \/ postcopy_end(t)
    <2>1. PICK code \in {"SET_OWNER", "RESET_OWNER", "SET_MEM_TABLE", "SET_LOG_FD", "RESET_DEVICE",
                         "SET_CONFIG", "SET_BACKEND_REQ_FD", "SET_INFLIGHT_FD", "ADD_MEM_REG",
                         "REM_MEM_REG", "POSTCOPY_LISTEN", "POSTCOPY_END"},
               file \in BOOLEAN :
            /\ Post(t, code, NoArg, file)
            /\ file => code \in TakesFiles
            /\ Allowed([code |-> code], fe.proto)
      <3> USE DEF Allowed, TakesFiles, CheckProto
      <3>1. CASE set_owner(t)
        BY <3>1, Zenon DEF set_owner
      <3>2. CASE reset_owner(t)
        BY <3>2, Zenon DEF reset_owner
      <3>3. CASE set_mem_table(t)
        BY <3>3, Zenon DEF set_mem_table
      <3>4. CASE set_log_fd(t)
        BY <3>4, Zenon DEF set_log_fd
      <3>5. CASE reset_device(t)
        BY <3>5, Zenon DEF reset_device
      <3>6. CASE set_config(t)
        BY <3>6, Zenon DEF set_config
      <3>7. CASE set_backend_request_fd(t)
        BY <3>7, Zenon DEF set_backend_request_fd
      <3>8. CASE set_inflight_fd(t)
        BY <3>8, Zenon DEF set_inflight_fd
      <3>9. CASE add_mem_region(t)
        BY <3>9, Zenon DEF add_mem_region
      <3>10. CASE remove_mem_region(t)
        BY <3>10, Zenon DEF remove_mem_region
      <3>11. CASE postcopy_listen(t)
        BY <3>11, Zenon DEF postcopy_listen
      <3>12. CASE postcopy_end(t)
        BY <3>12, Zenon DEF postcopy_end
      <3> QED
        BY <1>2, <3>1, <3>2, <3>3, <3>4, <3>5, <3>6, <3>7, <3>8, <3>9, <3>10, <3>11, <3>12, Zenon
    <2>2. code \in Codes /\ code \notin Asked \cup S \cup VringFdCodes \cup {"SET_VRING_ENABLE"}
      BY Zenon DEF Codes, TakesFiles, Asked, FileCodes, VringFdCodes
    <2> QED
      BY <1>1, <2>1, <2>2, PostSends, ZenonT(40)
  <1>3. CASE \/ get_features(t) \/ get_protocol_features(t) \/ get_queue_num(t)
             \/ (\E valid \in BOOLEAN : get_config(t, valid) \/ get_inflight_fd(t, valid))
             \/ get_shared_object(t) \/ get_max_mem_slots(t)
             \/ get_shmem_config(t) \/ set_device_state_fd(t) \/ check_device_state(t)
             \/ postcopy_advise(t)
    <2> USE DEF Allowed, TakesFiles, CheckProto, Asked, FileCodes, Awaits, Codes
    <2>1. CASE get_features(t)
      BY <1>1, <2>1, AskSends, Zenon DEF get_features
    <2>2. CASE get_protocol_features(t)
      BY <1>1, <2>2, AskSends, Zenon DEF get_protocol_features
    <2>3. CASE get_queue_num(t)
      BY <1>1, <2>3, AskSends, Zenon DEF get_queue_num
    <2>4. ASSUME NEW valid \in BOOLEAN, get_config(t, valid) PROVE Sends(t)
      BY <1>1, <2>4, AskSends, Zenon DEF get_config
    <2>5. CASE get_shared_object(t)
      BY <1>1, <2>5, AskSends, Zenon DEF get_shared_object
    <2>6. ASSUME NEW valid \in BOOLEAN, get_inflight_fd(t, valid) PROVE Sends(t)
      BY <1>1, <2>6, AskSends, Zenon DEF get_inflight_fd
    <2>7. CASE get_max_mem_slots(t)
      BY <1>1, <2>7, AskSends, Zenon DEF get_max_mem_slots
    <2>8. CASE get_shmem_config(t)
      BY <1>1, <2>8, AskSends, Zenon DEF get_shmem_config
    <2>9. CASE set_device_state_fd(t)
      BY <1>1, <2>9, AskSends, Zenon DEF set_device_state_fd
    <2>10. CASE check_device_state(t)
      BY <1>1, <2>10, AskSends, Zenon DEF check_device_state
    <2>11. CASE postcopy_advise(t)
      BY <1>1, <2>11, AskSends, Zenon DEF postcopy_advise
    <2> QED
      BY <1>3, <2>1, <2>2, <2>3, <2>4, <2>5, <2>6, <2>7, <2>8, <2>9, <2>10, <2>11, Zenon
  <1>4. ASSUME NEW region \in BOOLEAN, NEW sized \in BOOLEAN, set_log_base(t, region, sized)
        PROVE  Sends(t)
    <2>1. PICK file \in BOOLEAN, arg \in {NoArg, Checked(NoArg, sized)} :
            Ask(t, "SET_LOG_BASE", arg, file, IF file THEN "body" ELSE "none")
      BY <1>4, Zenon DEF set_log_base
    <2>2. /\ "SET_LOG_BASE" \in Codes \cap TakesFiles /\ "SET_LOG_BASE" \notin FileCodes
          /\ (IF file THEN "body" ELSE "none") \in Awaits
      BY Zenon DEF Codes, TakesFiles, FileCodes, Awaits
    <2>3. Allowed([code |-> "SET_LOG_BASE"], fe.proto)
      BY Zenon DEF Allowed
    <2> QED
      BY <1>1, <2>1, <2>2, <2>3, AskSends, Zenon
  <1>5. ASSUME NEW i \in Indices,
               \/ set_vring_num(t, i) \/ (\E v \in BOOLEAN : set_vring_addr(t, i, v))
               \/ set_vring_base(t, i) \/ set_vring_enable(t, i)
               \/ set_vring_call(t, i) \/ set_vring_kick(t, i) \/ set_vring_err(t, i)
        PROVE  Sends(t)
    <2> USE DEF Allowed, TakesFiles, Asked, FileCodes, VringFdCodes, Codes
    <2>1. CASE set_vring_num(t, i) \/ (\E v \in BOOLEAN : set_vring_addr(t, i, v)) \/ set_vring_base(t, i)
      <3>1. PICK code \in {"SET_VRING_NUM", "SET_VRING_ADDR", "SET_VRING_BASE"},
                 arg \in {Num(i)} \cup {Checked(Num(i), v) : v \in BOOLEAN} :
              Post(t, code, arg, FALSE)
        BY <2>1, Zenon DEF set_vring_num, set_vring_addr, set_vring_base
      <3> QED
        BY <1>1, <3>1, PostSends, Zenon
    <2>2. CASE set_vring_enable(t, i)
      BY <1>1, <2>2, PostSends, Zenon DEF set_vring_enable
    <2>3. CASE set_vring_call(t, i) \/ set_vring_kick(t, i) \/ set_vring_err(t, i)
      <3>1. PICK code \in VringFdCodes : Post(t, code, Num(i), TRUE)
        BY <2>3, Zenon DEF set_vring_call, set_vring_kick, set_vring_err, SendFdForVring
      <3> QED
        BY <1>1, <3>1, PostSends, Zenon
    <2> QED
      BY <1>5, <2>1, <2>2, <2>3, Zenon
  <1>6. ASSUME NEW i \in Indices, get_vring_base(t, i)
        PROVE  Sends(t)
    <2>1. Ask(t, "GET_VRING_BASE", Num(i), FALSE, "body")
      BY <1>6, Zenon DEF get_vring_base
    <2>2. "GET_VRING_BASE" \in (Codes \cap Asked) \ FileCodes /\ "body" \in Awaits
      BY Zenon DEF Codes, TakesFiles, Asked, FileCodes, Awaits
    <2>3. Allowed([code |-> "GET_VRING_BASE"], fe.proto)
      BY Zenon DEF Allowed
    <2> QED
      BY <1>1, <2>1, <2>2, <2>3, AskSends, Zenon
  <1>7. ASSUME NEW s \in FeatureChoices, set_features(t, s)
        PROVE  Sends(t)
    <2> DEFINE f == [fe EXCEPT !.acked = s \cap fe.features]
               await == WaitForAck(f, fe.needReply)
               m == Message(t, "SET_FEATURES", Feats(s), FALSE, await)
    <2>1. /\ fe \in FrontendState /\ f \in FrontendState /\ f.features = fe.features
          /\ f.proto = fe.proto /\ f.acked = s \cap fe.features /\ fe.needReply \in BOOLEAN
      BY Zenon DEF TypeOK, FrontendState
    <2>2. /\ m.by = t /\ m.code = "SET_FEATURES" /\ m.need = fe.needReply /\ m.feats = s
          /\ m.file = FALSE /\ m.num = 0 /\ m.awaited = (await # "none")
      BY ArgTypes, Zenon DEF Message
    <2>3. await \in {"none", "ack"} /\ (await # "none") = ("REPLY_ACK" \in f.proto /\ fe.needReply)
      BY Zenon DEF WaitForAck
    <2>4. m \in Request
      <3>1. PICK a \in BOOLEAN : a = (await # "none")
        BY Zenon
      <3>2. "SET_FEATURES" \in Codes /\ s \in (SUBSET ProtoFeatures) \cup FeatureChoices
        BY Zenon DEF Codes
      <3>3. m = [by |-> t, code |-> "SET_FEATURES", need |-> fe.needReply, num |-> 0, feats |-> s,
                 valid |-> TRUE, file |-> FALSE, awaited |-> a]
        BY <3>1, ArgTypes, Zenon DEF Message
      <3> HIDE DEF m
      <3> QED
        BY <2>1, <3>2, <3>3, Zenon DEF Request
    <2> HIDE DEF m, await, f
    <2>5. WellFormed(m) /\ Allowed(m, f.proto) /\ AnswerAwaited(m, f.proto)
      BY <2>2, <2>3, Zenon DEF WellFormed, CheckAttachedFiles, VringFdCodes, Allowed, AnswerAwaited,
         Asked, FileCodes
    <2>6. SoundRequest(t, m, f, await)
      BY <2>1, <2>2, <2>3, <2>4, <2>5, Zenon DEF SoundRequest, FileCodes, Awaits
    <2> QED
      BY <1>7, <2>6, SendRequestSends, Zenon DEF set_features, m, await, f
  <1>8. ASSUME NEW s \in ProtoChoices, set_protocol_features(t, s)
        PROVE  Sends(t)
    <2> DEFINE f == [fe EXCEPT !.proto = s]
               await == WaitForAck(f, fe.needReply)
               m == Message(t, "SET_PROTOCOL_FEATURES", Feats(s), FALSE, await)
    <2>0. s \in SUBSET ProtoFeatures
      BY Zenon DEF ProtoFeatures
    <2>1. /\ fe \in FrontendState /\ f \in FrontendState /\ f.features = fe.features
          /\ f.proto = s /\ f.acked = fe.acked /\ fe.needReply \in BOOLEAN
      BY <2>0, Zenon DEF TypeOK, FrontendState
    <2>2. /\ m.by = t /\ m.code = "SET_PROTOCOL_FEATURES" /\ m.need = fe.needReply /\ m.feats = s
          /\ m.file = FALSE /\ m.num = 0 /\ m.awaited = (await # "none")
      BY ArgTypes, Zenon DEF Message
    <2>3. await \in {"none", "ack"} /\ (await # "none") = ("REPLY_ACK" \in f.proto /\ fe.needReply)
      BY Zenon DEF WaitForAck
    <2>4. m \in Request
      <3>1. PICK a \in BOOLEAN : a = (await # "none")
        BY Zenon
      <3>2. "SET_PROTOCOL_FEATURES" \in Codes /\ s \in (SUBSET ProtoFeatures) \cup FeatureChoices
        BY <2>0, Zenon DEF Codes
      <3>3. m = [by |-> t, code |-> "SET_PROTOCOL_FEATURES", need |-> fe.needReply, num |-> 0,
                 feats |-> s, valid |-> TRUE, file |-> FALSE, awaited |-> a]
        BY <3>1, ArgTypes, Zenon DEF Message
      <3> HIDE DEF m
      <3> QED
        BY <2>1, <3>2, <3>3, Zenon DEF Request
    <2> HIDE DEF m, await, f
    <2>5. WellFormed(m) /\ Allowed(m, f.proto) /\ AnswerAwaited(m, f.proto)
      BY <2>0, <2>2, <2>3, Zenon DEF WellFormed, CheckAttachedFiles, VringFdCodes, Allowed,
         AnswerAwaited, Asked, FileCodes
    <2>6. SoundRequest(t, m, f, await)
      BY <1>8, <2>1, <2>2, <2>3, <2>4, <2>5, Zenon DEF SoundRequest, FileCodes, Awaits,
         set_protocol_features, CheckFeature
    <2> QED
      BY <1>8, <2>6, SendRequestSends, Zenon DEF set_protocol_features, m, await, f
  <1> QED
    BY <1>2, <1>3, <1>4, <1>5, <1>6, <1>7, <1>8, Zenon DEF Frontend
-------------------------------------------------------------------------------
(* Settings *)

\* The oldest request is served: what it sets is what the backend has then.
LEMMA InForceTail ==
  ASSUME NEW A, NEW q \in Seq(A), q # <<>>, NEW code, NEW has, NEW now, NEW i \in 0 .. Len(q) - 1,
         NEW v, now = IF Head(q).code = code THEN Head(q).feats ELSE has,
         InForce(Tail(q), code, now, i, v)
  PROVE  InForce(q, code, has, i + 1, v)
  <1> DEFINE r == Tail(q)
  <1>1. Head(q) = q[1] /\ Len(q) \in Nat /\ \A j \in 1 .. Len(q) - 1 : r[j] = q[j + 1]
    OBVIOUS
  <1> HIDE DEF r
  <1>2. \A j \in 1 .. i : r[j] = q[j + 1]
    BY <1>1
  <1>3. \A j \in 1 .. i + 1 : j # 1 => q[j] = r[j - 1] /\ j - 1 \in 1 .. i
    BY <1>1
  <1>4. CASE v = now /\ \A j \in 1 .. i : r[j].code # code
    <2>1. \A j \in 2 .. i + 1 : q[j].code # code
      BY <1>3, <1>4
    <2>2. CASE q[1].code = code
      <3>1. q[1].feats = v /\ 1 \in 1 .. i + 1 /\ \A j \in 1 + 1 .. i + 1 : q[j].code # code
        BY <1>1, <1>4, <2>1, <2>2
      <3> QED
        BY <2>2, <3>1, Zenon DEF InForce
    <2>3. CASE q[1].code # code
      <3>1. v = has /\ \A j \in 1 .. i + 1 : q[j].code # code
        BY <1>1, <1>4, <2>1, <2>3
      <3> QED
        BY <3>1, Zenon DEF InForce
    <2> QED
      BY <2>2, <2>3, Zenon
  <1>5. ASSUME NEW k \in 1 .. i, r[k].code = code, r[k].feats = v,
               \A j \in k + 1 .. i : r[j].code # code
        PROVE  InForce(q, code, has, i + 1, v)
    <2>1. k + 1 \in 1 .. i + 1 /\ q[k + 1].code = code /\ q[k + 1].feats = v
      BY <1>2, <1>5
    <2>2. ASSUME NEW j \in (k + 1) + 1 .. i + 1
          PROVE  q[j].code # code
      <3>1. j \in 1 .. i + 1 /\ j # 1 /\ j - 1 \in k + 1 .. i
        OBVIOUS
      <3> QED
        BY <1>3, <1>5, <3>1, Zenon
    <2> QED
      BY <2>1, <2>2, Zenon DEF InForce
  <1> QED
    BY <1>4, <1>5, Zenon DEF InForce, r

\* A request that is sent does not change what is in force for those before it.
LEMMA InForceBefore ==
  ASSUME NEW A, NEW q \in Seq(A), NEW m \in A, NEW code, NEW has, NEW i \in 0 .. Len(q), NEW v,
         InForce(Append(q, m), code, has, i, v)
  PROVE  InForce(q, code, has, i, v)
  <1> DEFINE r == Append(q, m)
  <1>1. \A j \in 1 .. i : r[j] = q[j]
    OBVIOUS
  <1> HIDE DEF r
  <1>2. \A k \in 1 .. i : k + 1 .. i \subseteq 1 .. i
    OBVIOUS
  <1> QED
    BY <1>1, <1>2 DEF InForce, r

\* And for itself there is what it sets, or what was in force at the end.
LEMMA InForceLast ==
  ASSUME NEW A, NEW q \in Seq(A), NEW m \in A, NEW code, NEW has, NEW v,
         InForce(Append(q, m), code, has, Len(q) + 1, v)
  PROVE  IF m.code = code THEN v = m.feats ELSE InForce(q, code, has, Len(q), v)
  <1> DEFINE r == Append(q, m)
             n == Len(q)
  <1>1. n \in Nat /\ r[n + 1] = m /\ \A j \in 1 .. n : r[j] = q[j]
    OBVIOUS
  <1>2. InForce(r, code, has, n + 1, v)
    BY Zenon
  <1> HIDE DEF r, n
  <1>3. CASE v = has /\ \A j \in 1 .. n + 1 : r[j].code # code
    <2>1. m.code # code /\ \A j \in 1 .. n : q[j].code # code
      BY <1>1, <1>3
    <2> QED
      BY <1>3, <2>1, Zenon DEF InForce, n
  <1>4. ASSUME NEW k \in 1 .. n + 1, r[k].code = code, r[k].feats = v,
               \A j \in k + 1 .. n + 1 : r[j].code # code
        PROVE  IF m.code = code THEN v = m.feats ELSE InForce(q, code, has, n, v)
    <2>1. CASE k = n + 1
      BY <1>1, <1>4, <2>1, Zenon
    <2>2. CASE k # n + 1
      <3>1. /\ k \in 1 .. n /\ n + 1 \in k + 1 .. n + 1
            /\ \A j \in k + 1 .. n : j \in k + 1 .. n + 1 /\ j \in 1 .. n
        BY <1>1, <2>2
      <3>2. m.code # code
        BY <1>1, <1>4, <3>1, Zenon
      <3>3. /\ q[k].code = code /\ q[k].feats = v
            /\ \A j \in k + 1 .. n : q[j].code # code
        BY <1>1, <1>4, <3>1, Zenon
      <3> QED
        BY <3>1, <3>2, <3>3, Zenon DEF InForce
    <2> QED
      BY <2>1, <2>2, Zenon
  <1> QED
    BY <1>2, <1>3, <1>4, Zenon DEF InForce, n

\* What is in force was set by a request, or the backend has it.
LEMMA InForceSetting ==
  ASSUME TypeOK, NEW code, NEW has, NEW i \in 0 .. Len(toBackend), NEW v,
         InForce(toBackend, code, has, i, v)
  PROVE  v \in Settings(has)
  <1>1. 1 .. i \subseteq DOMAIN toBackend
    BY DEF TypeOK
  <1> QED
    BY <1>1, Zenon DEF InForce, Settings
-------------------------------------------------------------------------------
(* Steps *)

\* Requests and answers in the socket.
LEMMA SocketTypes ==
  ASSUME TypeOK
  PROVE  /\ DOMAIN toBackend = 1 .. Len(toBackend) /\ Len(toBackend) \in Nat
         /\ \A i \in DOMAIN toBackend :
               toBackend[i] \in Request /\ toBackend[i].by \in Threads /\ toBackend[i].code \in Codes
         /\ DOMAIN toFrontend = 1 .. Len(toFrontend) /\ Len(toFrontend) \in Nat
         /\ \A i \in DOMAIN toFrontend :
               /\ toFrontend[i] \in Reply /\ toFrontend[i].by \in Threads /\ toFrontend[i].code \in Codes
               /\ toFrontend[i].out \in Outcomes
  <1>1. /\ DOMAIN toBackend = 1 .. Len(toBackend) /\ Len(toBackend) \in Nat
        /\ \A i \in DOMAIN toBackend : toBackend[i] \in Request
        /\ DOMAIN toFrontend = 1 .. Len(toFrontend) /\ Len(toFrontend) \in Nat
        /\ \A i \in DOMAIN toFrontend : toFrontend[i] \in Reply
    BY DEF TypeOK
  <1>2. \A m \in Request : m.by \in Threads /\ m.code \in Codes
    BY Zenon DEF Request
  <1>3. \A r \in Reply : r.by \in Threads /\ r.code \in Codes /\ r.out \in Outcomes
    BY Zenon DEF Reply
  <1> QED
    BY <1>1, <1>2, <1>3, Zenon

\* Sending a request keeps the invariant.
LEMMA SendSafe ==
  ASSUME Fitting, IInv, NEW t \in Threads, Sends(t)
  PROVE  IInv'
  <1>1. PICK m, f, await : SoundRequest(t, m, f, await) /\ Puts(t, m, f, await)
    BY Zenon DEF Sends
  <1> DEFINE q == toBackend
             n == Len(toBackend)
  <1>2. /\ q \in Seq(Request) /\ n \in Nat /\ m \in Request /\ n < MaxPending
        /\ toBackend' = Append(q, m) /\ MaxPending \in Nat
    BY <1>1 DEF IInv, TypeOK, SoundRequest, Puts, Fitting
  <1>3. /\ toBackend' \in Seq(Request) /\ Len(toBackend') = n + 1 /\ DOMAIN toBackend' = 1 .. n + 1
        /\ DOMAIN q = 1 .. n /\ toBackend'[n + 1] = m /\ \A i \in 1 .. n : toBackend'[i] = q[i]
    BY <1>2
  <1>4. /\ \A u \in Threads : call[u] = Idle
        /\ conn # "down" /\ conn' = conn /\ be' = be /\ toFrontend' = toFrontend /\ fe' = f
        /\ refused' = refused /\ misrouted' = misrouted
    BY <1>1, Zenon DEF Puts, Node
  <1>5. toFrontend = <<>>
    <2>1. toFrontend \in Seq(Reply) /\ \A i \in DOMAIN toFrontend : toFrontend[i].by \in Threads
      BY SocketTypes, Zenon DEF IInv, TypeOK
    <2>2. DOMAIN toFrontend = {}
      BY <1>4, <2>1, Zenon DEF IInv, AnswerInv
    <2> QED
      BY <2>1, <2>2, SMTT(30)
  <1>6. \A i \in 1 .. n : ~ q[i].awaited
    BY <1>4, SocketTypes, Zenon DEF IInv, RequestInv
  <1>7. /\ call \in [Threads -> {Idle} \cup
                        [code : Codes, await : {"ack", "body", "file", "optfile", "payload"}]]
        /\ m.code \in Codes /\ m.by = t /\ m.awaited = (await # "none")
    BY <1>1, Zenon DEF IInv, TypeOK, SoundRequest, Request
  <1>8. /\ call' \in [Threads -> {Idle} \cup
                        [code : Codes, await : {"ack", "body", "file", "optfile", "payload"}]]
        /\ \A u \in Threads : u # t => call'[u] = Idle
        /\ call'[t] = IF await = "none" THEN Idle ELSE [code |-> m.code, await |-> await]
    BY <1>1, <1>4, <1>7, ZenonT(40) DEF Puts, SoundRequest, Awaits
  <1>9. call'[t] # Idle <=> await # "none"
    BY <1>7, <1>8, SMTT(30) DEF Idle, Codes, TakesFiles
  <1>10. TypeOK'
    <2>1. fe' \in FrontendState
      BY <1>1, Zenon DEF Puts, SoundRequest
    <2>2. returned' \in {"none", "posted", "ok", "err", "broken"}
      BY <1>1, Zenon DEF Puts, IInv, TypeOK
    <2>3. Len(toBackend') <= MaxPending
      BY <1>2, <1>3
    <2> QED
      BY <1>3, <1>4, <1>8, <2>1, <2>2, <2>3, Zenon DEF IInv, TypeOK, FrontendState
  <1>11. CallInv'
    <2>1. \A u \in Threads : call'[u] # Idle => u = t
      BY <1>8, Zenon
    <2>2. /\ call'[t].code \in FileCodes <=> call'[t].await = "file"
          /\ call'[t].code = "SET_DEVICE_STATE_FD" => call'[t].await = "optfile"
      <3>1. CASE await = "none"
        BY <1>8, <3>1, SMTT(30) DEF Idle, FileCodes
      <3>2. CASE await # "none"
        BY <1>1, <1>8, <3>2, SMTT(30) DEF SoundRequest
      <3> QED
        BY <3>1, <3>2, Zenon
    <2> QED
      BY <1>8, <2>1, <2>2, SMTT(30) DEF CallInv, Idle, FileCodes
  <1>12. AnswerInv'
    BY <1>4, <1>5, SMTT(30) DEF AnswerInv
  <1>13. RequestInv'
    <2>1. \A i \in 1 .. n : WellFormed(toBackend'[i]) /\ ~ toBackend'[i].awaited
      BY <1>3, <1>6, Zenon DEF IInv, RequestInv
    <2>2. WellFormed(m)
      BY <1>1, Zenon DEF SoundRequest
    <2>3. m.awaited => call'[m.by] # Idle /\ call'[m.by].code = m.code
      <3>1. CASE await = "none"
        BY <1>7, <3>1, Zenon
      <3>2. CASE await # "none"
        BY <1>7, <1>8, <1>9, <3>2
      <3> QED
        BY <3>1, <3>2, Zenon
    <2>4. \A i \in DOMAIN toBackend' : i \in 1 .. n \/ (i = n + 1 /\ toBackend'[i] = m)
      BY <1>2, <1>3
    <2> QED
      BY <1>3, <1>4, <1>5, <2>1, <2>2, <2>3, <2>4, Zenon DEF RequestInv, WellFormed,
         CheckAttachedFiles
  <1>14. ASSUME conn = "up", NEW v \in Settings(be.proto)', NEW i \in 0 .. n + 1,
                InForce(toBackend', "SET_PROTOCOL_FEATURES", be.proto, i, v)
         PROVE  /\ i \in 1 .. n + 1 => Allowed(toBackend'[i], v) /\ AnswerAwaited(toBackend'[i], v)
                /\ i = n + 1 => v = f.proto
    <2>1. CASE i \in 0 .. n
      <3>0. InForce(Append(q, m), "SET_PROTOCOL_FEATURES", be.proto, i, v)
        BY <1>2, <1>14, Zenon
      <3>1. InForce(q, "SET_PROTOCOL_FEATURES", be.proto, i, v)
        BY <1>2, <2>1, <3>0, InForceBefore, Zenon
      <3>2. v \in Settings(be.proto)
        BY <2>1, <3>1, InForceSetting, Zenon DEF IInv
      <3>3. i \in 1 .. n => i \in DOMAIN q /\ toBackend'[i] = q[i]
        BY <1>3, Zenon
      <3> QED
        BY <1>2, <1>14, <2>1, <3>1, <3>2, <3>3 DEF IInv, ProtoInv
    <2>2. CASE i = n + 1
      <3>0. InForce(Append(q, m), "SET_PROTOCOL_FEATURES", be.proto, Len(q) + 1, v)
        BY <1>2, <1>14, <2>2, Zenon
      <3>1. IF m.code = "SET_PROTOCOL_FEATURES"
            THEN v = m.feats ELSE InForce(q, "SET_PROTOCOL_FEATURES", be.proto, n, v)
        BY <1>2, <3>0, InForceLast, Zenon
      <3>2. v = f.proto
        <4>1. CASE m.code = "SET_PROTOCOL_FEATURES"
          BY <1>1, <3>1, <4>1, Zenon DEF SoundRequest
        <4>2. CASE m.code # "SET_PROTOCOL_FEATURES"
          <5>1. n \in 0 .. Len(toBackend)
            BY <1>2
          <5>2. v \in Settings(be.proto)
            BY <3>1, <4>2, <5>1, InForceSetting, Zenon DEF IInv
          <5>3. v = fe.proto
            BY <1>14, <3>1, <4>2, <5>2, Zenon DEF IInv, ProtoInv
          <5> QED
            BY <1>1, <4>2, <5>3, Zenon DEF SoundRequest
        <4> QED
          BY <4>1, <4>2, Zenon
      <3> QED
        BY <1>1, <1>3, <2>2, <3>2, Zenon DEF SoundRequest
    <2> QED
      BY <1>2, <2>1, <2>2, SMTT(30)
  <1>15. ASSUME conn = "up", NEW v \in Settings(be.acked)', NEW i \in 0 .. n + 1,
                InForce(toBackend', "SET_FEATURES", be.acked, i, v)
         PROVE  /\ i \in 1 .. n + 1 /\ toBackend'[i].code = "SET_VRING_ENABLE" => PF \in v
                /\ i = n + 1 /\ PF \in f.acked => PF \in v
    <2>1. CASE i \in 0 .. n
      <3>0. InForce(Append(q, m), "SET_FEATURES", be.acked, i, v)
        BY <1>2, <1>15, Zenon
      <3>1. InForce(q, "SET_FEATURES", be.acked, i, v)
        BY <1>2, <2>1, <3>0, InForceBefore, Zenon
      <3>2. v \in Settings(be.acked)
        BY <2>1, <3>1, InForceSetting, Zenon DEF IInv
      <3>3. i \in 1 .. n => i \in DOMAIN q /\ toBackend'[i] = q[i]
        BY <1>3, Zenon
      <3> QED
        BY <1>2, <1>15, <2>1, <3>1, <3>2, <3>3 DEF IInv, AckedInv
    <2>2. CASE i = n + 1
      <3>0. InForce(Append(q, m), "SET_FEATURES", be.acked, Len(q) + 1, v)
        BY <1>2, <1>15, <2>2, Zenon
      <3>1. IF m.code = "SET_FEATURES"
            THEN v = m.feats ELSE InForce(q, "SET_FEATURES", be.acked, n, v)
        BY <1>2, <3>0, InForceLast, Zenon
      <3>2. PF \in f.acked => PF \in v
        <4>1. CASE m.code = "SET_FEATURES"
          BY <1>1, <3>1, <4>1, Zenon DEF SoundRequest
        <4>2. CASE m.code # "SET_FEATURES"
          <5>1. n \in 0 .. Len(toBackend)
            BY <1>2
          <5>2. v \in Settings(be.acked)
            BY <3>1, <4>2, <5>1, InForceSetting, Zenon DEF IInv
          <5>3. PF \in fe.acked => PF \in v
            BY <1>15, <3>1, <4>2, <5>2, Zenon DEF IInv, AckedInv
          <5> QED
            BY <1>1, <4>2, <5>3, Zenon DEF SoundRequest
        <4> QED
          BY <4>1, <4>2, Zenon
      <3> QED
        BY <1>1, <1>3, <2>2, <3>2, Zenon DEF SoundRequest
    <2> QED
      BY <1>2, <2>1, <2>2, SMTT(30)
  <1>16. conn = "up" => ProtoInv' /\ AckedInv'
    <2>1. \A i \in DOMAIN toBackend' : i \in 0 .. n + 1 /\ i \in 1 .. n + 1
      BY <1>2, <1>3
    <2>2. Len(toBackend') = n + 1 /\ n + 1 \in 0 .. n + 1
      BY <1>2, <1>3, SMTT(30)
    <2> QED
      BY <1>4, <1>14, <1>15, <2>1, <2>2, Zenon DEF ProtoInv, AckedInv
  <1>17. conn = "up" => FeaturesInv'
    <2> SUFFICES ASSUME conn = "up" PROVE FeaturesInv'
      BY Zenon
    <2>0. fe'.features = fe.features /\ (m.code = "SET_PROTOCOL_FEATURES" => PF \in fe.features)
      BY <1>1, Zenon DEF Puts, SoundRequest
    <2>1. m.code = "SET_PROTOCOL_FEATURES" => PF \in be.features
      <3>1. PF \in fe.features => PF \in be.features
        <4>1. fe.features \subseteq DeviceFeatures
          BY Zenon DEF IInv, TypeOK
        <4> QED
          BY <4>1, Zenon DEF IInv, FeaturesInv
      <3> QED
        BY <2>0, <3>1, Zenon
    <2>2. \A i \in DOMAIN toBackend' : toBackend'[i].code = "SET_PROTOCOL_FEATURES" => PF \in be.features
      <3>1. \A i \in DOMAIN toBackend' : i \in 1 .. n \/ (i = n + 1 /\ toBackend'[i] = m)
        BY <1>2, <1>3
      <3>2. \A i \in 1 .. n : q[i].code = "SET_PROTOCOL_FEATURES" => PF \in be.features
        BY <1>3, Zenon DEF IInv, FeaturesInv
      <3> QED
        BY <1>3, <2>1, <3>1, <3>2, Zenon
    <2> QED
      BY <1>4, <1>5, <2>0, <2>2, Zenon DEF IInv, FeaturesInv
  <1> QED
    BY <1>4, <1>10, <1>11, <1>12, <1>13, <1>16, <1>17, Zenon DEF IInv, NothingElseRefused

-------------------------------------------------------------------------------
(* Serving *)

BackendState == [features : SUBSET DeviceFeatures, acked : FeatureChoices \cup {{}},
                 proto : SUBSET ProtoFeatures, replyAck : BOOLEAN]

\* The protocol features and the acked features once m was served.
ProtoAfter(m) == IF m.code = "SET_PROTOCOL_FEATURES" THEN m.feats ELSE be.proto
AckedAfter(m) == IF m.code = "SET_FEATURES" THEN m.feats ELSE be.acked

\* The rings that eventfds were installed for are those that a byte can name.
MisroutedOK == misrouted \subseteq Nat \X (0 .. FdBit - 1)

\* What is known of the handler and of the request m that it takes from the socket.
Ready(m) ==
    /\ m \in Request /\ WellFormed(m)
    /\ be \in BackendState
    /\ Allowed(m, ProtoAfter(m)) /\ AnswerAwaited(m, ProtoAfter(m))
    /\ m.code = "SET_VRING_ENABLE" => PF \in be.acked
    /\ be.replyAck = (PF \in be.features /\ "REPLY_ACK" \in be.proto)
    /\ be.proto # {} => PF \in be.features
    /\ m.code = "SET_PROTOCOL_FEATURES" => PF \in be.features
    /\ NothingElseRefused /\ MisroutedOK

\* The state b of the handler after m.
Keeps(m, b) ==
    /\ b \in BackendState
    /\ b.proto = ProtoAfter(m) /\ b.acked = AckedAfter(m)
    /\ b.features = IF m.code = "GET_FEATURES" THEN DeviceFeatures ELSE be.features
    /\ b.replyAck = (PF \in b.features /\ "REPLY_ACK" \in b.proto)

\* The answer r has what the sender of m looks for.
SoundReply(m, r) ==
    /\ r \in Reply /\ r.by = m.by /\ r.code = m.code
    /\ r.file => r.code \in FileCodes \cup {"SET_DEVICE_STATE_FD"}
    /\ r.code \in FileCodes /\ r.out = "ok" => r.file
    /\ r.code = "GET_FEATURES" => r.feats = DeviceFeatures
    /\ r.code = "GET_QUEUE_NUM" => r.num = QueueNum

\* A step that serves m: it fails without a word, or says nothing and nobody waits, or
\* answers and somebody waits.
Mute == conn' = "failing" /\ be' = be /\ toFrontend' = toFrontend
Unanswered(m) ==
    ~ m.awaited /\ Keeps(m, be') /\ conn' \in {conn, "failing"} /\ toFrontend' = toFrontend
Answered(m) ==
    /\ m.awaited /\ Keeps(m, be')
    /\ \E r : /\ SoundReply(m, r) /\ toFrontend' = Append(toFrontend, r)
              /\ conn' = conn \/ (conn' = "failing" /\ r.out = "err")
Serves(m) ==
    /\ NothingElseRefused' /\ MisroutedOK'
    /\ refused' \subseteq refused \cup {m.code}
    /\ Mute \/ Unanswered(m) \/ Answered(m)

\* Without the requests that change a setting the handler stays as it is.
LEMMA KeepsAsItIs ==
  ASSUME NEW m, Ready(m), m.code \notin {"GET_FEATURES", "SET_FEATURES", "SET_PROTOCOL_FEATURES"}
  PROVE  Keeps(m, be)
  BY Zenon DEF Ready, Keeps, ProtoAfter, AckedAfter

\* send_ack_message answers exactly the requests whose sender waits for an ack.
LEMMA AckServes ==
  ASSUME NEW m, Ready(m), NEW b, NEW out \in Outcomes, SendAckMessage(m, out, b), be' = b,
         refused' = refused, MisroutedOK',
         Keeps(m, b), m.code \notin Asked \cup {"SET_LOG_BASE"}
  PROVE  Serves(m)
  <1>1. NothingElseRefused' /\ MisroutedOK' /\ refused' \subseteq refused \cup {m.code}
    BY Zenon DEF Ready, NothingElseRefused, MisroutedOK
  <1>2. m.awaited = ("REPLY_ACK" \in b.proto /\ m.need)
    BY Zenon DEF Ready, AnswerAwaited, Keeps
  <1>3. m.code # "GET_FEATURES"
    BY Zenon DEF Asked
  <1>4. "REPLY_ACK" \in b.proto => PF \in b.features
    BY <1>3, Zenon DEF Ready, Keeps, ProtoAfter
  <1>5. b.replyAck = ("REPLY_ACK" \in b.proto)
    BY <1>4 DEF Keeps
  <1>6. (b.replyAck /\ m.need) = m.awaited
    BY <1>2, <1>5, Zenon
  <1>7. m.awaited \in BOOLEAN /\ m \in Request /\ conn' \in {conn, "failing"}
    BY Zenon DEF Ready, Request, SendAckMessage
  <1>8. CASE m.awaited
    <2> DEFINE r == Answer(m, out, NoArg, FALSE, FALSE)
    <2>1. toFrontend' = Append(toFrontend, r)
      BY <1>6, <1>8, Zenon DEF SendAckMessage, SendReply
    <2>2. r \in Reply
      <3>1. m.by \in Threads /\ m.code \in Codes
        BY <1>7, Zenon DEF Request
      <3> QED
        BY <3>1, ArgTypes DEF Answer, Reply
    <2>3. r.by = m.by /\ r.code = m.code /\ r.file = FALSE
      BY Zenon DEF Answer
    <2>4. SoundReply(m, r)
      <3>1. m.code \notin FileCodes /\ m.code # "GET_QUEUE_NUM"
        BY Zenon DEF Asked
      <3> HIDE DEF r
      <3> QED
        BY <1>3, <2>2, <2>3, <3>1, Zenon DEF SoundReply
    <2>5. conn' = conn \/ (conn' = "failing" /\ r.out = "err")
      BY Zenon DEF SendAckMessage, Outcomes, Answer
    <2> HIDE DEF r
    <2> QED
      BY <1>1, <1>8, <2>1, <2>4, <2>5, Zenon DEF Serves, Answered
  <1>9. CASE ~ m.awaited
    <2>1. toFrontend' = toFrontend
      BY <1>6, <1>9, Zenon DEF SendAckMessage
    <2> QED
      BY <1>1, <1>7, <1>9, <2>1, Zenon DEF Serves, Unanswered
  <1> QED
    BY <1>7, <1>8, <1>9, Zenon

\* A call of the device whose result is sent back, with new negotiated state b.
LEMMA ReplyServes ==
  ASSUME NEW m, Ready(m), m.awaited, NEW b, NEW arg, NEW file \in BOOLEAN,
         CallAndReply(m, arg, file, b), Keeps(m, b),
         SoundReply(m, Answer(m, "ok", arg, file, FALSE))
  PROVE  Serves(m)
  <1>1. NothingElseRefused' /\ MisroutedOK' /\ refused' \subseteq refused \cup {m.code}
    BY Zenon DEF Ready, NothingElseRefused, MisroutedOK, CallAndReply
  <1>2. CASE Fail
    BY <1>1, <1>2, Zenon DEF Fail, Serves, Mute
  <1>3. CASE SendReply(m, "ok", arg, file, FALSE) /\ be' = b /\ conn' = conn
    BY <1>1, <1>3, Zenon DEF SendReply, Serves, Answered
  <1> QED
    BY <1>2, <1>3, Zenon DEF CallAndReply

\* A call of the device whose reply says whether it failed.
LEMMA TellServes ==
  ASSUME NEW m, Ready(m), m.code \in Asked \ {"GET_FEATURES", "GET_QUEUE_NUM"}, Keeps(m, be),
         NEW forms, CallAndTell(m, forms),
         \A a \in forms : /\ a \in [out : Outcomes, file : BOOLEAN, payload : BOOLEAN]
                          /\ a.file => m.code \in FileCodes \cup {"SET_DEVICE_STATE_FD"}
                          /\ m.code \in FileCodes /\ a.out = "ok" => a.file
  PROVE  Serves(m)
  <1>1. NothingElseRefused' /\ MisroutedOK' /\ refused' \subseteq refused \cup {m.code}
    BY Zenon DEF Ready, NothingElseRefused, MisroutedOK, CallAndTell
  <1>2. PICK a \in forms : SendReply(m, a.out, NoArg, a.file, a.payload)
    BY Zenon DEF CallAndTell
  <1>3. be' = be /\ conn' = conn
    BY Zenon DEF CallAndTell
  <1>4. m.by \in Threads /\ m.code \in Codes
    BY Zenon DEF Ready, Request
  <1> DEFINE r == Answer(m, a.out, NoArg, a.file, a.payload)
  <1>5. r \in Reply /\ r.by = m.by /\ r.code = m.code /\ r.file = a.file /\ r.out = a.out
    <2>1. r = [by |-> m.by, code |-> m.code, out |-> a.out, num |-> 0, feats |-> {},
               file |-> a.file, payload |-> a.payload]
      BY ArgTypes, Zenon DEF Answer
    <2>2. a.out \in Outcomes /\ a.file \in BOOLEAN /\ a.payload \in BOOLEAN
      BY <1>2, Zenon
    <2> HIDE DEF r
    <2> QED
      BY <1>4, <2>1, <2>2, Zenon DEF Reply
  <1>6. toFrontend' = Append(toFrontend, r)
    BY <1>2, Zenon DEF SendReply
  <1> HIDE DEF r
  <1>7. SoundReply(m, r)
    BY <1>5, Zenon DEF SoundReply
  <1>8. m.awaited
    BY Zenon DEF Ready, AnswerAwaited
  <1> QED
    BY <1>1, <1>3, <1>6, <1>7, <1>8, Zenon DEF Serves, Answered

\* The two log requests that the backend may refuse are not answered.
LEMMA RefuseServes ==
  ASSUME NEW m, Ready(m), Refuse(m), m.code \in {"SET_LOG_BASE", "SET_LOG_FD"}
  PROVE  Serves(m)
  BY Zenon DEF Ready, Refuse, Fail, Serves, Mute, NothingElseRefused, MisroutedOK

\* A body that is not valid is not answered.
LEMMA InvalidServes ==
  ASSUME NEW m, Ready(m), Invalid
  PROVE  Serves(m)
  BY Zenon DEF Ready, Invalid, Fail, Serves, Mute, NothingElseRefused, MisroutedOK

\* update_reply_ack_flag changes the flag and nothing else.
LEMMA UpdateFields ==
  ASSUME NEW b \in BackendState
  PROVE  LET u == UpdateReplyAckFlag(b)
         IN  /\ u \in BackendState /\ u.features = b.features /\ u.acked = b.acked
             /\ u.proto = b.proto /\ u.replyAck = (PF \in b.features /\ "REPLY_ACK" \in b.proto)
  <1>1. PICK f \in BOOLEAN : f = (PF \in b.features /\ "REPLY_ACK" \in b.proto)
    BY Zenon
  <1>2. UpdateReplyAckFlag(b) = [b EXCEPT !.replyAck = f]
    BY <1>1, Zenon DEF UpdateReplyAckFlag
  <1> QED
    BY <1>1, <1>2, Zenon DEF BackendState

\* handle_vring_fd_request calls the device with an index that fits into a byte.
LEMMA VringFdServes ==
  ASSUME Fitting, NEW m, Ready(m), m.code \in VringFdCodes, CallWithVringFd(m), ~ Invalid
  PROVE  Serves(m)
  <1>1. m.num \in Nat /\ FdBit \in Nat \ {0}
    BY Zenon DEF Ready, Request, Fitting
  <1>2. VringIndex(m.num) \in 0 .. FdBit - 1
    <2>1. \A a, d \in Nat : d # 0 => a % d \in 0 .. d - 1
      BY Z3
    <2> QED
      BY <1>1, <2>1 DEF VringIndex
  <1>3. PICK out \in Outcomes : SendAckMessage(m, out, be)
    BY Zenon DEF CallWithVringFd
  <1>4. be' = be /\ refused' = refused
    BY Zenon DEF CallWithVringFd
  <1>5. MisroutedOK'
    <2>1. misrouted' = misrouted \cup ({<<m.num, VringIndex(m.num)>>} \ {<<m.num, m.num>>})
      BY Zenon DEF CallWithVringFd
    <2>2. <<m.num, VringIndex(m.num)>> \in Nat \X (0 .. FdBit - 1)
      BY <1>1, <1>2, Zenon
    <2> QED
      BY <2>1, <2>2, Zenon DEF Ready, MisroutedOK
  <1>6. m.code \notin Asked \cup {"SET_LOG_BASE", "SET_FEATURES", "SET_PROTOCOL_FEATURES"}
    BY Zenon DEF VringFdCodes, Asked, FileCodes
  <1>7. m.code # "GET_FEATURES"
    BY <1>6, Zenon DEF Asked
  <1> QED
    BY <1>3, <1>4, <1>5, <1>6, <1>7, KeepsAsItIs, AckServes, Zenon

\* The forms of an answer that is sent in any case.
LEMMA FormFields ==
  LET F == [out : Outcomes, file : BOOLEAN, payload : BOOLEAN]
  IN  /\ Form("ok", FALSE, FALSE) \in F /\ Form("ok", FALSE, FALSE).file = FALSE
      /\ Form("ok", FALSE, TRUE) \in F /\ Form("ok", FALSE, TRUE).file = FALSE
      /\ Form("ok", TRUE, FALSE) \in F /\ Form("ok", TRUE, FALSE).file = TRUE
      /\ Form("err", FALSE, FALSE) \in F /\ Form("err", FALSE, FALSE).file = FALSE
      /\ Form("err", FALSE, FALSE).out = "err"
  BY Zenon DEF Form, Outcomes

\* Every arm of handle_request serves the request as it should.
LEMMA DispatchServes ==
  ASSUME Fitting, NEW m, Ready(m), Dispatch(m)
  PROVE  Serves(m)
  <1>0. /\ m \in Request /\ m.by \in Threads /\ m.code \in Codes /\ be \in BackendState
        /\ WellFormed(m) /\ m.awaited \in BOOLEAN
    BY Zenon DEF Ready, Request
  <1> DEFINE Setters == {"GET_FEATURES", "SET_FEATURES", "SET_PROTOCOL_FEATURES"}
  <1> SUFFICES ASSUME ~ Invalid PROVE Serves(m)
    BY InvalidServes, Zenon
  <1>1. CASE m.code \notin Setters
    <2>0. Keeps(m, be) /\ Allowed(m, be.proto)
      BY <1>1, KeepsAsItIs, Zenon DEF Ready, ProtoAfter
    <2>1. CASE
            \/ SET_OWNER(m) \/ RESET_OWNER(m) \/ RESET_DEVICE(m) \/ SET_MEM_TABLE(m)
            \/ SET_VRING_NUM(m) \/ SET_VRING_ADDR(m) \/ SET_VRING_BASE(m)
            \/ SET_VRING_ENABLE(m) \/ SET_CONFIG(m) \/ SET_BACKEND_REQ_FD(m)
            \/ SET_INFLIGHT_FD(m) \/ ADD_MEM_REG(m) \/ REM_MEM_REG(m) \/ POSTCOPY_LISTEN(m)
            \/ POSTCOPY_END(m)
      <3>1. CallAndAck(m, be) /\ m.code \notin Asked \cup {"SET_LOG_BASE"}
        <4> USE DEF IfProto, IfValid, Allowed, Asked, FileCodes
        <4>1. CASE SET_OWNER(m)
          BY <2>0, <4>1, Zenon DEF SET_OWNER
        <4>2. CASE RESET_OWNER(m)
          BY <2>0, <4>2, Zenon DEF RESET_OWNER
        <4>3. CASE RESET_DEVICE(m)
          BY <2>0, <4>3, Zenon DEF RESET_DEVICE
        <4>4. CASE SET_MEM_TABLE(m)
          BY <2>0, <4>4, Zenon DEF SET_MEM_TABLE
        <4>5. CASE SET_VRING_NUM(m)
          BY <2>0, <4>5, Zenon DEF SET_VRING_NUM
        <4>6. CASE SET_VRING_ADDR(m)
          BY <2>0, <4>6, Zenon DEF SET_VRING_ADDR
        <4>7. CASE SET_VRING_BASE(m)
          BY <2>0, <4>7, Zenon DEF SET_VRING_BASE
        <4>8. CASE SET_VRING_ENABLE(m)
          BY <2>0, <4>8, Zenon DEF SET_VRING_ENABLE, Ready
        <4>9. CASE SET_CONFIG(m)
          BY <2>0, <4>9, Zenon DEF SET_CONFIG
        <4>10. CASE SET_BACKEND_REQ_FD(m)
          BY <2>0, <4>10, Zenon DEF SET_BACKEND_REQ_FD
        <4>11. CASE SET_INFLIGHT_FD(m)
          BY <2>0, <4>11, Zenon DEF SET_INFLIGHT_FD
        <4>12. CASE ADD_MEM_REG(m)
          BY <2>0, <4>12, Zenon DEF ADD_MEM_REG
        <4>13. CASE REM_MEM_REG(m)
          BY <2>0, <4>13, Zenon DEF REM_MEM_REG
        <4>14. CASE POSTCOPY_LISTEN(m)
          BY <2>0, <4>14, Zenon DEF POSTCOPY_LISTEN
        <4>15. CASE POSTCOPY_END(m)
          BY <2>0, <4>15, Zenon DEF POSTCOPY_END
        <4> QED
          BY <2>1, <4>1, <4>2, <4>3, <4>4, <4>5, <4>6, <4>7, <4>8, <4>9, <4>10, <4>11, <4>12, <4>13,
             <4>14, <4>15, Zenon
      <3>2. PICK out \in Outcomes : SendAckMessage(m, out, be)
        BY <3>1, Zenon DEF CallAndAck
      <3>3. be' = be /\ refused' = refused /\ MisroutedOK'
        BY <3>1, Zenon DEF CallAndAck, Ready, MisroutedOK
      <3> QED
        BY <2>0, <3>1, <3>2, <3>3, AckServes, Zenon
    <2>2. CASE SET_VRING_FD(m)
      BY <2>2, VringFdServes, Zenon DEF SET_VRING_FD, VringFdCodes
    <2>3. CASE Unknown(m)
      BY <2>3, RefuseServes, Zenon DEF Unknown
    <2>4. CASE SET_LOG_BASE(m) /\ ~ (m.file /\ "LOG_SHMFD" \in be.proto)
      BY <2>4, RefuseServes, Zenon DEF SET_LOG_BASE, IfProto
    <2>5. CASE \/ GET_VRING_BASE(m) \/ GET_MAX_MEM_SLOTS(m) \/ GET_SHMEM_CONFIG(m)
               \/ SET_LOG_BASE(m) /\ m.file /\ "LOG_SHMFD" \in be.proto
      <3>1. /\ CallAndReply(m, NoArg, FALSE, be) /\ m.awaited
            /\ m.code \notin FileCodes \cup {"GET_FEATURES", "GET_QUEUE_NUM"}
        <4> USE DEF IfProto, IfValid, Allowed, Asked, FileCodes, Ready, AnswerAwaited
        <4>1. CASE GET_VRING_BASE(m)
          BY <4>1, Zenon DEF GET_VRING_BASE
        <4>2. CASE GET_MAX_MEM_SLOTS(m)
          BY <2>0, <4>2, Zenon DEF GET_MAX_MEM_SLOTS
        <4>3. CASE GET_SHMEM_CONFIG(m)
          BY <2>0, <4>3, Zenon DEF GET_SHMEM_CONFIG
        <4>4. CASE SET_LOG_BASE(m) /\ m.file /\ "LOG_SHMFD" \in be.proto
          BY <1>0, <4>4, ZenonT(40) DEF SET_LOG_BASE
        <4> QED
          BY <2>5, <4>1, <4>2, <4>3, <4>4, Zenon
      <3> DEFINE r == Answer(m, "ok", NoArg, FALSE, FALSE)
      <3>2. r \in Reply /\ r.by = m.by /\ r.code = m.code /\ r.file = FALSE
        BY <1>0, ArgTypes DEF Answer, Reply, Outcomes
      <3>3. SoundReply(m, r)
        <4> HIDE DEF r
        <4> QED
          BY <3>1, <3>2, Zenon DEF SoundReply
      <3> QED
        BY <2>0, <3>1, <3>3, ReplyServes, Zenon
    <2>6. CASE GET_QUEUE_NUM(m)
      <3>1. CallAndReply(m, Num(QueueNum), FALSE, be) /\ m.awaited /\ m.code = "GET_QUEUE_NUM"
        BY <2>0, <2>6, Zenon DEF GET_QUEUE_NUM, IfProto, Allowed, Asked, Ready, AnswerAwaited
      <3> DEFINE r == Answer(m, "ok", Num(QueueNum), FALSE, FALSE)
      <3>2. r \in Reply /\ r.by = m.by /\ r.code = m.code /\ r.file = FALSE /\ r.num = QueueNum
        <4>1. r = [by |-> m.by, code |-> m.code, out |-> "ok", num |-> QueueNum, feats |-> {},
                   file |-> FALSE, payload |-> FALSE]
          BY ArgTypes, Zenon DEF Answer
        <4>2. QueueNum \in Nat
          BY DEF Fitting
        <4> HIDE DEF r
        <4> QED
          BY <1>0, <4>1, <4>2, Zenon DEF Reply, Outcomes
      <3>3. SoundReply(m, r)
        <4> HIDE DEF r
        <4> QED
          BY <3>1, <3>2, Zenon DEF SoundReply, FileCodes
      <3> QED
        BY <2>0, <3>1, <3>3, ReplyServes, Zenon
    <2>7. CASE GET_INFLIGHT_FD(m)
      <3>1. CallAndReply(m, NoArg, TRUE, be) /\ m.awaited /\ m.code = "GET_INFLIGHT_FD"
        BY <2>0, <2>7, ZenonT(40) DEF GET_INFLIGHT_FD, IfProto, IfValid, Allowed, Asked, FileCodes,
           Ready, AnswerAwaited
      <3> DEFINE r == Answer(m, "ok", NoArg, TRUE, FALSE)
      <3>2. r \in Reply /\ r.by = m.by /\ r.code = m.code /\ r.file = TRUE
        BY <1>0, ArgTypes, SMTT(30) DEF Answer, Reply, Outcomes
      <3>3. SoundReply(m, r)
        <4> HIDE DEF r
        <4> QED
          BY <3>1, <3>2, Zenon DEF SoundReply, FileCodes
      <3> QED
        BY <2>0, <3>1, <3>3, ReplyServes, Zenon
    <2>8. CASE GET_PROTOCOL_FEATURES(m)
      <3>1. /\ CallAndReply(m, Feats(ProtoFeatures \cup {"REPLY_ACK"}), FALSE, UpdateReplyAckFlag(be))
            /\ m.awaited /\ m.code = "GET_PROTOCOL_FEATURES"
        BY <2>8, Zenon DEF GET_PROTOCOL_FEATURES, Asked, Ready, AnswerAwaited
      <3>2. Keeps(m, UpdateReplyAckFlag(be))
        BY <1>0, <2>0, UpdateFields, Zenon DEF Keeps
      <3> DEFINE s == ProtoFeatures \cup {"REPLY_ACK"}
                 r == Answer(m, "ok", Feats(s), FALSE, FALSE)
      <3>3. r \in Reply /\ r.by = m.by /\ r.code = m.code /\ r.file = FALSE
        <4>1. s \in SUBSET (ProtoFeatures \cup DeviceFeatures \cup {"REPLY_ACK"})
          BY Zenon
        <4>2. r = [by |-> m.by, code |-> m.code, out |-> "ok", num |-> 0, feats |-> s,
                   file |-> FALSE, payload |-> FALSE]
          BY ArgTypes, Zenon DEF Answer
        <4> HIDE DEF s, r
        <4> QED
          BY <1>0, <4>1, <4>2, Zenon DEF Reply, Outcomes
      <3>4. SoundReply(m, r)
        <4> HIDE DEF r
        <4> QED
          BY <3>1, <3>3, Zenon DEF SoundReply, FileCodes
      <3> QED
        BY <3>1, <3>2, <3>4, ReplyServes, Zenon
    <2>9. CASE GET_CONFIG(m) \/ CHECK_DEVICE_STATE(m) \/ SET_DEVICE_STATE_FD(m)
               \/ GET_SHARED_OBJECT(m) \/ POSTCOPY_ADVISE(m)
      <3> USE DEF IfProto, IfValid, Allowed, Asked, FileCodes
      <3>1. CASE GET_CONFIG(m)
        <4> DEFINE forms == {Form("ok", FALSE, TRUE)} \cup
                              IF ConfigFails THEN {Form("err", FALSE, FALSE)} ELSE {}
        <4>1. CallAndTell(m, forms) /\ m.code = "GET_CONFIG"
          BY <2>0, <3>1, Zenon DEF GET_CONFIG
        <4>2. \A a \in forms : a \in [out : Outcomes, file : BOOLEAN, payload : BOOLEAN] /\ ~ a.file
          BY FormFields, Zenon
        <4> HIDE DEF forms
        <4> QED
          BY <2>0, <4>1, <4>2, TellServes, Zenon
      <3>2. CASE CHECK_DEVICE_STATE(m)
        <4> DEFINE forms == {Form("ok", FALSE, FALSE), Form("err", FALSE, FALSE)}
        <4>1. CallAndTell(m, forms) /\ m.code = "CHECK_DEVICE_STATE"
          BY <3>2, Zenon DEF CHECK_DEVICE_STATE
        <4>2. \A a \in forms : a \in [out : Outcomes, file : BOOLEAN, payload : BOOLEAN] /\ ~ a.file
          BY FormFields, ZenonT(40)
        <4> HIDE DEF forms
        <4> QED
          BY <2>0, <4>1, <4>2, TellServes, Zenon
      <3>3. CASE SET_DEVICE_STATE_FD(m)
        <4> DEFINE forms == {Form("ok", FALSE, FALSE), Form("ok", TRUE, FALSE), Form("err", FALSE, FALSE)}
        <4>1. CallAndTell(m, forms) /\ m.code = "SET_DEVICE_STATE_FD"
          BY <3>3, Zenon DEF SET_DEVICE_STATE_FD
        <4>2. \A a \in forms : a \in [out : Outcomes, file : BOOLEAN, payload : BOOLEAN]
          BY FormFields, Zenon
        <4> HIDE DEF forms
        <4> QED
          BY <2>0, <4>1, <4>2, TellServes, Zenon
      <3>4. CASE GET_SHARED_OBJECT(m) \/ POSTCOPY_ADVISE(m)
        <4> DEFINE forms == {Form("ok", TRUE, FALSE), Form("err", FALSE, FALSE)}
        <4>1. CallAndTell(m, forms) /\ m.code \in {"GET_SHARED_OBJECT", "POSTCOPY_ADVISE"}
          BY <2>0, <3>4, Zenon DEF GET_SHARED_OBJECT, POSTCOPY_ADVISE
        <4>2. \A a \in forms : /\ a \in [out : Outcomes, file : BOOLEAN, payload : BOOLEAN]
                               /\ a.out = "ok" => a.file
          BY FormFields, Zenon
        <4> HIDE DEF forms
        <4> QED
          BY <2>0, <4>1, <4>2, TellServes, ZenonT(40)
      <3> QED
        BY <2>9, <3>1, <3>2, <3>3, <3>4, Zenon
    <2> QED
      BY <1>1, <2>1, <2>2, <2>3, <2>4, <2>5, <2>6, <2>7, <2>8, <2>9, ZenonT(40) DEF Dispatch, GET_FEATURES,
         SET_FEATURES, SET_PROTOCOL_FEATURES
  <1>2. m.code \in Setters => GET_FEATURES(m) \/ SET_FEATURES(m) \/ SET_PROTOCOL_FEATURES(m)
    BY Zenon DEF Dispatch, GET_VRING_BASE, SET_VRING_FD, GET_PROTOCOL_FEATURES, GET_QUEUE_NUM, GET_CONFIG,
       GET_SHARED_OBJECT, GET_INFLIGHT_FD, GET_MAX_MEM_SLOTS, SET_DEVICE_STATE_FD,
       CHECK_DEVICE_STATE, GET_SHMEM_CONFIG, POSTCOPY_ADVISE, SET_LOG_BASE, Unknown,
       SET_OWNER, RESET_OWNER, RESET_DEVICE, SET_MEM_TABLE, SET_VRING_NUM, SET_VRING_ADDR,
       SET_VRING_BASE, SET_VRING_ENABLE, SET_CONFIG, SET_BACKEND_REQ_FD, SET_INFLIGHT_FD, ADD_MEM_REG,
       REM_MEM_REG, POSTCOPY_LISTEN, POSTCOPY_END
  <1>3. CASE GET_FEATURES(m)
    <2> DEFINE b == [be EXCEPT !.features = DeviceFeatures]
    <2>1. /\ CallAndReply(m, Feats(DeviceFeatures), FALSE, UpdateReplyAckFlag(b)) /\ m.awaited
      BY <1>3, Zenon DEF GET_FEATURES, Asked, Ready, AnswerAwaited
    <2>2. /\ b \in BackendState /\ b.features = DeviceFeatures /\ b.acked = be.acked
          /\ b.proto = be.proto
      BY <1>0, Zenon DEF BackendState
    <2>3. Keeps(m, UpdateReplyAckFlag(b))
      <3> HIDE DEF b
      <3> QED
        BY <1>3, <2>2, UpdateFields, Zenon DEF Keeps, GET_FEATURES, ProtoAfter, AckedAfter
    <2> DEFINE r == Answer(m, "ok", Feats(DeviceFeatures), FALSE, FALSE)
    <2>4. /\ r \in Reply /\ r.by = m.by /\ r.code = m.code /\ r.file = FALSE
          /\ r.feats = DeviceFeatures
      <3>1. r = [by |-> m.by, code |-> m.code, out |-> "ok", num |-> 0, feats |-> DeviceFeatures,
                 file |-> FALSE, payload |-> FALSE]
        BY ArgTypes, Zenon DEF Answer
      <3> HIDE DEF r
      <3> QED
        BY <1>0, <3>1, Zenon DEF Reply, Outcomes
    <2>5. SoundReply(m, r)
      <3> HIDE DEF r
      <3> QED
        BY <1>3, <2>4, Zenon DEF SoundReply, FileCodes, GET_FEATURES
    <2> QED
      BY <2>1, <2>3, <2>5, ReplyServes, Zenon
  <1>4. CASE SET_FEATURES(m) \/ SET_PROTOCOL_FEATURES(m)
    <2> DEFINE c == IF m.code = "SET_FEATURES" THEN [be EXCEPT !.acked = m.feats]
                                               ELSE [be EXCEPT !.proto = m.feats]
    <2>1. CallAndAck(m, UpdateReplyAckFlag(c))
      BY <1>4, Zenon DEF SET_FEATURES, SET_PROTOCOL_FEATURES
    <2>2. /\ c \in BackendState /\ c.features = be.features
          /\ c.acked = AckedAfter(m) /\ c.proto = ProtoAfter(m)
      BY <1>0, <1>4, Zenon DEF BackendState, WellFormed, AckedAfter, ProtoAfter, SET_FEATURES,
         SET_PROTOCOL_FEATURES
    <2>3. Keeps(m, UpdateReplyAckFlag(c))
      <3> HIDE DEF c
      <3> QED
        BY <1>4, <2>2, UpdateFields, Zenon DEF Keeps, SET_FEATURES, SET_PROTOCOL_FEATURES
    <2>4. m.code \notin Asked \cup {"SET_LOG_BASE"}
      BY <1>4, Zenon DEF Asked, FileCodes, SET_FEATURES, SET_PROTOCOL_FEATURES
    <2> HIDE DEF c
    <2>5. PICK out \in Outcomes : SendAckMessage(m, out, UpdateReplyAckFlag(c))
      BY <2>1, Zenon DEF CallAndAck
    <2>6. be' = UpdateReplyAckFlag(c) /\ refused' = refused /\ MisroutedOK'
      BY <2>1, Zenon DEF CallAndAck, Ready, MisroutedOK
    <2> QED
      BY <2>3, <2>4, <2>5, <2>6, AckServes, Zenon
  <1> QED
    BY <1>1, <1>2, <1>3, <1>4, Zenon

\* The request that is taken from the socket is one the handler is ready for.
LEMMA HandleReady ==
  ASSUME IInv, conn = "up", toBackend # <<>>
  PROVE  Ready(Head(toBackend))
  <1> DEFINE m == toBackend[1]
  <1>1. Head(toBackend) = m /\ 1 \in DOMAIN toBackend /\ m \in Request
    BY SocketTypes, SMTT(30) DEF IInv, TypeOK
  <1>2. ProtoAfter(m) \in Settings(be.proto) /\ AckedAfter(m) \in Settings(be.acked)
    BY <1>1, Zenon DEF ProtoAfter, AckedAfter, Settings
  <1>3. /\ \A j \in 1 .. 1 : j = 1
        /\ 1 \in 1 .. 1
        /\ \A j \in 1 + 1 .. 1 : FALSE
    OBVIOUS
  <1>4. InForce(toBackend, "SET_PROTOCOL_FEATURES", be.proto, 1, ProtoAfter(m))
    BY <1>3, Zenon DEF InForce, ProtoAfter
  <1>5. InForce(toBackend, "SET_FEATURES", be.acked, 1, AckedAfter(m))
    BY <1>3, Zenon DEF InForce, AckedAfter
  <1>6. Allowed(m, ProtoAfter(m)) /\ AnswerAwaited(m, ProtoAfter(m))
    BY <1>1, <1>2, <1>4, Zenon DEF IInv, ProtoInv
  <1>7. m.code = "SET_VRING_ENABLE" => PF \in be.acked
    BY <1>1, <1>2, <1>5, Zenon DEF IInv, AckedInv, AckedAfter
  <1>8. WellFormed(m)
    BY <1>1, Zenon DEF IInv, RequestInv
  <1>9. be \in BackendState
    BY Zenon DEF IInv, TypeOK, BackendState
  <1>10. /\ be.replyAck = (PF \in be.features /\ "REPLY_ACK" \in be.proto)
         /\ be.proto # {} => PF \in be.features
         /\ m.code = "SET_PROTOCOL_FEATURES" => PF \in be.features
    BY <1>1, Zenon DEF IInv, FeaturesInv
  <1>11. NothingElseRefused /\ MisroutedOK
    BY Zenon DEF IInv, TypeOK, MisroutedOK
  <1> HIDE DEF m
  <1> QED
    BY <1>1, <1>6, <1>7, <1>8, <1>9, <1>10, <1>11, Zenon DEF Ready, IInv

\* Whatever handle_request does with a request that the invariant covers serves it.
LEMMA HandleServes ==
  ASSUME Fitting, IInv, HandleRequest
  PROVE  Serves(Head(toBackend))
  <1>1. Ready(Head(toBackend))
    BY HandleReady, Zenon DEF HandleRequest
  <1>2. Dispatch(Head(toBackend))
    BY <1>1, Zenon DEF Ready, WellFormed, HandleRequest
  <1> QED
    BY <1>1, <1>2, DispatchServes, Zenon

\* A sequence with one element.
LEMMA Single ==
  ASSUME NEW A, NEW r \in A
  PROVE  /\ Append(<<>>, r) \in Seq(A) /\ Len(Append(<<>>, r)) = 1
         /\ DOMAIN Append(<<>>, r) = {1} /\ Append(<<>>, r)[1] = r
  BY SMTT(30)

\* The last of the requests that follow the first.
LEMMA LastOne ==
  ASSUME NEW n \in Nat, NEW i \in 1 .. n - 1, i + 1 = n
  PROVE  i = n - 1
  BY SMTT(30)

\* Serving a request keeps the invariant.
LEMMA HandleSafe ==
  ASSUME Fitting, IInv, HandleRequest
  PROVE  IInv'
  <1> DEFINE m == Head(toBackend)
             n == Len(toBackend)
  <1>1. Ready(m) /\ Serves(m)
    BY HandleReady, HandleServes, Zenon DEF HandleRequest
  <1>2. /\ conn = "up" /\ toBackend # <<>> /\ toBackend' = Tail(toBackend)
        /\ fe' = fe /\ call' = call /\ returned' = returned /\ toBackend \in Seq(Request)
    BY Zenon DEF HandleRequest, IInv, TypeOK
  <1>3. /\ n \in Nat \ {0} /\ m = toBackend[1] /\ m \in Request /\ DOMAIN toBackend = 1 .. n
        /\ toBackend' \in Seq(Request) /\ Len(toBackend') = n - 1 /\ DOMAIN toBackend' = 1 .. n - 1
        /\ \A i \in 1 .. n - 1 : toBackend'[i] = toBackend[i + 1] /\ i + 1 \in 1 .. n
    BY <1>2, SMTT(30)
  <1>4. m.by \in Threads /\ m.code \in Codes /\ m.awaited \in BOOLEAN
    BY <1>3, Zenon DEF Request
  <1> HIDE DEF m
  <1>5. Answered(m) => toFrontend = <<>> /\ n = 1 /\ call[m.by] # Idle /\ call[m.by].code = m.code
    BY <1>2, <1>3, SMTT(30) DEF Answered, IInv, RequestInv
  <1>6. be' \in BackendState /\ conn' \in {"up", "failing"} /\ (conn' = "up" => Keeps(m, be'))
    <2>1. be \in BackendState
      BY <1>1, Zenon DEF Ready
    <2> QED
      BY <1>1, <1>2, <2>1, Zenon DEF Serves, Mute, Unanswered, Answered, Keeps
  <1>7. \/ toFrontend' = toFrontend /\ ~ Answered(m)
        \/ Answered(m) /\ \E r : SoundReply(m, r) /\ toFrontend' = Append(<<>>, r)
    <2>1. CASE Answered(m)
      BY <1>5, <2>1, Zenon DEF Answered
    <2>2. CASE ~ Answered(m)
      BY <1>1, <2>2, Zenon DEF Serves, Mute, Unanswered
    <2> QED
      BY <2>1, <2>2, Zenon
  <1>8. toFrontend' \in Seq(Reply) /\ AnswerInv'
    <2>1. CASE toFrontend' = toFrontend
      BY <1>2, <2>1, ZenonT(40) DEF IInv, TypeOK, AnswerInv
    <2>2. CASE toFrontend' # toFrontend
      <3>1. PICK r : SoundReply(m, r) /\ toFrontend' = Append(<<>>, r)
        BY <1>7, <2>2, Zenon
      <3>2. r \in Reply
        BY <3>1, Zenon DEF SoundReply
      <3>3. toFrontend' \in Seq(Reply) /\ DOMAIN toFrontend' = {1} /\ toFrontend'[1] = r
        BY <3>1, <3>2, Single, Zenon
      <3>4. call[m.by] # Idle /\ call[m.by].code = m.code
        BY <1>5, <1>7, <2>2, Zenon
      <3> QED
        BY <1>2, <3>1, <3>3, <3>4 DEF AnswerInv, SoundReply
    <2> QED
      BY <2>1, <2>2, Zenon
  <1>9. TypeOK'
    <2>1. refused' \subseteq Codes /\ misrouted' \subseteq Nat \X (0 .. FdBit - 1)
      BY <1>1, <1>4, Zenon DEF Serves, IInv, TypeOK, MisroutedOK
    <2>2. Len(toBackend') <= MaxPending
      BY <1>3, SMTT(30) DEF IInv, TypeOK, Fitting
    <2> QED
      BY <1>2, <1>3, <1>6, <1>8, <2>1, <2>2, Zenon DEF IInv, TypeOK, BackendState
  <1>10. RequestInv'
    <2> SUFFICES ASSUME NEW i \in 1 .. n - 1
                 PROVE  /\ WellFormed(toBackend'[i])
                        /\ toBackend'[i].awaited =>
                             /\ i = n - 1 /\ toFrontend' = <<>>
                             /\ call[toBackend'[i].by] # Idle
                             /\ call[toBackend'[i].by].code = toBackend'[i].code
      BY <1>2, <1>3, Zenon DEF RequestInv, WellFormed, CheckAttachedFiles
    <2>1. toBackend'[i] = toBackend[i + 1] /\ i + 1 \in DOMAIN toBackend
      BY <1>3, Zenon
    <2>2. /\ WellFormed(toBackend[i + 1])
          /\ toBackend[i + 1].awaited =>
                /\ i + 1 = n /\ toFrontend = <<>>
                /\ call[toBackend[i + 1].by] # Idle
                /\ call[toBackend[i + 1].by].code = toBackend[i + 1].code
      BY <1>2, <2>1, Zenon DEF IInv, RequestInv
    <2>3. ~ Answered(m)
      BY <1>3, <1>5
    <2>4. toFrontend' = toFrontend
      BY <1>7, <2>3, Zenon
    <2>5. n \in Nat
      BY <1>3, Zenon
    <2>6. i + 1 = n => i = n - 1
      BY <2>5, LastOne, Zenon
    <2> QED
      BY <2>1, <2>2, <2>4, <2>6, Zenon
  <1>11. ASSUME conn' = "up" PROVE ProtoInv' /\ AckedInv'
    <2>1. /\ be'.proto = IF m.code = "SET_PROTOCOL_FEATURES" THEN m.feats ELSE be.proto
          /\ be'.acked = IF m.code = "SET_FEATURES" THEN m.feats ELSE be.acked
      BY <1>6, <1>11, Zenon DEF Keeps, ProtoAfter, AckedAfter
    <2>2. ASSUME NEW i \in 0 .. n - 1, NEW v, InForce(toBackend', "SET_PROTOCOL_FEATURES", be'.proto, i, v)
          PROVE  /\ i # 0 => Allowed(toBackend'[i], v) /\ AnswerAwaited(toBackend'[i], v)
                 /\ i = n - 1 => v = fe.proto
      <3>1. InForce(toBackend, "SET_PROTOCOL_FEATURES", be.proto, i + 1, v)
        BY <1>2, <2>1, <2>2, InForceTail, Zenon DEF m
      <3>2. i + 1 \in 0 .. n /\ i + 1 \in 1 .. n
        BY <1>3
      <3>3. v \in Settings(be.proto)
        BY <3>1, <3>2, InForceSetting, Zenon DEF IInv
      <3>4. i = n - 1 => i + 1 = n
        BY <1>3, SMTT(30)
      <3>5. i # 0 => toBackend'[i] = toBackend[i + 1]
        BY <1>3
      <3> QED
        BY <1>2, <1>3, <3>1, <3>2, <3>3, <3>4, <3>5, Zenon DEF IInv, ProtoInv
    <2>3. ASSUME NEW i \in 0 .. n - 1, NEW v, InForce(toBackend', "SET_FEATURES", be'.acked, i, v)
          PROVE  /\ i # 0 /\ toBackend'[i].code = "SET_VRING_ENABLE" => PF \in v
                 /\ i = n - 1 /\ PF \in fe.acked => PF \in v
      <3>1. InForce(toBackend, "SET_FEATURES", be.acked, i + 1, v)
        BY <1>2, <2>1, <2>3, InForceTail, Zenon DEF m
      <3>2. i + 1 \in 0 .. n /\ i + 1 \in 1 .. n
        BY <1>3
      <3>3. v \in Settings(be.acked)
        BY <3>1, <3>2, InForceSetting, Zenon DEF IInv
      <3>4. i = n - 1 => i + 1 = n
        BY <1>3
      <3>5. i # 0 => toBackend'[i] = toBackend[i + 1]
        BY <1>3
      <3> QED
        BY <1>2, <1>3, <3>1, <3>2, <3>3, <3>4, <3>5, Zenon DEF IInv, AckedInv
    <2>4. n - 1 \in 0 .. n - 1 /\ \A i \in 1 .. n - 1 : i \in 0 .. n - 1 /\ i # 0
      BY <1>3
    <2>5. ProtoInv'
      BY <1>2, <1>3, <2>2, <2>4, Zenon DEF ProtoInv
    <2>6. AckedInv'
      BY <1>2, <1>3, <2>3, <2>4, ZenonT(40) DEF AckedInv
    <2> QED
      BY <2>5, <2>6, Zenon
  <1>12. ASSUME conn' = "up" PROVE FeaturesInv'
    <2>1. Keeps(m, be') /\ be.features \subseteq DeviceFeatures
      BY <1>1, <1>6, <1>12, Zenon DEF Ready, BackendState
    <2>2. be.features \subseteq be'.features
            /\ (be.features = DeviceFeatures => be'.features = DeviceFeatures)
      BY <2>1, Zenon DEF Keeps
    <2>3. fe'.features # {} => be'.features = DeviceFeatures
      BY <1>2, <2>2, ZenonT(40) DEF IInv, FeaturesInv
    <2>4. be'.proto # {} => PF \in be'.features
      BY <1>1, <2>1, <2>2, Zenon DEF Keeps, Ready, ProtoAfter
    <2>5. \A i \in DOMAIN toBackend' :
             toBackend'[i].code = "SET_PROTOCOL_FEATURES" => PF \in be'.features
      <3>1. \A i \in 1 .. n : toBackend[i].code = "SET_PROTOCOL_FEATURES" => PF \in be.features
        BY <1>2, <1>3, Zenon DEF IInv, FeaturesInv
      <3> QED
        BY <1>3, <2>2, <3>1, Zenon
    <2>6. \A i \in DOMAIN toFrontend' : toFrontend'[i].code = "GET_FEATURES" => be'.features = DeviceFeatures
      <3>1. CASE toFrontend' = toFrontend
        BY <1>2, <2>2, <3>1, Zenon DEF IInv, FeaturesInv
      <3>2. CASE toFrontend' # toFrontend
        <4>1. PICK r : SoundReply(m, r) /\ toFrontend' = Append(<<>>, r)
          BY <1>7, <3>2, Zenon
        <4>2. r \in Reply /\ r.code = m.code
          BY <4>1, Zenon DEF SoundReply
        <4>3. DOMAIN toFrontend' = {1} /\ toFrontend'[1] = r
          BY <4>1, <4>2, Single, Zenon
        <4> QED
          BY <2>1, <4>2, <4>3, Zenon DEF Keeps
      <3> QED
        BY <3>1, <3>2, Zenon
    <2>7. be'.replyAck = (PF \in be'.features /\ "REPLY_ACK" \in be'.proto)
      BY <2>1, Zenon DEF Keeps
    <2> QED
      BY <2>3, <2>4, <2>5, <2>6, <2>7, Zenon DEF FeaturesInv
  <1>13. CallInv'
    BY <1>2, Zenon DEF IInv, CallInv
  <1> QED
    BY <1>1, <1>8, <1>9, <1>10, <1>11, <1>12, <1>13, Zenon DEF IInv, Serves

-------------------------------------------------------------------------------
(* Receiving *)

\* An answer that arrives is the only one and for the thread that waits; it has what the
\* method looks for unless the device refused.
LEMMA ArrivedAnswer ==
  ASSUME Fitting, IInv, NEW t \in Threads, Arrived(t)
  PROVE  LET r == Head(toFrontend)
         IN  /\ r = toFrontend[1] /\ DOMAIN toFrontend = {1} /\ Tail(toFrontend) = <<>> /\ r \in Reply
             /\ r.by = t /\ r.code = call[t].code /\ call[t] # Idle
             /\ r.code = "GET_FEATURES" => r.feats = DeviceFeatures
             /\ Learns(call[t], r) /\ r.out \in Outcomes
             /\ r.out = "ok" => Accepts(call[t], r)
  <1> DEFINE r == toFrontend[1]
  <1>1. toFrontend \in Seq(Reply) /\ toFrontend # <<>> /\ call[t] # Idle
    BY Zenon DEF IInv, TypeOK, Arrived
  <1>2. /\ 1 \in DOMAIN toFrontend /\ Head(toFrontend) = r
        /\ r \in Reply /\ r.by \in Threads /\ r.out \in Outcomes
    BY <1>1, SocketTypes, SMTT(30) DEF IInv
  <1>3. /\ \A i \in DOMAIN toFrontend : i = 1
        /\ call[r.by] # Idle /\ call[r.by].code = r.code
        /\ r.file => r.code \in FileCodes \cup {"SET_DEVICE_STATE_FD"}
        /\ r.code \in FileCodes /\ r.out = "ok" => r.file
        /\ r.code = "GET_FEATURES" => r.feats = DeviceFeatures
        /\ r.code = "GET_QUEUE_NUM" => r.num = QueueNum
    BY <1>2, ZenonT(40) DEF IInv, AnswerInv
  <1>4. DOMAIN toFrontend = {1}
    BY <1>2, <1>3, Zenon
  <1>5. Len(toFrontend) = 1
    <2>1. Len(toFrontend) \in Nat /\ 1 .. Len(toFrontend) = {1}
      BY <1>4, SocketTypes, Zenon DEF IInv
    <2>2. 2 \notin 1 .. Len(toFrontend) /\ 1 \in 1 .. Len(toFrontend)
      BY <2>1
    <2>3. \A k \in Nat : 2 \notin 1 .. k /\ 1 \in 1 .. k => k = 1
      OBVIOUS
    <2> QED
      BY <2>1, <2>2, <2>3, ZenonT(40)
  <1>6. Tail(toFrontend) = <<>>
    <2>1. Tail(toFrontend) \in Seq(Reply) /\ Len(Tail(toFrontend)) = 0
      BY <1>1, <1>5, SMTT(30)
    <2> QED
      BY <2>1, EmptySeq, Zenon
  <1> HIDE DEF r
  <1>7. r.by = t
    BY <1>1, <1>2, <1>3, Zenon DEF IInv, CallInv
  <1>8. Learns(call[t], r)
    BY <1>3, <1>7, SMTT(30) DEF Learns, Fitting
  <1>9. /\ call[t].code \in FileCodes <=> call[t].await = "file"
        /\ call[t].code = "SET_DEVICE_STATE_FD" => call[t].await = "optfile"
    BY Zenon DEF IInv, CallInv
  <1>10. r.out = "ok" => Accepts(call[t], r)
    BY <1>3, <1>7, <1>9, Zenon DEF Accepts
  <1> QED
    BY <1>1, <1>2, <1>3, <1>4, <1>6, <1>7, <1>8, <1>10, ZenonT(40) DEF r

\* An empty socket holds nothing.
LEMMA NoPlaces == DOMAIN <<>> = {}
  OBVIOUS

\* What the end of a call changes.
LEMMA EndCallSafe ==
  ASSUME Fitting, IInv, NEW t \in Threads, NEW result \in {"ok", "err", "broken"}, EndCall(t, result),
         call[t] # Idle, toFrontend' = <<>>, fe' \in FrontendState,
         fe'.proto = fe.proto, fe'.acked = fe.acked,
         conn = "up" /\ fe'.features # {} => be.features = DeviceFeatures,
         conn # "down" => \A i \in DOMAIN toBackend : ~ toBackend[i].awaited
  PROVE  IInv'
  <1>1. /\ call' = [call EXCEPT ![t] = Idle] /\ returned' = result /\ be' = be
        /\ toBackend' = toBackend /\ conn' = conn /\ refused' = refused /\ misrouted' = misrouted
    BY Zenon DEF EndCall
  <1> DEFINE A == [code : Codes, await : {"ack", "body", "file", "optfile", "payload"}]
  <1>2. /\ call' \in [Threads -> {Idle} \cup A]
        /\ \A u \in Threads : call'[u] = IF u = t THEN Idle ELSE call[u]
    BY <1>1, Zenon DEF IInv, TypeOK
  <1>3. TypeOK'
    BY <1>1, <1>2 DEF IInv, TypeOK, FrontendState
  <1>4. CallInv'
    <2>1. \A u, v \in Threads : call'[u] # Idle /\ call'[v] # Idle => u = v
      BY <1>2, Zenon DEF IInv, CallInv
    <2>2. ~ (Idle.code \in FileCodes) /\ Idle.await # "file" /\ Idle.code # "SET_DEVICE_STATE_FD"
      BY Zenon DEF Idle, FileCodes
    <2> QED
      BY <1>2, <2>1, <2>2, ZenonT(40) DEF IInv, CallInv
  <1>5. AnswerInv'
    <2>1. DOMAIN toFrontend' = {}
      BY NoPlaces, Zenon
    <2> QED
      BY <2>1, Zenon DEF AnswerInv
  <1>6. RequestInv'
    BY <1>1, Zenon DEF IInv, RequestInv, WellFormed, CheckAttachedFiles
  <1>7. conn' = "up" => ProtoInv' /\ AckedInv'
    <2>1. Settings(be.proto)' = Settings(be.proto) /\ Settings(be.acked)' = Settings(be.acked)
      BY <1>1, Zenon DEF Settings
    <2> QED
      BY <1>1, <2>1, Zenon DEF IInv, ProtoInv, AckedInv
  <1>8. conn' = "up" => FeaturesInv'
    <2>1. DOMAIN toFrontend' = {}
      BY NoPlaces, Zenon
    <2> QED
      BY <1>1, <2>1, Zenon DEF IInv, FeaturesInv
  <1> QED
    BY <1>1, <1>3, <1>4, <1>5, <1>6, <1>7, <1>8, ZenonT(40) DEF IInv, NothingElseRefused

\* A thread that gets its answer leaves the invariant intact.
LEMMA ReceiveSafe ==
  ASSUME Fitting, IInv, NEW t \in Threads, Receive(t)
  PROVE  IInv'
  <1> DEFINE r == Head(toFrontend)
             c == call[t]
             good == Accepts(c, r) /\ Learns(c, r)
  <1>1. Arrived(t) /\ toFrontend' = Tail(toFrontend) /\ fe \in FrontendState
    BY Zenon DEF Receive, IInv, TypeOK, FrontendState
  <1>2. /\ r = toFrontend[1] /\ DOMAIN toFrontend = {1} /\ Tail(toFrontend) = <<>> /\ r \in Reply
        /\ r.code = c.code /\ c # Idle /\ r.out \in Outcomes
        /\ r.code = "GET_FEATURES" => r.feats = DeviceFeatures
    BY <1>1, ArrivedAnswer, Zenon
  <1>3. /\ EndCall(t, IF good THEN r.out ELSE "err")
        /\ (IF good THEN r.out ELSE "err") \in {"ok", "err", "broken"}
    BY <1>2, Zenon DEF Receive, Outcomes
  <1>4. r.num \in Nat
    BY <1>2, Zenon DEF Reply
  <1>5. conn = "up" /\ r.code = "GET_FEATURES" => be.features = DeviceFeatures
    BY <1>2, Zenon DEF IInv, FeaturesInv
  <1>6. \A i \in DOMAIN toBackend : toBackend[i].awaited /\ conn # "down" => FALSE
    BY <1>1, Zenon DEF IInv, RequestInv, Arrived
  <1>7. fe' = IF good THEN Remember(c, r) ELSE fe
    BY Zenon DEF Receive
  <1> HIDE DEF r, c, good
  <1>8. \/ fe' = fe
        \/ c.code = "GET_FEATURES" /\ fe' = [fe EXCEPT !.features = r.feats]
        \/ fe' = [fe EXCEPT !.maxQueueNum = r.num]
    BY <1>7, Zenon DEF Remember
  <1>9. /\ fe' \in FrontendState /\ fe'.proto = fe.proto /\ fe'.acked = fe.acked
        /\ fe'.features = fe.features \/ c.code = "GET_FEATURES"
    BY <1>1, <1>2, <1>4, <1>8, Zenon DEF FrontendState
  <1>10. conn = "up" /\ fe'.features # {} => be.features = DeviceFeatures
    BY <1>2, <1>5, <1>9, Zenon DEF IInv, FeaturesInv
  <1> QED
    BY <1>1, <1>2, <1>3, <1>6, <1>9, <1>10, EndCallSafe, ZenonT(40) DEF c

\* A thread that finds the socket closed leaves the invariant intact.
LEMMA ReceiveEndSafe ==
  ASSUME Fitting, IInv, NEW t \in Threads, ReceiveEnd(t)
  PROVE  IInv'
  <1>1. fe \in FrontendState
    BY Zenon DEF IInv, TypeOK, FrontendState
  <1>2. EndCall(t, "broken") /\ call[t] # Idle /\ toFrontend' = <<>> /\ fe' = fe /\ conn = "down"
    BY Zenon DEF ReceiveEnd
  <1> QED
    BY <1>1, <1>2, EndCallSafe, Zenon

\* set_hdr_flags between two calls leaves the invariant intact.
LEMMA FlagsSafe ==
  ASSUME IInv, NEW need \in BOOLEAN, set_hdr_flags(need)
  PROVE  IInv'
  <1>1. /\ fe' \in FrontendState /\ fe'.proto = fe.proto /\ fe'.acked = fe.acked
        /\ fe'.features = fe.features
    BY Zenon DEF set_hdr_flags, IInv, TypeOK, FrontendState
  <1>2. /\ be' = be /\ call' = call /\ toBackend' = toBackend /\ toFrontend' = toFrontend
        /\ conn' = conn /\ returned' = returned /\ refused' = refused /\ misrouted' = misrouted
    BY Zenon DEF set_hdr_flags
  <1>3. TypeOK'
    BY <1>1, <1>2, Zenon DEF IInv, TypeOK, FrontendState
  <1>4. CallInv' /\ AnswerInv'
    BY <1>2, ZenonT(40) DEF IInv, CallInv, AnswerInv
  <1>5. RequestInv'
    BY <1>2, Zenon DEF IInv, RequestInv, WellFormed, CheckAttachedFiles
  <1>6. conn' = "up" => ProtoInv' /\ AckedInv'
    <2>1. Settings(be.proto)' = Settings(be.proto) /\ Settings(be.acked)' = Settings(be.acked)
      BY <1>2, Zenon DEF Settings
    <2> QED
      BY <1>1, <1>2, <2>1, Zenon DEF IInv, ProtoInv, AckedInv
  <1>7. conn' = "up" => FeaturesInv'
    BY <1>1, <1>2, Zenon DEF IInv, FeaturesInv
  <1> QED
    BY <1>2, <1>3, <1>4, <1>5, <1>6, <1>7, Zenon DEF IInv, NothingElseRefused

\* The end of the backend's loop leaves the invariant intact.
LEMMA ShutdownSafe ==
  ASSUME IInv, Shutdown
  PROVE  IInv'
  <1>1. /\ fe' = fe /\ call' = call /\ toBackend' = toBackend /\ toFrontend' = toFrontend
        /\ conn' = "down" /\ returned' = returned /\ refused' = refused /\ misrouted' = misrouted
        /\ be' = BackendNew
    BY Zenon DEF Shutdown
  <1>2. BackendNew \in BackendState
    BY Zenon DEF BackendNew, BackendState
  <1>3. TypeOK'
    BY <1>1, <1>2, Zenon DEF IInv, TypeOK, BackendState
  <1>4. CallInv' /\ AnswerInv'
    BY <1>1, ZenonT(40) DEF IInv, CallInv, AnswerInv
  <1>5. RequestInv'
    BY <1>1, Zenon DEF IInv, RequestInv, WellFormed, CheckAttachedFiles
  <1> QED
    BY <1>1, <1>3, <1>4, <1>5, Zenon DEF IInv, NothingElseRefused

\* A new connection satisfies the invariant.
LEMMA InitSafe ==
  ASSUME Fitting, Init
  PROVE  IInv
  <1>1. fe \in FrontendState /\ fe.features = {} /\ fe.acked = {} /\ fe.proto = {}
    BY Zenon DEF Init, FrontendNew, FrontendState, Fitting
  <1>2. be \in BackendState /\ be = [features |-> {}, acked |-> {}, proto |-> {}, replyAck |-> FALSE]
    BY Zenon DEF Init, BackendNew, BackendState
  <1>3. toBackend = <<>> /\ toFrontend = <<>> /\ DOMAIN toBackend = {} /\ DOMAIN toFrontend = {}
    BY SMTT(30) DEF Init
  <1>4. TypeOK
    <2>1. toBackend \in Seq(Request) /\ Len(toBackend) <= MaxPending /\ toFrontend \in Seq(Reply)
      BY <1>3 DEF Fitting
    <2>2. call \in [Threads -> {Idle}] /\ conn = "up" /\ returned = "none"
      BY Zenon DEF Init
    <2>3. refused \subseteq Codes /\ misrouted \subseteq Nat \X (0 .. FdBit - 1)
      BY Zenon DEF Init
    <2> QED
      BY <1>1, <1>2, <2>1, <2>2, <2>3, Zenon DEF TypeOK, FrontendState, BackendState
  <1>5. CallInv
    BY Zenon DEF Init, CallInv, Idle, FileCodes
  <1>6. AnswerInv /\ RequestInv
    BY <1>3, Zenon DEF AnswerInv, RequestInv
  <1>7. ProtoInv
    <2>1. Settings(be.proto) = {be.proto}
      BY <1>3, Zenon DEF Settings
    <2> QED
      BY <1>1, <1>2, <1>3, <2>1, Zenon DEF ProtoInv
  <1>8. AckedInv
    BY <1>1, <1>3, Zenon DEF AckedInv
  <1>9. FeaturesInv
    BY <1>1, <1>2, <1>3, Zenon DEF FeaturesInv
  <1> QED
    BY <1>4, <1>5, <1>6, <1>7, <1>8, <1>9, Zenon DEF Init, IInv, NothingElseRefused

\* Every step of the connection preserves the invariant.
LEMMA StepSafe ==
  ASSUME Fitting, IInv, [Next]_vars
  PROVE  IInv'
  <1>1. ASSUME NEW t \in Threads, Frontend(t) PROVE IInv'
    <2>1. Sends(t) \/ Receive(t) \/ ReceiveEnd(t)
      BY <1>1, FrontendSends, Zenon DEF IInv
    <2> QED
      BY <2>1, SendSafe, ReceiveSafe, ReceiveEndSafe, Zenon
  <1>2. CASE UNCHANGED vars
    <2>1. /\ fe' = fe /\ be' = be /\ call' = call /\ toBackend' = toBackend /\ toFrontend' = toFrontend
          /\ conn' = conn /\ returned' = returned /\ refused' = refused /\ misrouted' = misrouted
      BY <1>2, Zenon DEF vars
    <2>2. TypeOK' /\ CallInv'
      BY <2>1, Zenon DEF IInv, TypeOK, CallInv
    <2>0. AnswerInv'
      BY <2>1, Zenon DEF IInv, AnswerInv
    <2>3. RequestInv'
      BY <2>1, ZenonT(40) DEF IInv, RequestInv, WellFormed, CheckAttachedFiles
    <2>4. Settings(be.proto)' = Settings(be.proto) /\ Settings(be.acked)' = Settings(be.acked)
      BY <2>1, Zenon DEF Settings
    <2>5. conn' = "up" => ProtoInv' /\ AckedInv' /\ FeaturesInv'
      BY <2>1, <2>4, Zenon DEF IInv, ProtoInv, AckedInv, FeaturesInv
    <2> QED
      BY <2>0, <2>1, <2>2, <2>3, <2>5, Zenon DEF IInv, NothingElseRefused
  <1> QED
    BY <1>1, <1>2, FlagsSafe, HandleSafe, ShutdownSafe, Zenon DEF Next

\* In every connection the invariant holds: what the frontend thinks was negotiated is what
\* the backend will have when it gets to a request, who waits is answered and only who waits
\* is, and nothing but the two log requests is refused.
THEOREM SessionInvariant ==
  ASSUME Fitting
  PROVE  Spec => []IInv
  BY InitSafe, StepSafe, PTL DEF Spec

\* What the methods of the Frontend take to be negotiated, BackendReqHandler does, too, for any
\* number of threads, any features of the device and any set of them that is acked, also while
\* the requests that negotiate are still in the socket: check_feature, check_proto_feature,
\* check_attached_files and the last arm refuse nothing but the two log requests, which depend
\* on a feature that the Frontend does not check.
THEOREM FrontendNotRefused == ASSUME Fitting PROVE Spec => []NothingElseRefused
  <1>1. IInv => NothingElseRefused
    BY Zenon DEF IInv
  <1> QED
    BY <1>1, SessionInvariant, PTL

\* Both ends of a connection keep to their types.
THEOREM SessionTypes == ASSUME Fitting PROVE Spec => []TypeOK
  <1>1. IInv => TypeOK
    BY Zenon DEF IInv
  <1> QED
    BY <1>1, SessionInvariant, PTL

-------------------------------------------------------------------------------
(* Refinement *)

\* A request, a direction of the socket and the answers in it as Rpc sees them.
Abs(m) == [by |-> m.by, sync |-> m.awaited]
AbsQueue(q) == [i \in DOMAIN q |-> Abs(q[i])]
AbsBox(q) == [t \in Threads |->
    IF \E i \in DOMAIN q : q[i].by = t THEN q[CHOOSE i \in DOMAIN q : q[i].by = t].out ELSE "none"]

\* The requests in the socket as Rpc sees them: who sent each, and whether they wait.
LEMMA AbsSeq ==
  ASSUME NEW A, NEW q \in Seq(A)
  PROVE  /\ AbsQueue(q) \in Seq({Abs(m) : m \in A}) /\ Len(AbsQueue(q)) = Len(q)
         /\ DOMAIN AbsQueue(q) = 1 .. Len(q) /\ Len(q) \in Nat
         /\ \A i \in 1 .. Len(q) : AbsQueue(q)[i] = Abs(q[i])
  <1> DEFINE B == {Abs(m) : m \in A}
             n == Len(q)
  <1>1. n \in Nat /\ DOMAIN q = 1 .. n /\ \A i \in 1 .. n : q[i] \in A
    OBVIOUS
  <1>2. \A i \in 1 .. n : Abs(q[i]) \in B
    BY <1>1, Zenon
  <1> HIDE DEF B, n
  <1>3. AbsQueue(q) = [i \in 1 .. n |-> Abs(q[i])]
    BY <1>1, Zenon DEF AbsQueue
  <1>4. AbsQueue(q) \in [1 .. n -> B]
    BY <1>2, <1>3, Zenon
  <1>5. AbsQueue(q) \in Seq(B)
    BY <1>1, <1>4
  <1>6. Len(AbsQueue(q)) = n
    BY <1>1, <1>4, SMTT(30)
  <1> QED
    BY <1>1, <1>3, <1>5, <1>6, Zenon DEF B, n

\* Sending appends to the requests that Rpc sees.
LEMMA AbsAppend ==
  ASSUME NEW A, NEW q \in Seq(A), NEW m \in A
  PROVE  AbsQueue(Append(q, m)) = Append(AbsQueue(q), Abs(m))
  <1> DEFINE B == {Abs(x) : x \in A}
             a == AbsQueue(q)
             b == AbsQueue(Append(q, m))
             n == Len(q)
  <1>1. /\ Append(q, m) \in Seq(A) /\ Len(Append(q, m)) = n + 1 /\ n \in Nat
        /\ Append(q, m)[n + 1] = m /\ \A i \in 1 .. n : Append(q, m)[i] = q[i]
    OBVIOUS
  <1>2. a \in Seq(B) /\ Len(a) = n /\ \A i \in 1 .. n : a[i] = Abs(q[i])
    BY AbsSeq, Zenon
  <1>3. b \in Seq(B) /\ Len(b) = n + 1 /\ \A i \in 1 .. n + 1 : b[i] = Abs(Append(q, m)[i])
    BY <1>1, AbsSeq, Zenon
  <1>4. Abs(m) \in B
    BY Zenon
  <1> HIDE DEF B, a, b
  <1>5. /\ Append(a, Abs(m)) \in Seq(B) /\ Len(Append(a, Abs(m))) = n + 1
        /\ Append(a, Abs(m))[n + 1] = Abs(m) /\ \A i \in 1 .. n : Append(a, Abs(m))[i] = a[i]
    BY <1>2, <1>4
  <1>6. \A i \in 1 .. n + 1 : b[i] = Append(a, Abs(m))[i]
    <2> TAKE i \in 1 .. n + 1
    <2>1. CASE i = n + 1
      BY <1>1, <1>3, <1>5, <2>1, Zenon
    <2>2. CASE i # n + 1
      <3>1. i \in 1 .. n
        BY <1>1, <2>2, SMTT(30)
      <3> QED
        BY <1>1, <1>2, <1>3, <1>5, <3>1, Zenon
    <2> QED
      BY <2>1, <2>2, Zenon
  <1> QED
    BY <1>3, <1>5, <1>6, SeqEqual, Zenon DEF a, b

\* Handling a request takes the first one that Rpc sees.
LEMMA AbsTail ==
  ASSUME NEW A, NEW q \in Seq(A), q # <<>>
  PROVE  /\ AbsQueue(q) # <<>> /\ Head(AbsQueue(q)) = Abs(Head(q))
         /\ AbsQueue(Tail(q)) = Tail(AbsQueue(q))
  <1> DEFINE B == {Abs(x) : x \in A}
             a == AbsQueue(q)
             b == AbsQueue(Tail(q))
             n == Len(q)
  <1>1. /\ Tail(q) \in Seq(A) /\ Len(Tail(q)) = n - 1 /\ n \in Nat \ {0} /\ Head(q) = q[1]
        /\ \A i \in 1 .. n - 1 : Tail(q)[i] = q[i + 1]
    OBVIOUS
  <1>2. a \in Seq(B) /\ Len(a) = n /\ \A i \in 1 .. n : a[i] = Abs(q[i])
    BY AbsSeq, Zenon
  <1>3. b \in Seq(B) /\ Len(b) = n - 1 /\ \A i \in 1 .. n - 1 : b[i] = Abs(Tail(q)[i])
    BY <1>1, AbsSeq, Zenon
  <1> HIDE DEF B, a, b
  <1>4. a # <<>> /\ Head(a) = a[1] /\ 1 \in 1 .. n
    BY <1>1, <1>2, SMTT(30)
  <1>5. /\ Tail(a) \in Seq(B) /\ Len(Tail(a)) = n - 1
        /\ \A i \in 1 .. n - 1 : Tail(a)[i] = a[i + 1] /\ i + 1 \in 1 .. n
    BY <1>1, <1>2, <1>4, SMTT(30)
  <1>6. \A i \in 1 .. n - 1 : b[i] = Tail(a)[i]
    BY <1>1, <1>2, <1>3, <1>5, ZenonT(40)
  <1>7. b = Tail(a)
    BY <1>3, <1>5, <1>6, SeqEqual, ZenonT(40)
  <1> QED
    BY <1>1, <1>2, <1>4, <1>7, Zenon DEF a, b

\* The mailboxes of Rpc are empty, or hold the one answer in the socket.
LEMMA AbsBoxes ==
  /\ AbsBox(<<>>) = [t \in Threads |-> "none"]
  /\ \A q : DOMAIN q = {1} => AbsBox(q) = [t \in Threads |-> IF t = q[1].by THEN q[1].out ELSE "none"]
  <1>1. AbsBox(<<>>) = [t \in Threads |-> "none"]
    BY DEF AbsBox
  <1>2. ASSUME NEW q, DOMAIN q = {1}
        PROVE  AbsBox(q) = [t \in Threads |-> IF t = q[1].by THEN q[1].out ELSE "none"]
    <2>1. \A t : (\E i \in DOMAIN q : q[i].by = t) <=> t = q[1].by
      BY <1>2, Zenon
    <2>2. \A t : t = q[1].by => (CHOOSE i \in DOMAIN q : q[i].by = t) = 1
      BY <1>2, Zenon
    <2> QED
      BY <2>1, <2>2, Zenon DEF AbsBox
  <1> QED
    BY <1>1, <1>2, Zenon

Waiting == {t \in Threads : call[t] # Idle}

\* Sending a request is Rpc's Send.
LEMMA SendSimulated ==
  ASSUME Fitting, IInv, NEW t \in Threads, Sends(t)
  PROVE  Connection!Next
  <1>1. PICK m, f, await : SoundRequest(t, m, f, await) /\ Puts(t, m, f, await)
    BY Zenon DEF Sends
  <1>2. /\ m \in Request /\ m.by = t /\ m.awaited = (await # "none") /\ m.code \in Codes
        /\ toBackend \in Seq(Request) /\ toBackend' = Append(toBackend, m)
        /\ \A u \in Threads : call[u] = Idle
        /\ toFrontend' = toFrontend /\ conn' = conn
        /\ call' = IF await = "none" THEN call
                                     ELSE [call EXCEPT ![t] = [code |-> m.code, await |-> await]]
        /\ returned' = IF await = "none" THEN "posted" ELSE returned
        /\ call \in [Threads -> {Idle} \cup
                        [code : Codes, await : {"ack", "body", "file", "optfile", "payload"}]]
    BY <1>1, ZenonT(40) DEF SoundRequest, Puts, Node, IInv, TypeOK, Request
  <1>3. AbsQueue(toBackend') = Append(AbsQueue(toBackend), [by |-> t, sync |-> m.awaited])
    BY <1>2, AbsAppend, SMTT(30) DEF Abs
  <1>4. Waiting' = (IF m.awaited THEN Waiting \cup {t} ELSE Waiting) /\ t \notin Waiting
    <2>1. CASE await = "none"
      BY <1>2, <2>1, Zenon DEF Waiting
    <2>2. CASE await # "none"
      <3>1. [code |-> m.code, await |-> await] # Idle
        BY <1>2, <2>2, Zenon DEF Idle
      <3> QED
        BY <1>2, <2>2, <3>1, ZenonT(40) DEF Waiting
    <2> QED
      BY <2>1, <2>2, Zenon
  <1>5. returned' = IF m.awaited THEN returned ELSE "posted"
    BY <1>2, ZenonT(40)
  <1>6. Mailbox' = Mailbox
    BY <1>2, Zenon DEF Mailbox
  <1>7. m.awaited \in BOOLEAN
    BY <1>2, Zenon
  <1>8. Connection!Send(t, m.awaited)
    BY <1>2, <1>3, <1>4, <1>5, <1>6, Zenon DEF Connection!Send, AbsQueue, Abs, Waiting
  <1> QED
    BY <1>7, <1>8, Zenon DEF Connection!Next

\* handle_request is Rpc's Serve.
LEMMA HandleSimulated ==
  ASSUME Fitting, IInv, HandleRequest
  PROVE  Connection!Serve
  <1> DEFINE m == Head(toBackend)
  <1>1. Serves(m)
    BY HandleServes, Zenon
  <1>2. /\ conn = "up" /\ toBackend # <<>> /\ toBackend' = Tail(toBackend)
        /\ call' = call /\ returned' = returned /\ toBackend \in Seq(Request)
    BY Zenon DEF HandleRequest, IInv, TypeOK
  <1>3. m \in Request /\ m = toBackend[1] /\ 1 \in DOMAIN toBackend /\ 1 \in Nat
    BY <1>2
  <1>4. m.by \in Threads /\ m.awaited \in BOOLEAN
    BY <1>3, Zenon DEF Request
  <1>5. m.awaited => toFrontend = <<>>
    BY <1>2, <1>3, Zenon DEF IInv, RequestInv
  <1>6. /\ AbsQueue(toBackend) # <<>> /\ Head(AbsQueue(toBackend)) = Abs(m)
        /\ AbsQueue(toBackend') = Tail(AbsQueue(toBackend))
    BY <1>2, AbsTail, Zenon
  <1> HIDE DEF m
  <1>7. Abs(m).by = m.by /\ Abs(m).sync = m.awaited
    BY Zenon DEF Abs
  <1>8. Waiting' = Waiting
    BY <1>2, Zenon DEF Waiting
  <1>9. ~ Answered(m) => Mailbox' = Mailbox
    BY <1>1, Zenon DEF Serves, Mute, Unanswered, Mailbox
  <1>10. ASSUME Answered(m)
         PROVE  /\ m.awaited
                /\ \E o \in {"ok", "err"} : /\ Mailbox' = [Mailbox EXCEPT ![m.by] = o]
                                            /\ conn' = "up" \/ (conn' = "failing" /\ o = "err")
    <2>1. PICK r : /\ SoundReply(m, r) /\ toFrontend' = Append(toFrontend, r)
                   /\ conn' = conn \/ (conn' = "failing" /\ r.out = "err")
      BY <1>10, Zenon DEF Answered
    <2>2. m.awaited /\ toFrontend = <<>>
      BY <1>5, <1>10, Zenon DEF Answered
    <2>3. r \in Reply /\ r.by = m.by
      BY <2>1, Zenon DEF SoundReply
    <2>4. DOMAIN toFrontend' = {1} /\ toFrontend'[1] = r
      BY <2>1, <2>2, <2>3, Single, Zenon
    <2>5. Mailbox = AbsBox(<<>>) /\ Mailbox' = AbsBox(toFrontend')
      BY <2>2, Zenon DEF Mailbox, AbsBox
    <2>6. /\ Mailbox = [t \in Threads |-> "none"]
          /\ Mailbox' = [t \in Threads |-> IF t = m.by THEN r.out ELSE "none"]
      BY <2>3, <2>4, <2>5, AbsBoxes, SMTT(30)
    <2>7. Mailbox' = [Mailbox EXCEPT ![m.by] = r.out]
      BY <2>6, Zenon
    <2>8. r.out \in {"ok", "err"}
      BY <2>3, Zenon DEF Reply, Outcomes
    <2> QED
      BY <1>2, <2>1, <2>2, <2>7, <2>8, Zenon
  <1>11. CASE conn' = "up"
    <2>1. IF m.awaited THEN \E o \in {"ok", "err"} : Mailbox' = [Mailbox EXCEPT ![m.by] = o]
                       ELSE Mailbox' = Mailbox
      <3>1. CASE m.awaited
        <4>1. Answered(m)
          BY <1>1, <1>11, <3>1, Zenon DEF Serves, Mute, Unanswered
        <4> QED
          BY <1>10, <3>1, <4>1, Zenon
      <3>2. CASE ~ m.awaited
        BY <1>9, <3>2, Zenon DEF Answered
      <3> QED
        BY <3>1, <3>2, Zenon
    <2> QED
      BY <1>2, <1>6, <1>7, <1>8, <1>11, <2>1, ZenonT(40) DEF Connection!Serve, AbsQueue, Abs, Waiting
  <1>12. CASE conn' # "up"
    <2>1. Mailbox' = Mailbox \/ (m.awaited /\ Mailbox' = [Mailbox EXCEPT ![m.by] = "err"])
      <3>1. CASE Answered(m)
        BY <1>10, <1>12, <3>1, Zenon
      <3>2. CASE ~ Answered(m)
        BY <1>9, <3>2, Zenon
      <3> QED
        BY <3>1, <3>2, Zenon
    <2> QED
      BY <1>2, <1>6, <1>7, <1>8, <1>12, <2>1, Zenon DEF Connection!Serve, AbsQueue, Abs, Waiting
  <1> QED
    BY <1>11, <1>12, Zenon

\* Receiving an answer is Rpc's Return.
LEMMA ReceiveSimulated ==
  ASSUME Fitting, IInv, NEW t \in Threads, Receive(t)
  PROVE  Connection!Return(t)
  <1> DEFINE r == Head(toFrontend)
             good == Accepts(call[t], r) /\ Learns(call[t], r)
  <1>1. /\ Arrived(t) /\ toFrontend' = Tail(toFrontend) /\ EndCall(t, IF good THEN r.out ELSE "err")
    BY Zenon DEF Receive
  <1>2. /\ r = toFrontend[1] /\ DOMAIN toFrontend = {1} /\ Tail(toFrontend) = <<>>
        /\ r.by = t /\ call[t] # Idle /\ Learns(call[t], r) /\ r.out \in Outcomes
        /\ r.out = "ok" => Accepts(call[t], r)
    BY <1>1, ArrivedAnswer, Zenon
  <1>3. returned' = r.out /\ r.out # "none"
    BY <1>1, <1>2, Zenon DEF EndCall, Outcomes
  <1> HIDE DEF r, good
  <1>4. /\ call' = [call EXCEPT ![t] = Idle] /\ toBackend' = toBackend /\ conn' = conn
    BY <1>1, Zenon DEF EndCall
  <1>5. Waiting' = Waiting \ {t} /\ t \in Waiting
    BY <1>2, <1>4, Zenon DEF Waiting, IInv, TypeOK
  <1>6. Mailbox = AbsBox(toFrontend) /\ Mailbox' = AbsBox(<<>>)
    BY <1>1, <1>2, Zenon DEF Mailbox, AbsBox
  <1>7. /\ Mailbox = [u \in Threads |-> IF u = t THEN r.out ELSE "none"]
        /\ Mailbox' = [u \in Threads |-> "none"]
    <2>1. AbsBox(toFrontend)
            = [u \in Threads |-> IF u = toFrontend[1].by THEN toFrontend[1].out ELSE "none"]
      BY <1>2, AbsBoxes, Zenon
    <2> QED
      BY <1>2, <1>6, <2>1, AbsBoxes, Zenon
  <1>8. Mailbox' = [Mailbox EXCEPT ![t] = "none"] /\ Mailbox[t] = r.out
    BY <1>7, Zenon
  <1> QED
    BY <1>3, <1>4, <1>5, <1>8, Zenon DEF Connection!Return, Waiting

\* Finding the socket closed is Rpc's Return with the result "broken".
LEMMA ReceiveEndSimulated ==
  ASSUME IInv, NEW t \in Threads, ReceiveEnd(t)
  PROVE  Connection!Return(t)
  <1>1. /\ call[t] # Idle /\ conn = "down" /\ toFrontend' = <<>> /\ returned' = "broken"
        /\ call' = [call EXCEPT ![t] = Idle] /\ toBackend' = toBackend /\ conn' = conn
    BY Zenon DEF ReceiveEnd, EndCall
  <1>2. Waiting' = Waiting \ {t} /\ t \in Waiting
    BY <1>1, Zenon DEF Waiting, IInv, TypeOK
  <1>3. \A i \in DOMAIN toFrontend : toFrontend[i].by = t
    BY <1>1, SocketTypes, ZenonT(40) DEF IInv, AnswerInv, CallInv
  <1>4. Mailbox' = [u \in Threads |-> "none"]
    <2>1. Mailbox' = AbsBox(<<>>)
      BY <1>1, Zenon DEF Mailbox, AbsBox
    <2> QED
      BY <2>1, AbsBoxes, Zenon
  <1>5. Mailbox' = [Mailbox EXCEPT ![t] = "none"]
    BY <1>3, <1>4, Zenon DEF Mailbox
  <1> QED
    BY <1>1, <1>2, <1>5, Zenon DEF Connection!Return, Waiting

\* Every step of the connection is a step of Rpc or changes nothing that Rpc sees.
LEMMA StepSimulated ==
  ASSUME Fitting, IInv, [Next]_vars
  PROVE  [Connection!Next]_Connection!vars
  <1>1. ASSUME NEW t \in Threads, Frontend(t) PROVE Connection!Next
    <2>1. Sends(t) \/ Receive(t) \/ ReceiveEnd(t)
      BY <1>1, FrontendSends, Zenon DEF IInv
    <2>2. Receive(t) \/ ReceiveEnd(t) => Connection!Next
      BY ReceiveSimulated, ReceiveEndSimulated, Zenon DEF Connection!Next
    <2> QED
      BY <2>1, <2>2, SendSimulated, Zenon
  <1>2. ASSUME NEW need \in BOOLEAN, set_hdr_flags(need) PROVE UNCHANGED Connection!vars
    BY <1>2, Zenon DEF set_hdr_flags, Connection!vars, Mailbox
  <1>3. CASE HandleRequest
    BY <1>3, HandleSimulated, Zenon DEF Connection!Next
  <1>4. CASE Shutdown
    BY <1>4, Zenon DEF Shutdown, Connection!vars, Mailbox
  <1>5. CASE UNCHANGED vars
    BY <1>5, Zenon DEF vars, Connection!vars, Mailbox
  <1> QED
    BY <1>1, <1>2, <1>3, <1>4, <1>5, Zenon DEF Next

\* A new connection is an initial state of Rpc.
LEMMA InitSimulated ==
  ASSUME Init
  PROVE  Connection!Init
  <1>1. toBackend = <<>> /\ toFrontend = <<>> /\ DOMAIN toBackend = {}
    BY SMTT(30) DEF Init
  <1>2. Mailbox = [t \in Threads |-> "none"]
    <2>1. Mailbox = AbsBox(<<>>)
      BY <1>1, Zenon DEF Mailbox, AbsBox
    <2> QED
      BY <2>1, AbsBoxes, Zenon
  <1>3. AbsQueue(toBackend) = <<>>
    BY <1>1, SMTT(30) DEF AbsQueue
  <1>4. {t \in Threads : call[t] # Idle} = {}
    BY Zenon DEF Init
  <1> QED
    BY <1>2, <1>3, <1>4, Zenon DEF Init, Connection!Init, AbsQueue, Abs

\* Every connection is one that Rpc allows: requests are served once and in order, those are
\* answered whose senders wait, and a caller gets the outcome of its own request.
THEOREM SessionRefinesRpc ==
  ASSUME Fitting
  PROVE  Spec => ImplementsRpc
  <1>1. IInv /\ [Next]_vars => [Connection!Next]_Connection!vars
    BY StepSimulated, Zenon
  <1> QED
    BY <1>1, SessionInvariant, InitSimulated, PTL DEF Spec, ImplementsRpc, Connection!Spec
===============================================================================
