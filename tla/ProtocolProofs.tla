---------------------------- MODULE ProtocolProofs ----------------------------
(***************************************************************************)
(* Proofs about the parts of the vhost crate beside the connection: the    *)
(* channels of the backend, the numbers in messages and the handles on     *)
(* the kernel's devices, for every value of their constants.               *)
(***************************************************************************)
EXTENDS ProtocolParts, Sequences, TLAPS
-------------------------------------------------------------------------------
(* Sequences *)

\* Sequences with the same elements are equal.
LEMMA SeqEqual ==
  ASSUME NEW S, NEW s \in Seq(S), NEW t \in Seq(S), Len(s) = Len(t),
         \A i \in 1 .. Len(s) : s[i] = t[i]
  PROVE  s = t
  OBVIOUS

\* The empty sequence is the one without elements.
LEMMA EmptySeq ==
  ASSUME NEW S, NEW s \in Seq(S)
  PROVE  Len(s) \in Nat /\ (s = <<>> <=> Len(s) = 0)
  OBVIOUS
-------------------------------------------------------------------------------
(* The sockets of a backend: every call gets the outcome of its own request.                  *)

ChannelRequest == [by : ChannelThreads, code : B!Codes, need : BOOLEAN, file : BOOLEAN,
                   valid : BOOLEAN, awaited : BOOLEAN]
ChannelReply == [by : ChannelThreads, code : B!Codes, out : {"ok", "err"}]

\* Thread t puts request m into the socket, and waits for the answer if there will be one.
Puts(t, m) ==
    /\ m \in ChannelRequest /\ m.by = t
    /\ m.awaited <=> B!Answered(m)
    /\ node.there /\ B!Lock(t) /\ up
    /\ requests' = Append(requests, m)
    /\ channelCall' = IF m.awaited THEN [channelCall EXCEPT ![t] = m.code] ELSE channelCall
    /\ channelReturned' = IF m.awaited THEN channelReturned ELSE "posted"
    /\ channel' = channel /\ negotiated' = negotiated /\ node' = node /\ handler' = handler
    /\ up' = up
    /\ replies' = replies

\* A request of the backend channel is waited for if the handler will ack it.
LEMMA RequestPuts ==
  ASSUME B!TypeOK, B!ChannelInv, NEW t \in ChannelThreads, NEW flag, NEW code \in B!Codes,
         NEW file \in BOOLEAN, NEW valid \in BOOLEAN, B!Request(t, flag, code, file, valid)
  PROVE  \E m : Puts(t, m)
  <1>1. PICK ack \in BOOLEAN : ack = ("REPLY_ACK" \in node.flags)
    <2>1. ("REPLY_ACK" \in node.flags) \in BOOLEAN
      OBVIOUS
    <2> QED
      BY <2>1, Zenon
  <1> DEFINE m == [by |-> t, code |-> code, need |-> ack, file |-> file, valid |-> valid,
                   awaited |-> ack]
  <1>2. B!Send(t, "req", code, file, valid, ack, ack)
    BY <1>1, Zenon DEF B!Request, B!Negotiated
  <1>3. m \in ChannelRequest /\ m.by = t /\ m.awaited = ack /\ m.code = code /\ m.need = ack
    BY Zenon DEF ChannelRequest
  <1>4. /\ channel = "req" /\ node.there /\ B!Lock(t) /\ up /\ requests' = Append(requests, m)
        /\ channelCall' = IF ack THEN [channelCall EXCEPT ![t] = code] ELSE channelCall
        /\ channelReturned' = IF ack THEN channelReturned ELSE "posted"
        /\ channel' = channel /\ negotiated' = negotiated /\ node' = node /\ handler' = handler
        /\ up' = up
        /\ replies' = replies
    BY <1>2, Zenon DEF B!Send, B!main
  <1> HIDE DEF m
  <1>5. m.awaited <=> B!Answered(m)
    BY <1>1, <1>3, <1>4, Zenon DEF B!Answered, B!Acks, B!ChannelInv, B!Negotiated
  <1> QED
    BY <1>3, <1>4, <1>5, Zenon DEF Puts

\* The GPU channel waits for the four answers that the display server sends.
LEMMA GpuPuts ==
  ASSUME NEW t \in ChannelThreads, NEW code \in B!Codes, NEW file \in BOOLEAN,
         NEW waits \in BOOLEAN,
         B!Send(t, "gpu", code, file, TRUE, FALSE, waits), waits <=> code \in B!Questions
  PROVE  \E m : Puts(t, m)
  <1> DEFINE m == [by |-> t, code |-> code, need |-> FALSE, file |-> file, valid |-> TRUE,
                   awaited |-> waits]
  <1>1. m \in ChannelRequest /\ m.by = t /\ m.awaited = waits /\ m.code = code
    BY Zenon DEF ChannelRequest
  <1>2. /\ channel = "gpu" /\ node.there /\ B!Lock(t) /\ up /\ requests' = Append(requests, m)
        /\ channelCall' = IF waits THEN [channelCall EXCEPT ![t] = code] ELSE channelCall
        /\ channelReturned' = IF waits THEN channelReturned ELSE "posted"
        /\ channel' = channel /\ negotiated' = negotiated /\ node' = node /\ handler' = handler
        /\ up' = up
        /\ replies' = replies
    BY Zenon DEF B!Send, B!main
  <1> HIDE DEF m
  <1>3. m.awaited <=> B!Answered(m)
    BY <1>1, <1>2, Zenon DEF B!Answered
  <1> QED
    BY <1>1, <1>2, <1>3, Zenon DEF Puts

\* A question of the GPU channel waits.
LEMMA AskPuts ==
  ASSUME NEW t \in ChannelThreads, NEW code \in B!Questions, B!Ask(t, code)
  PROVE  \E m : Puts(t, m)
  <1>1. code \in B!Codes /\ (TRUE <=> code \in B!Questions) /\ TRUE \in BOOLEAN /\ FALSE \in BOOLEAN
    BY Zenon DEF B!Questions, B!Codes
  <1>2. B!Send(t, "gpu", code, FALSE, TRUE, FALSE, TRUE)
    BY Zenon DEF B!Ask
  <1> QED
    BY <1>1, <1>2, GpuPuts, Zenon

\* A notice of the GPU channel does not wait.
LEMMA TellPuts ==
  ASSUME NEW t \in ChannelThreads, NEW code \in B!Codes \ B!Questions, NEW file \in BOOLEAN,
         B!Tell(t, code, file)
  PROVE  \E m : Puts(t, m)
  <1>1. code \in B!Codes /\ (FALSE <=> code \in B!Questions) /\ FALSE \in BOOLEAN
    BY Zenon
  <1>2. B!Send(t, "gpu", code, file, TRUE, FALSE, FALSE)
    BY Zenon DEF B!Tell
  <1> QED
    BY <1>1, <1>2, GpuPuts, Zenon

\* A method of a proxy puts one request into the socket, or receives.
LEMMA ProxyPuts ==
  ASSUME B!TypeOK, B!ChannelInv, NEW t \in ChannelThreads, B!Proxy(t)
  PROVE  (\E m : Puts(t, m)) \/ B!Receive(t) \/ B!ReceiveEnd(t)
  <1>1. {"SHARED_OBJECT_ADD", "SHARED_OBJECT_REMOVE", "SHARED_OBJECT_LOOKUP", "SHMEM_MAP",
         "SHMEM_UNMAP"} \subseteq B!Codes /\ TRUE \in BOOLEAN /\ FALSE \in BOOLEAN
    BY Zenon DEF B!Codes
  <1>2. ASSUME NEW valid \in BOOLEAN,
               \/ B!shared_object_add(t, valid) \/ B!shared_object_remove(t, valid)
               \/ B!shared_object_lookup(t, valid) \/ B!shmem_map(t, valid)
               \/ B!shmem_unmap(t, valid)
        PROVE  \E m : Puts(t, m)
    BY <1>1, <1>2, RequestPuts, Zenon
       DEF B!shared_object_add, B!shared_object_remove, B!shared_object_lookup, B!shmem_map,
           B!shmem_unmap
  <1>3. ASSUME B!get_protocol_features(t) \/ B!get_display_info(t) \/ B!get_edid(t)
                 \/ B!update_dmabuf_scanout(t)
        PROVE  \E m : Puts(t, m)
    BY <1>3, AskPuts, Zenon
       DEF B!get_protocol_features, B!get_display_info, B!get_edid, B!update_dmabuf_scanout,
           B!Questions
  <1>4. {"SET_PROTOCOL_FEATURES", "SCANOUT", "UPDATE", "DMABUF_SCANOUT", "DMABUF_SCANOUT2",
         "CURSOR_POS", "CURSOR_POS_HIDE", "CURSOR_UPDATE"} \subseteq B!Codes \ B!Questions
    BY Zenon DEF B!Codes, B!Questions
  <1>5. ASSUME \/ B!gpu_set_protocol_features(t) \/ B!set_scanout(t) \/ B!update_scanout(t)
               \/ B!cursor_pos(t) \/ B!cursor_pos_hide(t) \/ B!cursor_update(t)
        PROVE  \E m : Puts(t, m)
    BY <1>1, <1>4, <1>5, TellPuts, Zenon
       DEF B!gpu_set_protocol_features, B!set_scanout, B!update_scanout, B!cursor_pos,
           B!cursor_pos_hide,
           B!cursor_update
  <1>6. ASSUME NEW file \in BOOLEAN, B!set_dmabuf_scanout(t, file) \/ B!set_dmabuf_scanout2(t, file)
        PROVE  \E m : Puts(t, m)
    BY <1>4, <1>6, TellPuts, Zenon DEF B!set_dmabuf_scanout, B!set_dmabuf_scanout2
  <1> QED
    BY <1>2, <1>3, <1>5, <1>6, Zenon DEF B!Proxy

\* The other side takes the oldest request out of the socket and answers it, or closes its
\* end, or neither when nobody waits.
Takes(m) ==
    /\ up /\ requests # <<>> /\ m = Head(requests) /\ requests' = Tail(requests)
    /\ channel' = channel /\ negotiated' = negotiated /\ node' = node /\ handler' = handler
    /\ channelCall' = channelCall /\ channelReturned' = channelReturned
    /\ \/ /\ B!Answered(m)
          /\ \E out \in {"ok", "err"} :
                /\ replies' = Append(replies, [by |-> m.by, code |-> m.code, out |-> out])
                /\ up' = up \/ (out = "err" /\ up' = FALSE)
       \/ replies' = replies /\ (up' = FALSE \/ (up' = up /\ ~ B!Answered(m)))

\* FrontendReqHandler::handle_request takes a request.
LEMMA HandlerTakes ==
  ASSUME B!TypeOK, B!handle_request
  PROVE  Takes(Head(requests))
  <1> DEFINE m == Head(requests)
  <1>1. /\ channel = "req" /\ up /\ requests # <<>> /\ requests' = Tail(requests)
        /\ channel' = channel /\ negotiated' = negotiated /\ node' = node /\ handler' = handler
        /\ channelCall' = channelCall /\ channelReturned' = channelReturned
        /\ \/ \E res \in {"ok", "err"} :
                 B!SendAckMessage(m, res) /\ up' \in {up} \cup IF res = "err" THEN {FALSE} ELSE {}
           \/ up' = FALSE /\ replies' = replies
    BY Zenon DEF B!handle_request, B!main
  <1> HIDE DEF m
  <1>2. B!Answered(m) <=> B!Acks(m)
    BY <1>1, Zenon DEF B!Answered
  <1>3. ASSUME NEW res \in {"ok", "err"}, B!SendAckMessage(m, res),
               up' \in {up} \cup IF res = "err" THEN {FALSE} ELSE {}
        PROVE  Takes(m)
    <2>1. up' = up \/ (res = "err" /\ up' = FALSE)
      BY <1>3, Zenon
    <2>2. CASE B!Acks(m)
      <3>1. replies' = Append(replies, [by |-> m.by, code |-> m.code, out |-> res])
        BY <1>3, <2>2, Zenon DEF B!SendAckMessage
      <3> QED
        BY <1>1, <1>2, <2>1, <2>2, <3>1, Zenon DEF Takes, m
    <2>3. CASE ~ B!Acks(m)
      <3>1. replies' = replies
        BY <1>3, <2>3, Zenon DEF B!SendAckMessage
      <3> QED
        BY <1>1, <1>2, <2>1, <2>3, <3>1, Zenon DEF Takes, m
    <2> QED
      BY <2>2, <2>3, Zenon
  <1>4. ASSUME up' = FALSE, replies' = replies PROVE Takes(m)
    BY <1>1, <1>4, Zenon DEF Takes, m
  <1> QED
    BY <1>1, <1>3, <1>4, Zenon DEF m

\* So does dropping a handler that has failed.
LEMMA DropTakes ==
  ASSUME B!DropHandler
  PROVE  Takes(Head(requests))
  BY Zenon DEF B!DropHandler, Takes, B!main

\* And so does the display server.
LEMMA DisplayTakes ==
  ASSUME B!DisplayServer
  PROVE  Takes(Head(requests))
  <1> DEFINE m == Head(requests)
  <1>1. /\ channel = "gpu" /\ up /\ requests # <<>> /\ requests' = Tail(requests)
        /\ channel' = channel /\ negotiated' = negotiated /\ node' = node /\ handler' = handler
        /\ channelCall' = channelCall /\ channelReturned' = channelReturned
        /\ \/ /\ up' = up
              /\ replies' = IF m.code \in B!Questions
                            THEN Append(replies, [by |-> m.by, code |-> m.code, out |-> "ok"])
                            ELSE replies
           \/ up' = FALSE /\ replies' = replies
    BY Zenon DEF B!DisplayServer, B!main
  <1>2. B!Answered(m) <=> m.code \in B!Questions
    BY <1>1, Zenon DEF B!Answered
  <1> HIDE DEF m
  <1>3. "ok" \in {"ok", "err"}
    BY Zenon
  <1>4. CASE up' = FALSE /\ replies' = replies
    BY <1>1, <1>4, Zenon DEF Takes, m
  <1>5. CASE ~ (up' = FALSE /\ replies' = replies)
    BY <1>1, <1>2, <1>3, <1>5, Zenon DEF Takes, m
  <1> QED
    BY <1>4, <1>5, Zenon DEF m

-------------------------------------------------------------------------------
\* What is in the sockets.
LEMMA SocketElements ==
  ASSUME B!TypeOK
  PROVE  /\ requests \in Seq(ChannelRequest)
         /\ \A i \in DOMAIN requests : requests[i] \in ChannelRequest
         /\ replies \in Seq(ChannelReply) /\ \A i \in DOMAIN replies : replies[i] \in ChannelReply
  <1>1. requests \in Seq(ChannelRequest) /\ replies \in Seq(ChannelReply)
    BY Zenon DEF B!TypeOK, ChannelRequest, ChannelReply
  <1> QED
    BY <1>1

\* What is known of the sockets when nobody waits.
LEMMA NobodyWaits ==
  ASSUME B!TypeOK, B!ChannelInv, \A u \in ChannelThreads : channelCall[u] = B!Idle
  PROVE  replies = <<>> /\ (up => \A i \in DOMAIN requests : ~ requests[i].awaited)
  <1>0. "none" \notin B!Codes
    BY Zenon DEF B!Codes
  <1>1. \A i \in DOMAIN replies : replies[i].by \in ChannelThreads /\ replies[i].code # B!Idle
    BY <1>0, SocketElements, Zenon DEF ChannelReply, B!Idle
  <1>2. \A i \in DOMAIN requests : requests[i].by \in ChannelThreads /\ requests[i].code # B!Idle
    BY <1>0, SocketElements, Zenon DEF ChannelRequest, B!Idle
  <1>3. DOMAIN replies = {}
    BY <1>1, Zenon DEF B!ChannelInv
  <1>4. replies = <<>>
    BY <1>3 DEF B!TypeOK
  <1>5. ASSUME NEW i \in DOMAIN requests, up, requests[i].awaited PROVE FALSE
    <2>1. channelCall[requests[i].by] = requests[i].code
      BY <1>5, Zenon DEF B!ChannelInv
    <2> QED
      BY <1>2, <2>1, Zenon
  <1> QED
    BY <1>4, <1>5, Zenon

\* Sending keeps the invariant.
LEMMA PutsSafe ==
  ASSUME B!TypeOK, B!ChannelInv, NEW t \in ChannelThreads, NEW m, Puts(t, m)
  PROVE  B!TypeOK' /\ B!ChannelInv'
  <1>1. /\ m \in ChannelRequest /\ m.by = t /\ m.awaited \in BOOLEAN /\ m.code \in B!Codes
        /\ m.awaited <=> B!Answered(m)
    BY Zenon DEF Puts, ChannelRequest
  <1>2. /\ node.there /\ up /\ (\A u \in ChannelThreads : channelCall[u] = B!Idle)
        /\ requests' = Append(requests, m)
        /\ channelCall' = IF m.awaited THEN [channelCall EXCEPT ![t] = m.code] ELSE channelCall
        /\ channelReturned' = IF m.awaited THEN channelReturned ELSE "posted"
        /\ channel' = channel /\ negotiated' = negotiated /\ node' = node /\ handler' = handler
        /\ up' = up
        /\ replies' = replies
    BY Zenon DEF Puts, B!Lock
  <1>3. replies = <<>> /\ \A i \in DOMAIN requests : ~ requests[i].awaited
    BY <1>2, NobodyWaits, Zenon
  <1>4. requests \in Seq(ChannelRequest)
          /\ channelCall \in [ChannelThreads -> {B!Idle} \cup B!Codes]
    BY Zenon DEF B!TypeOK, ChannelRequest
  <1>5. /\ requests' \in Seq(ChannelRequest) /\ requests' # <<>>
        /\ Len(requests') = Len(requests) + 1 /\ Len(requests) \in Nat
        /\ requests'[Len(requests) + 1] = m
        /\ \A i \in DOMAIN requests' : i = Len(requests) + 1
                                      \/ (i \in DOMAIN requests /\ requests'[i] = requests[i])
    BY <1>1, <1>2, <1>4, SMTT(30)
  <1>6. channelCall' \in [ChannelThreads -> {B!Idle} \cup B!Codes]
          /\ (m.awaited => channelCall'[t] = m.code)
        /\ \A u \in ChannelThreads : channelCall'[u] # B!Idle => u = t
    <2>1. CASE m.awaited
      BY <1>1, <1>2, <1>4, <2>1, Zenon
    <2>2. CASE ~ m.awaited
      BY <1>1, <1>2, <1>4, <2>2, Zenon
    <2> QED
      BY <2>1, <2>2, Zenon
  <1>7. B!TypeOK'
    <2>1. /\ channel' \in {"req", "gpu"} /\ negotiated' \subseteq B!Flags
          /\ node' \in [there : BOOLEAN, flags : SUBSET B!Flags, failed : BOOLEAN]
          /\ handler' \in [replyAck : BOOLEAN, failed : BOOLEAN] /\ up' \in BOOLEAN
          /\ replies' \in Seq([by : ChannelThreads, code : B!Codes, out : {"ok", "err"}])
      BY <1>2, Zenon DEF B!TypeOK
    <2>2. channelReturned' \in {"none", "posted", "ok", "err", "broken"}
      BY <1>1, <1>2, Zenon DEF B!TypeOK
    <2> QED
      BY <1>5, <1>6, <2>1, <2>2, Zenon DEF B!TypeOK, ChannelRequest
  <1>8. (\A i \in DOMAIN requests : requests[i].awaited <=> B!Answered(requests[i]))'
    <2>1. ASSUME NEW i \in DOMAIN requests'
          PROVE  requests'[i].awaited <=> B!Answered(requests'[i])
      BY <1>1, <1>5, <2>1, Zenon DEF B!ChannelInv
    <2> QED
      BY <1>2, <2>1, Zenon DEF B!Answered, B!Acks
  <1>9. \A i \in DOMAIN requests' : requests'[i].awaited => i = Len(requests') /\ requests'[i] = m
    BY <1>3, <1>5, Zenon
  <1>10. replies' = <<>> /\ Len(replies') <= 1 /\ DOMAIN replies' = {}
    BY <1>2, <1>3
  <1>11. B!ChannelInv'
    <2>1. (channel = "req" /\ node.there => (handler.replyAck <=> "REPLY_ACK" \in node.flags))'
      BY <1>2, Zenon DEF B!ChannelInv
    <2>2. \A i \in DOMAIN requests' : requests'[i].awaited =>
             i = Len(requests') /\ channelCall'[requests'[i].by] = requests'[i].code
               /\ replies' = <<>>
      BY <1>1, <1>6, <1>9, <1>10, Zenon
    <2>3. \A u, v \in ChannelThreads : channelCall'[u] # B!Idle /\ channelCall'[v] # B!Idle => u = v
      BY <1>6, Zenon
    <2> QED
      BY <1>2, <1>8, <1>10, <2>1, <2>2, <2>3, Zenon DEF B!ChannelInv
  <1> QED
    BY <1>7, <1>11, Zenon

\* The place of the first request of a socket, and those behind it.
LEMMA Places ==
  ASSUME NEW A, NEW q \in Seq(A), q # <<>>
  PROVE  /\ Tail(q) \in Seq(A) /\ Len(Tail(q)) = Len(q) - 1 /\ Len(q) \in Nat \ {0}
         /\ Head(q) = q[1] /\ 1 \in DOMAIN q /\ Head(q) \in A
         /\ \A i \in DOMAIN Tail(q) : i + 1 \in DOMAIN q /\ Tail(q)[i] = q[i + 1] /\ i \in Nat \ {0}
  OBVIOUS

\* Serving a request keeps the invariant.
LEMMA TakesSafe ==
  ASSUME B!TypeOK, B!ChannelInv, NEW m, Takes(m)
  PROVE  B!TypeOK' /\ B!ChannelInv'
  <1>1. /\ up /\ requests # <<>> /\ m = Head(requests) /\ requests' = Tail(requests)
        /\ channel' = channel /\ negotiated' = negotiated /\ node' = node /\ handler' = handler
        /\ channelCall' = channelCall /\ channelReturned' = channelReturned
    BY Zenon DEF Takes
  <1>2. /\ requests \in Seq(ChannelRequest) /\ replies \in Seq(ChannelReply)
    BY SocketElements, Zenon
  <1>3. /\ requests' \in Seq(ChannelRequest) /\ Len(requests') = Len(requests) - 1
        /\ Len(requests) \in Nat \ {0} /\ m = requests[1] /\ 1 \in DOMAIN requests
        /\ m \in ChannelRequest
        /\ \A i \in DOMAIN requests' : /\ i + 1 \in DOMAIN requests /\ i \in Nat \ {0}
                                      /\ requests'[i] = requests[i + 1]
    BY <1>1, <1>2, Places
  <1>4. up' \in BOOLEAN
    BY Zenon DEF Takes, B!TypeOK
  <1>5. /\ m.by \in ChannelThreads /\ m.code \in B!Codes
    BY <1>3, Zenon DEF ChannelRequest
  <1>6. B!Answered(m) => /\ channelCall[m.by] = m.code /\ replies = <<>> /\ Len(requests) = 1
    BY <1>1, <1>3, Zenon DEF B!ChannelInv
  <1>7. \A i \in DOMAIN requests' : up /\ requests'[i].awaited =>
             i + 1 = Len(requests) /\ channelCall[requests'[i].by] = requests'[i].code
               /\ replies = <<>>
    <2>1. ASSUME NEW i \in DOMAIN requests, up, requests[i].awaited
          PROVE  i = Len(requests) /\ channelCall[requests[i].by] = requests[i].code
                   /\ replies = <<>>
      BY <2>1, Zenon DEF B!ChannelInv
    <2>2. ASSUME NEW i \in DOMAIN requests', up, requests'[i].awaited
          PROVE  /\ i + 1 = Len(requests) /\ channelCall[requests'[i].by] = requests'[i].code
                 /\ replies = <<>>
      <3>1. i + 1 \in DOMAIN requests /\ requests'[i] = requests[i + 1]
        BY <1>3, <2>2, Zenon
      <3> QED
        BY <2>1, <2>2, <3>1, Zenon
    <2> QED
      BY <2>2, Zenon
  <1>8. (\A i \in DOMAIN requests : requests[i].awaited <=> B!Answered(requests[i]))'
    <2>1. \A i \in DOMAIN requests' : requests'[i].awaited <=> B!Answered(requests'[i])
      BY <1>3, Zenon DEF B!ChannelInv
    <2> QED
      BY <1>1, <2>1, Zenon DEF B!Answered, B!Acks
  <1>9. (channel = "req" /\ node.there => (handler.replyAck <=> "REPLY_ACK" \in node.flags))'
    BY <1>1, Zenon DEF B!ChannelInv
  <1>10. node'.there /\ \A u, v \in ChannelThreads : channelCall'[u] # B!Idle
           /\ channelCall'[v] # B!Idle => u = v
    BY <1>1, Zenon DEF B!ChannelInv
  <1>11. replies' \in Seq(ChannelReply) => B!TypeOK'
    <2>1. /\ channel' \in {"req", "gpu"} /\ negotiated' \subseteq B!Flags
          /\ node' \in [there : BOOLEAN, flags : SUBSET B!Flags, failed : BOOLEAN]
          /\ handler' \in [replyAck : BOOLEAN, failed : BOOLEAN]
          /\ channelCall' \in [ChannelThreads -> {B!Idle} \cup B!Codes]
          /\ channelReturned' \in {"none", "posted", "ok", "err", "broken"}
      BY <1>1, Zenon DEF B!TypeOK
    <2> QED
      BY <1>3, <1>4, <2>1, Zenon DEF B!TypeOK, ChannelRequest, ChannelReply
  <1>12. CASE replies' = replies
    <2>1. Len(replies') <= 1
            /\ \A i \in DOMAIN replies' : channelCall'[replies'[i].by] = replies'[i].code
      BY <1>1, <1>12, Zenon DEF B!ChannelInv
    <2>2. \A i \in DOMAIN requests' : up' /\ requests'[i].awaited =>
             i = Len(requests') /\ channelCall'[requests'[i].by] = requests'[i].code
               /\ replies' = <<>>
      BY <1>1, <1>3, <1>7, <1>12, SMTT(30)
    <2>3. B!ChannelInv'
      BY <1>8, <1>9, <1>10, <2>1, <2>2, Zenon DEF B!ChannelInv
    <2> QED
      BY <1>2, <1>11, <1>12, <2>3, Zenon
  <1>13. CASE replies' # replies
    <2>1. PICK out \in {"ok", "err"} :
             /\ B!Answered(m)
             /\ replies' = Append(replies, [by |-> m.by, code |-> m.code, out |-> out])
      BY <1>13, Zenon DEF Takes
    <2> DEFINE r == [by |-> m.by, code |-> m.code, out |-> out]
    <2>2. r \in ChannelReply /\ r.by = m.by /\ r.code = m.code
      BY <1>5, Zenon DEF ChannelReply
    <2> HIDE DEF r
    <2>3. replies' = Append(<<>>, r)
      BY <1>6, <2>1, Zenon DEF r
    <2>4. replies' \in Seq(ChannelReply) /\ Len(replies') = 1 /\ DOMAIN replies' = {1}
            /\ replies'[1] = r
      BY <2>2, <2>3
    <2>5. Len(requests') = 0 /\ requests' = <<>> /\ DOMAIN requests' = {}
      BY <1>3, <1>6, <2>1, SMTT(30)
    <2>6. Len(replies') <= 1
            /\ \A i \in DOMAIN replies' : channelCall'[replies'[i].by] = replies'[i].code
      BY <1>1, <1>6, <2>1, <2>2, <2>4, SMTT(30)
    <2>7. B!ChannelInv'
      BY <1>8, <1>9, <1>10, <2>5, <2>6, Zenon DEF B!ChannelInv
    <2> QED
      BY <1>11, <2>4, <2>7, Zenon
  <1> QED
    BY <1>12, <1>13, Zenon

\* A socket with one answer in it.
LEMMA OneElement ==
  ASSUME NEW A, NEW q \in Seq(A), q # <<>>, Len(q) <= 1
  PROVE  DOMAIN q = {1} /\ Head(q) = q[1] /\ Tail(q) = <<>> /\ Head(q) \in A
  <1>1. Len(q) \in Nat \ {0}
    BY EmptySeq, Zenon
  <1>2. Len(q) = 1
    BY <1>1, SMTT(30)
  <1>3. DOMAIN q = {1} /\ Head(q) = q[1] /\ Head(q) \in A
    BY <1>2
  <1>4. Tail(q) \in Seq(A) /\ Len(Tail(q)) = 0
    BY <1>2
  <1>5. Tail(q) = <<>>
    BY <1>4, EmptySeq, Zenon
  <1> QED
    BY <1>3, <1>5, Zenon

\* The answer that a thread finds in the socket is the only one, and its own.
LEMMA OwnAnswer ==
  ASSUME B!TypeOK, B!ChannelInv, NEW t \in ChannelThreads, channelCall[t] # B!Idle, replies # <<>>
  PROVE  /\ DOMAIN replies = {1} /\ Head(replies) = replies[1] /\ Tail(replies) = <<>>
         /\ Head(replies) \in ChannelReply /\ Head(replies).by = t
         /\ Head(replies).code = channelCall[t]
  <1>1. replies \in Seq(ChannelReply)
    BY SocketElements, Zenon
  <1>2. Len(replies) <= 1
    BY Zenon DEF B!ChannelInv
  <1>3. /\ DOMAIN replies = {1} /\ Head(replies) = replies[1] /\ Tail(replies) = <<>>
        /\ Head(replies) \in ChannelReply
    BY <1>1, <1>2, OneElement, Zenon
  <1>4. replies[1].by \in ChannelThreads /\ replies[1].code \in B!Codes
    BY <1>3, Zenon DEF ChannelReply
  <1>5. channelCall[replies[1].by] = replies[1].code
    BY <1>3, Zenon DEF B!ChannelInv
  <1>6. replies[1].code # B!Idle
    BY <1>4, Zenon DEF B!Codes, B!Idle
  <1>7. replies[1].by = t
    BY <1>4, <1>5, <1>6, Zenon DEF B!ChannelInv
  <1> QED
    BY <1>3, <1>5, <1>7, Zenon

\* Ending a call keeps the invariant, when no request that the other side may still serve is
\* waited for and no answer is left.
LEMMA EndCallSafe ==
  ASSUME B!TypeOK, B!ChannelInv, NEW t \in ChannelThreads, channelCall[t] # B!Idle,
         channelCall' = [channelCall EXCEPT ![t] = B!Idle], replies' = <<>>, replies = <<>> => ~ up,
         channelReturned' \in {"ok", "err", "broken"},
         UNCHANGED <<B!main, node, handler, up, requests>>
  PROVE  B!TypeOK' /\ B!ChannelInv'
  <1>1. /\ channel' = channel /\ negotiated' = negotiated /\ node' = node /\ handler' = handler
        /\ up' = up
        /\ requests' = requests
    BY Zenon DEF B!main
  <1>2. channelCall' \in [ChannelThreads -> {B!Idle} \cup B!Codes]
          /\ \A u \in ChannelThreads : channelCall'[u] # B!Idle => channelCall[u] # B!Idle
    BY Zenon DEF B!TypeOK
  <1>3. replies' \in Seq([by : ChannelThreads, code : B!Codes, out : {"ok", "err"}])
        /\ Len(replies') <= 1 /\ DOMAIN replies' = {}
    OBVIOUS
  <1>4. B!TypeOK'
    <2>1. channelReturned' \in {"none", "posted", "ok", "err", "broken"}
      BY Zenon
    <2> QED
      BY <1>1, <1>2, <1>3, <2>1, Zenon DEF B!TypeOK
  <1>5. (\A i \in DOMAIN requests : requests[i].awaited <=> B!Answered(requests[i]))'
    BY <1>1, Zenon DEF B!Answered, B!Acks, B!ChannelInv
  <1>6. \A i \in DOMAIN requests' : ~ (up' /\ requests'[i].awaited)
    <2>1. ASSUME NEW i \in DOMAIN requests, up, requests[i].awaited PROVE FALSE
      <3>1. replies = <<>>
        BY <2>1, Zenon DEF B!ChannelInv
      <3> QED
        BY <2>1, <3>1, Zenon
    <2> QED
      BY <1>1, <2>1
  <1>7. B!ChannelInv'
    BY <1>1, <1>2, <1>3, <1>5, <1>6, Zenon DEF B!ChannelInv
  <1> QED
    BY <1>4, <1>7, Zenon

\* Receiving ends a call with the outcome of its own request.
LEMMA ReceiveEnds ==
  ASSUME B!TypeOK, B!ChannelInv, NEW t \in ChannelThreads, B!Receive(t)
  PROVE  /\ channelCall[t] # B!Idle /\ DOMAIN replies = {1} /\ replies[1].by = t /\ replies # <<>>
         /\ channelReturned' = replies[1].out /\ replies[1].out \in {"ok", "err"}
         /\ channelCall' = [channelCall EXCEPT ![t] = B!Idle] /\ replies' = <<>>
         /\ UNCHANGED <<B!main, node, handler, up, requests>>
  <1>1. /\ channelCall[t] # B!Idle /\ replies # <<>> /\ replies' = Tail(replies)
        /\ channelCall' = [channelCall EXCEPT ![t] = B!Idle]
        /\ UNCHANGED <<B!main, node, handler, up, requests>>
        /\ channelReturned' = IF Head(replies).code = channelCall[t] THEN Head(replies).out ELSE "err"
    BY Zenon DEF B!Receive
  <1>2. /\ DOMAIN replies = {1} /\ Head(replies) = replies[1] /\ Tail(replies) = <<>>
        /\ Head(replies) \in ChannelReply /\ Head(replies).by = t
        /\ Head(replies).code = channelCall[t]
    BY <1>1, OwnAnswer, Zenon
  <1>3. Head(replies).out \in {"ok", "err"}
    BY <1>2, Zenon DEF ChannelReply
  <1> QED
    BY <1>1, <1>2, <1>3, Zenon

\* Both ways of ending a call keep the invariant.
LEMMA ReceiveSafe ==
  ASSUME B!TypeOK, B!ChannelInv, NEW t \in ChannelThreads, B!Receive(t) \/ B!ReceiveEnd(t)
  PROVE  B!TypeOK' /\ B!ChannelInv'
  <1>1. CASE B!Receive(t)
    <2>1. /\ channelCall[t] # B!Idle /\ replies # <<>> /\ replies' = <<>>
          /\ channelCall' = [channelCall EXCEPT ![t] = B!Idle]
          /\ UNCHANGED <<B!main, node, handler, up, requests>>
          /\ channelReturned' \in {"ok", "err"}
      BY <1>1, ReceiveEnds, Zenon
    <2>2. channelReturned' \in {"ok", "err", "broken"}
      BY <2>1, Zenon
    <2> QED
      BY <2>1, <2>2, EndCallSafe, Zenon
  <1>2. CASE B!ReceiveEnd(t)
    <2>1. /\ channelCall[t] # B!Idle /\ ~ up /\ replies' = <<>>
          /\ channelReturned' \in {"ok", "err", "broken"}
          /\ channelCall' = [channelCall EXCEPT ![t] = B!Idle]
          /\ UNCHANGED <<B!main, node, handler, up, requests>>
      BY <1>2, Zenon DEF B!ReceiveEnd
    <2> QED
      BY <2>1, EndCallSafe, Zenon
  <1> QED
    BY <1>1, <1>2, Zenon

\* Setting up: no request is in the socket before the proxy is there.
SetsUp ==
    \/ \E s \in SUBSET B!Flags : B!set_protocol_features(s)
    \/ B!set_reply_ack_flag
    \/ \E files \in ReqFiles : B!set_backend_req_fd(files) \/ B!set_gpu_socket(files)
    \/ B!set_failed
    \/ \E error \in {0, 1} : B!handler_set_failed(error)

\* Setting up changes nothing in the sockets, and not what the two ends make of REPLY_ACK
\* once the proxy is there.
LEMMA SetsUpKeeps ==
  ASSUME B!TypeOK, B!ChannelInv, SetsUp
  PROVE  /\ UNCHANGED <<channel, up, channelCall, requests, replies, channelReturned>>
         /\ negotiated' \subseteq B!Flags
         /\ node' \in [there : BOOLEAN, flags : SUBSET B!Flags, failed : BOOLEAN]
         /\ handler' \in [replyAck : BOOLEAN, failed : BOOLEAN]
         /\ node.there => node'.there /\ handler'.replyAck = handler.replyAck
         /\ channel = "req" /\ node'.there => (handler'.replyAck <=> "REPLY_ACK" \in node'.flags)
  <1> DEFINE Goal ==
         /\ UNCHANGED <<channel, up, channelCall, requests, replies, channelReturned>>
         /\ negotiated' \subseteq B!Flags
         /\ node' \in [there : BOOLEAN, flags : SUBSET B!Flags, failed : BOOLEAN]
         /\ handler' \in [replyAck : BOOLEAN, failed : BOOLEAN]
         /\ node.there => node'.there /\ handler'.replyAck = handler.replyAck
         /\ channel = "req" /\ node'.there => (handler'.replyAck <=> "REPLY_ACK" \in node'.flags)
  <1>0. /\ negotiated \subseteq B!Flags /\ handler \in [replyAck : BOOLEAN, failed : BOOLEAN]
        /\ node \in [there : BOOLEAN, flags : SUBSET B!Flags, failed : BOOLEAN]
        /\ channel = "req" /\ node.there => (handler.replyAck <=> "REPLY_ACK" \in node.flags)
    BY Zenon DEF B!TypeOK, B!ChannelInv
  <1>1. ASSUME NEW s \in SUBSET B!Flags, B!set_protocol_features(s) PROVE Goal
    BY <1>0, <1>1, Zenon DEF B!set_protocol_features, B!sockets
  <1>2. ASSUME B!set_reply_ack_flag PROVE Goal
    <2>1. PICK ack \in BOOLEAN : ack = ("REPLY_ACK" \in negotiated)
      <3>1. ("REPLY_ACK" \in negotiated) \in BOOLEAN
        OBVIOUS
      <3> QED
        BY <3>1, Zenon
    <2>2. /\ handler' = [handler EXCEPT !.replyAck = ack] /\ ~ node.there /\ node' = node
          /\ UNCHANGED <<channel, up, channelCall, requests, replies, channelReturned>>
          /\ negotiated' = negotiated
      BY <1>2, <2>1, Zenon DEF B!set_reply_ack_flag, B!sockets, B!main
    <2> QED
      BY <1>0, <2>2, Zenon
  <1>3. ASSUME NEW files \in ReqFiles, B!set_backend_req_fd(files) PROVE Goal
    <2>1. /\ ~ node.there /\ node' = [there |-> TRUE, flags |-> negotiated, failed |-> FALSE]
          /\ handler.replyAck = ("REPLY_ACK" \in negotiated) /\ handler' = handler
          /\ negotiated' = negotiated
          /\ UNCHANGED <<channel, up, channelCall, requests, replies, channelReturned>>
      BY <1>3, Zenon DEF B!set_backend_req_fd, B!sockets, B!main, B!ProxyFlags
    <2>2. handler.replyAck <=> "REPLY_ACK" \in negotiated
      BY <2>1, Zenon
    <2> QED
      BY <1>0, <2>1, <2>2, Zenon
  <1>4. ASSUME NEW files \in ReqFiles, B!set_gpu_socket(files) PROVE Goal
    BY <1>0, <1>4, Zenon DEF B!set_gpu_socket, B!sockets, B!main
  <1>5. ASSUME B!set_failed PROVE Goal
    BY <1>0, <1>5, Zenon DEF B!set_failed, B!sockets, B!main
  <1>6. ASSUME NEW error \in {0, 1}, B!handler_set_failed(error) PROVE Goal
    BY <1>0, <1>6, Zenon DEF B!handler_set_failed, B!sockets, B!main
  <1> HIDE DEF Goal
  <1>7. Goal
    <2>1. (\E s \in SUBSET B!Flags : B!set_protocol_features(s)) => Goal
      BY <1>1, Zenon
    <2>2. (\E files \in ReqFiles : B!set_backend_req_fd(files) \/ B!set_gpu_socket(files)) => Goal
      BY <1>3, <1>4, Zenon
    <2>3. (\E error \in {0, 1} : B!handler_set_failed(error)) => Goal
      BY <1>6, Zenon
    <2> QED
      BY <1>2, <1>5, <2>1, <2>2, <2>3, Zenon DEF SetsUp
  <1> QED
    BY <1>7, Zenon DEF Goal

\* Setting up keeps the invariant.
LEMMA SetsUpSafe ==
  ASSUME B!TypeOK, B!ChannelInv, SetsUp
  PROVE  B!TypeOK' /\ B!ChannelInv'
  <1>1. /\ channel' = channel /\ up' = up /\ channelCall' = channelCall /\ requests' = requests
        /\ replies' = replies
        /\ channelReturned' = channelReturned /\ negotiated' \subseteq B!Flags
        /\ node' \in [there : BOOLEAN, flags : SUBSET B!Flags, failed : BOOLEAN]
        /\ handler' \in [replyAck : BOOLEAN, failed : BOOLEAN]
        /\ node.there => node'.there /\ handler'.replyAck = handler.replyAck
        /\ channel = "req" /\ node'.there => (handler'.replyAck <=> "REPLY_ACK" \in node'.flags)
    BY SetsUpKeeps, Zenon
  <1>2. B!TypeOK'
    BY <1>1, Zenon DEF B!TypeOK
  <1>3. ASSUME NEW i \in DOMAIN requests PROVE handler'.replyAck = handler.replyAck
    <2>1. requests # <<>>
      BY <1>3
    <2> QED
      BY <1>1, <2>1, Zenon DEF B!ChannelInv
  <1>4. (\A i \in DOMAIN requests : requests[i].awaited <=> B!Answered(requests[i]))'
    BY <1>1, <1>3, Zenon DEF B!Answered, B!Acks, B!ChannelInv
  <1>5. B!ChannelInv'
    BY <1>1, <1>4, Zenon DEF B!ChannelInv
  <1> QED
    BY <1>2, <1>5, Zenon

\* Every step keeps the invariant.
LEMMA ChannelStepSafe ==
  ASSUME B!TypeOK, B!ChannelInv, [B!Next]_(B!vars)
  PROVE  B!TypeOK' /\ B!ChannelInv'
  <1>1. ASSUME NEW t \in ChannelThreads, B!Proxy(t) PROVE B!TypeOK' /\ B!ChannelInv'
    BY <1>1, ProxyPuts, PutsSafe, ReceiveSafe, Zenon
  <1>2. ASSUME B!handle_request \/ B!DropHandler \/ B!DisplayServer PROVE B!TypeOK' /\ B!ChannelInv'
    BY <1>2, HandlerTakes, DropTakes, DisplayTakes, TakesSafe, Zenon
  <1>3. CASE UNCHANGED B!vars
    <2>1. /\ channel' = channel /\ up' = up /\ channelCall' = channelCall
          /\ requests' = requests /\ replies' = replies
          /\ channelReturned' = channelReturned /\ negotiated' = negotiated /\ node' = node
          /\ handler' = handler
      BY <1>3, Zenon DEF B!vars, B!main, B!sockets
    <2> QED
      BY <2>1, ZenonT(40) DEF B!TypeOK, B!ChannelInv, B!Answered, B!Acks
  <1> QED
    BY <1>1, <1>2, <1>3, SetsUpSafe, Zenon DEF B!Next, SetsUp

\* A new channel satisfies the invariant.
LEMMA ChannelInitSafe ==
  ASSUME B!Init
  PROVE  B!TypeOK /\ B!ChannelInv
  <1>1. B!TypeOK
    BY DEF B!Init, B!TypeOK, B!Absent, B!Idle, B!Flags
  <1>2. /\ ~ node.there /\ requests = <<>> /\ replies = <<>>
        /\ \A t \in ChannelThreads : channelCall[t] = B!Idle
    BY Zenon DEF B!Init, B!Absent
  <1>3. DOMAIN requests = {} /\ DOMAIN replies = {} /\ Len(replies) <= 1
    BY <1>2
  <1> QED
    BY <1>1, <1>2, <1>3, Zenon DEF B!ChannelInv
-------------------------------------------------------------------------------
\* A request, a direction of the socket and the answers in it as Rpc sees them.
Abs(m) == [by |-> m.by, sync |-> m.awaited]
AbsQueue(q) == [i \in DOMAIN q |-> Abs(q[i])]
AbsBox(q) == [t \in ChannelThreads |->
    IF \E i \in DOMAIN q : q[i].by = t THEN q[CHOOSE i \in DOMAIN q : q[i].by = t].out ELSE "none"]

\* The requests in the socket as Rpc sees them: who sent each, and whether they wait.
LEMMA AbsSeq ==
  ASSUME NEW A, NEW q \in Seq(A)
  PROVE  /\ AbsQueue(q) \in Seq({Abs(m) : m \in A}) /\ Len(AbsQueue(q)) = Len(q)
         /\ DOMAIN AbsQueue(q) = 1 .. Len(q) /\ Len(q) \in Nat
         /\ \A i \in 1 .. Len(q) : AbsQueue(q)[i] = Abs(q[i])
  <1> DEFINE Seen == {Abs(m) : m \in A}
             n == Len(q)
  <1>1. n \in Nat /\ DOMAIN q = 1 .. n /\ \A i \in 1 .. n : q[i] \in A
    OBVIOUS
  <1>2. \A i \in 1 .. n : Abs(q[i]) \in Seen
    BY <1>1, Zenon
  <1> HIDE DEF Seen, n
  <1>3. AbsQueue(q) = [i \in 1 .. n |-> Abs(q[i])]
    BY <1>1, Zenon DEF AbsQueue
  <1>4. AbsQueue(q) \in [1 .. n -> Seen]
    BY <1>2, <1>3, Zenon
  <1>5. AbsQueue(q) \in Seq(Seen)
    BY <1>1, <1>4
  <1>6. Len(AbsQueue(q)) = n
    BY <1>1, <1>4, SMTT(30)
  <1> QED
    BY <1>1, <1>3, <1>5, <1>6, Zenon DEF Seen, n

\* Sending appends to the requests that Rpc sees.
LEMMA AbsAppend ==
  ASSUME NEW A, NEW q \in Seq(A), NEW m \in A
  PROVE  AbsQueue(Append(q, m)) = Append(AbsQueue(q), Abs(m))
  <1> DEFINE Seen == {Abs(x) : x \in A}
             a == AbsQueue(q)
             b == AbsQueue(Append(q, m))
             n == Len(q)
  <1>1. /\ Append(q, m) \in Seq(A) /\ Len(Append(q, m)) = n + 1 /\ n \in Nat
        /\ Append(q, m)[n + 1] = m /\ \A i \in 1 .. n : Append(q, m)[i] = q[i]
    OBVIOUS
  <1>2. a \in Seq(Seen) /\ Len(a) = n /\ \A i \in 1 .. n : a[i] = Abs(q[i])
    BY AbsSeq, Zenon
  <1>3. b \in Seq(Seen) /\ Len(b) = n + 1 /\ \A i \in 1 .. n + 1 : b[i] = Abs(Append(q, m)[i])
    BY <1>1, AbsSeq, Zenon
  <1>4. Abs(m) \in Seen
    BY Zenon
  <1> HIDE DEF Seen, a, b
  <1>5. /\ Append(a, Abs(m)) \in Seq(Seen) /\ Len(Append(a, Abs(m))) = n + 1
        /\ Append(a, Abs(m))[n + 1] = Abs(m) /\ \A i \in 1 .. n : Append(a, Abs(m))[i] = a[i]
    BY <1>2, <1>4
  <1>6. \A i \in 1 .. n + 1 : b[i] = Append(a, Abs(m))[i]
    <2> TAKE i \in 1 .. n + 1
    <2>1. CASE i = n + 1
      BY <1>1, <1>3, <1>5, <2>1, Zenon
    <2>2. CASE i # n + 1
      <3>1. i \in 1 .. n
        BY <1>1, <2>2
      <3> QED
        BY <1>1, <1>2, <1>3, <1>5, <3>1, Zenon
    <2> QED
      BY <2>1, <2>2, Zenon
  <1> QED
    BY <1>3, <1>5, <1>6, SeqEqual, Zenon DEF a, b

\* Handling a request takes the first one that Rpc sees.
LEMMA AbsTail ==
  ASSUME NEW A, NEW q \in Seq(A), q # <<>>
  PROVE  /\ AbsQueue(q) # <<>> /\ Head(AbsQueue(q)) = Abs(Head(q))
         /\ AbsQueue(Tail(q)) = Tail(AbsQueue(q))
  <1> DEFINE Seen == {Abs(x) : x \in A}
             a == AbsQueue(q)
             b == AbsQueue(Tail(q))
             n == Len(q)
  <1>1. /\ Tail(q) \in Seq(A) /\ Len(Tail(q)) = n - 1 /\ n \in Nat \ {0} /\ Head(q) = q[1]
        /\ \A i \in 1 .. n - 1 : Tail(q)[i] = q[i + 1]
    OBVIOUS
  <1>2. a \in Seq(Seen) /\ Len(a) = n /\ \A i \in 1 .. n : a[i] = Abs(q[i])
    BY AbsSeq, Zenon
  <1>3. b \in Seq(Seen) /\ Len(b) = n - 1 /\ \A i \in 1 .. n - 1 : b[i] = Abs(Tail(q)[i])
    BY <1>1, AbsSeq, Zenon
  <1> HIDE DEF Seen, a, b
  <1>4. a # <<>> /\ Head(a) = a[1] /\ 1 \in 1 .. n
    BY <1>1, <1>2
  <1>5. /\ Tail(a) \in Seq(Seen) /\ Len(Tail(a)) = n - 1
        /\ \A i \in 1 .. n - 1 : Tail(a)[i] = a[i + 1] /\ i + 1 \in 1 .. n
    BY <1>1, <1>2, <1>4, SMTT(30)
  <1>6. \A i \in 1 .. n - 1 : b[i] = Tail(a)[i]
    BY <1>1, <1>2, <1>3, <1>5, ZenonT(40)
  <1>7. b = Tail(a)
    BY <1>3, <1>5, <1>6, SeqEqual, Zenon
  <1> QED
    BY <1>1, <1>2, <1>4, <1>7, Zenon DEF a, b

\* The mailboxes of Rpc are empty, or hold the one answer in the socket.
LEMMA AbsBoxes ==
  /\ AbsBox(<<>>) = [t \in ChannelThreads |-> "none"]
  /\ \A q : DOMAIN q = {1} => AbsBox(q) = [t \in ChannelThreads |-> IF t = q[1].by THEN q[1].out ELSE "none"]
  <1>1. AbsBox(<<>>) = [t \in ChannelThreads |-> "none"]
    BY DEF AbsBox
  <1>2. ASSUME NEW q, DOMAIN q = {1}
        PROVE  AbsBox(q) = [t \in ChannelThreads |-> IF t = q[1].by THEN q[1].out ELSE "none"]
    <2>1. \A t : (\E i \in DOMAIN q : q[i].by = t) <=> t = q[1].by
      BY <1>2, Zenon
    <2>2. \A t : t = q[1].by => (CHOOSE i \in DOMAIN q : q[i].by = t) = 1
      BY <1>2, Zenon
    <2> QED
      BY <2>1, <2>2, Zenon DEF AbsBox
  <1> QED
    BY <1>1, <1>2, Zenon

Waiting == {t \in ChannelThreads : channelCall[t] # B!Idle}

\* Sending is Rpc's Send.
LEMMA PutsSimulated ==
  ASSUME B!TypeOK, NEW t \in ChannelThreads, NEW m, Puts(t, m)
  PROVE  B!Channel!Next
  <1>1. /\ m \in ChannelRequest /\ m.by = t /\ (\A u \in ChannelThreads : channelCall[u] = B!Idle)
        /\ requests' = Append(requests, m) /\ requests \in Seq(ChannelRequest)
        /\ channelCall' = IF m.awaited THEN [channelCall EXCEPT ![t] = m.code] ELSE channelCall
        /\ channelReturned' = IF m.awaited THEN channelReturned ELSE "posted"
        /\ up' = up /\ replies' = replies
        /\ channelCall \in [ChannelThreads -> {B!Idle} \cup B!Codes]
    BY SocketElements, Zenon DEF Puts, B!Lock, B!TypeOK
  <1>2. m.awaited \in BOOLEAN /\ m.code # B!Idle
    BY <1>1, Zenon DEF ChannelRequest, B!Codes, B!Idle
  <1>3. AbsQueue(requests') = Append(AbsQueue(requests), [by |-> t, sync |-> m.awaited])
    BY <1>1, AbsAppend, Zenon DEF Abs
  <1>4. Waiting' = (IF m.awaited THEN Waiting \cup {t} ELSE Waiting) /\ t \notin Waiting
    BY <1>1, <1>2, Zenon DEF Waiting
  <1>5. B!Mailbox' = B!Mailbox
    BY <1>1, Zenon DEF B!Mailbox
  <1>6. B!Channel!Send(t, m.awaited)
    BY <1>1, <1>3, <1>4, <1>5, Zenon DEF B!Channel!Send, AbsQueue, Abs, Waiting
  <1> QED
    BY <1>2, <1>6, Zenon DEF B!Channel!Next

\* Serving is Rpc's Serve.
LEMMA TakesSimulated ==
  ASSUME B!TypeOK, B!ChannelInv, NEW m, Takes(m)
  PROVE  B!Channel!Serve
  <1>1. /\ up /\ requests # <<>> /\ m = Head(requests) /\ requests' = Tail(requests)
        /\ channelCall' = channelCall /\ channelReturned' = channelReturned
        /\ requests \in Seq(ChannelRequest)
    BY SocketElements, Zenon DEF Takes
  <1>2. m \in ChannelRequest /\ m = requests[1] /\ 1 \in DOMAIN requests
    BY <1>1, Places, Zenon
  <1>3. m.by \in ChannelThreads /\ m.awaited \in BOOLEAN /\ m.code \in B!Codes
    BY <1>2, Zenon DEF ChannelRequest
  <1>4. (m.awaited <=> B!Answered(m)) /\ (m.awaited => replies = <<>>)
    BY <1>1, <1>2, Zenon DEF B!ChannelInv
  <1>5. /\ AbsQueue(requests) # <<>> /\ Head(AbsQueue(requests)) = Abs(m)
        /\ AbsQueue(requests') = Tail(AbsQueue(requests))
    BY <1>1, AbsTail, Zenon
  <1>6. Abs(m).by = m.by /\ Abs(m).sync = m.awaited
    BY Zenon DEF Abs
  <1>7. Waiting' = Waiting
    BY <1>1, Zenon DEF Waiting
  <1>8. up' \in BOOLEAN /\ up \in BOOLEAN
    BY Zenon DEF Takes, B!TypeOK
  <1>9. ASSUME NEW out \in {"ok", "err"}, B!Answered(m),
               replies' = Append(replies, [by |-> m.by, code |-> m.code, out |-> out])
        PROVE  B!Mailbox' = [B!Mailbox EXCEPT ![m.by] = out]
    <2> DEFINE r == [by |-> m.by, code |-> m.code, out |-> out]
    <2>1. r \in ChannelReply /\ r.by = m.by /\ r.out = out
      BY <1>3, Zenon DEF ChannelReply
    <2> HIDE DEF r
    <2>2. replies = <<>> /\ replies' = Append(<<>>, r)
      BY <1>4, <1>9, Zenon DEF r
    <2>3. DOMAIN replies' = {1} /\ replies'[1] = r
      BY <2>1, <2>2, SMTT(30)
    <2>4. B!Mailbox = AbsBox(<<>>) /\ B!Mailbox' = AbsBox(replies')
      BY <2>2, Zenon DEF B!Mailbox, AbsBox
    <2>5. /\ B!Mailbox = [t \in ChannelThreads |-> "none"]
          /\ B!Mailbox' = [t \in ChannelThreads |-> IF t = m.by THEN out ELSE "none"]
      <3>1. AbsBox(replies')
              = [t \in ChannelThreads |-> IF t = replies'[1].by THEN replies'[1].out ELSE "none"]
        BY <2>3, AbsBoxes, Zenon
      <3>2. B!Mailbox' = [t \in ChannelThreads |-> IF t = m.by THEN out ELSE "none"]
        BY <2>1, <2>3, <2>4, <3>1, Zenon
      <3> QED
        BY <2>4, <3>2, AbsBoxes, Zenon
    <2> QED
      BY <2>5, Zenon
  <1>10. replies' = replies => B!Mailbox' = B!Mailbox
    BY Zenon DEF B!Mailbox
  <1>11. \/ /\ m.awaited
            /\ \E out \in {"ok", "err"} : B!Mailbox' = [B!Mailbox EXCEPT ![m.by] = out]
                                         /\ (up' = up \/ (out = "err" /\ up' = FALSE))
         \/ B!Mailbox' = B!Mailbox /\ (up' = FALSE \/ (up' = up /\ ~ m.awaited))
    BY <1>4, <1>9, <1>10, ZenonT(40) DEF Takes
  <1>12. \/ up'
              /\ IF m.awaited THEN \E o \in {"ok", "err"} : B!Mailbox' = [B!Mailbox EXCEPT ![m.by] = o]
                                ELSE B!Mailbox' = B!Mailbox
         \/ ~ up' /\ (B!Mailbox' = B!Mailbox \/ (m.awaited
              /\ B!Mailbox' = [B!Mailbox EXCEPT ![m.by] = "err"]))
    <2>1. CASE up'
      <3>1. up' # FALSE
        BY <2>1, Zenon
      <3>2. CASE m.awaited
        BY <1>11, <2>1, <3>1, <3>2, Zenon
      <3>3. CASE ~ m.awaited
        BY <1>11, <2>1, <3>1, <3>3, Zenon
      <3> QED
        BY <3>2, <3>3, Zenon
    <2>2. CASE ~ up'
      <3>1. up' # up
        BY <1>1, <2>2, Zenon
      <3> QED
        BY <1>11, <2>2, <3>1, Zenon
    <2> QED
      BY <2>1, <2>2, Zenon
  <1> QED
    BY <1>1, <1>5, <1>6, <1>7, <1>12, Zenon DEF B!Channel!Serve, AbsQueue, Abs, Waiting

\* Receiving is Rpc's Return.
LEMMA ReceiveSimulated ==
  ASSUME B!TypeOK, B!ChannelInv, NEW t \in ChannelThreads, B!Receive(t) \/ B!ReceiveEnd(t)
  PROVE  B!Channel!Return(t)
  <1>1. /\ channelCall[t] # B!Idle /\ replies' = <<>>
        /\ channelCall' = [channelCall EXCEPT ![t] = B!Idle]
        /\ requests' = requests /\ up' = up
        /\ \/ /\ DOMAIN replies = {1} /\ replies[1].by = t
              /\ channelReturned' = replies[1].out /\ replies[1].out # "none"
           \/ replies = <<>> /\ ~ up /\ channelReturned' = "broken"
    <2>1. CASE B!Receive(t)
      BY <2>1, ReceiveEnds, Zenon
    <2>2. CASE B!ReceiveEnd(t)
      BY <2>2, Zenon DEF B!ReceiveEnd
    <2> QED
      BY <2>1, <2>2, Zenon
  <1>2. Waiting' = Waiting \ {t} /\ t \in Waiting
    BY <1>1, Zenon DEF Waiting, B!TypeOK
  <1>3. B!Mailbox = AbsBox(replies) /\ B!Mailbox' = [u \in ChannelThreads |-> "none"]
    <2>1. B!Mailbox = AbsBox(replies) /\ B!Mailbox' = AbsBox(<<>>)
      BY <1>1, Zenon DEF B!Mailbox, AbsBox
    <2> QED
      BY <2>1, AbsBoxes, Zenon
  <1>4. CASE DOMAIN replies = {1} /\ replies[1].by = t
    <2>1. AbsBox(replies) = [u \in ChannelThreads |-> IF u = replies[1].by THEN replies[1].out ELSE "none"]
      BY <1>4, AbsBoxes, Zenon
    <2>2. B!Mailbox = [u \in ChannelThreads |-> IF u = t THEN replies[1].out ELSE "none"]
      BY <1>3, <1>4, <2>1, Zenon
    <2>3. B!Mailbox' = [B!Mailbox EXCEPT ![t] = "none"] /\ B!Mailbox[t] = replies[1].out
      BY <1>3, <2>2, Zenon
    <2>4. replies # <<>>
      BY <1>4
    <2> QED
      BY <1>1, <1>2, <2>3, <2>4, Zenon DEF B!Channel!Return, Waiting
  <1>5. CASE replies = <<>> /\ ~ up /\ channelReturned' = "broken"
    <2>1. B!Mailbox = [u \in ChannelThreads |-> "none"]
      BY <1>3, <1>5, AbsBoxes, Zenon
    <2>2. B!Mailbox' = [B!Mailbox EXCEPT ![t] = "none"]
      BY <1>3, <2>1, Zenon
    <2> QED
      BY <1>1, <1>2, <1>5, <2>2, Zenon DEF B!Channel!Return, Waiting
  <1> QED
    BY <1>1, <1>4, <1>5, Zenon

\* Every step of a channel is a step of Rpc or changes nothing that Rpc sees.
LEMMA ChannelStepSimulated ==
  ASSUME B!TypeOK, B!ChannelInv, [B!Next]_(B!vars)
  PROVE  [B!Channel!Next]_(B!Channel!vars)
  <1>1. ASSUME NEW t \in ChannelThreads, B!Proxy(t) PROVE B!Channel!Next
    <2>1. B!Receive(t) \/ B!ReceiveEnd(t) => B!Channel!Next
      BY ReceiveSimulated, Zenon DEF B!Channel!Next
    <2> QED
      BY <1>1, <2>1, ProxyPuts, PutsSimulated, Zenon
  <1>2. ASSUME B!handle_request \/ B!DropHandler \/ B!DisplayServer PROVE B!Channel!Next
    <2>1. B!Channel!Serve
      BY <1>2, HandlerTakes, DropTakes, DisplayTakes, TakesSimulated, ZenonT(40)
    <2> QED
      BY <2>1, Zenon DEF B!Channel!Next
  <1>3. CASE SetsUp
    <2>1. UNCHANGED <<channel, up, channelCall, requests, replies, channelReturned>>
      BY <1>3, SetsUpKeeps, Zenon
    <2> QED
      BY <2>1, Zenon DEF B!Channel!vars, B!Mailbox
  <1>4. CASE UNCHANGED B!vars
    <2>1. UNCHANGED <<up, channelCall, requests, replies, channelReturned>>
      BY <1>4, Zenon DEF B!vars, B!sockets
    <2> QED
      BY <2>1, Zenon DEF B!Channel!vars, B!Mailbox
  <1> QED
    BY <1>1, <1>2, <1>3, <1>4, Zenon DEF B!Next, SetsUp

\* A new channel is an initial state of Rpc.
LEMMA ChannelInitSimulated ==
  ASSUME B!Init
  PROVE  B!Channel!Init
  <1>1. requests = <<>> /\ replies = <<>> /\ DOMAIN requests = {}
    BY DEF B!Init
  <1>2. B!Mailbox = [t \in ChannelThreads |-> "none"]
    <2>1. B!Mailbox = AbsBox(<<>>)
      BY <1>1, Zenon DEF B!Mailbox, AbsBox
    <2> QED
      BY <2>1, AbsBoxes, Zenon
  <1>3. AbsQueue(requests) = <<>>
    BY <1>1, SMTT(30) DEF AbsQueue
  <1>4. {t \in ChannelThreads : channelCall[t] # B!Idle} = {}
    BY Zenon DEF B!Init
  <1> QED
    BY <1>2, <1>3, <1>4, Zenon DEF B!Init, B!Channel!Init, AbsQueue, Abs

\* The sockets of a backend are ones that Rpc allows: a thread that waits in wait_for_ack or
\* recv_reply gets the outcome of its own request, and requests are served once and in order.
THEOREM ChannelRefinesRpc == B!Spec => ChannelImplementsRpc
  <1>1. B!Spec => [](B!TypeOK /\ B!ChannelInv)
    BY ChannelInitSafe, ChannelStepSafe, PTL DEF B!Spec
  <1> QED
    BY <1>1, ChannelInitSimulated, ChannelStepSimulated, PTL
       DEF B!Spec, ChannelImplementsRpc, B!ChannelImplementsRpc, B!Channel!Spec
-------------------------------------------------------------------------------
(* Messages: the validators accept exactly the bodies that mean something.                    *)

\* The sum of two words does not fit if and only if it comes out below either of them.
LEMMA InWordIs ==
  ASSUME M!Words, NEW a \in 0 .. Word - 1, NEW s \in 0 .. Word - 1
  PROVE  M!InWord(a, s) <=> s # 0 /\ M!CheckedAdd(a, s)
  <1>1. Word \in Nat \ {0}
    BY DEF M!Words, M!VHOST_USER_CONFIG_SIZE
  <1>2. CASE a + s < Word
    <2>1. (a + s) % Word = a + s
      BY <1>1, <1>2, SMTT(30)
    <2> QED
      BY <1>2, <2>1, SMTT(30) DEF M!InWord, M!CheckedAdd
  <1>3. CASE a + s >= Word
    <2>1. a + s - Word \in 0 .. Word - 1
      BY <1>1, <1>3
    <2>2. (a + s) % Word = a + s - Word
      BY <1>1, <1>3, <2>1, SMTT(30)
    <2> QED
      BY <1>1, <1>3, <2>2, SMTT(30) DEF M!InWord, M!CheckedAdd
  <1> QED
    BY <1>1, <1>2, <1>3, SMTT(30)

\* Alignment by the remainder.
LEMMA AlignedIs ==
  ASSUME NEW a \in Nat
  PROVE  /\ M!Aligned(a, 16) <=> a % 16 = 0
         /\ M!Aligned(a, 4) <=> a % 4 = 0
         /\ M!Aligned(a, 2) <=> a % 2 = 0
  <1>1. M!Aligned(a, 16) <=> a % 16 = 0
    BY DEF M!Aligned
  <1>2. M!Aligned(a, 4) <=> a % 4 = 0
    BY DEF M!Aligned
  <1>3. M!Aligned(a, 2) <=> a % 2 = 0
    BY DEF M!Aligned
  <1> QED
    BY <1>1, <1>2, <1>3, Zenon

\* The receiver accepts the body if and only if it means something.
Agrees(code, b) == M!Valid(code, b) <=> M!Sound(code, b)

\* A memory table, whose sender has checked the number of regions and that none is empty.
LEMMA MemTableAgrees ==
  ASSUME M!Words, NEW num \in Nat, num # 0, num <= M!MAX_ATTACHED_FD_ENTRIES, NEW r \in M!Regions
  PROVE  Agrees("SET_MEM_TABLE", [num |-> num, last |-> r, files |-> num])
  <1> DEFINE b == [num |-> num, last |-> r, files |-> num]
  <1>1. /\ r.gpa \in 0 .. Word - 1 /\ r.size \in 0 .. Word - 1 /\ r.user \in 0 .. Word - 1
        /\ r.offset \in 0 .. Word - 1
    BY Zenon DEF M!Regions, M!Words
  <1>2. b.num = num /\ b.last = r /\ b.files = num
    BY Zenon
  <1> HIDE DEF b
  <1>3. \A s \in {r.gpa, r.user, r.offset} : M!InWord(s, r.size) <=> r.size # 0
          /\ M!CheckedAdd(s, r.size)
    BY <1>1, InWordIs, Zenon
  <1>4. M!VhostUserMemoryRegion(r) <=> \A s \in {r.gpa, r.user, r.offset} : M!InWord(s, r.size)
    BY <1>3, Zenon DEF M!VhostUserMemoryRegion
  <1>5. M!Valid("SET_MEM_TABLE", b) <=> M!VhostUserMemoryRegion(r)
    BY <1>2, Zenon DEF M!Valid, M!MemTable, M!VhostUserMemory
  <1>6. M!Sound("SET_MEM_TABLE", b) <=> \A s \in {r.gpa, r.user, r.offset} : M!InWord(s, r.size)
    BY <1>2, Zenon DEF M!Sound
  <1> QED
    BY <1>4, <1>5, <1>6, Zenon DEF Agrees, b

\* A single region has no validator and any body counts.
LEMMA RegionAgrees ==
  ASSUME NEW code \in {"ADD_MEM_REG", "REM_MEM_REG"}, NEW r
  PROVE  Agrees(code, r)
  BY Zenon DEF Agrees, M!Valid, M!Sound, M!VhostUserSingleMemoryRegion

\* A dirty log.
LEMMA LogAgrees ==
  ASSUME M!Words, NEW size \in Samples, NEW offset \in Samples
  PROVE  Agrees("SET_LOG_BASE", [size |-> size, offset |-> offset])
  <1> DEFINE b == [size |-> size, offset |-> offset]
  <1>1. size \in 0 .. Word - 1 /\ offset \in 0 .. Word - 1
    BY Zenon DEF M!Words
  <1>2. b.size = size /\ b.offset = offset
    BY Zenon
  <1> HIDE DEF b
  <1>3. M!InWord(offset, size) <=> size # 0 /\ M!CheckedAdd(offset, size)
    BY <1>1, InWordIs, Zenon
  <1>4. M!Valid("SET_LOG_BASE", b) <=> size # 0 /\ M!CheckedAdd(offset, size)
    BY <1>2, Zenon DEF M!Valid, M!VhostUserLog
  <1>5. M!Sound("SET_LOG_BASE", b) <=> M!InWord(offset, size)
    BY <1>2, Zenon DEF M!Sound
  <1> QED
    BY <1>3, <1>4, <1>5, Zenon DEF Agrees, b

\* The addresses of a ring, whose sender has checked the flags.
LEMMA AddrAgrees ==
  ASSUME NEW a, a.flags \in {0, 1}, a.desc \in Nat, a.used \in Nat, a.avail \in Nat
  PROVE  Agrees("SET_VRING_ADDR", a)
  <1>1. M!Valid("SET_VRING_ADDR", a) <=> a.desc % 16 = 0 /\ a.avail % 2 = 0 /\ a.used % 4 = 0
    BY Zenon DEF M!Valid, M!VhostUserVringAddr
  <1>2. M!Sound("SET_VRING_ADDR", a) <=> M!Aligned(a.desc, 16) /\ M!Aligned(a.used, 4)
          /\ M!Aligned(a.avail, 2)
    BY Zenon DEF M!Sound
  <1> QED
    BY <1>1, <1>2, AlignedIs, Zenon DEF Agrees

\* A window of the configuration space, which the sender checks as the receiver does, and the
\* buffer that comes with it.
LEMMA ConfigAgrees ==
  ASSUME M!Words, NEW code \in {"GET_CONFIG", "SET_CONFIG"}, NEW c, NEW len,
         c.size \in Nat, c.offset \in Nat, M!VhostUserConfig(c), len \in Nat,
         M!ConfigLen + len <= M!MAX_MSG_SIZE
  PROVE  Agrees(code, [config |-> c, len |-> len])
  <1> DEFINE b == [config |-> c, len |-> len]
  <1>1. b.config = c /\ b.len = len
    BY Zenon
  <1> HIDE DEF b
  <1>2. M!Valid(code, b) <=> len = c.size
    BY <1>1, Zenon DEF M!Valid, M!Config
  <1>3. M!Window(c)
    BY DEF M!VhostUserConfig, M!Window, M!VHOST_USER_CONFIG_SIZE
  <1>4. M!Sound(code, b) <=> len = c.size
    BY <1>1, <1>3, Zenon DEF M!Sound
  <1> QED
    BY <1>2, <1>4, Zenon DEF Agrees, b

\* The description of an inflight area.
LEMMA InflightAgrees ==
  ASSUME NEW code \in {"GET_INFLIGHT_FD", "SET_INFLIGHT_FD"}, NEW i, i.queues \in Nat, i.len \in Nat
  PROVE  Agrees(code, i)
  <1>1. M!Valid(code, i) <=> i.queues # 0 /\ i.len # 0
    BY Zenon DEF M!Valid, M!VhostUserInflight
  <1>2. M!Sound(code, i) <=> i.queues > 0 /\ i.len > 0
    BY Zenon DEF M!Sound
  <1>3. (i.queues # 0 <=> i.queues > 0) /\ (i.len # 0 <=> i.len > 0)
    OBVIOUS
  <1> QED
    BY <1>1, <1>2, <1>3, Zenon DEF Agrees

\* The name of a shared object.
LEMMA SharedAgrees ==
  ASSUME NEW code \in {"GET_SHARED_OBJECT", "SHARED_OBJECT"}, NEW uuid \in {"nil", "some", "max"}
  PROVE  Agrees(code, uuid)
  BY Zenon DEF Agrees, M!Valid, M!Sound, M!VhostUserSharedMsg

\* A device state transfer, which the sender checks as the receiver does.
LEMMA StateAgrees ==
  ASSUME NEW s, M!VhostUserTransferDeviceState(s)
  PROVE  Agrees("SET_DEVICE_STATE_FD", s)
  BY Zenon DEF Agrees, M!Valid, M!Sound

\* A mapping of shared memory.
LEMMA MMapAgrees ==
  ASSUME M!Words, NEW m, m.fdOffset \in Samples, m.shmOffset \in Samples, m.len \in Samples,
         m.flags \in 0 .. 2
  PROVE  Agrees("SHMEM", m)
  <1>1. m.fdOffset \in 0 .. Word - 1 /\ m.shmOffset \in 0 .. Word - 1 /\ m.len \in 0 .. Word - 1
    BY Zenon DEF M!Words
  <1>2. /\ M!InWord(m.fdOffset, m.len) <=> m.len # 0 /\ M!CheckedAdd(m.fdOffset, m.len)
        /\ M!InWord(m.shmOffset, m.len) <=> m.len # 0 /\ M!CheckedAdd(m.shmOffset, m.len)
    BY <1>1, InWordIs, Zenon
  <1>3. m.flags \in {0, 1} <=> m.flags < 2
    OBVIOUS
  <1>4. M!Valid("SHMEM", m) <=> M!VhostUserMMap(m)
    BY Zenon DEF M!Valid
  <1>5. M!Sound("SHMEM", m) <=> M!InWord(m.fdOffset, m.len) /\ M!InWord(m.shmOffset, m.len)
          /\ m.flags < 2
    BY Zenon DEF M!Sound
  <1> QED
    BY <1>2, <1>3, <1>4, <1>5, Zenon DEF Agrees, M!VhostUserMMap
-------------------------------------------------------------------------------
\* Both ways of making a header make a valid one.
LEMMA NewIsValid ==
  ASSUME NEW code \in M!Codes \ {"none"}, NEW flags, NEW size, size <= M!MAX_MSG_SIZE
  PROVE  M!ValidHeader(M!New(code, flags, size))
  BY DEF M!ValidHeader, M!New, M!get_version, M!VERSION, M!REPLY, M!NEED_REPLY, M!RESERVED_BITS

\* What Post leaves when header and body agree.
Posts ==
    /\ request' # M!None /\ M!Posted(request)'
    /\ reply' = reply /\ verdict' = verdict

\* A request of the frontend.
LEMMA SendPosts ==
  ASSUME NEW code \in M!Codes \ {"none"}, NEW b, Agrees(code, b), M!Send(code, b)
  PROVE  Posts
  <1> DEFINE h == M!Header(code, b)
             r == [code |-> h.code, flags |-> h.flags, size |-> h.size, body |-> b]
  <1>1. M!BodyLen(code, b) <= M!MAX_MSG_SIZE /\ request' = r /\ reply' = reply /\ verdict' = verdict
    BY Zenon DEF M!Send, M!Post
  <1>2. M!ValidHeader(h)
    BY <1>1, NewIsValid, Zenon DEF M!Header
  <1>3. h.code = code /\ h.size = M!BodyLen(code, b)
    BY Zenon DEF M!Header, M!New
  <1> HIDE DEF h
  <1>4. r.code = code /\ r.size = M!BodyLen(code, b) /\ r.body = b /\ r # M!None
    BY <1>3, Zenon DEF M!None
  <1>5. M!ValidHeader(r)
    BY <1>2, Zenon DEF M!ValidHeader, M!get_version
  <1> HIDE DEF r
  <1> QED
    BY <1>1, <1>4, <1>5, Zenon DEF Posts, M!Posted, Agrees

\* A request of the backend.
LEMMA SendFromBackendPosts ==
  ASSUME NEW code \in M!Codes \ {"none"}, NEW b, Agrees(code, b), M!SendFromBackend(code, b),
         M!BodyLen(code, b) <= M!MAX_MSG_SIZE
  PROVE  Posts
  <1> DEFINE hdr == M!New(code, {}, M!BodyLen(code, b))
             h == [hdr EXCEPT !.flags = @ \cup {M!NEED_REPLY}]
             r == [code |-> h.code, flags |-> h.flags, size |-> h.size, body |-> b]
  <1>1. request' = r /\ reply' = reply /\ verdict' = verdict
    BY Zenon DEF M!SendFromBackend, M!Post
  <1>2. M!ValidHeader(hdr)
    BY NewIsValid, Zenon
  <1>3. /\ r.code = code /\ r.size = M!BodyLen(code, b) /\ r.body = b
        /\ r.flags = hdr.flags \cup {M!NEED_REPLY} /\ hdr.code = code
        /\ hdr.size = M!BodyLen(code, b)
    BY Zenon DEF M!New
  <1> HIDE DEF hdr, r
  <1>4. r # M!None
    BY <1>3, SMTT(30) DEF M!None
  <1>5. M!ValidHeader(r)
    BY <1>2, <1>3 DEF M!ValidHeader, M!get_version, M!NEED_REPLY, M!VERSION, M!RESERVED_BITS
  <1> QED
    BY <1>1, <1>3, <1>4, <1>5, Zenon DEF Posts, M!Posted, Agrees

\* Whatever the callers use, what they send is Posted.
LEMMA CallerPosts ==
  ASSUME M!Words, M!Caller
  PROVE  Posts \/ UNCHANGED <<request, reply, verdict>>
  <1>0. {"SET_MEM_TABLE", "ADD_MEM_REG", "REM_MEM_REG", "SET_LOG_BASE", "SET_VRING_ADDR",
         "GET_CONFIG", "SET_CONFIG", "GET_INFLIGHT_FD", "SET_INFLIGHT_FD", "GET_SHARED_OBJECT",
         "SET_DEVICE_STATE_FD", "SHARED_OBJECT", "SHMEM"} \subseteq M!Codes \ {"none"}
    BY Zenon DEF M!Codes
  <1>1. ASSUME NEW r \in M!Regions,
               NEW num \in {0, 1, M!MAX_ATTACHED_FD_ENTRIES, M!MAX_ATTACHED_FD_ENTRIES + 1},
               M!set_mem_table(num, r)
        PROVE  Posts
    <2>1. num \in Nat
      BY DEF M!MAX_ATTACHED_FD_ENTRIES
    <2>2. num # 0 /\ num <= M!MAX_ATTACHED_FD_ENTRIES
          /\ M!Send("SET_MEM_TABLE", [num |-> num, last |-> r, files |-> num])
      BY <1>1, Zenon DEF M!set_mem_table
    <2>3. Agrees("SET_MEM_TABLE", [num |-> num, last |-> r, files |-> num])
      BY <2>1, <2>2, MemTableAgrees, Zenon
    <2> QED
      BY <1>0, <2>2, <2>3, SendPosts, Zenon
  <1>2. ASSUME NEW r \in M!Regions, M!add_mem_region(r) \/ M!remove_mem_region(r)
        PROVE  Posts
    BY <1>0, <1>2, RegionAgrees, SendPosts, Zenon DEF M!add_mem_region, M!remove_mem_region
  <1>3. ASSUME NEW size \in Samples, NEW offset \in Samples,
               M!set_log_base([size |-> size, offset |-> offset])
        PROVE  Posts
    BY <1>0, <1>3, LogAgrees, SendPosts, Zenon DEF M!set_log_base
  <1>4. ASSUME NEW flags \in 0 .. 2, NEW desc \in {0, 8, 16}, NEW used \in {0, 2, 4},
               NEW avail \in 0 .. 2,
               M!set_vring_addr([flags |-> flags, desc |-> desc, used |-> used, avail |-> avail])
        PROVE  Posts
    <2> DEFINE a == [flags |-> flags, desc |-> desc, used |-> used, avail |-> avail]
    <2>1. a.desc \in Nat /\ a.used \in Nat /\ a.avail \in Nat
      OBVIOUS
    <2> HIDE DEF a
    <2>2. a.flags \in {0, 1} /\ M!Send("SET_VRING_ADDR", a)
      BY <1>4, Zenon DEF M!set_vring_addr, a
    <2> QED
      <3>1. Agrees("SET_VRING_ADDR", a)
        BY <2>1, <2>2, AddrAgrees, SMTT(30)
      <3>2. "SET_VRING_ADDR" \in M!Codes \ {"none"}
        BY <1>0, Zenon
      <3> QED
        BY <2>2, <3>1, <3>2, SendPosts, Zenon
  <1>5. ASSUME NEW offset \in Samples \cup Lengths, NEW size \in Lengths, NEW flags \in {0, 3, 4},
               NEW len \in Lengths,
               LET c == [offset |-> offset, size |-> size, flags |-> flags]
               IN  M!set_config(c) \/ M!get_config(c, len)
        PROVE  Posts
    <2> DEFINE c == [offset |-> offset, size |-> size, flags |-> flags]
    <2>1. offset \in Nat /\ size \in Nat /\ len \in Nat
      BY DEF M!Words
    <2>2. c.size = size /\ c.offset = offset
      BY Zenon
    <2>3. M!set_config(c) \/ M!get_config(c, len)
      BY <1>5, Zenon
    <2> HIDE DEF c
    <2>4. CASE M!set_config(c)
      <3>1. M!VhostUserConfig(c) /\ M!Send("SET_CONFIG", [config |-> c, len |-> size])
        BY <2>2, <2>4, Zenon DEF M!set_config
      <3>2. M!ConfigLen + size <= M!MAX_MSG_SIZE
        BY <3>1, Zenon DEF M!Send, M!BodyLen
      <3>3. Agrees("SET_CONFIG", [config |-> c, len |-> size])
        BY <2>1, <2>2, <3>1, <3>2, ConfigAgrees, Zenon
      <3> QED
        BY <1>0, <3>1, <3>3, SendPosts, Zenon
    <2>5. CASE M!get_config(c, len)
      <3>1. M!VhostUserConfig(c) /\ M!Send("GET_CONFIG", [config |-> c, len |-> len])
        BY <2>5, Zenon DEF M!get_config
      <3>2. M!ConfigLen + len <= M!MAX_MSG_SIZE
        BY <3>1, Zenon DEF M!Send, M!BodyLen
      <3>3. Agrees("GET_CONFIG", [config |-> c, len |-> len])
        BY <2>1, <2>2, <3>1, <3>2, ConfigAgrees, Zenon
      <3> QED
        BY <1>0, <3>1, <3>3, SendPosts, Zenon
    <2> QED
      BY <2>3, <2>4, <2>5, Zenon
  <1>6. ASSUME NEW size \in {0, 1}, NEW queues \in {0, 1}, NEW len \in {0, 1},
               LET i == [size |-> size, queues |-> queues, len |-> len]
               IN  M!get_inflight_fd(i) \/ M!set_inflight_fd(i)
        PROVE  Posts
    <2> DEFINE i == [size |-> size, queues |-> queues, len |-> len]
    <2>1. i.queues \in Nat /\ i.len \in Nat
      OBVIOUS
    <2>2. M!get_inflight_fd(i) \/ M!set_inflight_fd(i)
      BY <1>6, Zenon
    <2> HIDE DEF i
    <2>3. Agrees("GET_INFLIGHT_FD", i) /\ Agrees("SET_INFLIGHT_FD", i)
      BY <2>1, InflightAgrees, Zenon
    <2>4. M!Send("GET_INFLIGHT_FD", i) \/ M!Send("SET_INFLIGHT_FD", i)
      BY <2>2, Zenon DEF M!get_inflight_fd, M!set_inflight_fd
    <2> QED
      BY <1>0, <2>3, <2>4, SendPosts, Zenon
  <1>7. ASSUME NEW uuid \in {"nil", "some", "max"}, M!get_shared_object(uuid)
        PROVE  Posts
    BY <1>0, <1>7, SharedAgrees, SendPosts, Zenon DEF M!get_shared_object
  <1>8. ASSUME NEW uuid \in {"nil", "some", "max"}, M!shared_object(uuid)
        PROVE  Posts
    <2>1. M!BodyLen("SHARED_OBJECT", uuid) <= M!MAX_MSG_SIZE
      BY DEF M!BodyLen, M!MAX_MSG_SIZE
    <2> QED
      BY <1>0, <1>8, <2>1, SharedAgrees, SendFromBackendPosts, Zenon DEF M!shared_object
  <1>9. ASSUME NEW s, M!set_device_state_fd(s)
        PROVE  Posts
    BY <1>0, <1>9, StateAgrees, SendPosts, Zenon DEF M!set_device_state_fd
  <1>10. ASSUME NEW fdOffset \in Samples, NEW shmOffset \in Samples, NEW len \in Samples,
                NEW flags \in 0 .. 2,
                M!shmem([fdOffset |-> fdOffset, shmOffset |-> shmOffset, len |-> len, flags |-> flags])
         PROVE  Posts
    <2> DEFINE m == [fdOffset |-> fdOffset, shmOffset |-> shmOffset, len |-> len, flags |-> flags]
    <2>1. m.fdOffset \in Samples /\ m.shmOffset \in Samples /\ m.len \in Samples
            /\ m.flags \in 0 .. 2
      BY Zenon
    <2>2. M!SendFromBackend("SHMEM", m)
      BY <1>10, Zenon DEF M!shmem
    <2> HIDE DEF m
    <2>3. M!BodyLen("SHMEM", m) <= M!MAX_MSG_SIZE
      BY DEF M!BodyLen, M!MAX_MSG_SIZE
    <2> QED
      BY <1>0, <2>1, <2>2, <2>3, MMapAgrees, SendFromBackendPosts, Zenon
  <1>11. ASSUME NEW flags \in HdrFlags, M!set_hdr_flags(flags)
         PROVE  UNCHANGED <<request, reply, verdict>>
    BY <1>11, Zenon DEF M!set_hdr_flags
  <1> HIDE DEF Posts
  <1> QED
    BY <1>1, <1>2, <1>3, <1>4, <1>5, <1>6, <1>7, <1>8, <1>9, <1>10, <1>11, ZenonT(40) DEF M!Caller
-------------------------------------------------------------------------------
\* Sending keeps the invariant.
LEMMA CallerSafe ==
  ASSUME M!Words, M!MessageInv, request = M!None, M!Caller
  PROVE  M!MessageInv'
  <1>1. verdict = "none" /\ reply = M!None
    BY Zenon DEF M!MessageInv
  <1>2. CASE Posts
    <2>1. request' # M!None /\ M!Posted(request)' /\ reply' = M!None /\ verdict' = "none"
      BY <1>1, <1>2, Zenon DEF Posts
    <2> QED
      BY <2>1, Zenon DEF M!MessageInv
  <1>3. CASE UNCHANGED <<request, reply, verdict>>
    BY <1>1, <1>3, Zenon DEF M!MessageInv
  <1> QED
    BY <1>2, <1>3, CallerPosts, Zenon

\* The receiver's verdict is the right one.
LEMMA HandleSafe ==
  ASSUME M!MessageInv, M!Handle
  PROVE  M!MessageInv'
  <1> DEFINE good == /\ M!ValidHeader(request)
                     /\ M!CheckRequestSize(request, M!BodyLen(request.code, request.body))
                     /\ M!Valid(request.code, request.body)
  <1>1. /\ request # M!None /\ verdict' = IF good THEN "served" ELSE "refused"
        /\ request' = request /\ reply' = reply /\ reply = M!None /\ M!Posted(request)
    BY Zenon DEF M!Handle, M!MessageInv
  <1>2. M!CheckRequestSize(request, M!BodyLen(request.code, request.body)) <=> ~ M!is_reply(request)
    BY <1>1, Zenon DEF M!CheckRequestSize, M!Posted, M!ValidHeader
  <1>3. good <=> M!SoundRequest(request)
    BY <1>1, <1>2, Zenon DEF M!Posted, M!SoundRequest
  <1> HIDE DEF good
  <1>4. M!SoundRequest(request)' <=> M!SoundRequest(request)
    BY <1>1, Zenon DEF M!SoundRequest, M!is_reply
  <1>5. M!Posted(request)'
    BY <1>1, Zenon DEF M!Posted, M!ValidHeader, M!get_version
  <1>6. CASE good
    BY <1>1, <1>3, <1>4, <1>5, <1>6, Zenon DEF M!MessageInv
  <1>7. CASE ~ good
    BY <1>1, <1>3, <1>4, <1>5, <1>7, Zenon DEF M!MessageInv
  <1> QED
    BY <1>6, <1>7, Zenon

\* An answer has a valid header.
LEMMA SendReplySafe ==
  ASSUME M!MessageInv, M!SendReply
  PROVE  M!MessageInv'
  <1> DEFINE h == M!New(request.code, {M!REPLY}, M!AnswerLen(request.code, request.body))
  <1>1. /\ verdict = "served" /\ M!AnswerLen(request.code, request.body) <= M!MAX_MSG_SIZE
        /\ reply' = h /\ request' = request /\ verdict' = verdict
    BY Zenon DEF M!SendReply
  <1>2. request # M!None /\ M!Posted(request) /\ M!SoundRequest(request)
    BY <1>1, Zenon DEF M!MessageInv
  <1>3. request.code \in M!Codes \ {"none"}
    BY <1>2, Zenon DEF M!Posted, M!ValidHeader
  <1>4. M!ValidHeader(h)
    BY <1>1, <1>3, NewIsValid, Zenon
  <1>5. M!is_reply(h) /\ h.code = request.code /\ h.size = M!AnswerLen(request.code, request.body)
    BY Zenon DEF M!New, M!is_reply, M!REPLY
  <1> HIDE DEF h
  <1>6. M!Posted(request)' /\ M!SoundRequest(request)'
    BY <1>1, <1>2, Zenon DEF M!Posted, M!SoundRequest, M!ValidHeader, M!get_version, M!is_reply
  <1>7. (M!ValidHeader(reply) /\ M!is_reply(reply) /\ reply.code = request.code
           /\ reply.size = M!AnswerLen(request.code, request.body))'
    BY <1>1, <1>4, <1>5, Zenon
  <1>8. verdict' = "served" /\ request' # M!None
    BY <1>1, <1>2, Zenon
  <1> QED
    BY <1>6, <1>7, <1>8, Zenon DEF M!MessageInv

\* The sender takes the answer for what it is.
LEMMA RecvReplySafe ==
  ASSUME M!MessageInv, M!RecvReply
  PROVE  M!MessageInv'
  <1>1. /\ verdict = "served" /\ reply # M!None /\ request' = request /\ reply' = reply
        /\ verdict' \in {"answered", "mismatch"}
        /\ ~ M!is_reply(request) /\ M!ValidHeader(reply) /\ M!is_reply_for(reply, request)
              /\ reply.size = M!AnswerLen(request.code, request.body) => verdict' = "answered"
    BY Zenon DEF M!RecvReply
  <1>2. /\ request # M!None /\ M!Posted(request) /\ M!SoundRequest(request)
        /\ M!ValidHeader(reply) /\ M!is_reply(reply) /\ reply.code = request.code
        /\ reply.size = M!AnswerLen(request.code, request.body)
    BY <1>1, Zenon DEF M!MessageInv
  <1>3. ~ M!is_reply(request) /\ M!is_reply_for(reply, request)
    BY <1>2, Zenon DEF M!SoundRequest, M!is_reply_for
  <1>4. verdict' = "answered"
    BY <1>1, <1>2, <1>3, ZenonT(40)
  <1>5. M!Posted(request)' /\ M!SoundRequest(request)'
    BY <1>1, <1>2, Zenon DEF M!Posted, M!SoundRequest, M!ValidHeader, M!get_version, M!is_reply
  <1>6. (M!ValidHeader(reply) /\ M!is_reply(reply) /\ reply.code = request.code
           /\ reply.size = M!AnswerLen(request.code, request.body))'
    BY <1>1, <1>2, Zenon DEF M!ValidHeader, M!is_reply, M!get_version
  <1>7. request' # M!None
    BY <1>1, <1>2, Zenon
  <1> QED
    BY <1>4, <1>5, <1>6, <1>7, Zenon DEF M!MessageInv

\* The invariant holds in every state.
LEMMA MessageInvariant == ASSUME M!Words PROVE M!Spec => []M!MessageInv
  <1>1. M!Init => M!MessageInv
    BY Zenon DEF M!Init, M!MessageInv
  <1>2. ASSUME M!MessageInv, [M!Next]_(M!vars) PROVE M!MessageInv'
    <2>1. CASE M!Done
      <3>1. request' = M!None /\ reply' = M!None /\ verdict' = "none"
        BY <2>1, Zenon DEF M!Done
      <3> QED
        BY <3>1, Zenon DEF M!MessageInv
    <2>2. CASE UNCHANGED M!vars
      <3>1. request' = request /\ reply' = reply /\ verdict' = verdict
        BY <2>2, Zenon DEF M!vars
      <3> QED
        BY <1>2, <3>1, Zenon DEF M!MessageInv, M!Posted, M!SoundRequest, M!ValidHeader,
           M!get_version, M!is_reply
    <2> QED
      BY <1>2, <2>1, <2>2, CallerSafe, HandleSafe, SendReplySafe, RecvReplySafe, Zenon DEF M!Next
  <1> QED
    BY <1>1, <1>2, PTL DEF M!Spec

\* The device sees only requests that mean something, whatever numbers and flags the callers use.
THEOREM ServedIsSound == M!Spec => []OnlySoundServed
  <1>1. M!MessageInv => OnlySoundServed
    BY Zenon DEF M!MessageInv, M!OnlySoundServed, OnlySoundServed
  <1> QED
    BY <1>1, WordAssumption, MessageInvariant, PTL

\* A request that means something is not refused, and its answer is taken for what it is.
THEOREM SoundIsServed == M!Spec => []SoundNotRefused
  <1>1. M!MessageInv => SoundNotRefused
    BY Zenon DEF M!MessageInv, M!SoundNotRefused, SoundNotRefused
  <1> QED
    BY <1>1, WordAssumption, MessageInvariant, PTL
-------------------------------------------------------------------------------
(* In-kernel back ends: the rings that vhost-net and vhost-vsock are told begin and end in    *)
(* the guest's memory, and the kernel reads IOTLB messages as they were meant.                *)

\* A part whose first byte is translated and whose end is_valid has looked at lies in the
\* mapping of one region, or ends in another region than it begins in.
LEMMA PartInside ==
  ASSUME K!Numbers, NEW a \in Nat, NEW n \in Nat, K!InRange(a), K!EndInRange(a, n)
  PROVE  K!InsideOrAcross(K!get_host_address(a), n)
  <1> DEFINE r == CHOOSE r \in GuestRam : K!Holds(r, a)
             h == K!get_host_address(a)
  <1>1. r \in GuestRam /\ K!Holds(r, a) /\ h = a - r.start + r.host
    BY Zenon DEF K!InRange, K!get_host_address
  <1> HIDE DEF r, h
  <1>2. r.start \in Nat /\ r.len \in Nat /\ r.host \in Nat
    BY <1>1 DEF K!Numbers
  <1>3. /\ r.host <= h /\ h < r.host + r.len
        /\ h - r.host + r.start + n = a + n
    BY <1>1, <1>2 DEF K!Holds
  <1>4. PICK s \in GuestRam : K!Holds(s, a + n) /\ a + n < KernelWord
    BY Zenon DEF K!EndInRange, K!InRange
  <1>5. CASE s = r
    <2>1. K!Inside(r, h, n)
      BY <1>1, <1>2, <1>4, <1>5 DEF K!Holds, K!Inside
    <2> QED
      BY <1>1, <1>3, <1>4, <2>1 DEF K!InsideOrAcross, h
  <1>6. CASE s # r
    BY <1>1, <1>3, <1>4, <1>6 DEF K!InsideOrAcross, h
  <1> QED
    BY <1>5, <1>6, Zenon

\* A ring that passes is_valid and is translated has all its parts where they may be.
LEMMA ValidRingInside ==
  ASSUME K!Numbers, NEW c \in Configs, kind # "vdpa", K!is_valid(c), K!Translatable(c),
         {"ring", "backend"} \subseteq DOMAIN kernel,
         kernel' = [kernel EXCEPT !.ring = K!to_vhost_vring_addr(c)], kind' = kind
  PROVE  K!RingsInsideMemory'
  <1>1. kernel'.ring = K!to_vhost_vring_addr(c)
    BY Zenon
  <1>2. /\ K!desc_table_size(c.size) \in Nat /\ K!avail_ring_size(c.size) \in Nat
        /\ K!used_ring_size(c.size) \in Nat
        /\ c.desc \in Nat /\ c.avail \in Nat /\ c.used \in Nat
    BY DEF K!Numbers, K!desc_table_size, K!avail_ring_size, K!used_ring_size
  <1>3. /\ K!InRange(c.desc) /\ K!EndInRange(c.desc, K!desc_table_size(c.size))
        /\ K!InRange(c.avail) /\ K!EndInRange(c.avail, K!avail_ring_size(c.size))
        /\ K!InRange(c.used) /\ K!EndInRange(c.used, K!used_ring_size(c.size))
    BY Zenon DEF K!is_valid, K!Translatable
  <1>4. /\ K!InsideOrAcross(K!get_host_address(c.desc), K!desc_table_size(c.size))
        /\ K!InsideOrAcross(K!get_host_address(c.avail), K!avail_ring_size(c.size))
        /\ K!InsideOrAcross(K!get_host_address(c.used), K!used_ring_size(c.size))
    BY <1>2, <1>3, PartInside, Zenon
  <1>5. /\ kernel'.ring.size = c.size /\ kernel'.ring.desc = K!get_host_address(c.desc)
        /\ kernel'.ring.avail = K!get_host_address(c.avail)
        /\ kernel'.ring.used = K!get_host_address(c.used)
    BY <1>1, Zenon DEF K!to_vhost_vring_addr
  <1>6. SUFFICES ASSUME NEW p \in K!RingParts' PROVE K!InsideOrAcross(p.at, p.size)
    BY <1>6, Zenon DEF K!RingsInsideMemory, K!InsideOrAcross
  <1>7. p \in {[at |-> K!get_host_address(c.desc), size |-> K!desc_table_size(c.size)],
               [at |-> K!get_host_address(c.avail), size |-> K!avail_ring_size(c.size)],
               [at |-> K!get_host_address(c.used), size |-> K!used_ring_size(c.size)]}
    BY <1>5, <1>6, Zenon DEF K!RingParts, K!desc_table_size, K!avail_ring_size, K!used_ring_size
  <1>8. \/ p.at = K!get_host_address(c.desc) /\ p.size = K!desc_table_size(c.size)
        \/ p.at = K!get_host_address(c.avail) /\ p.size = K!avail_ring_size(c.size)
        \/ p.at = K!get_host_address(c.used) /\ p.size = K!used_ring_size(c.size)
    BY <1>7
  <1> QED
    BY <1>4, <1>8, Zenon

\* A call that leaves the ring and the features of the back end alone.
LEMMA CallKeeps ==
  ASSUME K!IInv, kernel'.ring = kernel.ring, kernel'.backend = kernel.backend,
         DOMAIN kernel' = DOMAIN kernel, UNCHANGED <<kind, acked, agreed>>
  PROVE  K!IInv'
  <1>1. K!RingParts' = K!RingParts
    BY Zenon DEF K!RingParts, K!desc_table_size, K!avail_ring_size, K!used_ring_size
  <1> QED
    BY <1>1, Zenon DEF K!IInv, K!Remembered, K!RingsInsideMemory, K!InsideOrAcross

\* Every message is read back as it was meant, because both sides chose one layout.
LEMMA MessageRead ==
  ASSUME K!IInv, NEW perm, NEW type \in {K!Update, K!Invalidate}, K!send_iotlb_msg(type, perm), kind' = kind
  PROVE  K!IInv'
  <1> DEFINE iotlb == [type |-> type, perm |-> perm]
             msg == K!LayOut(K!Version(acked), iotlb)
  <1>1. K!Parse(K!Version(kernel.backend), msg) = iotlb
    BY DEF K!IInv, K!Remembered, K!LayOut, K!Parse, K!Update, K!Invalidate
  <1>2. agreed' = agreed /\ acked' = acked
    BY <1>1, Zenon DEF K!send_iotlb_msg, K!IInv, K!Remembered
  <1>3. kernel'.ring = kernel.ring /\ kernel'.backend = kernel.backend
          /\ DOMAIN kernel' = DOMAIN kernel
    BY Zenon DEF K!send_iotlb_msg, K!io_result, K!ioctl_result, K!IInv
  <1> QED
    BY <1>2, <1>3, CallKeeps, Zenon

\* Every operation of the handle keeps the invariant.
LEMMA KernelStep ==
  ASSUME K!Numbers, K!IInv, [K!Next]_(K!vars)
  PROVE  K!IInv'
  <1> USE DEF K!Call, K!ioctl_result, K!Get, K!Error
  <1> DEFINE Kept == /\ kernel'.ring = kernel.ring /\ kernel'.backend = kernel.backend
                     /\ DOMAIN kernel' = DOMAIN kernel /\ UNCHANGED acked
  <1>1. ASSUME \/ K!get_features \/ K!set_features \/ K!set_owner \/ K!reset_owner
               \/ K!set_mem_table
               \/ K!set_log_base \/ K!set_log_fd \/ K!set_vring_num
        PROVE  Kept
    BY <1>1, Zenon DEF K!get_features, K!set_features, K!set_owner, K!reset_owner, K!set_mem_table,
       K!set_log_base, K!set_log_fd, K!set_vring_num, K!IInv
  <1>2. ASSUME \/ K!set_vring_base \/ K!get_vring_base \/ K!set_vring_call \/ K!set_vring_kick
               \/ K!set_vring_err \/ K!set_backend \/ K!set_guest_cid \/ K!start \/ K!stop
        PROVE  Kept
    BY <1>2, Zenon DEF K!set_vring_base, K!get_vring_base, K!set_vring_call, K!set_vring_kick,
       K!set_vring_err, K!set_backend, K!set_guest_cid, K!start, K!stop, K!set_running, K!IInv
  <1>3. ASSUME \/ K!get_backend_features \/ K!get_device_id \/ K!get_status \/ K!set_status
               \/ K!get_config \/ K!set_config \/ K!set_vring_enable \/ K!get_vring_num
               \/ K!set_config_call
               \/ K!get_iova_range \/ K!get_config_size \/ K!get_vqs_count \/ K!get_group_num
               \/ K!get_as_num \/ K!get_vring_group \/ K!set_group_asid \/ K!suspend
        PROVE  Kept
    BY <1>3, Zenon DEF K!get_backend_features, K!get_device_id, K!get_status, K!set_status,
       K!get_config, K!set_config, K!set_vring_enable, K!get_vring_num, K!set_config_call,
       K!get_iova_range, K!get_config_size, K!get_vqs_count, K!get_group_num, K!get_as_num,
       K!get_vring_group, K!set_group_asid, K!suspend, K!IInv
  <1>4. ASSUME Kept, UNCHANGED <<kind, agreed>> PROVE K!IInv'
    BY <1>4, CallKeeps, Zenon
  <1>5. ASSUME NEW ring, kernel' = [kernel EXCEPT !.ring = ring], UNCHANGED <<acked, agreed>>,
               K!RingsInsideMemory'
        PROVE  K!IInv'
    BY <1>5, Zenon DEF K!IInv, K!Remembered
  <1>6. ASSUME K!set_vring_addr, UNCHANGED <<kind, agreed>> PROVE K!IInv'
    <2>1. PICK c \in Configs : IF K!is_valid(c) /\ K!Translatable(c)
                               THEN K!Call([kernel EXCEPT !.ring = K!to_vhost_vring_addr(c)])
                               ELSE K!Error
      BY <1>6, Zenon DEF K!set_vring_addr
    <2>2. CASE kernel' = kernel
      BY <1>4, <1>6, <2>1, <2>2, Zenon
    <2>3. CASE kernel' # kernel
      <3>1. /\ K!is_valid(c) /\ K!Translatable(c) /\ acked' = acked
            /\ kernel' = [kernel EXCEPT !.ring = K!to_vhost_vring_addr(c)]
        BY <2>1, <2>3, Zenon
      <3>2. K!RingsInsideMemory'
        <4>1. CASE kind = "vdpa"
          BY <1>6, <4>1, Zenon DEF K!RingsInsideMemory, K!RingParts
        <4>2. CASE kind # "vdpa"
          BY <1>6, <3>1, <4>2, ValidRingInside, Zenon DEF K!IInv
        <4> QED
          BY <4>1, <4>2, Zenon
      <3> QED
        BY <1>5, <1>6, <3>1, <3>2, Zenon
    <2> QED
      BY <2>2, <2>3, Zenon
  <1>7. ASSUME K!vdpa_set_vring_addr, kind = "vdpa", UNCHANGED <<kind, agreed>> PROVE K!IInv'
    <2>1. K!RingsInsideMemory'
      BY <1>7, Zenon DEF K!RingsInsideMemory, K!RingParts
    <2>2. acked' = acked /\ (kernel' = kernel \/ \E ring : kernel' = [kernel EXCEPT !.ring = ring])
      BY <1>7, Zenon DEF K!vdpa_set_vring_addr
    <2> QED
      BY <1>4, <1>5, <1>7, <2>1, <2>2, Zenon
  <1>8. ASSUME K!set_backend_features, UNCHANGED <<kind, agreed>>, kind = "vdpa" PROVE K!IInv'
    <2>1. K!RingsInsideMemory'
      BY <1>8, Zenon DEF K!RingsInsideMemory, K!RingParts
    <2>2. DOMAIN kernel' = DOMAIN kernel /\ acked' = kernel'.backend
      BY <1>8, Zenon DEF K!set_backend_features, K!IInv, K!Remembered
    <2> QED
      BY <1>8, <2>1, <2>2, Zenon DEF K!IInv, K!Remembered
  <1>9. ASSUME K!dma_map \/ K!dma_unmap, kind' = kind PROVE K!IInv'
    BY <1>9, MessageRead, Zenon DEF K!dma_map, K!dma_unmap
  <1>10. CASE UNCHANGED K!vars
    BY <1>4, <1>10, Zenon DEF K!vars
  <1>11. ASSUME kind' = kind, (K!VhostBackend /\ UNCHANGED agreed) \/ K!net \/ K!vsock PROVE K!IInv'
    BY <1>1, <1>2, <1>4, <1>6, <1>11, Zenon DEF K!VhostBackend, K!net, K!vsock
  <1>12. ASSUME kind' = kind, K!vdpa PROVE K!IInv'
    BY <1>3, <1>4, <1>7, <1>8, <1>9, <1>12, Zenon DEF K!vdpa
  <1> QED
    BY <1>10, <1>11, <1>12, Zenon DEF K!Next

\* The invariant of a handle on an in-kernel back end.
LEMMA KernelInvariant == ASSUME K!Numbers PROVE K!Spec => []K!IInv
  <1>1. K!Init => K!IInv
    BY DEF K!Init, K!IInv, K!Remembered, K!RingsInsideMemory, K!RingParts
  <1>2. K!IInv /\ [K!Next]_(K!vars) => K!IInv'
    BY KernelStep, Zenon
  <1> QED
    BY <1>1, <1>2, PTL DEF K!Spec

\* set_vring_addr tells vhost-net and vhost-vsock only rings whose parts begin in the mapping
\* of a region and do not wrap around, and stay in it unless they end in another region,
\* whatever the regions are and wherever they are mapped: is_valid checks where each part ends,
\* the translation where it begins.
THEOREM RingsInside == K!Spec => []RingsInsideMemory
  <1>1. K!IInv => RingsInsideMemory
    BY Zenon DEF K!IInv, RingsInsideMemory
  <1> QED
    BY <1>1, KernelAssumption, KernelInvariant, PTL

\* With one region of guest memory that is enough: every ring that is_valid and the translation
\* let through lies in the region's mapping to the last byte.
THEOREM OneRegionIsMapped ==
  ASSUME \A r, s \in GuestRam : r = s
  PROVE  K!Spec => []ValidRingIsMapped
  <1>1. K!IInv => ValidRingIsMapped
    BY Zenon DEF K!IInv, K!RingsInsideMemory, K!InsideOrAcross, ValidRingIsMapped,
       K!ValidRingIsMapped
  <1> QED
    BY <1>1, KernelAssumption, KernelInvariant, PTL

\* dma_map and dma_unmap write each message in the layout the kernel reads it in, after any
\* sequence of accepted and refused calls of set_backend_features.
THEOREM LayoutAgreed == K!Spec => []IotlbLayoutAgreed
  <1>1. K!IInv => IotlbLayoutAgreed
    BY Zenon DEF K!IInv, K!Remembered, K!IotlbLayoutAgreed, IotlbLayoutAgreed
  <1> QED
    BY <1>1, KernelAssumption, KernelInvariant, PTL
================================================================================
