-------------------------------- MODULE Endpoint --------------------------------
(***************************************************************************)
(* One direction of a vhost-user socket: an Endpoint that sends messages   *)
(* in pieces, with file descriptors, and the Endpoint that reads them back *)
(* from the stream.  A message is a header of HdrLen units and a body; a   *)
(* unit knows the message and the place it comes from.  The socket keeps   *)
(* what each sendmsg wrote in a buffer of its own, with the descriptors of *)
(* that sendmsg.                                                           *)
(*                                                                         *)
(* The receiver either serves requests, with recv_header and recv_data, or *)
(* waits for replies, with recv_body or recv_payload_into_buf.             *)
(***************************************************************************)
EXTENDS Integers, Sequences

CONSTANTS
    HdrLen,      \* size of a header
    BodyLens,    \* sizes of bodies of requests
    ReplyLen,    \* size of the body of a reply
    Errnos,      \* bound: errors of recvmsg
    MaxMsgs      \* bound: messages sent

VARIABLES
    mode,      \* "request" or "reply"
    msgs,      \* messages whose sending has begun
    done,      \* units of the last of them that were sent
    sender,    \* "idle", "sending" or "closed"
    wire,      \* the buffers of the socket
    phase,     \* what the receiver reads: "header", "body" or "reply"; "ended" after an error
    buf,       \* what it has of it
    files,     \* descriptors that came with it: the number of the message they are from
    header,    \* the header it has read, when it reads a body
    outcome,   \* the error it ended with
    accepted   \* messages it has returned to its caller

\* Sizes are numbers, and a message has a header.
Framed ==
    /\ HdrLen \in Nat \ {0} /\ ReplyLen \in Nat
    /\ BodyLens \subseteq Nat
    /\ MaxMsgs \in Nat

tx == <<msgs, done, sender>>
rx == <<phase, buf, files, header, outcome, accepted>>
vars == <<mode, tx, wire, rx>>

Start(m) == IF m = "request" THEN "header" ELSE "reply"

Init ==
    /\ mode \in {"request", "reply"}
    /\ msgs = <<>> /\ done = 0 /\ sender = "idle"
    /\ wire = <<>>
    /\ phase = Start(mode)
    /\ buf = <<>> /\ files = 0 /\ header = <<>>
    /\ outcome = "none"
    /\ accepted = <<>>

\* The header and the body of message number n.
Iovs(n, len) == << [i \in 1 .. HdrLen |-> [msg |-> n, at |-> i]],
                   [i \in 1 .. len |-> [msg |-> n, at |-> HdrLen + i]] >>
Lens(iovs) == [i \in DOMAIN iovs |-> Len(iovs[i])]

Total(lens) == LET sum[i \in 0 .. Len(lens)] == IF i = 0 THEN 0 ELSE sum[i - 1] + lens[i]
               IN  sum[Len(lens)]

Concat(seqs) == LET upto[i \in 0 .. Len(seqs)] == IF i = 0 THEN <<>> ELSE upto[i - 1] \o seqs[i]
                IN  upto[Len(seqs)]

\* get_sub_iovs_offset: vectors to skip, and the offset into the next.
get_sub_iovs_offset(lens, skip) ==
    LET loop[i \in 0 .. Len(lens)] ==
            IF i = 0 THEN [size |-> skip, skipped |-> 0]
            ELSE IF loop[i - 1].skipped = i - 1 /\ loop[i - 1].size >= lens[i]
                 THEN [size |-> loop[i - 1].size - lens[i], skipped |-> i]
                 ELSE loop[i - 1]
    IN  loop[Len(lens)]

\* What is left of iovs: the rest of one vector and those after it.
Rest(iovs, skip) ==
    LET o == get_sub_iovs_offset(Lens(iovs), skip)
    IN  Concat(<<SubSeq(iovs[o.skipped + 1], o.size + 1, Len(iovs[o.skipped + 1]))>>
                       \o SubSeq(iovs, o.skipped + 2, Len(iovs)))
-------------------------------------------------------------------------------
(* Sending *)

\* sfds of send_iovec_all.
SendFds(n, sent) == IF sent = 0 THEN n ELSE 0

\* send_message, send_message_with_payload, send_header: begin a message of len units.
BeginSend(len, file) ==
    /\ sender = "idle"
    /\ Len(msgs) < MaxMsgs
    /\ len = ReplyLen \/ mode = "request"
    /\ msgs' = Append(msgs, [len |-> len, file |-> file])
    /\ done' = 0
    /\ sender' = "sending"
    /\ UNCHANGED <<mode, wire, rx>>

\* A turn of the loop of send_iovec_all: sendmsg takes n units.
send_iovec_all(n) ==
    LET num == Len(msgs)
        m == msgs[Len(msgs)]
        rest == Rest(Iovs(num, m.len), done)
    IN  /\ sender = "sending" /\ phase # "ended"
        /\ n \in 1 .. Len(rest)
        /\ wire' = Append(wire, [data |-> SubSeq(rest, 1, n),
                                 fds |-> IF m.file THEN SendFds(num, done) ELSE 0])
        /\ done' = done + n
        /\ sender' = IF done + n >= HdrLen + m.len THEN "idle" ELSE "sending"
        /\ UNCHANGED <<mode, msgs, rx>>

\* The sender goes away, in the middle of a message or not.
Close ==
    /\ sender # "closed"
    /\ sender' = "closed"
    /\ UNCHANGED <<mode, msgs, done, wire, rx>>
-------------------------------------------------------------------------------
(* Receiving *)

\* recvmsg of at most k units: it goes on from buffer to buffer until it has them, the
\* socket is empty or a buffer had descriptors.
RecvWithFds(k) ==
    LET upto(j) == Concat([i \in 1 .. j |-> wire[i].data])
        last == CHOOSE j \in DOMAIN wire :
                    /\ Len(upto(j)) >= k \/ wire[j].fds # 0 \/ j = Len(wire)
                    /\ \A i \in 1 .. j - 1 : Len(upto(i)) < k /\ wire[i].fds = 0
        n == IF Len(upto(last)) < k THEN Len(upto(last)) ELSE k
        left == SubSeq(upto(last), n + 1, Len(upto(last)))
    IN  [data |-> SubSeq(upto(last), 1, n),
         fds |-> wire[last].fds,
         wire |-> (IF left = <<>> THEN <<>> ELSE <<[data |-> left, fds |-> 0]>>)
                      \o SubSeq(wire, last + 1, Len(wire))]

\* Mutant: the descriptors of the last piece.
KeepFilesLast(read, fds) == fds

\* rfds of recv_into_iovec_all: the descriptors of the first piece.
KeepFiles(read, fds) == IF read = 0 THEN fds ELSE files

\* A turn of the loop of recv_into_iovec_all, for vectors of these sizes.  The data goes
\* where get_sub_iovs_offset says.
recv_into_iovec_all(lens) ==
    LET o == get_sub_iovs_offset(lens, Len(buf))
        at == Total(SubSeq(lens, 1, o.skipped)) + o.size
        r == RecvWithFds(Total(lens) - at)
    IN  /\ wire # <<>>
        /\ buf' = SubSeq(buf, 1, at) \o r.data
        /\ files' = KeepFiles(Len(buf), r.fds)
        /\ wire' = r.wire

\* Mutant: any end of the stream is a disconnection.
HeaderErrorAny(bytes) == "Disconnected"

\* recv_header: the error for a stream that ends after so many bytes.
HeaderError(bytes) == IF bytes = 0 THEN "Disconnected" ELSE "PartialMessage"

\* The receiver's caller gives up on an error: the connection is closed.
End(error) ==
    /\ outcome' = error
    /\ phase' = "ended"
    /\ UNCHANGED <<mode, tx, wire, buf, files, header, accepted>>

\* From<errno::Error> for Error
FromErrno(e) ==
    CASE e \in {"EAGAIN", "EWOULDBLOCK", "EINTR", "ENOBUFS", "ENOMEM"} -> "SocketRetry"
      [] e \in {"ECONNRESET", "EPIPE"} -> "SocketBroken"
      [] e = "EACCES" -> "SocketConnect"
      [] OTHER -> "SocketError"

\* recvmsg fails.  The loop of recv_into_iovec_all goes on after SocketRetry; recv_data
\* has no loop.
RecvFails(e) ==
    /\ phase \in {"header", "body", "reply"}
    /\ phase = "body" \/ FromErrno(e) # "SocketRetry"
    /\ End(FromErrno(e))

Accept(units, fds) == accepted' = Append(accepted, [units |-> units, fds |-> fds])

\* The size field of a header that is read from its own units; a header in pieces of
\* several messages is not valid.
ValidHeader(units) == \E n \in 1 .. Len(msgs) : units = Iovs(n, 0)[1]
SizeOf(units) == msgs[units[1].msg].len

recv_header ==
    /\ phase = "header"
    /\ IF wire = <<>>
       THEN sender = "closed" /\ End(HeaderError(Len(buf)))
       ELSE /\ recv_into_iovec_all(<<HdrLen>>)
            /\ IF Len(buf') < HdrLen
               THEN UNCHANGED <<phase, header, outcome, accepted>>
               ELSE IF ~ ValidHeader(buf')
               THEN phase' = "ended" /\ outcome' = "InvalidMessage" /\ UNCHANGED <<header, accepted>>
               ELSE IF SizeOf(buf') = 0
               THEN phase' = "handle" /\ header' = buf' /\ UNCHANGED <<outcome, accepted>>
               ELSE phase' = "body" /\ header' = buf' /\ UNCHANGED <<outcome, accepted>>
            /\ UNCHANGED <<mode, tx>>

\* recv_data of handle_request: one recvmsg, without room for descriptors, which must
\* bring the whole body.
recv_data ==
    /\ phase = "body"
    /\ IF wire = <<>>
       THEN sender = "closed" /\ End("InvalidMessage")
       ELSE LET r == RecvWithFds(SizeOf(header))
            IN  /\ wire' = r.wire
                /\ IF Len(r.data) = SizeOf(header)
                   THEN phase' = "handle" /\ buf' = header \o r.data /\ UNCHANGED outcome
                   ELSE phase' = "ended" /\ outcome' = "InvalidMessage" /\ UNCHANGED buf
                /\ UNCHANGED <<mode, tx, files, header, accepted>>

\* The request is dispatched.
Handle ==
    /\ phase = "handle"
    /\ Accept(buf, files)
    /\ phase' = "header" /\ buf' = <<>> /\ files' = 0 /\ header' = <<>>
    /\ UNCHANGED <<mode, tx, wire, outcome>>

\* recv_body, recv_payload_into_buf: header and body in one loop.
recv_body ==
    /\ phase = "reply"
    /\ IF wire = <<>>
       THEN sender = "closed" /\ End("PartialMessage")
       ELSE /\ recv_into_iovec_all(<<HdrLen, ReplyLen>>)
            /\ phase' = IF Len(buf') < HdrLen + ReplyLen THEN "reply" ELSE "gotReply"
            /\ UNCHANGED <<mode, tx, header, outcome, accepted>>

GetReply ==
    /\ phase = "gotReply"
    /\ IF ValidHeader(SubSeq(buf, 1, HdrLen))
       THEN /\ Accept(buf, files)
            /\ phase' = "reply" /\ buf' = <<>> /\ files' = 0
            /\ UNCHANGED <<mode, tx, wire, header, outcome>>
       ELSE End("InvalidMessage")
-------------------------------------------------------------------------------
Receiver ==
    \/ recv_header \/ recv_data \/ Handle \/ recv_body \/ GetReply
    \/ \E e \in Errnos : RecvFails(e)

Next ==
    \/ \E len \in BodyLens, file \in BOOLEAN : BeginSend(len, file)
    \/ \E n \in 1 .. HdrLen + ReplyLen : send_iovec_all(n)
    \/ Close
    \/ Receiver

Spec == Init /\ [][Next]_vars
-------------------------------------------------------------------------------
Unit == [msg : 1 .. MaxMsgs, at : Nat \ {0}]

\* Types of the sender, the socket and the receiver.
TypeOK ==
    /\ mode \in {"request", "reply"}
    /\ msgs \in Seq([len : BodyLens, file : BOOLEAN])
    /\ done \in Nat
    /\ sender \in {"idle", "sending", "closed"}
    /\ wire \in Seq([data : Seq(Unit), fds : 0 .. MaxMsgs])
    /\ phase \in {"header", "body", "handle", "reply", "gotReply", "ended"}
    /\ buf \in Seq(Unit) /\ header \in Seq(Unit)
    /\ files \in 0 .. MaxMsgs
    /\ outcome \in {"none", "Disconnected", "PartialMessage", "InvalidMessage", "SocketRetry",
                   "SocketBroken", "SocketConnect", "SocketError"}
    /\ accepted \in Seq([units : Seq(Unit), fds : 0 .. MaxMsgs])

\* The messages that the receiver returns are those that were sent, in order, each whole,
\* with its own units and its own descriptors, however sending and receiving were cut.
AcceptedAsSent ==
    \A n \in DOMAIN accepted :
        /\ n <= Len(msgs)
        /\ accepted[n] = [units |-> Concat(Iovs(n, msgs[n].len)),
                          fds |-> IF msgs[n].file THEN n ELSE 0]

\* Disconnected is for a peer that left between two messages (should_reconnect takes it for
\* deliberate): nothing that was sent is lost.
DisconnectedAtBoundary ==
    outcome = "Disconnected" =>
        Total([n \in DOMAIN msgs |-> HdrLen + msgs[n].len])
            - (IF msgs = <<>> THEN 0 ELSE HdrLen + msgs[Len(msgs)].len - done)
        = Total([n \in DOMAIN accepted |-> Len(accepted[n].units)])
-------------------------------------------------------------------------------
(* Where the units of the stream are, between any two steps *)

Size(n) == HdrLen + msgs[n].len

\* Units a + 1 to b of message n.
Span(n, a, b) == [i \in 1 .. b - a |-> [msg |-> n, at |-> a + i]]

\* The descriptors that come with unit a + 1 of message n.
FilesAt(n, a) == IF a = 0 /\ msgs[n].file THEN n ELSE 0

\* What a sendmsg wrote, or what is left of it.
Piece(n, a, b) == [data |-> Span(n, a, b), fds |-> FilesAt(n, a)]

\* The place in the stream after unit a of message n, as the message and the units of it
\* that come before.
After(n, a) == IF n \in DOMAIN msgs /\ a = Size(n) THEN <<n + 1, 0>> ELSE <<n, a>>

\* Where the sender is and where the receiver is, and where a buffer begins and ends.
SentTo == IF msgs = <<>> THEN <<1, 0>> ELSE After(Len(msgs), done)
ReadTo == After(Len(accepted) + 1, Len(buf))
From(w) == <<w.data[1].msg, w.data[1].at - 1>>
To(w) == After(w.data[1].msg, w.data[1].at - 1 + Len(w.data))

\* The sender is in the middle of a message while it is sending.
SenderInv ==
    /\ Len(msgs) <= MaxMsgs
    /\ mode = "reply" => \A n \in DOMAIN msgs : msgs[n].len = ReplyLen
    /\ IF msgs = <<>> THEN done = 0 /\ sender # "sending"
       ELSE /\ done <= Size(Len(msgs))
            /\ sender = "idle" => done = Size(Len(msgs))
            /\ sender = "sending" => done < Size(Len(msgs))

\* Buffers that hold the units from place x to place y, in order, and the descriptors of a
\* message with its first unit.
Stretch(w, x, y) ==
    /\ \A j \in DOMAIN w : \E n \in DOMAIN msgs : \E b \in 1 .. Size(n) :
           \E a \in 0 .. b - 1 : w[j] = Piece(n, a, b)
    /\ \A j \in 1 .. Len(w) - 1 : To(w[j]) = From(w[j + 1])
    /\ IF w = <<>> THEN x = y ELSE From(w[1]) = x /\ To(w[Len(w)]) = y

\* The receiver has the beginning of one message, the one after those it has returned.
ReceiverInv ==
    LET n == Len(accepted) + 1
    IN  /\ buf # <<>> => n \in DOMAIN msgs
        /\ buf = Span(n, 0, Len(buf))
        /\ files = IF buf = <<>> THEN 0 ELSE FilesAt(n, 0)
        /\ phase = "header" => mode = "request" /\ Len(buf) < HdrLen
        /\ phase = "body" => /\ mode = "request" /\ Len(buf) = HdrLen
                             /\ header = buf /\ HdrLen < Size(n)
        /\ phase = "handle" => mode = "request" /\ buf # <<>> /\ Len(buf) = Size(n)
        /\ phase = "reply" => mode = "reply" /\ Len(buf) < HdrLen + ReplyLen
        /\ phase = "gotReply" => mode = "reply" /\ Len(buf) = HdrLen + ReplyLen

\* What holds between any two steps of sender and receiver, up to the error that ends it.
StreamInv ==
    /\ SenderInv
    /\ phase # "ended" => Stretch(wire, ReadTo, SentTo) /\ ReceiverInv
    /\ outcome = "Disconnected" =>
           phase = "ended" /\ sender = "closed" /\ SentTo = <<Len(accepted) + 1, 0>>
================================================================================
