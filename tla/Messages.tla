-------------------------------- MODULE Messages --------------------------------
(***************************************************************************)
(* The headers of messages, and the bodies of the requests that carry      *)
(* numbers: what the sender checks before it sends one, what the receiver  *)
(* checks before the device sees it, and what the sender checks of the     *)
(* answer.  Negotiation is in Session and BackendChannel and is taken to   *)
(* be done here.  Sizes are the sizes of the packed structs; flags of a    *)
(* header are the set of the bits that are 1.                              *)
(***************************************************************************)
EXTENDS Integers

CONSTANTS
    Word,        \* 2^w for the machine words, more than VHOST_USER_CONFIG_SIZE
    Samples,     \* words that callers use for addresses, offsets and sizes
    Lengths,     \* lengths of configuration buffers that callers use
    HdrFlags     \* flags that callers of set_hdr_flags use

MAX_MSG_SIZE == 4096
MAX_ATTACHED_FD_ENTRIES == 32
VHOST_USER_CONFIG_SIZE == 4096
MemoryLen == 8
RegionLen == 32
ConfigLen == 12
U64Len == 8

\* VhostUserHeaderFlag, with the highest bit for all that are reserved.
VERSION == {0, 1}
REPLY == 2
NEED_REPLY == 3
RESERVED_BITS == {31}

\* Words, and lengths that are too small to wrap around; flags are bits of a u32.
Words ==
    /\ Word \in Nat /\ VHOST_USER_CONFIG_SIZE < Word
    /\ Samples \subseteq 0 .. Word - 1 /\ Lengths \subseteq 0 .. Word - 1
    /\ HdrFlags \subseteq SUBSET (0 .. 31)

VARIABLES
    hdr_flags, \* of the Frontend
    request,   \* the request that is under way: its header and its body
    reply,     \* the header of the answer
    verdict    \* "none"; "served" or "refused" by the receiver; "answered" or "mismatch"

vars == <<hdr_flags, request, reply, verdict>>

None == [code |-> "none", flags |-> {}, size |-> 0, body |-> <<>>]
Codes == {"none", "SET_MEM_TABLE", "ADD_MEM_REG", "REM_MEM_REG", "SET_LOG_BASE", "SET_VRING_ADDR",
          "GET_CONFIG", "SET_CONFIG", "GET_INFLIGHT_FD", "SET_INFLIGHT_FD", "GET_SHARED_OBJECT",
          "SET_DEVICE_STATE_FD", "SHARED_OBJECT", "SHMEM"}

Init == hdr_flags = {} /\ request = None /\ reply = None /\ verdict = "none"

Regions == [gpa : Samples, size : Samples, user : Samples, offset : Samples]
-------------------------------------------------------------------------------
(* Headers *)

\* Mutant: the flags of the caller as they are.
NewUnmasked(code, flags, size) == [code |-> code, flags |-> flags \cup {0}, size |-> size]

\* VhostUserMsgHeader::new: version 1 and the flags that there are.
New(code, flags, size) ==
    [code |-> code, flags |-> (flags \cap {REPLY, NEED_REPLY}) \cup {0}, size |-> size]

is_reply(h) == REPLY \in h.flags
is_need_reply(h) == NEED_REPLY \in h.flags
is_reply_for(h, req) == is_reply(h) /\ ~ is_reply(req) /\ h.code = req.code
get_version(h) == h.flags \cap VERSION

\* VhostUserMsgHeader::is_valid
ValidHeader(h) ==
    /\ h.code \in Codes \ {"none"}
    /\ h.size <= MAX_MSG_SIZE
    /\ get_version(h) = {0}
    /\ h.flags \cap RESERVED_BITS = {}

\* The size of a body, with the payload behind it.
BodyLen(code, b) ==
    CASE code = "SET_MEM_TABLE" -> MemoryLen + b.num * RegionLen
      [] code \in {"GET_CONFIG", "SET_CONFIG"} -> ConfigLen + b.len
      [] code \in {"ADD_MEM_REG", "REM_MEM_REG"} -> 8 + RegionLen
      [] code \in {"SET_VRING_ADDR", "SHMEM"} -> 40
      [] code \in {"SET_LOG_BASE", "GET_SHARED_OBJECT", "SHARED_OBJECT"} -> 16
      [] code \in {"GET_INFLIGHT_FD", "SET_INFLIGHT_FD"} -> 24
      [] code = "SET_DEVICE_STATE_FD" -> 8

\* The size of the answer that the caller waits for.
AnswerLen(code, b) ==
    IF code \in {"GET_CONFIG", "SET_LOG_BASE", "GET_INFLIGHT_FD"} THEN BodyLen(code, b)
    ELSE IF code = "GET_SHARED_OBJECT" THEN 0
    ELSE U64Len

AlwaysAnswered(code) ==
    code \in {"GET_CONFIG", "SET_LOG_BASE", "GET_INFLIGHT_FD", "GET_SHARED_OBJECT", "SET_DEVICE_STATE_FD"}
-------------------------------------------------------------------------------
(* The bodies and their validators *)

\* Mutant: wrapping_add.
CheckedAddWrapping(a, b) == TRUE

\* checked_add(..).is_some()
CheckedAdd(a, b) == a + b < Word

VhostUserMemory(num) == num # 0 /\ num <= MAX_ATTACHED_FD_ENTRIES

VhostUserMemoryRegion(r) ==
    /\ r.size # 0
    /\ CheckedAdd(r.gpa, r.size)
    /\ CheckedAdd(r.user, r.size)
    /\ CheckedAdd(r.offset, r.size)

\* No validator of its own.
VhostUserSingleMemoryRegion(r) == TRUE

VhostUserVringAddr(a) ==
    a.flags \in {0, 1} /\ a.desc % 16 = 0 /\ a.avail % 2 = 0 /\ a.used % 4 = 0

VhostUserConfig(c) ==
    /\ CheckedAdd(c.size, c.offset)
    /\ c.flags \in 0 .. 3
    /\ c.size # 0 /\ c.size + c.offset <= VHOST_USER_CONFIG_SIZE

VhostUserInflight(i) == i.queues # 0 /\ i.len # 0
VhostUserLog(l) == l.size # 0 /\ CheckedAdd(l.offset, l.size)
VhostUserSharedMsg(uuid) == uuid \notin {"nil", "max"}

\* Direction SAVE or LOAD, phase STOPPED.
VhostUserTransferDeviceState(s) == s.direction \in {0, 1} /\ s.phase = 0

VhostUserMMap(m) ==
    /\ CheckedAdd(m.fdOffset, m.len) /\ CheckedAdd(m.shmOffset, m.len)
    /\ m.len # 0
    /\ m.flags \in {0, 1}
-------------------------------------------------------------------------------
(* The senders *)

set_hdr_flags(flags) ==
    /\ hdr_flags' = flags
    /\ UNCHANGED <<request, reply, verdict>>

\* new_request_header
Header(code, body) == New(code, hdr_flags \cup {0}, BodyLen(code, body))

Post(h, body) ==
    /\ request' = [code |-> h.code, flags |-> h.flags, size |-> h.size, body |-> body]
    /\ UNCHANGED <<hdr_flags, reply, verdict>>

\* send_request_with_body, send_request_with_payload
Send(code, body) ==
    /\ BodyLen(code, body) <= MAX_MSG_SIZE
    /\ Post(Header(code, body), body)

\* BackendInternal::send_message: set_need_reply when acks are negotiated.
SendFromBackend(code, body) ==
    LET hdr == New(code, {}, BodyLen(code, body))
    IN  Post([hdr EXCEPT !.flags = @ \cup {NEED_REPLY}], body)

\* A table of num regions, the last of which is r; the others are sound.
set_mem_table(num, r) ==
    /\ num # 0 /\ num <= MAX_ATTACHED_FD_ENTRIES
    /\ r.size # 0
    /\ Send("SET_MEM_TABLE", [num |-> num, last |-> r, files |-> num])

add_mem_region(r) == r.size # 0 /\ Send("ADD_MEM_REG", r)
remove_mem_region(r) == r.size # 0 /\ Send("REM_MEM_REG", r)
set_log_base(l) == Send("SET_LOG_BASE", l)
set_vring_addr(a) == a.flags \in {0, 1} /\ Send("SET_VRING_ADDR", a)

\* The buffer that is sent along has a length of its own.
get_config(c, len) ==
    /\ VhostUserConfig(c)
    /\ Send("GET_CONFIG", [config |-> c, len |-> len])

set_config(c) ==
    /\ c.size <= MAX_MSG_SIZE
    /\ VhostUserConfig(c)
    /\ Send("SET_CONFIG", [config |-> c, len |-> c.size])

get_inflight_fd(i) == Send("GET_INFLIGHT_FD", i)
set_inflight_fd(i) == i.size # 0 /\ i.queues # 0 /\ i.len # 0 /\ Send("SET_INFLIGHT_FD", i)
get_shared_object(uuid) == VhostUserSharedMsg(uuid) /\ Send("GET_SHARED_OBJECT", uuid)
set_device_state_fd(s) == VhostUserTransferDeviceState(s) /\ Send("SET_DEVICE_STATE_FD", s)

\* The proxies of the backend channel check nothing.
shared_object(uuid) == SendFromBackend("SHARED_OBJECT", uuid)
shmem(m) == SendFromBackend("SHMEM", m)
-------------------------------------------------------------------------------
(* The receivers *)

\* BackendReqHandler::set_mem_table: size, count, descriptors, regions.
MemTable(b) ==
    /\ VhostUserMemory(b.num)
    /\ b.files = b.num
    /\ VhostUserMemoryRegion(b.last)

\* get_config and set_config: the payload has the size the body names.
Config(b) ==
    /\ ConfigLen + b.len <= MAX_MSG_SIZE
    /\ VhostUserConfig(b.config)
    /\ b.len = b.config.size

\* extract_request_body, extract_msg_body, set_mem_table, get_config, set_config.
Valid(code, b) ==
    CASE code = "SET_MEM_TABLE" -> MemTable(b)
      [] code \in {"ADD_MEM_REG", "REM_MEM_REG"} -> VhostUserSingleMemoryRegion(b)
      [] code = "SET_LOG_BASE" -> VhostUserLog(b)
      [] code = "SET_VRING_ADDR" -> VhostUserVringAddr(b)
      [] code \in {"GET_CONFIG", "SET_CONFIG"} -> Config(b)
      [] code \in {"GET_INFLIGHT_FD", "SET_INFLIGHT_FD"} -> VhostUserInflight(b)
      [] code \in {"GET_SHARED_OBJECT", "SHARED_OBJECT"} -> VhostUserSharedMsg(b)
      [] code = "SET_DEVICE_STATE_FD" -> VhostUserTransferDeviceState(b)
      [] code = "SHMEM" -> VhostUserMMap(b)

\* check_request_size and check_msg_size; the whole body has arrived.
CheckRequestSize(h, expected) == h.size = expected /\ ~ is_reply(h) /\ get_version(h) = {0}

Handle ==
    /\ request # None /\ verdict = "none"
    /\ verdict' = IF /\ ValidHeader(request)
                     /\ CheckRequestSize(request, BodyLen(request.code, request.body))
                     /\ Valid(request.code, request.body)
                  THEN "served" ELSE "refused"
    /\ UNCHANGED <<hdr_flags, request, reply>>

\* send_ack_message and the replies of handle_request, through new_reply_header.
SendReply ==
    /\ verdict = "served" /\ reply = None
    /\ AlwaysAnswered(request.code) \/ is_need_reply(request)
    /\ AnswerLen(request.code, request.body) <= MAX_MSG_SIZE
    /\ reply' = New(request.code, {REPLY}, AnswerLen(request.code, request.body))
    /\ UNCHANGED <<hdr_flags, request, verdict>>

\* recv_reply, recv_reply_with_payload, wait_for_ack
RecvReply ==
    /\ verdict = "served" /\ reply # None
    /\ verdict' = IF /\ ~ is_reply(request)
                     /\ ValidHeader(reply) /\ is_reply_for(reply, request)
                     /\ reply.size = AnswerLen(request.code, request.body)
                  THEN "answered" ELSE "mismatch"
    /\ UNCHANGED <<hdr_flags, request, reply>>

\* The call ends: with an answer, or at once when none is asked for.
Done ==
    /\ \/ verdict \in {"refused", "answered", "mismatch"}
       \/ verdict = "served" /\ ~ AlwaysAnswered(request.code) /\ ~ is_need_reply(request)
    /\ request' = None /\ reply' = None /\ verdict' = "none"
    /\ UNCHANGED hdr_flags
-------------------------------------------------------------------------------
Caller ==
    \/ \E r \in Regions :
          \/ \E num \in {0, 1, MAX_ATTACHED_FD_ENTRIES, MAX_ATTACHED_FD_ENTRIES + 1} : set_mem_table(num, r)
          \/ add_mem_region(r) \/ remove_mem_region(r)
    \/ \E size, offset \in Samples : set_log_base([size |-> size, offset |-> offset])
    \/ \E flags \in 0 .. 2, desc \in {0, 8, 16}, used \in {0, 2, 4}, avail \in 0 .. 2 :
          set_vring_addr([flags |-> flags, desc |-> desc, used |-> used, avail |-> avail])
    \/ \E offset \in Samples \cup Lengths, size \in Lengths, flags \in {0, 3, 4} :
          LET c == [offset |-> offset, size |-> size, flags |-> flags]
          IN  set_config(c) \/ \E len \in Lengths : get_config(c, len)
    \/ \E size \in {0, 1}, queues, len \in {0, 1} :
          LET i == [size |-> size, queues |-> queues, len |-> len]
          IN  get_inflight_fd(i) \/ set_inflight_fd(i)
    \/ \E uuid \in {"nil", "some", "max"} : get_shared_object(uuid) \/ shared_object(uuid)
    \/ \E direction \in 0 .. 2, phase \in 0 .. 1 :
          set_device_state_fd([direction |-> direction, phase |-> phase])
    \/ \E fdOffset, shmOffset, len \in Samples, flags \in 0 .. 2 :
          shmem([fdOffset |-> fdOffset, shmOffset |-> shmOffset, len |-> len, flags |-> flags])
    \/ \E flags \in HdrFlags : set_hdr_flags(flags)

Next ==
    \/ request = None /\ Caller
    \/ Handle \/ SendReply \/ RecvReply
    \/ Done

Spec == Init /\ [][Next]_vars
-------------------------------------------------------------------------------
\* Types of the headers and the verdict.
TypeOK ==
    /\ hdr_flags \in HdrFlags \cup {{}}
    /\ request.code \in Codes /\ request.flags \subseteq 0 .. 31 /\ request.size \in Nat
    /\ reply.code \in Codes /\ reply.flags \subseteq 0 .. 31 /\ reply.size \in Nat
    /\ verdict \in {"none", "served", "refused", "answered", "mismatch"}

\* A range of words that ends above its start, also in the arithmetic of the machine.
InWord(start, size) == (start + size) % Word > start

Window(c) == c.size > 0 /\ c.offset < VHOST_USER_CONFIG_SIZE
                        /\ c.size <= VHOST_USER_CONFIG_SIZE - c.offset

Aligned(addr, n) == \E k \in 0 .. addr : addr = n * k

\* What a request means something for: ranges that do not wrap, windows inside the
\* configuration space with a buffer of their size, aligned rings, queues there are.
Sound(code, b) ==
    CASE code = "SET_MEM_TABLE" ->
             b.files = b.num /\ \A start \in {b.last.gpa, b.last.user, b.last.offset} : InWord(start, b.last.size)
      [] code = "SET_LOG_BASE" -> InWord(b.offset, b.size)
      [] code = "SET_VRING_ADDR" -> Aligned(b.desc, 16) /\ Aligned(b.used, 4) /\ Aligned(b.avail, 2)
      [] code \in {"GET_CONFIG", "SET_CONFIG"} -> Window(b.config) /\ b.len = b.config.size
      [] code \in {"GET_INFLIGHT_FD", "SET_INFLIGHT_FD"} -> b.queues > 0 /\ b.len > 0
      [] code \in {"GET_SHARED_OBJECT", "SHARED_OBJECT"} -> b = "some"
      [] code = "SHMEM" -> InWord(b.fdOffset, b.len) /\ InWord(b.shmOffset, b.len) /\ b.flags < 2
      [] OTHER -> TRUE

SoundRequest(r) == ~ is_reply(r) /\ Sound(r.code, r.body)

\* Whatever numbers and flags the callers use, the device sees only requests that mean
\* something (but for ADD_MEM_REG and REM_MEM_REG, whose bodies have no validator).
OnlySoundServed == verdict = "served" => SoundRequest(request)

\* A request that means something and passes the sender's own checks is not refused, which
\* would end the connection, and its answer is taken for what it is.
SoundNotRefused == verdict \in {"refused", "mismatch"} => ~ SoundRequest(request)
-------------------------------------------------------------------------------
\* What the senders see to: a header that is valid and names the size of the body, and a body
\* that the receiver's validators accept if and only if it means something.
Posted(r) ==
    /\ ValidHeader(r)
    /\ r.size = BodyLen(r.code, r.body)
    /\ Valid(r.code, r.body) <=> Sound(r.code, r.body)

\* The inductive invariant of both properties: every verdict goes with the request under way.
MessageInv ==
    /\ request = None => verdict = "none" /\ reply = None
    /\ request # None => Posted(request)
    /\ verdict \in {"none", "served", "refused", "answered", "mismatch"}
    /\ verdict = "none" => reply = None
    /\ verdict \in {"served", "answered"} => SoundRequest(request)
    /\ verdict \in {"refused", "mismatch"} => ~ SoundRequest(request)
    /\ reply # None => /\ ValidHeader(reply) /\ is_reply(reply) /\ reply.code = request.code
                      /\ reply.size = AnswerLen(request.code, request.body)
================================================================================
