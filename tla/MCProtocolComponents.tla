------------------------- MODULE MCProtocolComponents -------------------------
(* Small instances of the components of the vhost crate for TLC. *)
EXTENDS ProtocolComponents

CONSTANTS t1, t2, l1, l2, c1, c2

AllFeatures ==
    {"REPLY_ACK", "LOG_SHMFD", "MQ", "RESET_DEVICE", "CONFIG", "BACKEND_REQ", "SHARED_OBJECT",
     "INFLIGHT_SHMFD", "CONFIGURE_MEM_SLOTS", "SHMEM", "DEVICE_STATE", "PAGEFAULT"}

\* All protocol features, with acks or without.
WithAcksOrNot == {AllFeatures \ {"REPLY_ACK"}, AllFeatures}

\* No descriptor, a Unix socket, another socket.
ThreeSockets ==
    {<<>>, <<[domain |-> "AF_UNIX", type |-> "SOCK_STREAM"]>>,
     <<[domain |-> "AF_INET", type |-> "SOCK_STREAM"]>>}

\* Two regions of the guest's memory with a gap between them, the second of which ends at the
\* last address.
TwoRegions == {[start |-> 4, len |-> 36, host |-> 100], [start |-> 48, len |-> 16, host |-> 200]}

\* Rings at the start of the guest memory, and with one part before it, across the gap or
\* across the end.
RingConfigs ==
    LET At == {2, 4, 34, 60}
    IN  {c \in [size : 0 .. 4, desc : At, avail : At, used : At,
                flag : BOOLEAN, log_addr : {-1, 1}] :
            \/ c.desc = 4 /\ c.avail = 4
            \/ c.desc = 4 /\ c.used = 4
            \/ c.avail = 4 /\ c.used = 4}
===============================================================================
