----------------------------- MODULE VhostKernel -----------------------------
(***************************************************************************)
(* The in-kernel back ends (src/vhost/src/vhost_kern): a handle on         *)
(* vhost-net, vhost-vsock or vhost-vdpa, whose methods check their         *)
(* arguments and make one ioctl or write each. The kernel may refuse any   *)
(* of them.                                                                *)
(***************************************************************************)
EXTENDS Integers

CONSTANTS
    Word,        \* 2^64
    GuestRam,    \* the regions of the guest's memory: start, len and where each is mapped
    Sizes,       \* bound: values of queue_size
    Configs,     \* bound: the VringConfigData that callers use
    MaxSize,     \* queue_max_size
    MaxRegions,  \* VHOST_MAX_MEMORY_REGIONS
    MaxCalls     \* bound: calls

\* Addresses and sizes are numbers.
Numbers ==
    /\ GuestRam \subseteq [start : Nat, len : Nat, host : Nat]
    /\ Configs \subseteq [size : Nat, desc : Nat, avail : Nat, used : Nat, flag : BOOLEAN,
                          log_addr : Int]

VARIABLES
    kind,      \* "net", "vsock" or "vdpa"
    acked,     \* VhostKernVdpa.backend_features_acked
    kernel,    \* what the kernel was told
    agreed,    \* history: were all IOTLB messages in the layout the kernel agreed to?
    calls      \* calls so far

vars == <<kind, acked, kernel, agreed, calls>>

V2 == "VHOST_BACKEND_F_IOTLB_MSG_V2"
BackendFeatures == {V2, "VHOST_BACKEND_F_IOTLB_BATCH"}
NoRing == [desc |-> -1, avail |-> -1, used |-> -1, size |-> 0, log |-> -1]

\* net and vsock open the device; a vdpa handle may also be made by `with`,
\* from a descriptor whose back-end features were agreed on before.
Init ==
    /\ kind \in {"net", "vsock", "vdpa"}
    /\ acked \in SUBSET BackendFeatures
    /\ kind # "vdpa" => acked = {}
    /\ kernel = [features |-> {}, owner |-> FALSE, regions |-> 0, log |-> {}, num |-> 0,
                 base |-> 0, ring |-> NoRing, files |-> {}, backend |-> acked,
                 tap |-> FALSE, running |-> FALSE, cid |-> 0, status |-> 0,
                 config |-> "old", enabled |-> FALSE, suspended |-> FALSE, iotlb |-> {}]
    /\ agreed = TRUE
    /\ calls = 0
-------------------------------------------------------------------------------
\* An ioctl, or a write: the kernel does as it is told, or refuses. The
\* method returns the error or Ok.
ioctl_result(told) == kernel' = told \/ kernel' = kernel

io_result(told) == ioctl_result(told)

\* A method that makes one ioctl.
Call(told) == ioctl_result(told) /\ UNCHANGED acked

\* A method that returns an error before it makes any.
Error == UNCHANGED <<acked, kernel>>

\* A method that asks. Its answer goes to the caller; vdpa's get_config
\* copies the buffer to the caller even if the ioctl has failed.
Get == Call(kernel)
-------------------------------------------------------------------------------
(* Checks of the ring configuration. *)

\* address_in_range: in some region.
Holds(r, a) == r.start <= a /\ a < r.start + r.len
InRange(a) == \E r \in GuestRam : Holds(r, a)

PowerOfTwo(n) == \E k \in 0 .. 15 : n = 2 ^ k

desc_table_size(n) == 16 * n
avail_ring_size(n) == 6 + 2 * n
used_ring_size(n)  == 6 + 8 * n

\* Mutant: the addition wraps around.
EndInRangeWrapping(a, size) == InRange((a + size) % Word)

\* checked_add, then address_in_range: the byte behind the part, in whatever region.
EndInRange(a, size) == a + size < Word /\ InRange(a + size)

is_log_addr_valid(c) == ~(c.flag /\ c.log_addr = -1)

get_log_addr(c) == IF c.flag /\ c.log_addr # -1 THEN c.log_addr ELSE 0

ValidSize(c) == c.size <= MaxSize /\ c.size # 0 /\ PowerOfTwo(c.size)

vdpa_is_valid(c) == ValidSize(c) /\ is_log_addr_valid(c)

is_valid(c) ==
    IF kind = "vdpa" THEN vdpa_is_valid(c)
    ELSE /\ ValidSize(c)
         /\ EndInRange(c.desc, desc_table_size(c.size))
         /\ EndInRange(c.avail, avail_ring_size(c.size))
         /\ EndInRange(c.used, used_ring_size(c.size))
         /\ is_log_addr_valid(c)

get_host_address(a) == LET r == CHOOSE r \in GuestRam : Holds(r, a) IN a - r.start + r.host

\* Guest addresses become addresses of this process; each has to be mapped.
Translatable(c) == \A a \in {c.desc, c.avail, c.used} : InRange(a)

to_vhost_vring_addr(c) ==
    [desc |-> get_host_address(c.desc), avail |-> get_host_address(c.avail),
     used |-> get_host_address(c.used), size |-> c.size, log |-> get_log_addr(c)]
-------------------------------------------------------------------------------
(* VhostBackend, for all three. The model has one queue. *)

get_features == Get
set_features == \E f \in {{}, {"VHOST_F_LOG_ALL"}} : Call([kernel EXCEPT !.features = f])
set_owner    == Call([kernel EXCEPT !.owner = TRUE])
reset_owner  == Call([kernel EXCEPT !.owner = FALSE])

set_mem_table ==
    \E n \in 0 .. MaxRegions + 1 :
        IF n = 0 \/ n > MaxRegions THEN Error ELSE Call([kernel EXCEPT !.regions = n])

\* A region to log into is for vhost-user only.
set_log_base ==
    \E region \in BOOLEAN :
        IF region THEN Error ELSE Call([kernel EXCEPT !.log = @ \cup {"base"}])

set_log_fd    == Call([kernel EXCEPT !.log = @ \cup {"fd"}])
set_vring_num == \E n \in Sizes : Call([kernel EXCEPT !.num = n])

set_vring_addr ==
    \E c \in Configs :
        IF is_valid(c) /\ Translatable(c)
        THEN Call([kernel EXCEPT !.ring = to_vhost_vring_addr(c)])
        ELSE Error

set_vring_base == \E b \in {0, 1} : Call([kernel EXCEPT !.base = b])
get_vring_base == Get
set_vring_call == Call([kernel EXCEPT !.files = @ \cup {"call"}])
set_vring_kick == Call([kernel EXCEPT !.files = @ \cup {"kick"}])
set_vring_err  == Call([kernel EXCEPT !.files = @ \cup {"err"}])

VhostBackend ==
    \/ get_features \/ set_features \/ set_owner \/ reset_owner
    \/ set_mem_table \/ set_log_base \/ set_log_fd
    \/ set_vring_num \/ set_vring_addr \/ set_vring_base \/ get_vring_base
    \/ set_vring_call \/ set_vring_kick \/ set_vring_err
-------------------------------------------------------------------------------
(* Back-end features and IOTLB messages: vdpa. *)

get_backend_features == Get

\* Mutant: it remembers them in any case.
set_backend_features_anyway ==
    \E f \in SUBSET BackendFeatures :
        ioctl_result([kernel EXCEPT !.backend = f]) /\ acked' = f

\* The handle remembers the features only if the kernel took them.
set_backend_features ==
    \E f \in SUBSET BackendFeatures :
        \/ kernel' = [kernel EXCEPT !.backend = f] /\ acked' = f
        \/ Error

\* vhost_msg and vhost_msg_v2, each read by its own parser; type 0 is no message.
LayOut(version, iotlb) == [type |-> version, iotlb |-> iotlb]
NoMsg == [type |-> 0, perm |-> "No"]
Parse(version, msg) ==
    IF msg.type = version /\ msg.iotlb.type # 0 THEN msg.iotlb ELSE NoMsg

Version(features) == IF V2 \in features THEN "VHOST_IOTLB_MSG_V2" ELSE "VHOST_IOTLB_MSG"

\* VhostIotlbType
Update == 2
Invalidate == 3

\* The layout of the message depends on the features the handle remembers; the kernel
\* reads it in the layout that it agreed to.
send_iotlb_msg(type, perm) ==
    LET iotlb == [type |-> type, perm |-> perm]
        msg == LayOut(Version(acked), iotlb)
        read == Parse(Version(kernel.backend), msg)
    IN  /\ agreed' = (agreed /\ read = iotlb)
        /\ io_result([kernel EXCEPT !.iotlb =
                         IF read.type = Update THEN @ \cup {read.perm}
                         ELSE IF read.type = Invalidate THEN {} ELSE @])
        /\ UNCHANGED acked

dma_map ==
    \E readonly \in BOOLEAN :
        send_iotlb_msg(Update, IF readonly THEN "ReadOnly" ELSE "ReadWrite")

dma_unmap == send_iotlb_msg(Invalidate, "No")
-------------------------------------------------------------------------------
(* The rest of vdpa, net and vsock. *)

\* vdpa hands the addresses on as they are.
vdpa_set_vring_addr ==
    \E c \in Configs :
        IF vdpa_is_valid(c)
        THEN Call([kernel EXCEPT !.ring = [desc |-> c.desc, avail |-> c.avail, used |-> c.used,
                                           size |-> c.size, log |-> get_log_addr(c)]])
        ELSE Error

get_device_id    == Get
get_status       == Get
set_status       == \E s \in {0, 1} : Call([kernel EXCEPT !.status = s])
get_config       == Get
set_config       == Call([kernel EXCEPT !.config = "new"])
set_vring_enable == \E b \in BOOLEAN : Call([kernel EXCEPT !.enabled = b])
get_vring_num    == Get
set_config_call  == Call([kernel EXCEPT !.files = @ \cup {"config"}])
get_iova_range   == Get
get_config_size  == Get
get_vqs_count    == Get
get_group_num    == Get
get_as_num       == Get
get_vring_group  == Get
\* The ioctl is VHOST_VDPA_GET_VRING_GROUP: no group gets another ASID.
set_group_asid   == Get
suspend          == Call([kernel EXCEPT !.suspended = TRUE])

vdpa ==
    /\ kind = "vdpa"
    /\ \/ (dma_map \/ dma_unmap)
       \/ /\ UNCHANGED agreed
          /\ \/ get_backend_features \/ set_backend_features \/ vdpa_set_vring_addr
             \/ get_device_id \/ get_status \/ set_status \/ get_config \/ set_config
             \/ set_vring_enable \/ get_vring_num \/ set_config_call \/ get_iova_range
             \/ get_config_size \/ get_vqs_count \/ get_group_num \/ get_as_num
             \/ get_vring_group \/ set_group_asid \/ suspend

\* A queue of vhost-net gets the tap device, or none.
set_backend == \E fd \in BOOLEAN : Call([kernel EXCEPT !.tap = fd])

net == kind = "net" /\ set_backend /\ UNCHANGED agreed

set_guest_cid        == Call([kernel EXCEPT !.cid = 3])
set_running(running) == Call([kernel EXCEPT !.running = running])
start                == set_running(TRUE)
stop                 == set_running(FALSE)

vsock == kind = "vsock" /\ (set_guest_cid \/ start \/ stop) /\ UNCHANGED agreed

Next ==
    \/ /\ calls < MaxCalls
       /\ calls' = calls + 1
       /\ UNCHANGED kind
       /\ (VhostBackend /\ UNCHANGED agreed) \/ vdpa \/ net \/ vsock
    \/ calls = MaxCalls /\ UNCHANGED vars

Spec == Init /\ [][Next]_vars
-------------------------------------------------------------------------------
\* The handle and the kernel keep to their types.
TypeOK ==
    /\ kind \in {"net", "vsock", "vdpa"}
    /\ acked \subseteq BackendFeatures
    /\ kernel.backend \subseteq BackendFeatures
    /\ kernel.regions \in 0 .. MaxRegions
    /\ kernel.ring.size \in Sizes \cup {0}
    /\ agreed \in BOOLEAN
    /\ calls \in 0 .. MaxCalls

\* Every IOTLB message is read back by the kernel, in the layout that it last agreed to, as
\* it was meant, whatever set_backend_features calls it has taken or refused before.
IotlbLayoutAgreed == agreed

\* The size bytes that begin at the address a of this process lie in the mapping of region r.
Inside(r, a, size) == r.host <= a /\ a + size <= r.host + r.len

\* The parts of the ring that vhost-net or vhost-vsock were told of.
RingParts ==
    LET ring == kernel.ring
    IN  IF kind = "vdpa" \/ ring = NoRing THEN {}
        ELSE {[at |-> ring.desc, size |-> desc_table_size(ring.size)],
              [at |-> ring.avail, size |-> avail_ring_size(ring.size)],
              [at |-> ring.used, size |-> used_ring_size(ring.size)]}

\* The bytes begin in the mapping of a region and stay in it, or else they run out of it and
\* the guest address behind them, which has not wrapped around, belongs to another region.
InsideOrAcross(a, size) ==
    \E r \in GuestRam :
        /\ r.host <= a /\ a < r.host + r.len
        /\ \/ Inside(r, a, size)
           \/ \E s \in GuestRam : s # r /\ Holds(s, a - r.host + r.start + size)
        /\ a - r.host + r.start + size < Word

\* What the checks on guest addresses (is_valid) and their translation (to_vhost_vring_addr)
\* together see to: no part of a ring of vhost-net or vhost-vsock begins or ends outside of
\* guest memory or wraps around, and the only parts that are not in one piece are those that
\* begin in one region and end in another.
RingsInsideMemory == \A p \in RingParts : InsideOrAcross(p.at, p.size)

\* A ring configuration that is_valid calls valid is memory of the guest to the last byte: each
\* part lies in the mapping of one region.
ValidRingIsMapped == \A p \in RingParts : \E r \in GuestRam : Inside(r, p.at, p.size)
-------------------------------------------------------------------------------
(* The inductive invariant of ProtocolProofs. *)

\* A handle remembers what the kernel agreed to; nobody else sets the features of its
\* descriptor.
Remembered == acked = kernel.backend /\ agreed

IInv ==
    /\ {"ring", "backend"} \subseteq DOMAIN kernel
    /\ Remembered /\ RingsInsideMemory
===============================================================================
