------------------------------- MODULE VringQueue -------------------------------
(***************************************************************************)
(* The queue of one vring while the frontend stops it and starts it again: *)
(* the indices in guest memory, the VringState with its Queue (of the      *)
(* virtio-queue crate), the request handlers that save and restore its     *)
(* place, and a worker that takes buffers and completes them.              *)
(*                                                                         *)
(* VringMutex and VringRwLock lock the VringState for one method call, or  *)
(* for as long as a guard of get_ref or get_mut is kept.  A step is one    *)
(* such call.                                                              *)
(*                                                                         *)
(* Assumed of the frontend: it configures a ring while it is stopped, with *)
(* the base that it got when it stopped it, or 0 for a driver that starts  *)
(* over; and no buffer is in flight when it sets the addresses or the      *)
(* driver starts over.                                                     *)
(***************************************************************************)
EXTENDS Integers

CONSTANTS
    IdxMod,       \* 2^16
    MaxQueueSize, \* max_queue_size
    Sizes,        \* bound: sizes that the frontend asks for
    MaxBuffers,   \* bound: buffers of a driver
    MaxDrivers    \* bound: drivers, one after the other

VARIABLES
    lock,      \* "mutex" or "rwlock": the VringT in use
    guard,     \* what the worker keeps of the lock: "none", "read" or "write"
    ring,      \* VringState
    pc,        \* of the request thread
    idx,       \* a local variable of the request thread
    saved,     \* the base that the frontend has for the ring
    config,    \* what the frontend has configured since it stopped the ring
    mem,       \* the indices in guest memory; avail is not yet reduced to u16
    taken,     \* history: buffers taken from this driver
    completed, \* history: buffers given back to this driver
    drivers    \* drivers so far

request == <<pc, idx>>
frontend == <<saved, config>>
guest == <<mem, drivers>>
vars == <<lock, guard, ring, request, frontend, guest, taken, completed>>

\* VringState::new.
VringNew == [size |-> MaxQueueSize, addr |-> FALSE, ready |-> FALSE, next_avail |-> 0,
             next_used |-> 0, call |-> FALSE, err |-> FALSE]

Init ==
    /\ lock \in {"mutex", "rwlock"}
    /\ guard = "none"
    /\ ring = VringNew
    /\ pc = "idle" /\ idx = 0
    /\ saved = 0
    /\ config = {}
    /\ mem = [avail |-> 0, used |-> 0]
    /\ taken = 0 /\ completed = 0
    /\ drivers = 1
-------------------------------------------------------------------------------
(* The adapters *)

\* Methods that VringRwLock calls through get_ref().
Shared == guard = "none" \/ (lock = "rwlock" /\ guard = "read")

\* Methods that it calls through write_lock(); VringMutex locks for all of them.
Exclusive == guard = "none"

\* get_ref and get_mut of the worker, and the end of the guard.
get_ref == guard' = "read" /\ guard = "none" /\ UNCHANGED <<lock, ring, request, frontend, guest, taken, completed>>
get_mut == guard' = "write" /\ guard = "none" /\ UNCHANGED <<lock, ring, request, frontend, guest, taken, completed>>
Release == guard # "none" /\ guard' = "none" /\ UNCHANGED <<lock, ring, request, frontend, guest, taken, completed>>
-------------------------------------------------------------------------------
(* The request handlers *)

Idle == pc = "idle"

\* Queue::set_size leaves sizes alone that are no power of two.
SetSize(num) == IF \E k \in 0 .. 15 : num = 2 ^ k THEN num ELSE ring.size

set_vring_num(num) ==
    /\ Idle /\ ~ ring.ready /\ Exclusive
    /\ num # 0 /\ num <= MaxQueueSize
    /\ ring' = [ring EXCEPT !.size = SetSize(num)]
    /\ config' = config \cup {"num"}
    /\ UNCHANGED <<lock, guard, request, saved, guest, taken, completed>>

\* set_vring_addr: set_queue_info; the translation of the addresses is in GuestMemory.
set_vring_addr ==
    /\ Idle /\ ~ ring.ready /\ Exclusive
    /\ taken = completed
    /\ ring' = [ring EXCEPT !.addr = TRUE]
    /\ pc' = "used_idx"
    /\ UNCHANGED <<lock, guard, idx, frontend, guest, taken, completed>>

\* queue_used_idx, from guest memory.
queue_used_idx ==
    /\ pc = "used_idx" /\ Shared
    /\ idx' = mem.used
    /\ pc' = "next_used"
    /\ UNCHANGED <<lock, guard, ring, frontend, guest, taken, completed>>

\* Mutant: the used index of the driver before is kept.
set_queue_next_used_kept ==
    /\ pc = "next_used" /\ Exclusive
    /\ pc' = "idle"
    /\ config' = config \cup {"addr"}
    /\ UNCHANGED <<lock, guard, ring, idx, saved, guest, taken, completed>>

set_queue_next_used ==
    /\ pc = "next_used" /\ Exclusive
    /\ ring' = [ring EXCEPT !.next_used = idx]
    /\ pc' = "idle"
    /\ config' = config \cup {"addr"}
    /\ UNCHANGED <<lock, guard, idx, saved, guest, taken, completed>>

\* base as u16
set_vring_base ==
    /\ Idle /\ ~ ring.ready /\ Exclusive
    /\ ring' = [ring EXCEPT !.next_avail = saved % IdxMod]
    /\ config' = config \cup {"base"}
    /\ UNCHANGED <<lock, guard, request, saved, guest, taken, completed>>

\* The ring has no kick eventfd that could start it here while it is stopped.
set_vring_call ==
    /\ Idle /\ ~ ring.ready /\ Exclusive
    /\ ring' = [ring EXCEPT !.call = TRUE]
    /\ UNCHANGED <<lock, guard, request, frontend, guest, taken, completed>>

set_vring_err ==
    /\ Idle /\ ~ ring.ready /\ Exclusive
    /\ ring' = [ring EXCEPT !.err = TRUE]
    /\ UNCHANGED <<lock, guard, request, frontend, guest, taken, completed>>

\* set_vring_kick: initialize_vring makes the queue ready (see VringWorkers).
set_vring_kick ==
    /\ Idle /\ ~ ring.ready /\ Exclusive
    /\ config = {"num", "addr", "base"}
    /\ ring' = [ring EXCEPT !.ready = TRUE]
    /\ UNCHANGED <<lock, guard, request, frontend, guest, taken, completed>>

\* get_vring_base: set_queue_ready(false) first, then the index is read.
get_vring_base ==
    /\ Idle /\ ring.ready /\ Exclusive
    /\ ring' = [ring EXCEPT !.ready = FALSE]
    /\ pc' = "next_avail"
    /\ UNCHANGED <<lock, guard, idx, frontend, guest, taken, completed>>

queue_next_avail ==
    /\ pc = "next_avail" /\ Shared
    /\ idx' = ring.next_avail
    /\ pc' = "set_call"
    /\ UNCHANGED <<lock, guard, ring, frontend, guest, taken, completed>>

\* set_kick(None), set_call(None) and the reply with the base.
unset_call ==
    /\ pc = "set_call" /\ Exclusive
    /\ ring' = [ring EXCEPT !.call = FALSE]
    /\ pc' = "idle"
    /\ saved' = idx
    /\ config' = {}
    /\ UNCHANGED <<lock, guard, idx, guest, taken, completed>>
-------------------------------------------------------------------------------
(* The worker, through the methods of VringT or its own guard *)

\* A method of the worker, or one on the guard it has.
ByWorker == guard \in {"none", "write"}

\* Queue::iter and next, of get_queue_mut(): a queue that is not ready has no buffers.
Take ==
    /\ guard = "write"
    /\ ring.ready /\ ring.addr
    /\ ring.next_avail # mem.avail % IdxMod
    /\ ring' = [ring EXCEPT !.next_avail = (@ + 1) % IdxMod]
    /\ taken' = taken + 1
    /\ UNCHANGED <<lock, guard, request, frontend, guest, completed>>

\* Queue::add_used writes the entry and the new index.
add_used ==
    /\ ByWorker
    /\ completed < taken
    /\ ring' = [ring EXCEPT !.next_used = (@ + 1) % IdxMod]
    /\ mem' = [mem EXCEPT !.used = (ring.next_used + 1) % IdxMod]
    /\ completed' = completed + 1
    /\ UNCHANGED <<lock, guard, request, frontend, drivers, taken>>

-------------------------------------------------------------------------------
(* The driver in the guest *)

\* A driver has at most as many buffers out as the ring has entries.
Publish ==
    /\ mem.avail < MaxBuffers
    /\ mem.avail - completed < ring.size
    /\ mem' = [mem EXCEPT !.avail = @ + 1]
    /\ UNCHANGED <<lock, guard, ring, request, frontend, drivers, taken, completed>>

\* After a reset of the device another driver starts with empty indices.
Restart ==
    /\ drivers < MaxDrivers
    /\ Idle /\ ~ ring.ready /\ taken = completed
    /\ drivers' = drivers + 1
    /\ mem' = [avail |-> 0, used |-> 0]
    /\ taken' = 0 /\ completed' = 0
    /\ saved' = 0
    /\ config' = {}
    /\ UNCHANGED <<lock, guard, ring, request>>
-------------------------------------------------------------------------------
Handler ==
    \/ \E num \in Sizes : set_vring_num(num)
    \/ set_vring_addr \/ queue_used_idx \/ set_queue_next_used \/ set_vring_base
    \/ set_vring_call \/ set_vring_err \/ set_vring_kick
    \/ get_vring_base \/ queue_next_avail \/ unset_call

Worker ==
    \/ get_ref \/ get_mut \/ Release
    \/ Take \/ add_used

Next == Handler \/ Worker \/ Publish \/ Restart

Spec == Init /\ [][Next]_vars
-------------------------------------------------------------------------------
Index == 0 .. IdxMod - 1

\* Types of the ring, the guest's indices and the request thread.
TypeOK ==
    /\ guard \in {"none", "read", "write"}
    /\ ring \in [size : 1 .. MaxQueueSize, addr : BOOLEAN, ready : BOOLEAN, next_avail : Index,
                 next_used : Index, call : BOOLEAN, err : BOOLEAN]
    /\ pc \in {"idle", "used_idx", "next_used", "next_avail", "set_call"}
    /\ idx \in Index /\ saved \in Index
    /\ config \subseteq {"num", "addr", "base"}
    /\ mem \in [avail : 0 .. MaxBuffers, used : Index]
    /\ taken \in Nat /\ completed \in 0 .. taken
    /\ drivers \in 1 .. MaxDrivers

\* A ring that was stopped goes on where it was: whenever it is started, the next buffer it
\* takes is the first that this driver has published and nobody has taken, and the used
\* index in guest memory counts the completions of this driver, however often the ring was
\* stopped, reconfigured or taken over by another driver while the worker was at it.
RingResumes ==
    /\ ring.ready => ring.next_avail = taken % IdxMod
    /\ mem.used = completed % IdxMod
-------------------------------------------------------------------------------
(* The inductive invariant of LocksProofs. *)

\* What LocksProofs assumes of the constants.
Sized ==
    /\ IdxMod \in Nat \ {0} /\ MaxQueueSize \in Nat \ {0} /\ Sizes \subseteq Nat
    /\ MaxBuffers \in Nat /\ MaxDrivers \in Nat \ {0}

\* Where the request thread is: it configures a stopped ring and stops one that was started.
RequestInv ==
    /\ ring.ready => pc = "idle" /\ config = {"num", "addr", "base"}
    /\ pc \in {"used_idx", "next_used"} => taken = completed
    /\ pc \in {"next_avail", "set_call"} => "base" \in config

\* The indices that the ring, the frontend and the request thread have copies of.
IndexInv ==
    /\ mem.used = completed % IdxMod
    /\ "addr" \in config \/ taken > 0 => ring.next_used = completed % IdxMod
    /\ "base" \in config => ring.next_avail = taken % IdxMod
    /\ ~ ring.ready /\ pc \in {"idle", "used_idx", "next_used"} => saved = taken % IdxMod
    /\ pc = "next_used" => idx = completed % IdxMod
    /\ pc = "set_call" => idx = taken % IdxMod

ResumeInv == TypeOK /\ RequestInv /\ IndexInv
================================================================================
