------------------------------- MODULE DeviceLock -------------------------------
(***************************************************************************)
(* The locks between the threads of a daemon and its device.  A request    *)
(* holds the mutex around VhostUserHandler while it calls the device and   *)
(* the rings; workers call the device, which works on the rings; the owner *)
(* of the daemon uses the handler and the workers' epoll sets.  The device *)
(* is an Arc of a Mutex or an RwLock and its rings are VringMutex or       *)
(* VringRwLock; all of them unwrap a poisoned lock.                        *)
(*                                                                         *)
(* A thread runs a program: the locks it takes and gives back for the      *)
(* methods it calls.  What these do is left out, except that one may       *)
(* return an error and that the device may panic in it.                    *)
(***************************************************************************)
EXTENDS Integers, Sequences

CONSTANT Workers   \* threads that run VringEpollHandlers

Threads == Workers \cup {"request", "owner"}
None == "none"

VARIABLES
    kind,       \* "Mutex" or "RwLock"
    program,    \* what each thread has still to do
    writer,     \* the thread that has a lock for itself
    readers,    \* the threads that share it
    panicked,   \* locks that are poisoned
    ended,      \* workers that are no more
    halfway     \* did the device panic in a method that changes it?

vars == <<kind, program, writer, readers, panicked, ended, halfway>>

Locks == {"handler", "device", "ring"}

Init ==
    /\ kind \in {"Mutex", "RwLock"}
    /\ program = [t \in Threads |-> <<>>]
    /\ writer = [l \in Locks |-> None]
    /\ readers = [l \in Locks |-> {}]
    /\ panicked = {} /\ ended = {} /\ halfway = FALSE
-------------------------------------------------------------------------------
(* Methods of the device and of a ring *)

\* Those with &self in VhostUserBackendMut.
Shared ==
    {"num_queues", "max_queue_size", "features", "protocol_features", "get_config",
     "queues_per_thread", "exit_event", "check_device_state", "get_shmem_config"}

\* Those of VhostUserBackend that return a Result.
Fallible ==
    {"set_config", "update_memory", "get_shared_object", "set_gpu_socket", "handle_event",
     "set_device_state_fd", "check_device_state", "get_shmem_config"}

\* Other steps after which a request or an event may return early.
EarlyReturn == {"features", "set_queue_info", "queue_used_idx", "update_vring_registration",
                "read_kick"}

\* impl VhostUserBackend for Mutex<T> and for RwLock<T>.
ModeOfMutex(method) == "write"

ModeOfRwLock(method) == IF method \in Shared THEN "read" ELSE "write"

Mode(method) == IF kind = "Mutex" THEN ModeOfMutex(method) ELSE ModeOfRwLock(method)

\* VringMutex and VringRwLock: get_ref, and get_mut or a setter.
RingMode(method) ==
    IF kind = "RwLock" /\ method \in {"queue_next_avail", "queue_used_idx", "read_kick",
                                      "vring_needs_init", "update_vring_registration"}
    THEN "read" ELSE "write"

\* The steps of a program.
Ops == [op : {"lock", "unlock"}, lock : Locks, mode : {"read", "write"}, fails : BOOLEAN,
        changes : BOOLEAN]

\* A method that runs with a lock held: may it return early, does it change the device?
Hold(l, mode, method, body) ==
    LET Step(op) == [op |-> op, lock |-> l, mode |-> mode,
                     fails |-> method \in Fallible \cup EarlyReturn,
                     changes |-> l = "device" /\ method \notin Shared]
    IN  <<Step("lock")>> \o body \o <<Step("unlock")>>

\* A call of a device method, through the Arc to the lock.
Device(method) == Hold("device", Mode(method), method, <<>>)

Ring(method) == Hold("ring", RingMode(method), method, <<>>)
-------------------------------------------------------------------------------
(* Programs *)

\* Mutant: the range of the event id is checked as in register_listener, with the ring held.
update_vring_registration_checked ==
    Hold("ring", RingMode("update_vring_registration"), "update_vring_registration",
         Device("num_queues"))

\* The ring is held while its kick is registered or unregistered.
update_vring_registration == Ring("update_vring_registration")

initialize_vring == Ring("set_queue_ready") \o update_vring_registration

set_features ==
    {Device("features") \o enable \o Ring("set_queue_event_idx")
        \o Device("set_event_idx") \o Device("acked_features") :
     enable \in {<<>>, Ring("set_enabled") \o update_vring_registration}}

set_vring_enable == Ring("set_enabled") \o update_vring_registration

reset_device == set_vring_enable \o Device("reset_device")

set_vring_addr ==
    Ring("set_queue_info") \o Ring("queue_used_idx") \o Ring("set_queue_next_used")

get_vring_base ==
    Ring("set_queue_ready") \o update_vring_registration \o Ring("queue_next_avail")
        \o Ring("set_kick") \o Ring("set_call")

\* set_vring_kick and set_vring_call.
set_vring_file(method) ==
    {Ring(method) \o Ring("vring_needs_init") \o start : start \in {<<>>, initialize_vring}}

\* Requests that only pass a call on to the device: its configuration and the sockets and
\* objects it shares, what it offers, and the transfer of its state.
PassedOn == {"get_config", "set_config", "set_backend_req_fd", "set_gpu_socket",
             "get_shared_object"}
Offers == {"features", "protocol_features"}
StateTransfer == {"set_device_state_fd", "check_device_state", "get_shmem_config"}

\* get_inflight_fd, get_max_mem_slots and others are done without the device and its rings;
\* and any request may be refused before it gets there.
HandlerOnly == <<>>

\* The methods of VhostUserHandler; the three that change the memory call update_memory.
Methods ==
    {HandlerOnly, reset_device, set_vring_addr, get_vring_base, set_vring_enable}
    \cup set_features \cup set_vring_file("set_kick") \cup set_vring_file("set_call")
    \cup {Ring(m) : m \in {"set_queue_size", "set_queue_next_avail", "set_err"}}
    \cup {Device(m) : m \in PassedOn \cup Offers \cup StateTransfer \cup {"update_memory"}}

\* impl VhostUserBackendReqHandler for Mutex<T>.
Requests == {Hold("handler", "write", "request", m) : m \in Methods}

\* VringEpollHandler::handle_event: the exit event, a ring that is not enabled, or a call of
\* the device, which may work on a ring.
Events ==
    {Device("num_queues"), Device("num_queues") \o Ring("read_kick")}
    \cup {Device("num_queues") \o kick \o Hold("device", Mode("handle_event"), "handle_event", work) :
          kick \in {<<>>, Ring("read_kick")}, work \in {<<>>, Ring("get_mut")}}

\* send_exit_event and get_epoll_handlers of the handler; register_listener and
\* unregister_listener of what the latter returns.
OwnerCalls == {Hold("handler", "write", "get_epoll_handlers", <<>>), Device("num_queues")}

Programs(t) ==
    CASE t = "request" -> Requests
      [] t = "owner" -> OwnerCalls
      [] OTHER -> Events

\* What a thread goes on with; one that has nothing to do may begin a program.
Ahead(t) ==
    IF program[t] # <<>> THEN {program[t]} ELSE IF t \in ended THEN {} ELSE Programs(t)
-------------------------------------------------------------------------------
(* Locks *)

Op(t) == Head(program[t])
Busy(t) == program[t] # <<>>

Free(l, mode) == writer[l] = None /\ (mode = "write" => readers[l] = {})

\* A thread unwinds: a guard that is dropped on the way poisons its lock unless it was for
\* reading.  Workers are not replaced; another connection brings another request thread.
Unwind(t) ==
    /\ program' = [program EXCEPT ![t] = <<>>]
    /\ panicked' = panicked \cup {l \in Locks : writer[l] = t}
    /\ writer' = [l \in Locks |-> IF writer[l] = t THEN None ELSE writer[l]]
    /\ readers' = [l \in Locks |-> readers[l] \ {t}]
    /\ ended' = IF t \in Workers THEN ended \cup {t} ELSE ended

Take(t, p) ==
    /\ program' = [program EXCEPT ![t] = Tail(p)]
    /\ IF Head(p).mode = "write"
       THEN writer' = [writer EXCEPT ![Head(p).lock] = t] /\ readers' = readers
       ELSE readers' = [readers EXCEPT ![Head(p).lock] = @ \cup {t}] /\ writer' = writer
    /\ UNCHANGED <<panicked, ended>>

MayLock(p) == Head(p).op = "lock" /\ Free(Head(p).lock, Head(p).mode)

\* Mutant: goes on with a poisoned lock.
AcquireAnyway(t) ==
    /\ \E p \in Ahead(t) : MayLock(p) /\ Take(t, p)
    /\ UNCHANGED <<kind, halfway>>

\* lock().unwrap(), read().unwrap() and write().unwrap().
Acquire(t) ==
    /\ \E p \in Ahead(t) :
          MayLock(p) /\ IF Head(p).lock \in panicked THEN Unwind(t) ELSE Take(t, p)
    /\ UNCHANGED <<kind, halfway>>

\* An error is returned: of what is left to do only the guards that are still held are
\* dropped, the innermost first, and a worker ends with it.
Return(t) ==
    LET Drop(l) ==
          IF l # Op(t).lock /\ writer[l] = t
          THEN <<[op |-> "unlock", lock |-> l, mode |-> "write", fails |-> FALSE, changes |-> FALSE]>>
          ELSE <<>>
    IN  /\ Op(t).fails
        /\ program' = [program EXCEPT ![t] = Drop("ring") \o Drop("device") \o Drop("handler")]
        /\ ended' = IF t \in Workers THEN ended \cup {t} ELSE ended

Release(t) ==
    /\ Busy(t) /\ Op(t).op = "unlock"
    /\ writer' = [writer EXCEPT ![Op(t).lock] = IF @ = t THEN None ELSE @]
    /\ readers' = [readers EXCEPT ![Op(t).lock] = @ \ {t}]
    /\ \/ Return(t)
       \/ program' = [program EXCEPT ![t] = Tail(@)] /\ ended' = ended
    /\ UNCHANGED <<kind, panicked, halfway>>

InDevice(t) == writer["device"] = t \/ t \in readers["device"]

\* The device panics in a method: the one that gives the lock back at last.
Panic(t) ==
    /\ InDevice(t)
    /\ \E i \in DOMAIN program[t] :
          /\ program[t][i].op = "unlock" /\ program[t][i].lock = "device"
          /\ \A j \in 1 .. i - 1 : program[t][j].lock # "device"
          /\ halfway' = (halfway \/ program[t][i].changes)
    /\ Unwind(t)
    /\ UNCHANGED kind

Next == \E t \in Threads : Acquire(t) \/ Release(t) \/ Panic(t)

Spec == Init /\ [][Next]_vars
-------------------------------------------------------------------------------
\* Types of the state: a lock has a writer or readers.
TypeOK ==
    /\ kind \in {"Mutex", "RwLock"}
    /\ writer \in [Locks -> Threads \cup {None}]
    /\ readers \in [Locks -> SUBSET Threads]
    /\ \A l \in Locks : writer[l] # None => readers[l] = {}
    /\ panicked \subseteq Locks /\ ended \subseteq Workers
    /\ halfway \in BOOLEAN

\* Once the device has panicked in the middle of a method that changes it, no thread runs
\* a method of it again: neither a request of a later connection nor another worker.
HalfwayDeviceIsLeft == halfway => \A t \in Threads : ~ InDevice(t)

\* Threads that wait for locks never wait for each other only: requests go from the handler
\* to the device or to a ring, and workers from the device to a ring.
NobodyWaitsInCircle ==
    LET Waits(t) == Busy(t) /\ Op(t).op = "lock" /\ ~ Free(Op(t).lock, Op(t).mode)
    IN  (\E t \in Threads : Waits(t)) => \E t \in Threads : Busy(t) /\ ~ Waits(t)
-------------------------------------------------------------------------------
(* The inductive invariant of LocksProofs. *)

\* Nobody has the name that stands for no thread.
Named == "none" \notin Threads

\* The order in which locks are taken.
Rank == [handler |-> 1, device |-> 2, ring |-> 3]

\* The first that program p does with lock l after step i is to give it back, in step k.
GivesBack(p, l, i, k) ==
    /\ i < k /\ p[k].lock = l /\ p[k].op = "unlock"
    /\ \A m \in DOMAIN p : i < m /\ m < k => p[m].lock # l

\* What program p takes in step i it gives back, and at once if it only reads.
Returned(p, i) ==
    \E k \in DOMAIN p :
        /\ GivesBack(p, p[i].lock, i, k)
        /\ p[i].mode = "read" => k = i + 1 /\ p[k].mode = "read"

\* What it takes ranks above whatever it still has to give back.
Ranked(p, i) ==
    \A l \in Locks, k \in DOMAIN p :
        GivesBack(p, l, i, k) /\ l # p[i].lock => Rank[l] < Rank[p[i].lock]

Orderly(p) ==
    \A i \in DOMAIN p :
        /\ p[i].changes => p[i].mode = "write"
        /\ p[i].op = "lock" => Returned(p, i) /\ Ranked(p, i)

ProgramInv == program \in [Threads -> Seq(Ops)] /\ \A t \in Threads : Orderly(program[t])

\* The next step of thread t gives back a lock it shares.
StopsReading(t, l) ==
    Busy(t) /\ Op(t).op = "unlock" /\ Op(t).lock = l /\ Op(t).mode = "read"

\* Who has a lock will give it back, and who shares it does so next.
HeldInv ==
    \A t \in Threads, l \in Locks :
        /\ writer[l] = t => \E k \in DOMAIN program[t] : GivesBack(program[t], l, 0, k)
        /\ t \in readers[l] => StopsReading(t, l)

\* A device that is halfway through a change has a poisoned lock, and nobody has it.
HalfwayInv ==
    halfway => "device" \in panicked /\ writer["device"] = None /\ readers["device"] = {}

LockInv == TypeOK /\ ProgramInv /\ HeldInv /\ HalfwayInv
=================================================================================
