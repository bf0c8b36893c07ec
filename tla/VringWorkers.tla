----------------------------- MODULE VringWorkers -----------------------------
(***************************************************************************)
(* The vrings of a vhost-user device, the request thread that reconfigures *)
(* them (VhostUserHandler) and the worker threads that serve them          *)
(* (VringEpollHandler).                                                    *)
(*                                                                         *)
(* Every access to a vring takes the vring's lock for one method call, so  *)
(* a request handler is a sequence of critical sections between which the  *)
(* workers run: one step of this module is one critical section.  A worker *)
(* holds a batch of events that epoll_wait returned some time ago, and     *)
(* works it off one event at a time while the request thread goes on.      *)
(*                                                                         *)
(* An eventfd is told apart from the descriptor the backend holds for it:  *)
(* epoll keys a registration by both, and a registration outlives close()  *)
(* as long as the frontend keeps its own descriptor of the eventfd open.   *)
(***************************************************************************)
EXTENDS Integers, FiniteSets

CONSTANTS
    NumQueues,    \* backend.num_queues()
    NumThreads,   \* backend.queues_per_thread().len()
    Masks,        \* queues_per_thread: Masks[w] is the set of the 1 bits of mask w
    Files,        \* the kick eventfds of the frontend
    RingFiles,    \* RingFiles[q]: the eventfds the frontend uses for ring q
    NonBlocking,  \* the eventfds created with EFD_NONBLOCK
    Fds,          \* descriptor numbers the backend may get for a kick eventfd
    ExitWorkers,  \* the threads for which backend.exit_event() is Some
    ReplaceKick,  \* may the frontend send SET_VRING_KICK for a ring that has a kick?
    NoKick,       \* Option::None
    ExitEvent     \* event id num_queues, which no ring event has

Rings   == 0 .. NumQueues - 1
Workers == 0 .. NumThreads - 1

ASSUME QueuesAssumption == NumQueues \in Nat \ {0} /\ NumThreads \in Nat
ASSUME MasksAssumption == Masks \in [Workers -> SUBSET Nat]
ASSUME FilesAssumption ==
    /\ RingFiles \in [Rings -> SUBSET Files]
    /\ \A p, q \in Rings : p # q => RingFiles[p] \cap RingFiles[q] = {}
    /\ NonBlocking \subseteq Files
ASSUME ThreadsAssumption == ExitWorkers \subseteq Workers
ASSUME EnvironmentAssumption == ReplaceKick \in BOOLEAN

\* EventConsumer: an eventfd and the backend's descriptor for it.
Kick == [fd : Fds, file : Files]

ASSUME NoKickAssumption == NoKick \notin Kick

\* An entry of an epoll set.  Its u64 data is the position of the ring among
\* the thread's rings, which stands for the ring itself (module EventDispatch).
Registration == [fd : Fds, file : Files, ring : Rings]

ASSUME ExitEventAssumption == ExitEvent \notin Registration

VARIABLES
    ready,           \* queue.ready() of each ring
    enabled,         \* VringState.enabled of each ring
    kick,            \* VringState.kick of each ring
    protocol_acked,  \* acked_features has PROTOCOL_FEATURES
    main,            \* where the request thread is
    epoll,           \* the epoll set of each worker
    batch,           \* events a worker got from epoll_wait and has not looked at
    wpc,             \* where each worker is
    wring,           \* the ring each worker deals with
    signaled,        \* eventfds with a non-zero counter
    exit,            \* workers whose exit eventfd was written
    life,            \* of the VhostUserHandler: running, dropping, dropped
    avail,           \* rings with buffers the guest announced and nobody served
    discarded        \* history: rings whose last kick was read and led to nothing

ringVars   == <<ready, enabled, kick>>
workerVars == <<batch, wpc, wring>>
vars == <<ringVars, protocol_acked, main, epoll, workerVars, signaled, exit, life,
          avail, discarded>>

MainPc   == {"idle", "set_enabled", "set_ready", "update", "unset_kick"}
MainOp   == {"none", "enable", "features", "reset", "base", "start"}
WorkerPc == {"wait", "dispatch", "blocked", "handle", "exited", "dead"}

TypeOK ==
    /\ ready \in [Rings -> BOOLEAN]
    /\ enabled \in [Rings -> BOOLEAN]
    /\ kick \in [Rings -> Kick \cup {NoKick}]
    /\ protocol_acked \in BOOLEAN
    /\ main \in [pc : MainPc, op : MainOp, ring : Rings]
    /\ epoll \in [Workers -> SUBSET Registration]
    /\ batch \in [Workers -> SUBSET (Registration \cup {ExitEvent})]
    /\ wpc \in [Workers -> WorkerPc]
    /\ wring \in [Workers -> Rings]
    /\ signaled \in [Files -> BOOLEAN]
    /\ exit \in [Workers -> BOOLEAN]
    /\ life \in {"running", "dropping", "dropped"}
    /\ avail \in [Rings -> BOOLEAN]
    /\ discarded \in [Rings -> BOOLEAN]

\* VhostUserHandler::new: rings without eventfds, one waiting worker per mask.
Init ==
    /\ ready = [q \in Rings |-> FALSE]
    /\ enabled = [q \in Rings |-> FALSE]
    /\ kick = [q \in Rings |-> NoKick]
    /\ protocol_acked = FALSE
    /\ main = [pc |-> "idle", op |-> "none", ring |-> 0]
    /\ epoll = [w \in Workers |-> {}]
    /\ batch = [w \in Workers |-> {}]
    /\ wpc = [w \in Workers |-> "wait"]
    /\ wring = [w \in Workers |-> 0]
    /\ signaled = [f \in Files |-> FALSE]
    /\ exit = [w \in Workers |-> FALSE]
    /\ life = "running"
    /\ avail = [q \in Rings |-> FALSE]
    /\ discarded = [q \in Rings |-> FALSE]
-------------------------------------------------------------------------------
\* The vrings: every method locks the ring, and a worker that is blocked in the
\* read() of a kick holds that lock.
Locked(q) == \E w \in Workers : wpc[w] = "blocked" /\ wring[w] = q

HasKick(q) == kick[q] # NoKick

\* Mutant: no break after the first thread with the ring in its mask.
ServesWithoutBreak(w, q) == q \in Masks[w]

\* Does worker w serve ring q: is it the first whose mask has the ring's bit?
Serves(w, q) == q \in Masks[w] /\ \A v \in Workers : q \in Masks[v] => w <= v

\* The registration that stands for ring q with its present kick.
KickRegistration(q) == [fd |-> kick[q].fd, file |-> kick[q].file, ring |-> q]

SameKey(r, s) == r.fd = s.fd /\ r.file = s.file

\* EPOLL_CTL_ADD fails with EEXIST when the key is there, which the caller ignores.
RegisterEvent(set, r) == IF \E s \in set : SameKey(r, s) THEN set ELSE set \cup {r}

\* EPOLL_CTL_DEL; its ENOENT is ignored.
UnregisterEvent(set, r) == {s \in set : ~ SameKey(r, s)}

\* Mutant: registers a started ring that is not enabled.
UpdatedRegistrationIfReady(q) ==
    [w \in Workers |->
        IF HasKick(q) /\ Serves(w, q)
        THEN IF ready[q] THEN RegisterEvent(epoll[w], KickRegistration(q))
             ELSE UnregisterEvent(epoll[w], KickRegistration(q))
        ELSE epoll[w]]

\* The epoll sets after update_vring_registration for ring q.
UpdatedRegistration(q) ==
    [w \in Workers |->
        IF HasKick(q) /\ Serves(w, q)
        THEN IF ready[q] /\ enabled[q]
             THEN RegisterEvent(epoll[w], KickRegistration(q))
             ELSE UnregisterEvent(epoll[w], KickRegistration(q))
        ELSE epoll[w]]
-------------------------------------------------------------------------------
(* The request thread.  A request begins only when the previous one is done. *)

Goto(pc, op, q) == main' = [pc |-> pc, op |-> op, ring |-> q]

Idle == main.pc = "idle"

BeginRequest == Idle /\ life = "running"

\* reset_owner: the acked features go, the rings stay as they are.
ResetOwner ==
    /\ BeginRequest
    /\ protocol_acked' = FALSE
    /\ UNCHANGED <<ringVars, main, epoll, workerVars, signaled, exit, life, avail, discarded>>

\* set_features: without PROTOCOL_FEATURES all rings are enabled, one by one.
SetFeatures(protocol) ==
    /\ BeginRequest
    /\ protocol_acked' = protocol
    /\ IF protocol THEN UNCHANGED main ELSE Goto("set_enabled", "features", 0)
    /\ UNCHANGED <<ringVars, epoll, workerVars, signaled, exit, life, avail, discarded>>

\* reset_device: all rings are disabled, one by one.
ResetDevice ==
    /\ BeginRequest
    /\ Goto("set_enabled", "reset", 0)
    /\ UNCHANGED <<ringVars, protocol_acked, epoll, workerVars, signaled, exit, life, avail,
                   discarded>>

\* vring.set_enabled in the loops of set_features and reset_device.
SetEnabledInLoop ==
    /\ main.pc = "set_enabled"
    /\ ~ Locked(main.ring)
    /\ enabled' = [enabled EXCEPT ![main.ring] = (main.op = "features")]
    /\ Goto("update", main.op, main.ring)
    /\ UNCHANGED <<ready, kick, protocol_acked, epoll, workerVars, signaled, exit, life,
                   avail, discarded>>

\* Mutant: set_vring_enable without update_vring_registration.
SetVringEnableOnly(q, enable) ==
    /\ BeginRequest
    /\ protocol_acked
    /\ ~ Locked(q)
    /\ enabled' = [enabled EXCEPT ![q] = enable]
    /\ UNCHANGED <<ready, kick, protocol_acked, main, epoll, workerVars, signaled, exit, life,
                   avail, discarded>>

SetVringEnable(q, enable) ==
    /\ BeginRequest
    /\ protocol_acked
    /\ ~ Locked(q)
    /\ enabled' = [enabled EXCEPT ![q] = enable]
    /\ Goto("update", "enable", q)
    /\ UNCHANGED <<ready, kick, protocol_acked, epoll, workerVars, signaled, exit, life,
                   avail, discarded>>

\* Mutant: get_vring_base without update_vring_registration.
GetVringBaseOnly(q) ==
    /\ BeginRequest
    /\ ~ Locked(q)
    /\ ready' = [ready EXCEPT ![q] = FALSE]
    /\ Goto("unset_kick", "base", q)
    /\ UNCHANGED <<enabled, kick, protocol_acked, epoll, workerVars, signaled, exit, life,
                   avail, discarded>>

\* get_vring_base: set_queue_ready(false), then update, then unset_kick.
GetVringBase(q) ==
    /\ BeginRequest
    /\ ~ Locked(q)
    /\ ready' = [ready EXCEPT ![q] = FALSE]
    /\ Goto("update", "base", q)
    /\ UNCHANGED <<enabled, kick, protocol_acked, epoll, workerVars, signaled, exit, life,
                   avail, discarded>>

\* Mutant: the loop over the rings goes one too far.
MoreRingsOffByOne(q) == q <= NumQueues - 1

\* The loops of set_features and reset_device: is there a ring after q?
MoreRings(q) == q < NumQueues - 1

\* update_vring_registration, and what the calling handler does next.
UpdateVringRegistration ==
    LET q    == main.ring
        loop == main.op \in {"features", "reset"}
    IN  /\ main.pc = "update"
        /\ ~ Locked(q)
        /\ epoll' = UpdatedRegistration(q)
        /\ IF main.op = "base" THEN Goto("unset_kick", "base", q)
           ELSE IF loop /\ MoreRings(q) THEN Goto("set_enabled", main.op, q + 1)
           ELSE Goto("idle", "none", 0)
        /\ protocol_acked' = (protocol_acked /\ ~ (main.op = "reset" /\ ~ MoreRings(q)))
        /\ UNCHANGED <<ringVars, workerVars, signaled, exit, life, avail, discarded>>

\* vring.set_kick(None) and set_call(None) of get_vring_base.
UnsetKick ==
    /\ main.pc = "unset_kick"
    /\ ~ Locked(main.ring)
    /\ kick' = [kick EXCEPT ![main.ring] = NoKick]
    /\ Goto("idle", "none", 0)
    /\ UNCHANGED <<ready, enabled, protocol_acked, epoll, workerVars, signaled, exit, life,
                   avail, discarded>>

\* vring_needs_init(), evaluated for the kick the ring has after this step.  It takes
\* the lock again, but what it reads only the request thread changes.
InitializeIfNeeded(q) ==
    IF ~ ready[q] /\ kick'[q] # NoKick THEN Goto("set_ready", "start", q) ELSE UNCHANGED main

\* set_vring_kick with an eventfd: the kernel gives the backend an unused
\* descriptor number for it.  A frontend that hands over an eventfd signals it
\* when the guest has buffers waiting.
SetVringKick(q, k) ==
    /\ BeginRequest
    /\ k.file \in RingFiles[q]
    /\ \A p \in Rings : HasKick(p) => kick[p].fd # k.fd
    /\ HasKick(q) => ReplaceKick
    /\ ~ Locked(q)
    /\ kick' = [kick EXCEPT ![q] = k]
    /\ signaled' = [signaled EXCEPT ![k.file] = @ \/ avail[q]]
    /\ discarded' = [discarded EXCEPT ![q] = FALSE]
    /\ InitializeIfNeeded(q)
    /\ UNCHANGED <<ready, enabled, protocol_acked, epoll, workerVars, exit, life, avail>>

\* set_vring_kick without an eventfd (VHOST_USER_VRING_NOFD).
SetVringKickNone(q) ==
    /\ BeginRequest
    /\ HasKick(q) => ReplaceKick
    /\ ~ Locked(q)
    /\ kick' = [kick EXCEPT ![q] = NoKick]
    /\ InitializeIfNeeded(q)
    /\ UNCHANGED <<ready, enabled, protocol_acked, epoll, workerVars, signaled, exit, life,
                   avail, discarded>>

\* set_vring_call: the call eventfd is used by the backend only; what matters here is
\* that its arrival may start the ring.
SetVringCall(q) ==
    /\ BeginRequest
    /\ ~ Locked(q)
    /\ kick' = kick
    /\ InitializeIfNeeded(q)
    /\ UNCHANGED <<ready, enabled, protocol_acked, epoll, workerVars, signaled, exit, life,
                   avail, discarded>>

\* Mutant: initialize_vring without update_vring_registration.
SetQueueReadyOnly ==
    /\ main.pc = "set_ready"
    /\ ~ Locked(main.ring)
    /\ ready' = [ready EXCEPT ![main.ring] = TRUE]
    /\ Goto("idle", "none", 0)
    /\ UNCHANGED <<enabled, kick, protocol_acked, epoll, workerVars, signaled, exit, life,
                   avail, discarded>>

\* initialize_vring: set_queue_ready(true), then update.
SetQueueReady ==
    /\ main.pc = "set_ready"
    /\ ~ Locked(main.ring)
    /\ ready' = [ready EXCEPT ![main.ring] = TRUE]
    /\ Goto("update", "start", main.ring)
    /\ UNCHANGED <<enabled, kick, protocol_acked, epoll, workerVars, signaled, exit, life,
                   avail, discarded>>
-------------------------------------------------------------------------------
(* The worker threads: VringEpollHandler::run and handle_event. *)

\* epoll.wait: level-triggered, reports every registered eventfd with a non-zero
\* counter, and the exit eventfd, which is never read.
EpollWait(w) ==
    LET events == {r \in epoll[w] : signaled[r.file]}
                      \cup (IF exit[w] THEN {ExitEvent} ELSE {})
    IN  /\ wpc[w] = "wait"
        /\ events # {}
        /\ batch' = [batch EXCEPT ![w] = events]
        /\ wpc' = [wpc EXCEPT ![w] = "dispatch"]
        /\ UNCHANGED <<ringVars, protocol_acked, main, epoll, wring, signaled, exit, life, avail,
                       discarded>>

HandleExitEvent(w) ==
    /\ wpc[w] = "dispatch"
    /\ ExitEvent \in batch[w]
    /\ wpc' = [wpc EXCEPT ![w] = "exited"]
    /\ batch' = [batch EXCEPT ![w] = {}]
    /\ UNCHANGED <<ringVars, protocol_acked, main, epoll, wring, signaled, exit, life, avail,
                   discarded>>

\* Where worker w goes when it is done with an event and b is left of its batch.
NextEvent(b) == IF b = {} THEN "wait" ELSE "dispatch"

\* Worker w has read the kick of ring q (eaten: there was one to read) and looks
\* at the enabled flag that read_kick returned.
AfterReadKick(w, q, eaten) ==
    /\ wpc' = [wpc EXCEPT ![w] = IF enabled[q] THEN "handle" ELSE NextEvent(batch'[w])]
    /\ wring' = [wring EXCEPT ![w] = q]
    /\ signaled' = IF eaten THEN [signaled EXCEPT ![kick[q].file] = FALSE] ELSE signaled
    /\ discarded' = [discarded EXCEPT ![q] = @ \/ (eaten /\ ~ enabled[q])]

\* Does the read of an empty eventfd f fail with EAGAIN?
WouldBlock(f) == f \in NonBlocking

\* handle_event: the next ring event of the batch, as far as read_kick.  A read of
\* an eventfd whose counter is zero fails (EAGAIN) and ends the worker, or blocks
\* with the ring locked.
ReadKick(w, r) ==
    LET q     == r.ring
        empty == HasKick(q) /\ ~ signaled[kick[q].file]
    IN  /\ wpc[w] = "dispatch"
        /\ r \in batch[w] \ {ExitEvent}
        /\ ~ Locked(q)
        /\ batch' = [batch EXCEPT ![w] = IF empty /\ WouldBlock(kick[q].file)
                                         THEN {} ELSE @ \ {r}]
        /\ IF empty
           THEN /\ wpc' = [wpc EXCEPT ![w] = IF WouldBlock(kick[q].file)
                                             THEN "dead" ELSE "blocked"]
                /\ wring' = [wring EXCEPT ![w] = q]
                /\ UNCHANGED <<signaled, discarded>>
           ELSE AfterReadKick(w, q, HasKick(q))
        /\ UNCHANGED <<ringVars, protocol_acked, main, epoll, exit, life, avail>>

\* The blocked read returns: somebody signalled the eventfd.
BlockedReadReturns(w) ==
    /\ wpc[w] = "blocked"
    /\ signaled[kick[wring[w]].file]
    /\ batch' = batch
    /\ AfterReadKick(w, wring[w], TRUE)
    /\ UNCHANGED <<ringVars, protocol_acked, main, epoll, exit, life, avail>>

\* backend.handle_event serves the buffers of the ring; the virtio queue refuses
\* to iterate when it is not ready.
BackendHandleEvent(w) ==
    LET q == wring[w]
    IN  /\ wpc[w] = "handle"
        /\ avail' = [avail EXCEPT ![q] = @ /\ ~ ready[q]]
        /\ discarded' = [discarded EXCEPT ![q] = @ \/ (avail[q] /\ ~ ready[q])]
        /\ wpc' = [wpc EXCEPT ![w] = NextEvent(batch[w])]
        /\ UNCHANGED <<ringVars, protocol_acked, main, epoll, batch, wring, signaled, exit, life>>

\* backend.handle_event returns an error, which ends the worker.
BackendHandleEventFails(w) ==
    /\ wpc[w] = "handle"
    /\ wpc' = [wpc EXCEPT ![w] = "dead"]
    /\ batch' = [batch EXCEPT ![w] = {}]
    /\ UNCHANGED <<ringVars, protocol_acked, main, epoll, wring, signaled, exit, life, avail,
                   discarded>>
-------------------------------------------------------------------------------
\* The guest announces buffers: it signals the eventfd of the ring.
GuestKick(q) ==
    /\ avail' = [avail EXCEPT ![q] = TRUE]
    /\ signaled' = IF HasKick(q) THEN [signaled EXCEPT ![kick[q].file] = TRUE] ELSE signaled
    /\ discarded' = [discarded EXCEPT ![q] = @ /\ ~ HasKick(q)]
    /\ UNCHANGED <<ringVars, protocol_acked, main, epoll, workerVars, exit, life>>

\* send_exit_event: by VhostUserDaemon::serve after the connection has ended, or by
\* the backend, which gets at the workers with get_epoll_handlers.
SendExitEvent ==
    /\ life = "running"
    /\ exit' = [w \in Workers |-> w \in ExitWorkers]
    /\ UNCHANGED <<ringVars, protocol_acked, main, epoll, workerVars, signaled, life, avail,
                   discarded>>

\* Mutant: drop joins the workers without telling them to exit.
BeginDropSilently ==
    /\ BeginRequest
    /\ life' = "dropping"
    /\ UNCHANGED <<ringVars, protocol_acked, main, epoll, workerVars, signaled, exit, avail,
                   discarded>>

\* VhostUserHandler::drop: send_exit_event, then join.
BeginDrop ==
    /\ BeginRequest
    /\ life' = "dropping"
    /\ exit' = [w \in Workers |-> w \in ExitWorkers]
    /\ UNCHANGED <<ringVars, protocol_acked, main, epoll, workerVars, signaled, avail, discarded>>

JoinWorkers ==
    /\ life = "dropping"
    /\ \A w \in Workers : wpc[w] \in {"exited", "dead"}
    /\ life' = "dropped"
    /\ UNCHANGED <<ringVars, protocol_acked, main, epoll, workerVars, signaled, exit, avail,
                   discarded>>
-------------------------------------------------------------------------------
MainContinues ==
    \/ SetEnabledInLoop
    \/ UpdateVringRegistration
    \/ UnsetKick
    \/ SetQueueReady

Request ==
    \/ ResetOwner
    \/ ResetDevice
    \/ \E protocol \in BOOLEAN : SetFeatures(protocol)
    \/ \E q \in Rings :
          \/ \E enable \in BOOLEAN : SetVringEnable(q, enable)
          \/ GetVringBase(q)
          \/ \E k \in Kick : SetVringKick(q, k)
          \/ SetVringKickNone(q)
          \/ SetVringCall(q)

WorkerStep(w) ==
    \/ EpollWait(w)
    \/ HandleExitEvent(w)
    \/ \E r \in Registration : ReadKick(w, r)
    \/ BlockedReadReturns(w)
    \/ BackendHandleEvent(w)
    \/ BackendHandleEventFails(w)

Next ==
    \/ Request
    \/ MainContinues
    \/ \E w \in Workers : WorkerStep(w)
    \/ \E q \in Rings : GuestKick(q)
    \/ SendExitEvent
    \/ BeginDrop
    \/ JoinWorkers

\* Threads run whenever they can; the frontend, the guest and the owner of the
\* daemon owe nothing.
Fairness ==
    /\ WF_vars(MainContinues)
    /\ WF_vars(JoinWorkers)
    /\ \A w \in Workers : WF_vars(WorkerStep(w))

Spec == Init /\ [][Next]_vars
FairSpec == Spec /\ Fairness
-------------------------------------------------------------------------------
(* What the component promises. *)

RegisteredFor(w, q) == {r \in epoll[w] : r.ring = q}

Ended(w) == wpc[w] \in {"exited", "dead"}

\* update_vring_registration "adds or removes the vring's kick fd [...] based on the
\* vring status": between requests, a ring has exactly its present kick registered,
\* with the first thread that has it in its mask, when it is started and enabled, and
\* is registered nowhere otherwise.  For a frontend that stops a ring before it
\* gives the ring another kick.
RegistrationMatchesState ==
    ~ ReplaceKick /\ Idle =>
        \A w \in Workers, q \in Rings :
            RegisteredFor(w, q) = IF Serves(w, q) /\ ready[q] /\ enabled[q]
                                  THEN {KickRegistration(q)} ELSE {}

\* "No notifications are lost", as far as it goes: between requests, buffers that
\* wait in a started and enabled ring are announced to the worker that serves it,
\* by a pending kick that is registered or by an event it has begun to handle.  The
\* exceptions (discarded) are a kick that a worker with an old event read after the
\* ring had been disabled, and one it read and took to the backend while the ring was
\* stopped or not yet started again.
KickReachesWorker ==
    ~ ReplaceKick /\ Idle =>
        \A w \in Workers, q \in Rings :
            Serves(w, q) /\ ready[q] /\ enabled[q] /\ avail[q] /\ ~ discarded[q] =>
                \/ Ended(w)
                \/ wpc[w] = "handle" /\ wring[w] = q
                \/ signaled[kick[q].file] /\ KickRegistration(q) \in epoll[w]

\* A worker that holds an event for a ring does not find the ring's eventfd empty,
\* which would end the worker or block it with the ring locked, unless the ring was
\* stopped and started with another eventfd since the worker's epoll_wait.
ReadFindsKick ==
    ~ ReplaceKick =>
        \A w \in Workers : \A r \in batch[w] \ {ExitEvent} :
            HasKick(r.ring) /\ kick[r.ring].file = r.file => signaled[r.file]

\* A kick that arrives while a ring is disabled or being reconfigured is only
\* postponed: buffers do not wait for ever in a ring that stays started and enabled,
\* unless the kick was discarded, or the worker has ended or is blocked in the read of
\* an eventfd.
KickServed ==
    \A w \in Workers, q \in Rings :
        []<> ~ (/\ Serves(w, q) /\ ready[q] /\ enabled[q] /\ avail[q] /\ ~ discarded[q]
                /\ ~ Ended(w) /\ wpc[w] # "blocked")

\* Worker w is in the read of an eventfd that nobody signals.
StuckInRead(w) == wpc[w] = "blocked" /\ ~ signaled[kick[wring[w]].file]

\* VhostUserHandler::drop signals all workers to exit and joins them: it returns, whatever the
\* workers were doing, unless one of them is in the read of a blocking eventfd that stays
\* empty.  It is not under way for ever, and it ends only with the handler gone.
DropCompletes ==
    /\ [][life = "dropping" => life' \in {"dropping", "dropped"}]_vars
    /\ []<>(life # "dropping" \/ \E w \in Workers : StuckInRead(w))

\* "When the returned EventFd is written to, the worker thread will exit."
ExitEndsWorker == \A w \in Workers : exit[w] ~> Ended(w)

\* "Notifications are handled only while the vring is both started and enabled": once
\* the request that stopped or disabled a ring is over, the backend's handle_event is
\* not called for the ring.
HandledOnlyWhileActive ==
    [][\A w \in Workers : Idle /\ BackendHandleEvent(w) =>
           ready[wring[w]] /\ enabled[wring[w]]]_vars

\* "No notifications are lost": no worker reads a kick that leads to nothing.
NoKickDiscarded == \A q \in Rings : ~ discarded[q]

\* "No notifications are lost" with a kick eventfd replaced on the fly: between
\* requests, the kick of a started and enabled ring is registered.
ActiveRingIsRegistered ==
    Idle => \A w \in Workers, q \in Rings :
        Serves(w, q) /\ ready[q] /\ enabled[q] /\ HasKick(q) =>
            KickRegistration(q) \in epoll[w]
-------------------------------------------------------------------------------
(* The inductive invariants behind RegistrationMatchesState, ReadFindsKick and     *)
(* KickReachesWorker (proofs in ThreadsProofs).                                    *)

RingEvents(w) == batch[w] \ {ExitEvent}

Updating(q) == main.pc = "update" /\ main.ring = q

\* Who may hold what: eventfds stay with their ring, events with the ring's worker.
OwnershipInv ==
    /\ \A q \in Rings : HasKick(q) => kick[q].file \in RingFiles[q]
    /\ \A w \in Workers : \A r \in epoll[w] \cup RingEvents(w) :
          Serves(w, r.ring) /\ r.file \in RingFiles[r.ring]
    /\ \A w \in Workers : wpc[w] \in {"blocked", "handle"} => Serves(w, wring[w])
    /\ \A w \in Workers : wpc[w] = "blocked" => HasKick(wring[w])

\* The request thread: only a ring with a kick is or gets started, and a ring that
\* loses its kick has been stopped.
StartInv ==
    /\ \A q \in Rings : ready[q] => HasKick(q)
    /\ main.pc = "set_ready" => HasKick(main.ring)
    /\ main.pc = "unset_kick" => main.op = "base"
    /\ main.op = "base" => main.pc \in {"update", "unset_kick"} /\ ~ ready[main.ring]

\* What is registered is a present kick, and it is registered exactly when the ring
\* is started and enabled, but for the ring whose flags just changed.
RegistrationInv ==
    \A w \in Workers :
        /\ \A r \in epoll[w] : /\ HasKick(r.ring)
                               /\ r = KickRegistration(r.ring)
                               /\ Updating(r.ring) \/ (ready[r.ring] /\ enabled[r.ring])
        /\ \A q \in Rings : Serves(w, q) /\ ready[q] /\ enabled[q] /\ ~ Updating(q) =>
                               KickRegistration(q) \in epoll[w]

\* A batch has one event per ring, and their eventfds are still readable.
BatchInv ==
    \A w \in Workers :
        /\ \A r, s \in RingEvents(w) : r.ring = s.ring => r = s
        /\ \A r \in RingEvents(w) : signaled[r.file]
        /\ wpc[w] = "blocked" => \A r \in RingEvents(w) : r.ring # wring[w]

\* Waiting buffers are announced, whatever the request thread is doing.
AnnouncedInv ==
    \A w \in Workers, q \in Rings :
        Serves(w, q) /\ HasKick(q) /\ avail[q] /\ ~ discarded[q] =>
            \/ Ended(w)
            \/ wpc[w] = "handle" /\ wring[w] = q
            \/ signaled[kick[q].file]

IInv ==
    /\ OwnershipInv
    /\ AnnouncedInv
    /\ ~ ReplaceKick => StartInv /\ RegistrationInv /\ BatchInv
===============================================================================
