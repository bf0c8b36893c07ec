# TLA+ models of rust-vmm vhost

This directory holds TLA+ models of the `vhost` and `vhost-user-backend` crates, the TLC
configurations that check them on small instances, and TLAPS proofs for the properties that
matter most. Everything is translated from the Rust sources under `src/`; `PROJECT.json` maps each
definition to the lines it stands for.

## The system

A vhost-user device is a process (the *backend*) that serves the virtio queues of a virtual
machine for a VMM (the *frontend*). They talk over a Unix socket, share the guest's memory and
signal each other with eventfds. The `vhost` crate has both ends of the socket (and handles on the
kernel's own vhost devices), `vhost-user-backend` has the daemon that a device is built on.

| Part | Source | Module |
| --- | --- | --- |
| frontend and backend request handler | `vhost/src/vhost_user/{frontend,backend_req_handler}.rs` | `Session`, `Rpc`, `Messages` |
| backend-to-frontend and GPU channels | `vhost_user/{backend_req,frontend_req_handler,gpu_backend_req}.rs` | `BackendChannel`, `Rpc` |
| socket endpoint | `vhost_user/connection.rs` | `Endpoint` |
| listener and connect | `connection.rs`, `frontend.rs` | `Rendezvous` |
| message formats | `vhost_user/message.rs` | `Messages` |
| daemon life cycle | `vhost-user-backend/src/lib.rs` | `Daemon` |
| vrings and worker threads | `vhost-user-backend/src/{handler,event_loop,vring}.rs` | `VringWorkers` |
| event ids and dispatch | `handler.rs`, `event_loop.rs` | `EventDispatch` |
| place of a ring, lock adapters of a ring | `handler.rs`, `vring.rs` | `VringQueue` |
| locks around handler and device | `backend.rs`, `backend_req_handler.rs` | `DeviceLock` |
| guest memory, ring addresses, postcopy | `handler.rs` | `GuestMemory` |
| dirty-page log | `bitmap.rs`, `handler.rs` | `DirtyLog`, `DirtyLogSizes` |
| vhost-kernel, vDPA, net, vsock | `vhost/src/vhost_kern/*` | `VhostKernel` |

How the parts meet. A listener and a connecting frontend find each other (`Rendezvous`); the daemon
starts a thread for the connection (`Daemon`); the thread reads messages off the socket
(`Endpoint`), checks their numbers (`Messages`) and serves them one by one (`Session`). What a
request does to the rings and the workers is in `VringWorkers`, to the place of a ring in
`VringQueue`, to the memory in `GuestMemory` and to the log in `DirtyLog`; which locks it holds
meanwhile is in `DeviceLock`. Each of these modules takes from its neighbours only what its
header comment names: `Daemon`, for example, lets a request succeed, fail or panic.

## Modules

| Module | Kind |
| --- | --- |
| the thirteen component modules above | state machine, properties |
| `Rpc` | abstract specification that `Session` and `BackendChannel` implement |
| `DirtyLogSizes` | constants of `DirtyLog` and what is assumed of them |
| `MCVringWorkers`, `MCDirtyLog`, `MCSession`, `MCVhostKernel` | constants for TLC |
| `DaemonPart`, `LogPart`, `QueuePart`, `LockPart`, `DispatchPart`, `EndpointPart`, `ProtocolParts` | instances of one component (the last: of three), with the properties that the runs check |
| `ProtocolComponents`, `BackendComponents` | components that share no state, several in one specification |
| `MCProtocolComponents`, `MCBackendComponents` | their constants for TLC |
| `ThreadsProofs`, `LogAndEventsProofs`, `LocksProofs`, `GuestMemoryProofs`, `BackendProofs`, `SessionProofs`, `EndpointProofs`, `ProtocolProofs` | TLAPS proofs |

A definition that starts with the comment "Mutant" is a deliberately wrong variant of the
definition after it. It is used by no specification; it is what one of the properties must be
able to tell from the right one (`mutants` in `PROJECT.json`).

### VringWorkers

One step is one critical section: every method of `VringMutex` locks the ring for the duration
of the call, so a request handler is a sequence of locked sections (`main.pc` says which one is
next) and the workers run between them. `Request` are the first sections of the handlers,
`MainContinues` the later ones. `set_features` and `reset_device` loop over the rings with two
sections per ring.

A worker (`wpc`) waits in epoll_wait, holds a `batch` of events, reads the kick of the ring an
event belongs to, and calls the backend without any lock. It may be `blocked` in the read of an
eventfd (then it holds the ring's lock), `exited` after the exit event, or `dead` after an error.

`Masks` are the bit masks of `queues_per_thread`: bit `i` of a thread's mask is for queue `i`, as
`VhostUserHandler::new` (`handler.rs:135`) and `update_vring_registration` (`handler.rs:220`) read
them, and the first thread with the bit serves the queue. The comment of the trait method reads
differently: "A return value of [2, 2, 4] means: the first two queues will be handled by worker
thread 0, ..." (`backend.rs:124`) takes the numbers for counts. As masks they would give queue 1 to
thread 0, queue 2 to thread 2 and all others to nobody. The default, `0xffff_ffff`, is a
mask; the `[1, 1]` of the tests can be read either way.

An eventfd (`file`) is distinct from the descriptor number (`fd`) the backend has for it, as for
epoll: a registration is found again only under the same pair, and closing the backend's
descriptor does not remove it while the frontend keeps its own.

Environment: the frontend sends requests in any order, with the one restriction that it stops a
ring before it gives it another kick eventfd, unless `ReplaceKick` is TRUE; the guest may kick at
any time; a frontend that hands over an eventfd while buffers wait signals it. The backend's
`handle_event` may fail and otherwise serves all buffers of a ring that is ready.

Left out: `owned` and the protocol features (no effect on the rings), the call and error eventfds
(in `VringQueue`), event-index, epoll errors other than `EEXIST` and
`ENOENT`, the limit of 100 events per epoll_wait (which needs more than 100 rings per worker),
and `VringRwLock`, whose methods lock in the same places (a reader lock in `read_kick`).

Histories: `avail` (buffers the guest announced and nobody served) and `discarded` (the last
kick of the ring was read and led to nothing) exist for the properties only.

### EventDispatch

The list of a worker's rings is built by one loop (`CollectVring`), the event id of a ring by
counting bits (`EvtIdx`), backends add listeners with larger ids, and `Dispatch` truncates and
decides. A mask is the set of its 1 bits.

### DirtyLog

`SetLogBase` maps a log and builds the bitmaps of all regions, or fails and changes none of them;
`Replace` puts one bitmap in place and waits for the readers of the old one. A write is
`BeginMark` (take the read lock, find first and last page), one `MarkPage` per atomic `fetch_or`,
and `EndMark`. A log is the set of its 1 bits, named by the request that mapped it. The frontend
(`FetchWord`) takes words out at any time and reads bit `n` as guest page `n`. Page size, word
size and the largest address are constants, so that boundaries are met with small numbers.

`begun` and `finished` are histories: the guest pages of the writes that have begun or are over,
computed byte by byte from the region's start and not by the code's page arithmetic.

Left out: a failing mmap, and the unmapping of a log with its last bitmap. The regions are fixed
here; `GuestMemory` has regions that come and go, and no bitmaps.

### Session and Rpc

`Session` has the threads that share a `Frontend`, both directions of the socket, and the
`BackendReqHandler`. A method holds the mutex of `FrontendInternal` from its checks to the answer,
so that it is a sending step (named after the method, `set_owner`) and, if it waits, a receiving
step; `HandleRequest` takes one message and runs the whole arm of `handle_request` for it
(`SET_OWNER`). Each end decides by itself whether a request is answered: the frontend from the
features it acked and the flag of the header, the backend from the features it was told. Every
request of the frontend is there, and every arm of the backend; a request has a number, a set of
features or a descriptor only if a check looks at it, and it says whether its body is `valid` where
the backend's `is_valid` may refuse what the method of the frontend lets through (ring addresses,
in-flight regions, the window of GET_CONFIG). The thread that serves the connection ends it after an
error and drops the handler (`Shutdown`). `refused` and `misrouted` are histories.

`Rpc` is what callers rely on: each thread has a mailbox, requests are served once and in order, a
waiting thread gets the outcome of its own request or finds the connection gone. What becomes of
the error of a request that nobody waits for is left open. The mapping takes a thread's mailbox to
be the answer in the socket that is for it.

### BackendChannel

The backend's threads share clones of a proxy (`Backend` or `GpuBackend`). The flags of the proxy
are those that were negotiated when its socket arrived; `FrontendReqHandler` has its own. A request
may be one that the other side's validators refuse. Both channels implement `Rpc`, too. Assumed of
the application that owns the `FrontendReqHandler`: it negotiates before it passes the socket, tells
the handler what it negotiated, and drops it after an error without an ack. The display server is
outside of the repository.

### Endpoint

A message is a header and a body of a few units; a unit knows its message and its place. `sendmsg`
takes any number of units, `recvmsg` returns what one or several of them left, ending at a buffer
that had descriptors. The loops over vectors, `get_sub_iovs_offset` and the single `recvmsg` of
`recv_data` are as in the code. Errors of `recvmsg` go through `From<errno::Error>`.

### Messages

One request with its numbers goes from the caller through the checks of the sender, the header,
the validator of the body, the answer and the check of the answer. Words are `Word` = 8192 in
number, so that sums wrap; limits of the code (4096) keep their values. `Sound` is written from
what the fields mean and not from the validators.

### Daemon

Owner, request threads, `ShutdownHandle`s and frontends. `BeginShutdown` and `EndShutdown` are the
two steps of `ShutdownHandle::shutdown`; `Wait` and `Join` the two halves of `wait`; `serve` is
`NewListener(TRUE)`, `Accept`, `Wait`, `Join` and `EndServe`. A socket that was shut down here still
yields what had arrived before; a clone of it lives in `ConnectionState`. A request may panic: the
mutex of the handler is then poisoned for the next connection. If `start` fails, `serve` returns
at once (`lib.rs:293`) and has signalled nobody. `closedHere`, `blamed` and `exitSent` (since the
listener was made) are histories.

### Rendezvous

`Listener::new` unlinks, binds and listens in three steps (the last two are both in
`UnixListener::bind`; a socket that is bound only refuses connections), `Drop` unlinks the path
whoever owns it by then, a process may die and leave the file. `Frontend::connect` retries while it
is refused. The backlog of a listener is never full (then `connect` would wait for an `accept`).

### GuestMemory

One action per memory request of `VhostUserHandler`, each with the ways it fails: the guest memory is
replaced before `update_memory` is called and the mappings after it. `told` is what the frontend was
acknowledged; a ring address is judged by it. Bitmaps are left out: a region gets its bitmap from
SET_LOG_BASE (`DirtyLog`), and one that comes later has none until the next SET_LOG_BASE.

### VringQueue

Indices are counted modulo `IdxMod`. A worker takes and completes buffers under the guard it keeps,
while `get_vring_base` stops the ring, reads `next_avail` and clears the eventfds in separate locked
calls, and `set_vring_addr` restores `next_used` from guest memory. A driver may start over.

### DeviceLock

A thread runs a program, the sequence of locks its methods take and give back, built from the
handler's methods, the adapters `Mutex<T>` and `RwLock<T>` and the rings' locks. The device may
panic while it is locked; a guard that is dropped by a panic poisons its lock unless it is a read
guard, and everybody unwraps. Methods may return an error early.

### VhostKernel

A handle, what it remembers (`acked`) and what the kernel was told; the kernel may refuse every
ioctl. `is_valid` and the translation of ring addresses keep the 64-bit addition (`Word`). Guest
memory is a set of regions, each with its place in the guest and in this process; `is_valid` looks
up the byte behind each part of the ring, in whatever region, the translation its first byte.

## Runs

| Run | Instance | Shows |
| --- | --- | --- |
| `vring_workers` | 2 rings with an eventfd each, 2 descriptor numbers, 2 workers without exit event with overlapping masks | `RegistrationMatchesState`, `KickReachesWorker`, `ReadFindsKick`, `KickServed` |
| `vring_disable_race` | 1 ring, 1 worker | `NoKickDiscarded` fails |
| `vring_stop_race` | 1 ring, 1 worker | `HandledOnlyWhileActive` fails |
| `vring_replace_kick` | 1 ring, kick replaced on the fly | `ActiveRingIsRegistered` fails |
| `vring_blocking_kick` | 1 ring, blocking eventfds | `ExitEndsWorker` fails |
| `event_truncation` | a listener id beyond the modulus | `ListenerEventReachesBackend` fails |
| `dirty_log_odd_region` | 1 region of a page and a half | `WritesAreLogged` fails |
| `session_config_error` | 2 threads, a device that refuses GET_CONFIG | `EveryCallReturns` fails |
| `session_vring_index` | 2 threads, 5 rings, of whose index 1 bit is sent | `FdReachesItsRing` fails |
| `kernel_ring_gap` | 2 regions of guest memory with a gap | `ValidRingIsMapped` fails |
| `protocol_components` | see below | 15 properties of the vhost crate's components and of event dispatch |
| `backend_components` | see below | 19 properties of the vhost-user-backend crate's components |

The last two check components that share no state in one run: the variable `component` names the
one that moves, the others stay in one initial state. The state space is the sum of theirs, not the
product (about 326,000 and 288,000 states). Each has one invariant for the types, `TypesOK`;
`DirtyLog` has its own, `LogTypeOK`.
`ProtocolComponents` has the specification of the first, `BackendComponents` that of the second.
Both extend the part modules, each of which has one component's constants, variables, assumption
and properties; a proof about a component extends its part and not the other components.

`protocol_components`:

* `EventDispatch` (5 queues, a mask with gaps and a bit too many, listeners at the boundaries, ids
  modulo 8): events of rings, listeners and the exit event reach the code they are for.
* `Session` (2 threads, every request): `ImplementsRpc`, `CallsReturn`, `NothingElseRefused` (what
  passes the frontend's checks of features passes the backend's, also while a negotiation is on its
  way, but for the two log requests without a counterpart). The frontend negotiates all protocol
  features, all but REPLY_ACK, or none, and any request may be sent behind a SET_FEATURES or
  SET_PROTOCOL_FEATURES that the backend has not read yet.
* `BackendChannel` (2 threads, both channels): `ChannelImplementsRpc` and its part of
  `CallsReturn`.
* `Rendezvous` (2 listeners, 2 frontends, 2 retries): `ConnectReturns`.
* `Endpoint` (2 messages with bodies of 0 or 2 units, all ways to cut them, a peer that leaves
  anywhere): `AcceptedAsSent`, `DisconnectedAtBoundary`. The code's refusal of an invalid header is
  in the model and never taken: between these peers no message is read out of step.
* `Messages` (words at 0 and at the overflow, lengths at the limits): `OnlySoundServed`,
  `SoundNotRefused`.
* `VhostKernel` (two regions with a gap, the second of which ends with the last address, 2 calls):
  `IotlbLayoutAgreed`, `RingsInsideMemory` (a part of a ring neither begins nor ends outside of
  guest memory nor wraps around, and is in one piece unless it ends in another region).

`backend_components`:

* `VringWorkers` (1 ring with 2 eventfds, one of which blocks, 1 worker with exit event):
  `ReadFindsKick`, `DropCompletes`. `TypesOK` includes `IInv`, the invariant of the proofs.
* `Daemon` (2 connections, one thread with handles): `ShutdownIsSuccess`, `EndedMeansShut`,
  `ServeSignalsWorkers` (a `serve` whose connection was started does not go on for ever once the
  frontend is gone, and leaves only when the workers were signalled or the mutex is poisoned),
  `WaitReturns`. `TypesOK` includes the inductive invariant of the proofs.
* `GuestMemory` (3 regions, adjacent and overlapping): `MappingsMatchMemory`, `AddressesAsMeant`,
  `PostcopyCoversMemory`. The first excepts the states after an `update_memory` that failed
  (`torn`), in which guest memory and mappings do disagree until the next memory table: it shows
  that there is no other way to get there and that a table ends it.
* `DirtyLog` (2 regions of 1 and 2 pages, 2 pages in a word, 2 writers, 2 requests with logs of 1 or
  2 words; a write through a slice begins with the last byte of the first page and goes on into the
  next, or, in the smaller region, past the end): no page is lost (`WritesAreLogged`), none
  is marked by mistake (`OnlyWritesAreLogged`), no access leaves the log (`AccessInsideLog`), all
  regions use one log (`OneLogForAll`), old logs are left alone (`OldLogIsQuiet`).
* `VringQueue` (indices modulo 2, 3 buffers, 2 drivers, both locks): `RingResumes`.
* `DeviceLock` (2 workers, request thread, owner, both adapters): `HalfwayDeviceIsLeft`,
  `NobodyWaitsInCircle`.

The runs that fail state what a comment of the code says; `findings` in `PROJECT.json` quotes the
comment and says how the code gets there:

* **Disable race.** A worker has the event of a kick in hand when SET_VRING_ENABLE 0 comes. The
  unregistration cannot recall the event; `read_kick` empties the eventfd, finds the ring disabled
  and drops the event. When the ring is enabled again nothing tells the worker about the buffers.
* **Stop race.** `read_kick` returns, GET_VRING_BASE or SET_VRING_ENABLE 0 runs to its end, and then
  the backend's `handle_event` is called for the stopped ring. A ready queue is required for
  taking buffers, so a stopped ring is not served, but a disabled one is.
* **Replaced kick.** On a started ring SET_VRING_KICK stores the eventfd and does not register it.
* **Blocking kick.** A stale event makes the worker read another, empty eventfd.
* **Truncation.** Listener ids are compared as u64 and dispatched as u16.
* **Odd region.** The pages of a region are counted by rounding down, so the last page of a region
  that ends within a page is never marked.
* **GET_CONFIG refused.** The backend reports the error by a reply without payload; the frontend
  reads until its payload buffer is full, with the mutex held. `protocol_components` therefore has a
  device that does not refuse GET_CONFIG (`ConfigFails`).
* **Ring index.** `send_fd_for_vring` sends the whole index, `handle_vring_fd_request` takes 8 bits of
  it and one more for the flag. An eventfd for ring 512 is installed for ring 0. In the run one bit
  stands for the eight (`FdBit` = 2) and ring 4 for ring 512.
* **Ring across a gap.** Descriptors that begin in one region of guest memory and end in another are
  taken for valid, though nothing is mapped between the two.

Bounds. Two rings and two workers are the least number in which a ring's events can reach a wrong
worker or delay another ring; two eventfds for a ring are needed for a stale event to meet another
eventfd. `vring_workers` has the first, with both rings in the mask of worker 0 and one of them in
that of worker 1; both rings have a kick at a time, and one comes back with its eventfd under
another descriptor number. `backend_components` has the second, with one ring, one worker and the
exit event in every state of the ring. Rings on different workers at the same time are left to the
proofs, which have any number of rings, workers and eventfds. No counter is unbounded: an eventfd's
counter is zero or not. In `DirtyLog` one region ends and the other begins in the same word, and the
second reaches into the next word: writers meet in a word, and a log of one word fits the first
region and not the second. Two requests are needed for an old log. Writes begin at one place only;
the proofs have all offsets and lengths, and all sizes of pages, words and regions.

In `Session` and `BackendChannel` two threads are enough for one to read the other's answer. What a
request in the socket can do to a later one is to change whether it is answered, or to end the
connection; the first takes a negotiation that is not yet served, the second is met with one request
in the socket, too, since requests may be sent until the backend's thread has closed it. Two
connections of a `Daemon` let a handle outlive its connection, and a poisoned mutex meet the next
one. Two messages let an `Endpoint` mix up neighbours. `GuestMemory` has two regions at a time, out of
three. In `VringQueue` more buffers than index values wrap the index. Two calls of `VhostKernel` are
one to negotiate and one to use it; the proofs lift the bound. Deadlock is checked in all runs of
`VringWorkers` but `backend_components`; the other systems may stop: after the last request, hang-up
or bound nothing has to happen.

Fairness. In `VringWorkers`, weak fairness of the request thread's continuation, of the join and of
every worker: a runnable thread runs, and a mutex is not kept from it for ever (no worker holds a
ring's lock except in the read of a kick). Frontend, guest and the owner of the daemon have none.
`DropCompletes` says that a drop under way ends only in "dropped" and is not under way for ever,
unless a worker is in the read of a blocking eventfd that nobody signals (`StuckInRead`, what
`vring_blocking_kick` is about). The others have weak fairness of a
thread that can go on with what it is in:

* `Session`: the thread that serves the connection, and a thread that waits for an answer;
* `BackendChannel`: the frontend's loop around `handle_request`, the display server, and a thread that
  waits;
* `Daemon`: the thread of a connection, a `shutdown` that has begun, and calls of the owner that have
  begun;
* `Rendezvous`: an attempt to connect, and a `drop` that has begun.

Nobody has to make a call, send a request, hang up or bind a listener.

## Proofs

All theorems hold for every value of the constants that satisfies the named assumptions of the
component; TLC evaluates them in the runs. They are: at least one queue, disjoint eventfds per ring
(`VringWorkers`); sizes and addresses that are numbers (`DirtyLog`, `Numbers` of `VhostKernel`,
`Sized` of `VringQueue`, `Numbered` of `Daemon`, `Words` of `Messages`); sizes that are numbers and a
header that is not empty (`Framed` of `Endpoint`); fewer queues than event ids
and a finite mask (`Counted` of `EventDispatch`); regions in which each address of the frontend
names one byte of the guest (`Announced` of `GuestMemory`); no thread with the name that stands for
nobody (`Named` of `DeviceLock`); numbers for indices and limits, and at most
VHOST_USER_MAX_VRINGS queues (`Fitting` of `Session`).

The components of a suite share no state. A theorem about one is stated for the component's own
`Spec`, those about `GuestMemory` for the composition `BackendComponents`. In `BackendProofs` the
lemmas `DaemonRuns`, `GuestMemoryRuns`, ... show that a behaviour of the composition is, seen from
one component, a behaviour of it, so that the theorems of the components hold in it; `TypesHold`
puts them together to `TypesOK` of the backend suite.

`ThreadsProofs`, first half: `TypeCorrect`, then `IInvHolds` for the inductive invariant `IInv`:

* `OwnershipInv`: eventfds, registrations and events stay with their ring and the ring's worker;
* `StartInv`: only a ring with a kick is started, and a kick goes only after the ring was stopped;
* `RegistrationInv`: what is registered is a present kick, registered iff the ring is started and
  enabled, except for the ring whose flags the request thread has just changed;
* `BatchInv`: one event per ring, and its eventfd still has a count;
* `AnnouncedInv`: waiting buffers are announced by the eventfd or are being handled.

None of the three properties is inductive alone: a registration is right after
`update_vring_registration` only if no stale one is left for the same key, which takes
`StartInv`; an event's eventfd stays readable because nobody but the ring's only worker reads it
(`OwnershipInv`), and once per batch (`BatchInv`). `RegistrationIsCorrect`, `WorkersFindTheirKicks`
and `KicksAreAnnounced` follow.

`LogAndEventsProofs`, first part: lemmas on division come first (`LastPage`: the pages of a
region, counted by rounding down, end at or before the page of its last byte). `BitmapInv` (a
bitmap was made for its region and for a log that covers it) gives `NoAccessOutsideLog`, with no
assumption on alignment. `ReplaceInv` (regions before the loop's position have the new log, the
others agree) gives `AllRegionsShareALog`. `OldLogsAreQuiet` is inductive with the types: the lock of
a bitmap keeps it in place while a write is under way. `WriterInv` (a page of a write under way is
logged, or the loop will come to it) gives `NoWriteIsLost`, and `AimInv` (the loop will come to no
other pages) `OnlyWritesMark`; both assume `Aligned`, regions of whole pages, without which
`dirty_log_odd_region` shows the first of them false.

`ThreadsProofs`, second half, for any number of connections and of threads with handles:
`ShutdownIsSuccess` is about the moment of `Join` and needs to know how the thread ended and whose
flag `wait` looks at. `OwnerInv` says that the thread that is joined is the one of `conn_state`;
`ShutInv` that a socket is shut under a running thread only by somebody who has set its flag before,
so that what the thread ends with is no error to `wait`; `StartedInv` and `BacklogInv` that handles,
`conn_state` and listeners hold only connections for which this is so (a listener that is dropped
resets only connections that have no thread). Until the daemon is dropped, that is: `Drop` shuts the
socket without setting the flag, and nobody waits any more. `OwnShutdownIsSuccess` and
`EndedConnectionIsShut` follow.

`GuestMemoryProofs`, for every set of regions: the table of frontend addresses is a sequence that
`set_mem_table` replaces, `add_mem_region` extends and `remove_mem_region` thins out, and the guest
memory is a set; they correspond by the address at which a region is mapped. That correspondence is
kept because no address is used twice (`LocalInv`, and `TableInv`, which bounds the tables so that
there is always a fresh one), and a ring address means what the frontend was acknowledged
(`ToldInv`, as long as no request failed half-way). What `Vec::retain` leaves is a recursive
function, `Select`. The lemma `SelectProperties` is by an induction over data, done in set form: the
set of lengths up to which the function does what is claimed contains 0 and, with each length, the
next. `TablesAgree`, `TranslationIsMeant` and `PostcopyIsComplete` follow.

`StoppedRingResumes` in `LocksProofs`, for every number of index values: `IndexInv` says which of
the copies of an index (ring, guest memory, frontend, request thread) is up to date at which
step of the handlers, and `RequestInv` at which of them a worker may be under way.

`LocksProofs`, for any number of workers: every program that a thread starts is `Orderly`: it
takes a lock of a higher rank than all it holds and gives each back. Every rest of an orderly program
is orderly, so this is kept by each step, an early return included (what `Drop` leaves of a program
is what gives back the locks held). `HeldInv` says that who has a lock has a step ahead that gives
it back, and that readers do so at once. If somebody waits, one who waits for a lock of the
highest rank waits for a thread that does not wait: `LocksAreOrdered`. `HalfwayInv` (a device halfway
through a change has a poisoned lock that nobody has) gives `HalfwayDeviceStaysLeft`.

`SessionProofs`, for any number of threads, any set of features and any number of requests in the
socket. The two ends change their settings at different times: the frontend when it sends a
SET_FEATURES or SET_PROTOCOL_FEATURES, the backend when it serves it. `ProtoInv` and `AckedInv`
therefore speak of the value that will be in force when a request in the socket is served
(`InForce`): the request passes the backend's checks with it (`Allowed`) and is answered with it iff
its sender waits (`AnswerAwaited`). `FeaturesInv` says that this is settled only after a
GET_FEATURES, without which the backend does not ack whatever was negotiated; `CallInv`, `AnswerInv`
and `RequestInv` that one thread waits at a time, that its request is the last and that an answer is
its own. Every method of the frontend is one lemma, and so is every arm of `handle_request`.
`FrontendNotRefused` follows, and `SessionRefinesRpc`: a method is a `Send` of `Rpc`, an
arm a `Serve`, a received answer a `Return`, and all others leave the abstract variables alone.

`EndpointProofs`, for headers and bodies of any size, any number of messages and any way in which
`sendmsg` and `recvmsg` cut them up. A place in the stream is a message and a number of its units
(`After`). `StreamInv` says where everything is between two steps: the buffers in the socket are a
`Stretch`, pieces that follow each other without gap or overlap from the place the receiver has read
to (`ReadTo`) to the place the sender has written to (`SentTo`), each message's descriptors with its
first unit (`SenderInv`, `ReceiverInv`). Neither property is inductive without it: that `recv_data`
completes the message whose header was read takes that what comes next in the socket is its body,
and that there is nothing behind the last message when the peer has left takes both ends. The
proof follows a `recvmsg` through the buffers: `Concat` and `Total`, the folds over the vectors, and
the search of `get_sub_iovs_offset` are recursive functions, so their lemmas (`ConcatUnfolds`,
`TotalUnfolds`, `OffsetUnfolds`, and for the two vectors of a message `RestIsSpan`) are inductions
over data in set form, as above. `Receives` is what one `recvmsg` takes from a stretch and
leaves; `StretchSent` what a `sendmsg` adds. Then there is a lemma per action.
`StreamAcceptedAsSent` and `StreamDisconnectedAtBoundary` follow from `StreamInvariant`.

`LogAndEventsProofs`, last part, about `EventDispatch`: `Below(n)`, the number of mask bits below
`n`, is both what the counting yields (`EvtIdxIsBelow`, by a bijection between a shifted mask and its
upper part) and where the loop puts the ring (`CollectCorrect`). It is at most the ring's index, so
neither the truncation nor the exit id gets in its way: `KickReachesItsRing`. `ReservedInv` (what is
registered with an id above the queue count is the exit event or a listener with that id) gives
`ListenerEventArrives` and `OnlyExitEnds`, for listeners whose data fits an id; `event_truncation`
shows what others meet.

`ProtocolProofs` has three components:

* `BackendChannel`, for any number of threads that share a proxy: `ChannelInv` is the counterpart
  of `Session`'s invariant; both ends agree on REPLY_ACK as long as a proxy is there.
  `ChannelRefinesRpc` follows.
* `Messages`, for every word size above VHOST_USER_CONFIG_SIZE and all numbers and header flags:
  the validators, written with checked additions, say what the fields mean (lemmas from
  `CheckedAdd` to each body), and a request under way is one whose header its sender made
  (`Posted`). `ServedIsSound` and `SoundIsServed` follow from `MessageInv`.
* `VhostKernel`, for any regions wherever they are mapped, any word size and any sequence of calls:
  `PartInside` and `ValidRingInside` are the arithmetic of `is_valid` and the translation,
  `Remembered` says that handle and kernel have the same features. `RingsInside` and `LayoutAgreed`
  follow, and `OneRegionIsMapped`: with a single region every ring that is let through is mapped to
  the last byte, which `kernel_ring_gap` shows false for two.

Only model-checked:

* the liveness properties `KickServed`, `DropCompletes`, `ServeSignalsWorkers`, `CallsReturn`,
  `WaitReturns` and `ConnectReturns`: liveness under fairness is beyond the prover;
* `TypesOK` of the protocol suite, which is proved for `Session`, `BackendChannel` and `Endpoint`
  (`SessionTypes`, and with the invariants behind `ChannelRefinesRpc` and `StreamInvariant`) and not
  for the other components; `Rendezvous` has only a liveness property and no proof.

The strengthened invariants are checked by TLC as well: those of the backend are part of `TypesOK`
of `BackendComponents`, that of `Endpoint` of `TypesOK` of `ProtocolComponents`; the others were
checked on the instances of the runs before they were proved.

## Assumptions that the code does not enforce

The models take the following from the code's users; where the code would do something else, it is
recorded here and not stated as a property, because nothing in the repository says what should
happen.

* `recv_data` makes one `recvmsg`: a body that arrives in two pieces is refused although the rest is
  on its way. `Endpoint` has it so; senders of this crate write small messages with one `sendmsg`.
* The flags of a backend channel are copied when its socket arrives; a later SET_PROTOCOL_FEATURES
  leaves them.
* `Listener::drop` unlinks the path, also when another listener has been bound there since.
* `Listener::new` unlinks and binds in two steps; a frontend that connects in between finds no file,
  and only a refused connection is tried again.
* `set_vring_addr` writes `next_used` while a worker may complete buffers; `VringQueue` assumes none
  in flight then.
* A device that calls `register_listener` in its own `handle_event` waits for itself (`num_queues`).
* `set_group_asid` of vDPA issues the ioctl that asks for the group of a ring
  (`VHOST_VDPA_GET_VRING_GROUP`, `vdpa.rs:267`); the model changes nothing.
* A region that arrives after SET_LOG_BASE has no bitmap, and writes to it are not logged until the
  next SET_LOG_BASE. `DirtyLog` has fixed regions.
* If `start` fails, `serve` returns without signalling the workers.

## Not modelled

* Generated bindings, the dummy backend (a test double), the traits that only declare methods and the
  adapters in `vhost/src/backend.rs` that only forward: there is no state to speak of.
* Structures of the GPU protocol and of in-flight regions, packed layouts, the Xen variants of memory
  regions: data that no property tells apart.
* Failing mmap and clone calls outside of the places where they are named, memory exhaustion, and
  errors of epoll other than `EEXIST` and `ENOENT`.
* Event index and notification flags of a queue, which belong to the virtio-queue crate.
* More than 100 events in one epoll_wait, and masks of 64 queues or more (the shift in
  `handler.rs` overflows there; nothing says how many queues a device may have).
* A device without exit event whose daemon is dropped: `exit_event` is optional, and the join then
  waits for ever; `DropCompletes` is for workers that have one.
