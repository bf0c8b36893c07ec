----------------------------- MODULE EventDispatch -----------------------------
(***************************************************************************)
(* From a registration to the code that handles its event, for one worker  *)
(* thread: VhostUserHandler::new collects the thread's rings by the 1 bits *)
(* of its mask, update_vring_registration numbers the kick of a ring by    *)
(* counting bits, backends register events of their own under any larger   *)
(* u64, and VringEpollHandler::run cuts the number down to a u16 before    *)
(* handle_event decides between the exit event, a ring and the backend.    *)
(***************************************************************************)
EXTENDS Integers, Sequences, FiniteSets

CONSTANTS
    NumQueues,     \* backend.num_queues()
    Mask,          \* the 1 bits of the thread's entry in queues_per_thread
    HasExit,       \* is backend.exit_event() Some?
    EventMod,      \* 2^16: an event id is a u16
    ListenerData   \* the u64 the backend registers its own events under

Rings == 0 .. NumQueues - 1

\* A ring event id fits in a u16.
Counted ==
    /\ NumQueues \in Nat /\ EventMod \in Nat /\ NumQueues < EventMod
    /\ Mask \subseteq Nat /\ IsFiniteSet(Mask)
    /\ ListenerData \subseteq Nat /\ HasExit \in BOOLEAN

VARIABLES
    index,         \* the loop over vrings.iter().enumerate()
    thread_vrings, \* the rings of the thread, VringEpollHandler.vrings
    registered,    \* epoll: what is registered, under which data
    handled        \* the last event and what was called for it

vars == <<index, thread_vrings, registered, handled>>

Source == [kind : {"ring"}, id : Rings] \cup [kind : {"exit"}, id : {NumQueues}]
              \cup [kind : {"listener"}, id : ListenerData]
None == [kind |-> "none", id |-> 0]

TypeOK ==
    /\ index \in 0 .. NumQueues
    /\ thread_vrings \in Seq(Rings)
    /\ registered \subseteq [source : Source, data : Nat]
    /\ handled \in [source : Source \cup {None},
                    target : [kind : {"none", "ring", "exit", "listener"}, id : Nat]]

Init ==
    /\ index = 0
    /\ thread_vrings = <<>>
    /\ registered = {}
    /\ handled = [source |-> None, target |-> None]
-------------------------------------------------------------------------------
\* The loop of VhostUserHandler::new.
CollectVring ==
    /\ index < NumQueues
    /\ thread_vrings' = IF index \in Mask THEN Append(thread_vrings, index)
                                          ELSE thread_vrings
    /\ index' = index + 1
    /\ UNCHANGED <<registered, handled>>

Collected == index = NumQueues

\* mask >> n, and count_ones.
ShiftRight(mask, n) == {b - n : b \in {c \in mask : c >= n}}

\* Mutant: counts the ring's own bit.
EvtIdxFromOne(q) == Cardinality(Mask) - Cardinality(ShiftRight(Mask, q + 1))

\* evt_idx of update_vring_registration.
EvtIdx(q) == Cardinality(Mask) - Cardinality(ShiftRight(Mask, q))

Register(source, data) ==
    /\ registered' = registered \cup {[source |-> source, data |-> data]}
    /\ UNCHANGED <<index, thread_vrings, handled>>

\* update_vring_registration for a ring of this thread, register_event.
RegisterVring(q) ==
    /\ Collected
    /\ q \in Mask
    /\ Register([kind |-> "ring", id |-> q], EvtIdx(q))

\* update_vring_registration, unregister_event.
UnregisterVring(q) ==
    /\ Collected
    /\ registered' = {r \in registered : r.source # [kind |-> "ring", id |-> q]}
    /\ UNCHANGED <<index, thread_vrings, handled>>

\* VringEpollHandler::new.
RegisterExitEvent ==
    /\ Collected
    /\ HasExit
    /\ Register([kind |-> "exit", id |-> NumQueues], NumQueues)

\* Mutant: the id of the exit event is not reserved.
ReservedOffByOne(data) == data < NumQueues

\* The ids that register_listener and unregister_listener refuse.
Reserved(data) == data <= NumQueues

RegisterListener(data) ==
    /\ Collected
    /\ ~ Reserved(data)
    /\ Register([kind |-> "listener", id |-> data], data)

UnregisterListener(data) ==
    /\ Collected
    /\ ~ Reserved(data)
    /\ registered' = {r \in registered : r.source # [kind |-> "listener", id |-> data]}
    /\ UNCHANGED <<index, thread_vrings, handled>>

\* What handle_event does with an event id: end the loop, read the kick of a ring and
\* pass the id on, or just pass it on to the backend.
HandleEvent(device_event) ==
    IF HasExit /\ device_event = NumQueues THEN [kind |-> "exit", id |-> NumQueues]
    ELSE IF device_event < Len(thread_vrings)
    THEN [kind |-> "ring", id |-> thread_vrings[device_event + 1]]
    ELSE [kind |-> "listener", id |-> device_event]

\* run: an event of the batch, unless the exit event has ended the loop.
Dispatch(r) ==
    /\ Collected
    /\ handled.target.kind # "exit"
    /\ r \in registered
    /\ handled' = [source |-> r.source, target |-> HandleEvent(r.data % EventMod)]
    /\ UNCHANGED <<index, thread_vrings, registered>>

Next ==
    \/ CollectVring
    \/ \E q \in Rings : RegisterVring(q) \/ UnregisterVring(q)
    \/ RegisterExitEvent
    \/ \E data \in ListenerData : RegisterListener(data) \/ UnregisterListener(data)
    \/ \E r \in registered : Dispatch(r)

Spec == Init /\ [][Next]_vars
-------------------------------------------------------------------------------
\* The kick of a ring makes the worker read that ring's kick: the number that
\* update_vring_registration gets by counting mask bits is the position at which
\* VhostUserHandler::new pushed the ring.
RingEventReachesItsRing ==
    handled.source.kind = "ring" => handled.target = handled.source

\* The exit event, and no other, ends the loop.
OnlyExitEventEndsLoop ==
    handled.source # None =>
        (handled.source.kind = "exit" <=> handled.target.kind = "exit")

\* "When this event is later triggered, the backend implementation of `handle_event`
\* will be called": with the number it was registered under, and no ring's kick is read.
ListenerEventReachesBackend ==
    handled.source.kind = "listener" => handled.target = handled.source
-------------------------------------------------------------------------------
(* The inductive invariants of LogAndEventsProofs. *)

\* How many bits of the mask are below bit n.
Below(n) == Cardinality({b \in Mask : b < n})

\* The rings collected so far sit at the number of mask bits below them.
CollectInv ==
    /\ Len(thread_vrings) = Below(index)
    /\ \A q \in Mask : q < index => thread_vrings[Below(q) + 1] = q

RegisteredInv ==
    /\ \A r \in registered : r.source.kind = "ring" =>
          \E q \in Mask \cap Rings :
             r = [source |-> [kind |-> "ring", id |-> q], data |-> EvtIdx(q)]
    /\ registered # {} => Collected

\* The exit event and the backend's own events keep their numbers to themselves.
ReservedInv ==
    \A r \in registered :
        \/ r.source.kind = "ring"
        \/ HasExit /\ r = [source |-> [kind |-> "exit", id |-> NumQueues], data |-> NumQueues]
        \/ \E d \in ListenerData : /\ ~ Reserved(d)
                                   /\ r = [source |-> [kind |-> "listener", id |-> d], data |-> d]
===============================================================================
