----------------------------- MODULE DispatchPart -----------------------------
(***************************************************************************)
(* The dispatch of events to rings, backend and exit (EventDispatch) as a  *)
(* part of a specification, and what is promised of it.                    *)
(***************************************************************************)
CONSTANTS EventQueues, Mask, HasExit, EventMod, ListenerData

VARIABLES
    index, thread_vrings, registered, handled
-------------------------------------------------------------------------------
V == INSTANCE EventDispatch WITH NumQueues <- EventQueues

ASSUME DispatchAssumption == V!Counted

dispatchVars == <<index, thread_vrings, registered, handled>>
-------------------------------------------------------------------------------
\* The kick of a ring makes the worker read that ring's kick.
RingEventReachesItsRing == V!RingEventReachesItsRing

\* The exit event, and no other, ends the loop of a worker.
OnlyExitEventEndsLoop == V!OnlyExitEventEndsLoop

\* A backend gets its own events under the numbers it registered them with.
ListenerEventReachesBackend == V!ListenerEventReachesBackend
===============================================================================
