------------------------------ MODULE QueuePart ------------------------------
(***************************************************************************)
(* The queue of a ring (VringQueue) as a part of the components of the     *)
(* vhost-user-backend crate, and what is promised of it.                   *)
(***************************************************************************)
CONSTANTS IdxMod, MaxQueueSize, Sizes, MaxBuffers, MaxDrivers

VARIABLES
    lock, guard, ring, pc, idx, saved, config, ringMem, taken, completed, drivers
-------------------------------------------------------------------------------
Q == INSTANCE VringQueue WITH mem <- ringMem

ASSUME QueueAssumption == Q!Sized

queueVars == <<lock, guard, ring, pc, idx, saved, config, ringMem, taken, completed, drivers>>
-------------------------------------------------------------------------------
\* A ring that was stopped goes on where it was.
RingResumes == Q!RingResumes
===============================================================================
