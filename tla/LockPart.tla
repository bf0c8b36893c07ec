------------------------------- MODULE LockPart -------------------------------
(***************************************************************************)
(* The locks between the threads of a daemon and its device (DeviceLock)   *)
(* as a part of the components of the vhost-user-backend crate, and what   *)
(* is promised of them.                                                    *)
(***************************************************************************)
CONSTANT DeviceWorkers

VARIABLES
    lockKind, program, writer, readers, panicked, ended, halfway
-------------------------------------------------------------------------------
P == INSTANCE DeviceLock WITH kind <- lockKind, Workers <- DeviceWorkers

ASSUME LockAssumption == P!Named

lockVars == <<lockKind, program, writer, readers, panicked, ended, halfway>>
-------------------------------------------------------------------------------
\* No thread uses a device that panicked in the middle of a change.
HalfwayDeviceIsLeft == P!HalfwayDeviceIsLeft

\* Request thread, workers and owner do not wait for each other in a circle.
NobodyWaitsInCircle == P!NobodyWaitsInCircle
===============================================================================
