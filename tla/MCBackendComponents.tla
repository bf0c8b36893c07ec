------------------------- MODULE MCBackendComponents -------------------------
(* Small instances of the components of the vhost-user-backend crate for TLC. *)
EXTENDS BackendComponents, MCVringWorkers

CONSTANTS t1, t2, s1, w1, w2

\* Two regions side by side, and one that overlaps the first in the guest's memory.
ThreeRegions ==
    {[gpa |-> 1, vmm |-> 11, size |-> 2], [gpa |-> 3, vmm |-> 13, size |-> 1],
     [gpa |-> 1, vmm |-> 20, size |-> 1]}

\* For the dirty log: page 0, and pages 1 and 2, so that the regions share the first word.
AlignedStart  == <<0, 3>>
AlignedLength == <<3, 6>>
===============================================================================
