----------------------------- MODULE MCVhostKernel -----------------------------
(* An instance of VhostKernel for TLC: guest memory with a gap. *)
EXTENDS VhostKernel

TwoRegions == {[start |-> 4, len |-> 36, host |-> 100], [start |-> 48, len |-> 16, host |-> 200]}

\* The descriptor table at the start of the memory, or close to the gap.
RingConfigs ==
    [size : {1, 2}, desc : {4, 34}, avail : {4}, used : {4}, flag : {FALSE}, log_addr : {-1}]
================================================================================
