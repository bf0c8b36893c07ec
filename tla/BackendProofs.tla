----------------------------- MODULE BackendProofs -----------------------------
(***************************************************************************)
(* Proofs about the components of the vhost-user-backend crate, for every  *)
(* value of their constants.  A behaviour of ComponentsSpec is, for each   *)
(* component, a behaviour of that component, so that what holds of the     *)
(* component holds here.                                                   *)
(***************************************************************************)
EXTENDS BackendComponents, ThreadsProofs, LocksProofs

\* A behaviour of the components is one of Daemon.
LEMMA DaemonRuns == ComponentsSpec => D!Spec
  <1>1. ComponentsInit => D!Init
    BY Zenon DEF ComponentsInit
  <1>2. [ComponentsNext]_allVars => [D!Next]_(D!vars)
    <2>1. UNCHANGED daemonVars => UNCHANGED D!vars
      BY ZenonT(40) DEF daemonVars, D!vars, D!peers, D!conns, D!loops, D!daemon, D!rest
    <2> QED
      BY <2>1, Zenon DEF ComponentsNext, Others, allVars
  <1> QED
    BY <1>1, <1>2, PTL DEF ComponentsSpec, D!Spec

\* A behaviour of the components is one of GuestMemory.
LEMMA GuestMemoryRuns == ComponentsSpec => G!Spec
  <1>1. ComponentsInit => G!Init
    BY Zenon DEF ComponentsInit
  <1>2. [ComponentsNext]_allVars => [G!Next]_(G!vars)
    <2>1. UNCHANGED memoryVars => UNCHANGED G!vars
      BY ZenonT(40) DEF memoryVars, G!vars, G!memory, G!derived
    <2> QED
      BY <2>1, Zenon DEF ComponentsNext, Others, allVars
  <1> QED
    BY <1>1, <1>2, PTL DEF ComponentsSpec, G!Spec

\* A behaviour of the components is one of VringQueue.
LEMMA VringQueueRuns == ComponentsSpec => Q!Spec
  <1>1. ComponentsInit => Q!Init
    BY Zenon DEF ComponentsInit
  <1>2. [ComponentsNext]_allVars => [Q!Next]_(Q!vars)
    <2>1. UNCHANGED queueVars => UNCHANGED Q!vars
      BY ZenonT(40) DEF queueVars, Q!vars, Q!request, Q!frontend, Q!guest
    <2> QED
      BY <2>1, Zenon DEF ComponentsNext, Others, allVars
  <1> QED
    BY <1>1, <1>2, PTL DEF ComponentsSpec, Q!Spec

\* A behaviour of the components is one of DeviceLock.
LEMMA DeviceLockRuns == ComponentsSpec => P!Spec
  <1>1. ComponentsInit => P!Init
    BY Zenon DEF ComponentsInit
  <1>2. [ComponentsNext]_allVars => [P!Next]_(P!vars)
    <2>1. UNCHANGED lockVars => UNCHANGED P!vars
      BY ZenonT(40) DEF lockVars, P!vars
    <2> QED
      BY <2>1, Zenon DEF ComponentsNext, Others, allVars
  <1> QED
    BY <1>1, <1>2, PTL DEF ComponentsSpec, P!Spec

-------------------------------------------------------------------------------
(* Guest memory *)

\* Guest memory and the table of frontend addresses describe the same regions (handler.rs,
\* set_mem_table, add_mem_region, remove_mem_region), for every set of regions.
THEOREM TablesAgree == ComponentsSpec => []MappingsMatchMemory
  <1>1. G!IInv => MappingsMatchMemory
    BY ZenonT(40) DEF G!IInv, MappingsMatchMemory
  <1> QED
    BY <1>1, GuestMemoryRuns, MemoryAssumption, G!MemoryInvariant, PTL

\* A ring is placed where the frontend means (vmm_va_to_gpa), whenever the frontend's own
\* addresses name one byte of the guest each.
THEOREM TranslationIsMeant == ComponentsSpec => []AddressesAsMeant
  <1>1. G!IInv => AddressesAsMeant
    BY ZenonT(40) DEF G!IInv, AddressesAsMeant
  <1> QED
    BY <1>1, GuestMemoryRuns, MemoryAssumption, G!MemoryInvariant, PTL

\* postcopy_listen leaves out no region of guest memory.
THEOREM PostcopyIsComplete == ComponentsSpec => []PostcopyCoversMemory
  <1>1. G!IInv => PostcopyCoversMemory
    BY Zenon DEF G!IInv, PostcopyCoversMemory
  <1> QED
    BY <1>1, GuestMemoryRuns, MemoryAssumption, G!MemoryInvariant, PTL
-------------------------------------------------------------------------------
(* All of them *)

\* A behaviour of the components is one of VringWorkers.
LEMMA VringWorkersRuns == ComponentsSpec => Spec
  <1>1. ComponentsInit => Init
    BY Zenon DEF ComponentsInit
  <1>2. [ComponentsNext]_allVars => [Next]_vars
    BY ZenonT(40) DEF ComponentsNext, Others, allVars
  <1> QED
    BY <1>1, <1>2, PTL DEF ComponentsSpec, Spec

\* The component of a behaviour does not change.
LEMMA OneComponent == ComponentsSpec => [](component \in Components)
  <1>1. ComponentsInit => component \in Components
    BY Zenon DEF ComponentsInit
  <1>2. component \in Components /\ [ComponentsNext]_allVars => (component \in Components)'
    BY ZenonT(40) DEF ComponentsNext, Others, allVars
  <1> QED
    BY <1>1, <1>2, PTL DEF ComponentsSpec

\* Every component keeps its state within its types, and within what its threads, tables and
\* locks know of each other between two steps.
THEOREM TypesHold == ComponentsSpec => []TypesOK
  <1>1. ASSUME component \in Components, TypeOK, IInv, D!IInv, G!IInv, Q!ResumeInv, P!LockInv
        PROVE  TypesOK
    <2>1. /\ D!TypeOK /\ D!BacklogInv /\ D!StartedInv /\ D!OwnerInv /\ D!ShutInv
          /\ G!TypeOK /\ G!TableInv /\ G!LocalInv /\ G!ToldInv
      BY <1>1, Zenon DEF D!IInv, G!IInv
    <2> QED
      BY <1>1, <2>1, ComponentsAssumption, Zenon DEF TypesOK
  <1>2. D!Spec => []D!IInv
    BY Inductive, DaemonAssumption, Zenon
  <1>3. G!Spec => []G!IInv
    BY G!MemoryInvariant, MemoryAssumption, Zenon
  <1>4. P!Spec => []P!LockInv
    BY LockInvariant, LockAssumption, Zenon
  <1> QED
    BY <1>1, <1>2, <1>3, <1>4, OneComponent, TypeCorrect, IInvHolds, ResumeInvariant,
       VringWorkersRuns, DaemonRuns, GuestMemoryRuns, VringQueueRuns, DeviceLockRuns, PTL
-------------------------------------------------------------------------------
================================================================================
