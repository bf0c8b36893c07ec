-------------------------- MODULE BackendComponents --------------------------
(***************************************************************************)
(* The components of the vhost-user-backend crate in one specification:    *)
(* the rings and workers, the daemon, guest memory, its dirty log, the     *)
(* queue of a ring and the locks.  They share no state: a behaviour is one *)
(* of the component that the variable component names; the others stay in  *)
(* their initial states, in which nothing that fairness is assumed for can *)
(* happen.                                                                 *)
(***************************************************************************)
EXTENDS VringWorkers, DaemonPart, LogPart, QueuePart, LockPart

CONSTANTS
    Components,  \* those that are looked at
    \* GuestMemory
    Regions, VmmAddrs, MaxTable

VARIABLES
    component,
    \* GuestMemory
    mem, mappings, uffd, told, torn, mistaken, missed
-------------------------------------------------------------------------------
\* GuestMemory, with the theorems about it.
G == INSTANCE GuestMemoryProofs

ASSUME MemoryAssumption == G!Announced

ASSUME ComponentsAssumption ==
    Components \subseteq {"VringWorkers", "Daemon", "GuestMemory", "DirtyLog", "VringQueue",
                          "DeviceLock"}
-------------------------------------------------------------------------------
memoryVars == <<mem, mappings, uffd, told, torn, mistaken, missed>>

allVars == <<component, vars, daemonVars, memoryVars, dirtyVars, queueVars, lockVars>>

ComponentsInit ==
    /\ component \in Components
    /\ Init /\ D!Init /\ G!Init /\ L!Init /\ Q!Init /\ P!Init
    /\ component # "VringQueue" => lock = "mutex"
    /\ component # "DeviceLock" => lockKind = "Mutex"

\* What stays as it is while a component takes a step.
Others ==
    /\ component # "VringWorkers" => UNCHANGED vars
    /\ component # "Daemon" => UNCHANGED daemonVars
    /\ component # "GuestMemory" => UNCHANGED memoryVars
    /\ component # "DirtyLog" => UNCHANGED dirtyVars
    /\ component # "VringQueue" => UNCHANGED queueVars
    /\ component # "DeviceLock" => UNCHANGED lockVars
    /\ UNCHANGED component

ComponentsNext ==
    \/ component = "VringWorkers" /\ Next /\ Others
    \/ component = "Daemon" /\ D!Next /\ Others
    \/ component = "GuestMemory" /\ G!Next /\ Others
    \/ component = "DirtyLog" /\ L!Next /\ Others
    \/ component = "VringQueue" /\ Q!Next /\ Others
    \/ component = "DeviceLock" /\ P!Next /\ Others

ComponentsSpec ==
    /\ ComponentsInit /\ [][ComponentsNext]_allVars
    /\ Fairness /\ D!Fairness
-------------------------------------------------------------------------------
\* The types of the components (LogTypeOK for the dirty log), with the inductive invariants that
\* the proofs about them use: what threads, tables and locks know of each other between two
\* steps.
TypesOK ==
    /\ component = "VringWorkers" => TypeOK /\ IInv
    /\ component = "Daemon" =>
          D!TypeOK /\ D!BacklogInv /\ D!StartedInv /\ D!OwnerInv /\ D!ShutInv
    /\ component = "GuestMemory" => G!TypeOK /\ G!TableInv /\ G!LocalInv /\ G!ToldInv
    /\ component = "VringQueue" => Q!ResumeInv
    /\ component = "DeviceLock" => P!LockInv

\* Guest memory and the table of frontend addresses describe the same regions.
MappingsMatchMemory == G!MappingsMatchMemory

\* A ring is placed where the frontend's table of regions puts its address.
AddressesAsMeant == G!AddressesAsMeant

\* POSTCOPY_LISTEN registers every region that is mapped.
PostcopyCoversMemory == G!PostcopyCoversMemory
===============================================================================
