------------------------------ MODULE GuestMemory ------------------------------
(***************************************************************************)
(* The guest memory of a VhostUserHandler and what is derived from it: the *)
(* mappings that translate the frontend's addresses, the addresses of a    *)
(* ring and the ranges that postcopy registers.  One action per request; a *)
(* request that is refused before it changes anything is not a step.       *)
(* SET_LOG_BASE, which gives the regions their bitmaps, is in DirtyLog.    *)
(*                                                                         *)
(* The handler outlives a connection: after an error of update_memory the  *)
(* next frontend finds what the request had changed by then.               *)
(***************************************************************************)
EXTENDS Integers, Sequences, FiniteSets, Functions

CONSTANTS
    Regions,     \* regions a frontend may announce: [gpa, vmm, size], in pages
    VmmAddrs,    \* addresses of the frontend that rings are placed at
    MaxTable     \* bound: regions and mappings at a time

VARIABLES
    mem,         \* atomic_mem: [gpa, size, local] for each region
    mappings,    \* the Vec of AddrMapping
    uffd,        \* is there a userfaultfd?
    told,        \* history: the regions the frontend was acknowledged
    torn,        \* history: update_memory failed after the latest SET_MEM_TABLE
    mistaken,    \* history: addresses that a ring was given wrong
    missed       \* history: regions that a POSTCOPY_LISTEN left out

derived == <<uffd, mistaken, missed>>
memory == <<mem, mappings, told, torn>>
vars == <<memory, derived>>

\* VhostUserHandler::new; the ring as Queue::new makes it.
Init ==
    /\ mem = {} /\ mappings = <<>>
    /\ uffd = FALSE
    /\ told = {} /\ torn = FALSE
    /\ mistaken = {} /\ missed = {}
-------------------------------------------------------------------------------
\* vm-memory: regions are sorted and do not overlap.
Overlap(a, b) == a.gpa < b.gpa + b.size /\ b.gpa < a.gpa + a.size
FromRegions(table) ==
    \A i, j \in DOMAIN table : i < j => table[i].gpa < table[j].gpa /\ ~ Overlap(table[i], table[j])

\* Addresses in this process that a region or a mapping refers to.
InUse == {r.local : r \in mem} \cup {mappings[i].local : i \in DOMAIN mappings}

\* mmap: n of the others.
FreshLocals(n) ==
    LET free == {i \in 1 .. 2 * MaxTable + n : i \notin InUse}
    IN  CHOOSE s \in [1 .. n -> free] : \A i, j \in 1 .. n : s[i] = s[j] => i = j

\* GuestRegionMmap::new.
GuestRegion(r, local) == [gpa |-> r.gpa, size |-> r.size, local |-> local]

AddrMapping(r, local) == [gpa |-> r.gpa, vmm |-> r.vmm, size |-> r.size, local |-> local]

Tables == UNION {[1 .. n -> Regions] : n \in 1 .. MaxTable}

\* The end of the memory requests: if update_memory fails, the memory has been replaced and
\* the mappings have not.
UpdateMemory(new, ok) == mappings' = IF ok THEN new ELSE mappings

set_mem_table(table) ==
    /\ FromRegions(table)
    /\ LET local == FreshLocals(Len(table))
       IN  \E ok \in BOOLEAN :
             /\ mem' = {GuestRegion(table[i], local[i]) : i \in DOMAIN table}
             /\ UpdateMemory([i \in DOMAIN table |-> AddrMapping(table[i], local[i])], ok)
             /\ told' = IF ok THEN Range(table) ELSE told
             /\ torn' = ~ ok
    /\ UNCHANGED derived

add_mem_region(r) ==
    /\ \A s \in mem : ~ Overlap(r, s)
    /\ Cardinality(mem) < MaxTable /\ Len(mappings) < MaxTable
    /\ LET local == FreshLocals(1)
       IN  \E ok \in BOOLEAN :
             /\ mem' = mem \cup {GuestRegion(r, local[1])}
             /\ UpdateMemory(Append(mappings, AddrMapping(r, local[1])), ok)
             /\ told' = IF ok THEN told \cup {r} ELSE told
             /\ torn' = (torn \/ ~ ok)
    /\ UNCHANGED derived

\* The elements of s that are in S, in their order: what Vec::retain keeps.  SelectSeq says the
\* same; this is its definition as a recursive function, which can be reasoned about.
Select(s, S) ==
    LET chosen[i \in 0 .. Len(s)] ==
          IF i = 0 THEN <<>>
          ELSE IF s[i] \in S THEN Append(chosen[i - 1], s[i]) ELSE chosen[i - 1]
    IN  chosen[Len(s)]

\* Mutant: keeps the mapping.
RetainAll(gpa) == mappings

\* mappings.retain.
Retain(gpa) == Select(mappings, {a \in Range(mappings) : a.gpa # gpa})

remove_mem_region(r) ==
    /\ \E s \in mem : s.gpa = r.gpa /\ s.size = r.size
    /\ \E ok \in BOOLEAN :
          /\ mem' = {s \in mem : s.gpa # r.gpa}
          /\ UpdateMemory(Retain(r.gpa), ok)
          /\ told' = IF ok THEN {s \in told : s.gpa # r.gpa} ELSE told
          /\ torn' = (torn \/ ~ ok)
    /\ UNCHANGED derived
-------------------------------------------------------------------------------
(* Rings *)

\* Mutant: takes the address after the last one for an address of the mapping.
InMappingOrNext(a, va) == va >= a.vmm /\ va <= a.vmm + a.size

InMapping(a, va) == va >= a.vmm /\ va < a.vmm + a.size

Translatable(va) == \E i \in DOMAIN mappings : InMapping(mappings[i], va)

\* vmm_va_to_gpa: the first mapping counts.
VmmVaToGpa(va) ==
    LET hits == {i \in DOMAIN mappings : InMapping(mappings[i], va)}
        first == mappings[CHOOSE i \in hits : \A j \in hits : i <= j]
    IN  va - first.vmm + first.gpa

\* What the frontend means by an address.
Meant(va) == {va - r.vmm + r.gpa : r \in {s \in told : va >= s.vmm /\ va < s.vmm + s.size}}

\* set_vring_addr: all three addresses are translated, then the first n pass the alignment
\* checks of set_queue_info and are installed.
set_vring_addr(d, a, u) ==
    /\ mappings # <<>>
    /\ Translatable(d) /\ Translatable(a) /\ Translatable(u)
    /\ LET wrong(n) == {v \in Range(SubSeq(<<d, a, u>>, 1, n)) : Meant(v) # {VmmVaToGpa(v)}}
       IN  mistaken' \in {mistaken \cup IF torn THEN {} ELSE wrong(n) : n \in 0 .. 3}
    /\ UNCHANGED <<memory, uffd, missed>>
-------------------------------------------------------------------------------
(* Postcopy *)

\* postcopy_advice creates a userfaultfd, postcopy_end closes it.
postcopy_advice == uffd' = TRUE /\ UNCHANGED <<memory, mistaken, missed>>
postcopy_end == uffd' = FALSE /\ UNCHANGED <<memory, mistaken, missed>>

\* Mutant: stops before the last mapping.
RegisteredButLast == {mappings[i].local : i \in 1 .. Len(mappings) - 1}

\* The ranges that the loop of postcopy_listen registers.
Registered == {mappings[i].local : i \in DOMAIN mappings}

postcopy_listen ==
    /\ uffd
    /\ missed' = missed \cup (IF torn THEN {} ELSE {r.gpa : r \in {s \in mem : s.local \notin Registered}})
    /\ UNCHANGED <<memory, uffd, mistaken>>

Next ==
    \/ \E t \in Tables : set_mem_table(t)
    \/ \E r \in Regions : add_mem_region(r) \/ remove_mem_region(r)
    \/ \E d, u \in VmmAddrs : set_vring_addr(d, d, u)
    \/ postcopy_advice \/ postcopy_listen \/ postcopy_end

Spec == Init /\ [][Next]_vars
-------------------------------------------------------------------------------
\* Types of the state.
TypeOK ==
    /\ mem \subseteq [gpa : Nat, size : Nat \ {0}, local : Nat]
    /\ mappings \in Seq([gpa : Nat, vmm : Nat, size : Nat \ {0}, local : Nat])
    /\ uffd \in BOOLEAN /\ torn \in BOOLEAN
    /\ told \subseteq Regions /\ mistaken \subseteq VmmAddrs /\ missed \subseteq Nat

\* The mappings name exactly the regions of the guest memory, and where they are mapped in
\* this process, whatever memory tables, additions and removals came before and whichever of
\* them were refused; unless update_memory failed since the latest memory table.
MappingsMatchMemory ==
    torn \/ {[gpa |-> a.gpa, size |-> a.size, local |-> a.local] : a \in Range(mappings)} = mem

\* SET_VRING_ADDR installs the guest addresses that the frontend means, by the regions it
\* has been acknowledged.
AddressesAsMeant == mistaken = {}

\* POSTCOPY_LISTEN registers all of the guest memory.
PostcopyCoversMemory == missed = {}
-------------------------------------------------------------------------------
(* The inductive invariant of GuestMemoryProofs. *)

\* The frontend's own addresses name one byte of the guest each, in all its regions.
RegionsAgree ==
    /\ Regions \subseteq [gpa : Nat, vmm : Nat, size : Nat \ {0}]
    /\ \A r, s \in Regions : r.vmm < s.vmm + s.size /\ s.vmm < r.vmm + r.size =>
          r.gpa - r.vmm = s.gpa - s.vmm

\* What GuestMemoryProofs assumes of the constants.
Announced == RegionsAgree /\ VmmAddrs \subseteq Nat /\ MaxTable \in Nat

\* The tables have their bounds: there is always another address to map a region at.
TableInv ==
    /\ IsFiniteSet(mem) /\ Cardinality(mem) <= MaxTable
    /\ Len(mappings) <= MaxTable

\* No two regions are mapped at one address.
LocalInv == \A r, s \in mem : r.local = s.local => r = s

\* The mappings are the regions that the frontend was acknowledged.
ToldInv ==
    torn \/ {[gpa |-> a.gpa, vmm |-> a.vmm, size |-> a.size] : a \in Range(mappings)} = told

IInv ==
    /\ TypeOK /\ TableInv /\ LocalInv /\ ToldInv
    /\ MappingsMatchMemory /\ AddressesAsMeant /\ PostcopyCoversMemory
================================================================================
