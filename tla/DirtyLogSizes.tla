----------------------------- MODULE DirtyLogSizes -----------------------------
(***************************************************************************)
(* The sizes of the dirty-page log, of the regions it covers and of the    *)
(* writes to them.                                                         *)
(***************************************************************************)
EXTENDS Integers

CONSTANTS
    PageSize,    \* LOG_PAGE_SIZE, bytes of a page
    WordSize,    \* LOG_WORD_SIZE, pages of a word
    MaxAddr,     \* usize::MAX
    NumRegions,  \* regions of the guest memory
    StartAddr,   \* start_addr() of each region
    Length,      \* len() of each region
    Writers,     \* threads that write to guest memory
    MaxLogs,     \* bound on the SET_LOG_BASE requests
    LogLens,     \* mmap_size of the logs the frontend sends, in words
    Offsets,     \* offsets of writes, and of slices
    Lens,        \* lengths of writes
    NoBitmap     \* Option::None

ASSUME SizeAssumption ==
    PageSize \in Nat \ {0} /\ WordSize \in Nat \ {0} /\ MaxAddr \in Nat
ASSUME RegionAssumption ==
    /\ NumRegions \in Nat
    /\ StartAddr \in [1 .. NumRegions -> 0 .. MaxAddr]
    /\ Length \in [1 .. NumRegions -> 0 .. MaxAddr]
ASSUME InputAssumption ==
    /\ MaxLogs \in Nat
    /\ LogLens \subseteq Nat
    /\ Offsets \subseteq 0 .. MaxAddr
    /\ Lens \subseteq 0 .. MaxAddr

Logs == 1 .. MaxLogs

\* AtomicBitmapMmap; logmem is named by the request that mapped it.
AtomicBitmap == [logmem : Logs, pages_before_region : Nat, number_of_pages : Nat]

ASSUME NoBitmapAssumption == NoBitmap \notin AtomicBitmap
================================================================================
