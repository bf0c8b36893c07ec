------------------------------- MODULE DirtyLog -------------------------------
(***************************************************************************)
(* The dirty-page log of a live migration.  SET_LOG_BASE maps log memory   *)
(* of the frontend and gives every memory region a bitmap into it, while   *)
(* threads of the backend write to guest memory and mark the pages they    *)
(* touch, one atomic fetch_or per page, with the region's bitmap locked    *)
(* for reading.  The frontend takes words out of the log as it pleases and *)
(* reads them as guest addresses: bit n stands for guest page n.           *)
(***************************************************************************)
EXTENDS DirtyLogSizes, FiniteSets

RegionIds == 1 .. NumRegions

VARIABLES
    requests,  \* SET_LOG_BASE requests so far: the last log mapped
    length,    \* MmapLogReg.len of each log
    dirty,     \* bits set in the logs
    inner,     \* BitmapMmapRegion.inner of each region
    next,      \* the region whose bitmap set_log_base replaces next, 0 when it is done
    writer,    \* where each writer is in mark_dirty
    fetched,   \* history: pages the frontend found in a log
    begun,     \* history: pages touched by writes that have begun
    finished   \* history: pages touched by writes that are over

logVars == <<requests, length, inner, next>>
history == <<begun, finished>>
vars == <<logVars, dirty, writer, fetched, history>>

\* A page of guest memory, as the log tells it: a log and a guest page number.
LoggedPage == [logmem : Logs, page : Nat]

NoWrite == [active |-> FALSE, region |-> 0, page |-> 0, last |-> 0, pages |-> {}]

TypeOK ==
    /\ requests \in 0 .. MaxLogs
    /\ length \in [Logs -> Nat]
    /\ dirty \subseteq [logmem : Logs, word : Nat, bit : 0 .. WordSize - 1]
    /\ inner \in [RegionIds -> AtomicBitmap \cup {NoBitmap}]
    /\ next \in 0 .. NumRegions
    /\ next # 0 => requests # 0
    /\ writer \in [Writers -> [active : BOOLEAN, region : 0 .. NumRegions, page : Nat,
                               last : Nat, pages : SUBSET LoggedPage]]
    /\ \A w \in Writers : writer[w].active =>
          writer[w].region \in RegionIds /\ inner[writer[w].region] # NoBitmap
    /\ fetched \subseteq LoggedPage
    /\ begun \subseteq LoggedPage
    /\ finished \subseteq LoggedPage

Init ==
    /\ requests = 0
    /\ length = [l \in Logs |-> 0]
    /\ dirty = {}
    /\ inner = [r \in RegionIds |-> NoBitmap]
    /\ next = 0
    /\ writer = [w \in Writers |-> NoWrite]
    /\ fetched = {}
    /\ begun = {}
    /\ finished = {}
-------------------------------------------------------------------------------
(* Pages, words and bits. *)

page_number(addr) == addr \div PageSize
page_word(page)   == page \div WordSize
page_bit(page)    == page % WordSize

saturating_add(a, b) == IF a + b > MaxAddr THEN MaxAddr ELSE a + b

\* Mutant: compares the number of the log's words with the first page of the region.
FitsFirstPage(r, len) == Length[r] # 0 /\ page_word(page_number(StartAddr[r])) < len

\* AtomicBitmapMmap::new succeeds: the last byte of the region has its bit in the log.
Fits(r, len) ==
    /\ Length[r] # 0
    /\ StartAddr[r] + (Length[r] - 1) <= MaxAddr
    /\ page_word(page_number(StartAddr[r] + (Length[r] - 1))) < len

NewBitmap(r, l) ==
    [logmem |-> l,
     pages_before_region |-> page_number(StartAddr[r]),
     number_of_pages |-> page_number(Length[r])]

\* A writer of the region holds the read lock of its bitmap.
ReadLocked(r) == \E w \in Writers : writer[w].active /\ writer[w].region = r
-------------------------------------------------------------------------------
(* set_log_base, in the request thread. *)

Idle == next = 0

\* MmapLogReg::from_file, and a bitmap for every region before any is replaced.
SetLogBase(len) ==
    /\ Idle
    /\ requests < MaxLogs
    /\ requests' = requests + 1
    /\ length' = [length EXCEPT ![requests + 1] = len]
    /\ next' = IF NumRegions > 0 /\ \A r \in RegionIds : Fits(r, len) THEN 1 ELSE 0
    /\ UNCHANGED <<dirty, inner, writer, fetched, history>>

\* Mutant: the bitmap is replaced under the feet of its readers.
ReplaceAtOnce ==
    /\ ~ Idle
    /\ inner' = [inner EXCEPT ![next] = NewBitmap(next, requests)]
    /\ next' = IF next < NumRegions THEN next + 1 ELSE 0
    /\ UNCHANGED <<requests, length, dirty, writer, fetched, history>>

\* Mutant: the loop over the regions runs once too often.
ReplaceOnePast ==
    /\ next \in RegionIds
    /\ ~ ReadLocked(next)
    /\ inner' = [inner EXCEPT ![next] = NewBitmap(next, requests)]
    /\ next' = IF next <= NumRegions THEN next + 1 ELSE 0
    /\ UNCHANGED <<requests, length, dirty, writer, fetched, history>>

\* Mutant: the bitmaps of the regions after the first are forgotten.
ReplaceFirst ==
    /\ ~ Idle
    /\ ~ ReadLocked(next)
    /\ inner' = [inner EXCEPT ![next] = NewBitmap(next, requests)]
    /\ next' = 0
    /\ UNCHANGED <<requests, length, dirty, writer, fetched, history>>

\* BitmapMmapRegion::replace of one region after the other, under its write lock.
Replace ==
    /\ ~ Idle
    /\ ~ ReadLocked(next)
    /\ inner' = [inner EXCEPT ![next] = NewBitmap(next, requests)]
    /\ next' = IF next < NumRegions THEN next + 1 ELSE 0
    /\ UNCHANGED <<requests, length, dirty, writer, fetched, history>>
-------------------------------------------------------------------------------
(* The writers. *)

\* slice_at: the bitmap of a part of the region, which remembers its base address.
SliceAt(base, offset) == saturating_add(base, offset)

\* The guest pages with a byte of the region between two offsets, in log l: what the
\* frontend has to learn.
TouchedPages(r, first, last, l) ==
    {[logmem |-> l, page |-> p] :
        p \in {page_number(StartAddr[r] + b) : b \in {c \in first .. last : c < Length[r]}}}

\* mark_dirty, as far as the first page: nothing happens without a bitmap, for an
\* address that overflows and for an empty range.
BeginMark(w, r, base, offset, len) ==
    LET first == base + offset
        last  == saturating_add(first, len - 1)
    IN  /\ ~ writer[w].active
        /\ inner[r] # NoBitmap
        /\ first <= MaxAddr
        /\ len # 0
        /\ writer' = [writer EXCEPT ![w] =
               [active |-> TRUE, region |-> r,
                page |-> page_number(first), last |-> page_number(last),
                pages |-> TouchedPages(r, first, last, inner[r].logmem)]]
        /\ begun' = begun \cup writer'[w].pages
        /\ UNCHANGED <<logVars, dirty, fetched, finished>>

\* Mutant: the end of the region does not stop the loop.
InLoopToLast(w) == writer[w].page <= writer[w].last

\* The loop of mark_dirty goes on: there is a page left, and the region has it.
InLoop(w) == writer[w].page <= writer[w].last
                /\ writer[w].page < inner[writer[w].region].number_of_pages

\* The bit of a page of region r.
PageBit(r, page) ==
    LET absolute == inner[r].pages_before_region + page
    IN  [logmem |-> inner[r].logmem, word |-> page_word(absolute), bit |-> page_bit(absolute)]

\* Mutant: a store of the word instead of fetch_or.
StoreBit(b) == {c \in dirty : c.logmem # b.logmem \/ c.word # b.word} \cup {b}

FetchOr(b) == dirty \cup {b}

MarkPage(w) ==
    /\ writer[w].active
    /\ InLoop(w)
    /\ dirty' = FetchOr(PageBit(writer[w].region, writer[w].page))
    /\ writer' = [writer EXCEPT ![w].page = @ + 1]
    /\ UNCHANGED <<logVars, fetched, history>>

EndMark(w) ==
    /\ writer[w].active
    /\ ~ InLoop(w)
    /\ finished' = finished \cup writer[w].pages
    /\ writer' = [writer EXCEPT ![w] = NoWrite]
    /\ UNCHANGED <<logVars, dirty, fetched, begun>>

\* dirty_at: does the bitmap say that the byte at offset was written?
dirty_at(r, offset) ==
    /\ inner[r] # NoBitmap
    /\ page_number(offset) < inner[r].number_of_pages
    /\ PageBit(r, page_number(offset)) \in dirty
-------------------------------------------------------------------------------
\* The guest page that a bit of the log stands for.
PageOf(b) == [logmem |-> b.logmem, page |-> b.word * WordSize + b.bit]

\* The frontend takes a word out of a log (an atomic exchange with zero).
FetchWord(l, word) ==
    LET bits == {b \in dirty : b.logmem = l /\ b.word = word}
    IN  /\ bits # {}
        /\ dirty' = dirty \ bits
        /\ fetched' = fetched \cup {PageOf(b) : b \in bits}
        /\ UNCHANGED <<logVars, writer, history>>

Next ==
    \/ \E len \in LogLens : SetLogBase(len)
    \/ Replace
    \/ \E w \in Writers :
          \/ \E r \in RegionIds, o1, o2 \in Offsets, len \in Lens :
                BeginMark(w, r, SliceAt(0, o1), o2, len)
          \/ MarkPage(w)
          \/ EndMark(w)
    \/ \E b \in dirty : FetchWord(b.logmem, b.word)

Spec == Init /\ [][Next]_vars
-------------------------------------------------------------------------------
\* The pages the frontend knows of or finds in a log.
Logged == fetched \cup {PageOf(b) : b \in dirty}

\* Two regions log into the same log, or not at all.
SameLog(r, s) ==
    \/ inner[r] = NoBitmap /\ inner[s] = NoBitmap
    \/ inner[r] # NoBitmap /\ inner[s] # NoBitmap /\ inner[r].logmem = inner[s].logmem

\* Are all regions made of whole pages?
Aligned == \A r \in RegionIds : StartAddr[r] % PageSize = 0 /\ Length[r] % PageSize = 0

\* "Sets the memory range as dirty": when mark_dirty is over, the frontend finds all pages
\* of the range in the log, also when regions share a word and while it takes words out.
WritesAreLogged == finished \subseteq Logged

\* Only pages that somebody writes to are marked, no bit of a neighbouring page or region;
\* and dirty_at reads the bit that the frontend reads for the same byte.
OnlyWritesAreLogged ==
    /\ Logged \subseteq begun
    /\ \A r \in RegionIds, o \in Offsets : inner[r] # NoBitmap /\ o < Length[r] =>
          (dirty_at(r, o) <=>
              [logmem |-> inner[r].logmem, page |-> page_number(StartAddr[r] + o)]
                  \in {PageOf(b) : b \in dirty})

\* MmapLogReg::index asserts `index < self.len`: no mark_dirty looks outside the log that
\* its bitmap points into.
AccessInsideLog ==
    \A w \in Writers : writer[w].active /\ InLoop(w) =>
        PageBit(writer[w].region, writer[w].page).word < length[inner[writer[w].region].logmem]

\* "Let's create all bitmaps first before replacing them, in case any of them fails":
\* between requests all regions log into one log.
OneLogForAll == Idle => \A r, s \in RegionIds : SameLog(r, s)

\* Once set_log_base has returned, nobody marks pages in the log of an earlier request: the
\* frontend may stop looking at it.
OldLogIsQuiet ==
    \A w \in Writers : writer[w].active =>
        \A p \in writer[w].pages : p.logmem = inner[writer[w].region].logmem
-------------------------------------------------------------------------------
(* The inductive invariants behind these properties (proofs in LogAndEventsProofs). *)

\* A bitmap was made for its region, and for a log that covers the region.
BitmapInv ==
    /\ \A r \in RegionIds : inner[r] # NoBitmap =>
          /\ inner[r] = NewBitmap(r, inner[r].logmem)
          /\ inner[r].logmem <= requests
          /\ Fits(r, length[inner[r].logmem])
    /\ ~ Idle => \A r \in RegionIds : Fits(r, length[requests])

\* While bitmaps are being replaced, the first ones have the new log and the others
\* share what they had.
ReplaceInv ==
    /\ \A r, s \in RegionIds : r >= next /\ s >= next => SameLog(r, s)
    /\ \A r \in RegionIds : r < next => inner[r] # NoBitmap /\ inner[r].logmem = requests

\* A page of a write that is under way is in the log, or the loop will come to it.
WriterInv ==
    \A w \in Writers : writer[w].active =>
        LET r == writer[w].region
        IN  \A q \in writer[w].pages :
               \/ q \in Logged
               \/ \E p \in writer[w].page .. writer[w].last :
                     /\ p < inner[r].number_of_pages
                     /\ q = [logmem |-> inner[r].logmem,
                             page |-> inner[r].pages_before_region + p]

\* The pages that the loop of a write will still mark are pages that it touches.
AimInv ==
    \A w \in Writers : writer[w].active =>
        LET r == writer[w].region
        IN  \A p \in writer[w].page .. writer[w].last : p < inner[r].number_of_pages =>
               [logmem |-> inner[r].logmem, page |-> inner[r].pages_before_region + p] \in begun
===============================================================================
