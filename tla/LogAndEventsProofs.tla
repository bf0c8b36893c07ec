-------------------------- MODULE LogAndEventsProofs --------------------------
(***************************************************************************)
(* Proofs about DirtyLog for every page and word size, every set of        *)
(* regions and every number of writers: the types, why no access leaves    *)
(* the log, that requests switch all regions to the new log, and that in   *)
(* regions of whole pages no write is lost.  The last part is about        *)
(* EventDispatch, for every mask and every number of queues and ids.       *)
(***************************************************************************)
EXTENDS LogPart, DispatchPart, Sequences, FiniteSets, TLAPS

\* Division with remainder.
LEMMA DivBounds ==
  ASSUME NEW a \in Nat, NEW n \in Nat \ {0}
  PROVE  /\ a \div n \in Nat
         /\ n * (a \div n) <= a
         /\ a < n * (a \div n) + n
  BY SMT

\* The remainder, in terms of the quotient.
LEMMA DivRemainder ==
  ASSUME NEW a \in Nat, NEW n \in Nat \ {0}
  PROVE  /\ a % n \in 0 .. n - 1
         /\ a = (a \div n) * n + (a % n)
  <1>1. a % n \in 0 .. n - 1
    BY SMT
  <1>2. a % n = a - n * (a \div n)
    BY Z3
  <1> DEFINE q == a \div n
             m == a % n
  <1>3. q \in Nat /\ m \in Nat /\ m = a - n * q
    BY <1>1, <1>2, DivBounds
  <1> HIDE DEF q, m
  <1>4. a = q * n + m
    BY <1>3, SMT
  <1> QED
    BY <1>1, <1>4, Zenon DEF q, m

\* Division is monotonic.
LEMMA DivMono ==
  ASSUME NEW a \in Nat, NEW b \in Nat, NEW n \in Nat \ {0}, a <= b
  PROVE  a \div n <= b \div n
  BY DivBounds, Z3

\* k whole pages in a bytes.
LEMMA DivLower ==
  ASSUME NEW a \in Nat, NEW n \in Nat \ {0}, NEW k \in Nat, n * k <= a
  PROVE  k <= a \div n
  BY DivBounds, Z3

\* Pages of an address that follows k whole pages.
LEMMA DivShift ==
  ASSUME NEW b \in Nat, NEW n \in Nat \ {0}, NEW k \in Nat
  PROVE  (n * k + b) \div n = k + b \div n
  <1>1. n * k \in Nat /\ n * k + b \in Nat
    BY SMT
  <1>2. n * (b \div n) <= b /\ b < n * (b \div n) + n /\ b \div n \in Nat
    BY DivBounds, Zenon
  <1>3. n * (k + b \div n) <= n * k + b
    BY <1>1, <1>2, SMT
  <1>4. k + b \div n <= (n * k + b) \div n
    BY <1>1, <1>2, <1>3, DivLower
  <1> DEFINE q == (n * k + b) \div n
             p == b \div n
  <1>5. q \in Nat /\ n * q <= n * k + b /\ p \in Nat /\ b < n * p + n
    BY <1>1, <1>2, DivBounds, Zenon
  <1> HIDE DEF q, p
  <1>6. q <= k + p
    <2> SUFFICES ASSUME k + p + 1 <= q PROVE FALSE
      BY <1>5
    <2>1. n * (k + p + 1) <= n * q
      BY <1>5, SMT
    <2>2. n * (k + p + 1) = n * k + n * p + n
      BY <1>5, SMT
    <2>3. n * p \in Nat /\ n * q \in Nat
      BY <1>5, SMT
    <2> QED
      BY <1>1, <1>5, <2>1, <2>2, <2>3
  <1> QED
    BY <1>4, <1>5, <1>6 DEF q, p

\* The pages of a region, counted as AtomicBitmapMmap::new does, lie before the page of
\* its last byte.
LEMMA LastPage ==
  ASSUME NEW s \in Nat, NEW l \in Nat \ {0}, NEW n \in Nat \ {0}, NEW p \in Nat,
         p < l \div n
  PROVE  (s \div n) + p <= (s + (l - 1)) \div n
  <1> DEFINE a == s \div n
             b == l \div n
  <1>1. a \in Nat /\ b \in Nat /\ n * a <= s /\ n * b <= l
    BY DivBounds, Zenon
  <1> HIDE DEF a, b
  <1>2. n * (a + p) + n <= n * a + n * b
    <2>1. n * (p + 1) <= n * b
      BY <1>1, SMT DEF b
    <2>2. n * (a + p) + n = n * a + n * (p + 1)
      BY <1>1, SMT
    <2> QED
      BY <1>1, <2>1, <2>2, SMT
  <1>3. n * (a + p) \in Nat /\ n * a \in Nat /\ n * b \in Nat /\ a + p \in Nat
    BY <1>1, SMT
  <1>4. n * (a + p) <= s + (l - 1)
    BY <1>1, <1>2, <1>3
  <1>5. a + p <= (s + (l - 1)) \div n
    BY <1>3, <1>4, DivLower
  <1> QED
    BY <1>5, Zenon DEF a
-------------------------------------------------------------------------------
\* The constants, as the proofs use them.
LEMMA Constants ==
  /\ PageSize \in Nat \ {0} /\ WordSize \in Nat \ {0} /\ MaxAddr \in Nat
  /\ \A r \in L!RegionIds : StartAddr[r] \in Nat /\ Length[r] \in Nat
  BY SizeAssumption, RegionAssumption DEF L!RegionIds

\* page_number and page_word give natural numbers, page_bit a bit of a word.
LEMMA PageArithmetic ==
  ASSUME NEW a \in Nat
  PROVE  /\ L!page_number(a) \in Nat
         /\ L!page_word(a) \in Nat
         /\ L!page_bit(a) \in 0 .. WordSize - 1
         /\ L!page_word(a) * WordSize + L!page_bit(a) = a
  <1>1. PageSize \in Nat \ {0} /\ WordSize \in Nat \ {0}
    BY Constants, Zenon
  <1>2. a \div PageSize \in Nat
    BY <1>1, DivBounds, Zenon
  <1>3. L!page_number(a) \in Nat
    BY <1>2, Zenon DEF L!page_number
  <1>4. L!page_word(a) \in Nat
    BY <1>1, DivBounds, Zenon DEF L!page_word
  <1>5. L!page_bit(a) \in 0 .. WordSize - 1
    BY <1>1, DivRemainder, Zenon DEF L!page_bit
  <1>6. L!page_word(a) * WordSize + L!page_bit(a) = a
    <2>1. a = (a \div WordSize) * WordSize + (a % WordSize)
      BY <1>1, DivRemainder, Zenon
    <2> QED
      BY <2>1, Zenon DEF L!page_word, L!page_bit
  <1> QED
    BY <1>3, <1>4, <1>5, <1>6, Zenon

\* Option::None is no bitmap.
LEMMA NoBitmapIsNone == NoBitmap \notin L!AtomicBitmap
  BY NoBitmapAssumption, Zenon DEF AtomicBitmap, Logs, L!AtomicBitmap, L!Logs

\* AtomicBitmapMmap::new makes a bitmap, whatever the region.
LEMMA NewBitmapType ==
  ASSUME NEW r \in L!RegionIds, NEW l \in L!Logs
  PROVE  L!NewBitmap(r, l) \in L!AtomicBitmap
  BY Constants, PageArithmetic, Zenon DEF L!NewBitmap, L!AtomicBitmap

\* The pages a write touches are pages of the log it is meant for.
LEMMA TouchedType ==
  ASSUME NEW r \in L!RegionIds, NEW first \in Nat, NEW last \in Nat, NEW l \in L!Logs
  PROVE  L!TouchedPages(r, first, last, l) \in SUBSET L!LoggedPage
  <1>1. ASSUME NEW b \in first .. last PROVE L!page_number(StartAddr[r] + b) \in Nat
    <2>1. b \in Nat /\ StartAddr[r] + b \in Nat
      BY Constants
    <2> QED
      BY <2>1, PageArithmetic, Zenon
  <1> QED
    BY <1>1 DEF L!TouchedPages, L!LoggedPage

\* A page bit of the log stands for the page it was made from.
LEMMA PageBitType ==
  ASSUME NEW r \in L!RegionIds, inner[r] \in L!AtomicBitmap, NEW p \in Nat
  PROVE  /\ L!PageBit(r, p) \in [logmem : L!Logs, word : Nat, bit : 0 .. WordSize - 1]
         /\ L!PageBit(r, p).word = L!page_word(inner[r].pages_before_region + p)
         /\ L!PageOf(L!PageBit(r, p)) = [logmem |-> inner[r].logmem,
                                     page |-> inner[r].pages_before_region + p]
  <1> DEFINE a == inner[r].pages_before_region + p
  <1>1. a \in Nat /\ inner[r].logmem \in L!Logs
    BY DEF L!AtomicBitmap
  <1> HIDE DEF a
  <1>2. /\ L!page_word(a) \in Nat /\ L!page_bit(a) \in 0 .. WordSize - 1
        /\ L!page_word(a) * WordSize + L!page_bit(a) = a
    BY <1>1, PageArithmetic, Zenon
  <1>3. L!PageBit(r, p) = [logmem |-> inner[r].logmem, word |-> L!page_word(a), bit |-> L!page_bit(a)]
    BY Zenon DEF L!PageBit, a
  <1>4. L!PageBit(r, p).word = L!page_word(a)
    BY <1>3
  <1> QED
    BY <1>1, <1>2, <1>3, <1>4 DEF L!PageOf, a
-------------------------------------------------------------------------------
\* The inputs of a write, and the pages they come to.
LEMMA BeginMarkType ==
  ASSUME L!TypeOK, NEW w \in Writers, NEW r \in L!RegionIds, NEW base \in Nat,
         NEW offset \in Offsets, NEW len \in Lens, L!BeginMark(w, r, base, offset, len)
  PROVE  \E first, last \in Nat :
            /\ inner[r] \in L!AtomicBitmap
            /\ marking' = [marking EXCEPT ![w] =
                  [active |-> TRUE, region |-> r,
                   page |-> L!page_number(first), last |-> L!page_number(last),
                   pages |-> L!TouchedPages(r, first, last, inner[r].logmem)]]
            /\ first <= last
            /\ L!page_number(first) \in Nat
            /\ L!page_number(last) \in Nat
            /\ L!TouchedPages(r, first, last, inner[r].logmem) \in SUBSET L!LoggedPage
  <1> DEFINE first == base + offset
             last  == L!saturating_add(first, len - 1)
  <1>1. offset \in Nat /\ len \in Nat /\ len # 0 /\ MaxAddr \in Nat /\ first <= MaxAddr
    BY InputAssumption, Constants DEF L!BeginMark
  <1>2. first \in Nat /\ last \in Nat /\ first <= last
    BY <1>1 DEF L!saturating_add
  <1>3. inner[r] \in L!AtomicBitmap /\ inner[r].logmem \in L!Logs
    BY Zenon DEF L!BeginMark, L!TypeOK, L!AtomicBitmap
  <1>4. marking' = [marking EXCEPT ![w] =
                  [active |-> TRUE, region |-> r,
                   page |-> L!page_number(first), last |-> L!page_number(last),
                   pages |-> L!TouchedPages(r, first, last, inner[r].logmem)]]
    BY Zenon DEF L!BeginMark
  <1> HIDE DEF first, last
  <1>5. L!page_number(first) \in Nat /\ L!page_number(last) \in Nat
    BY <1>2, PageArithmetic, Zenon
  <1>6. L!TouchedPages(r, first, last, inner[r].logmem) \in SUBSET L!LoggedPage
    BY <1>2, <1>3, TouchedType, Zenon
  <1> QED
    BY <1>2, <1>3, <1>4, <1>5, <1>6, Zenon

\* slice_at yields an address.
LEMMA SliceType ==
  ASSUME NEW o \in Offsets
  PROVE  L!SliceAt(0, o) \in Nat
  BY InputAssumption, Constants DEF L!SliceAt, L!saturating_add

\* The state of logs, bitmaps and writers is well typed.
THEOREM TypeCorrect == L!Spec => []L!TypeOK
  <1>1. L!Init => L!TypeOK
    <2> SUFFICES ASSUME L!Init PROVE L!TypeOK
      BY Zenon
    <2>1. MaxLogs \in Nat /\ NumRegions \in Nat
      BY InputAssumption, RegionAssumption, Zenon
    <2>2. L!NoWrite \in [active : BOOLEAN, region : 0 .. NumRegions, page : Nat,
                       last : Nat, pages : SUBSET L!LoggedPage]
      BY <2>1 DEF L!NoWrite
    <2> QED
      BY <2>1, <2>2 DEF L!Init, L!TypeOK, L!NoWrite
  <1>2. L!TypeOK /\ [L!Next]_(L!vars) => L!TypeOK'
    <2> SUFFICES ASSUME L!TypeOK, [L!Next]_(L!vars) PROVE L!TypeOK'
      BY Zenon
    <2> DEFINE WriterType == [active : BOOLEAN, region : 0 .. NumRegions, page : Nat,
                              last : Nat, pages : SUBSET L!LoggedPage]
    <2>0. MaxLogs \in Nat /\ NumRegions \in Nat
      BY InputAssumption, RegionAssumption, Zenon
    <2>1. ASSUME NEW len \in LogLens, L!SetLogBase(len) PROVE L!TypeOK'
      <3>1. len \in Nat /\ requests + 1 \in L!Logs
        BY <2>0, <2>1, InputAssumption DEF L!SetLogBase, L!TypeOK, L!Logs
      <3>2. length' \in [L!Logs -> Nat]
        BY <2>1, <3>1, Zenon DEF L!SetLogBase, L!TypeOK
      <3>3. requests' \in 0 .. MaxLogs /\ requests' # 0
        BY <2>0, <2>1, <3>1 DEF L!SetLogBase, L!Logs
      <3>4. next' \in 0 .. NumRegions
        BY <2>0, <2>1 DEF L!SetLogBase
      <3>5. UNCHANGED <<dirty, inner, marking, fetched, begun, finished>>
        BY <2>1, Zenon DEF L!SetLogBase, L!history
      <3> QED
        BY <3>2, <3>3, <3>4, <3>5, Zenon DEF L!TypeOK
    <2>2. CASE L!Replace
      <3>1. next \in L!RegionIds /\ requests \in L!Logs
        BY <2>0, <2>2 DEF L!Replace, L!Idle, L!TypeOK, L!RegionIds, L!Logs
      <3>2. L!NewBitmap(next, requests) \in L!AtomicBitmap
        BY <3>1, NewBitmapType, Zenon
      <3>3. inner' \in [L!RegionIds -> L!AtomicBitmap \cup {NoBitmap}]
            /\ \A r \in L!RegionIds : inner[r] # NoBitmap => inner'[r] # NoBitmap
        BY <2>2, <3>1, <3>2, NoBitmapIsNone, Zenon DEF L!Replace, L!TypeOK
      <3>4. next' \in 0 .. NumRegions
        BY <2>0, <2>2, <3>1 DEF L!Replace, L!RegionIds
      <3>5. requests # 0 /\ UNCHANGED <<requests, length, dirty, marking, fetched, begun, finished>>
        BY <2>0, <2>2, <3>1 DEF L!Replace, L!history, L!Logs
      <3> QED
        BY <3>3, <3>4, <3>5, Zenon DEF L!TypeOK
    <2>3. ASSUME NEW w \in Writers, NEW r \in L!RegionIds, NEW o1 \in Offsets, NEW o2 \in Offsets,
                 NEW len \in Lens, L!BeginMark(w, r, L!SliceAt(0, o1), o2, len)
          PROVE  L!TypeOK'
      <3>1. PICK first, last \in Nat :
               /\ marking' = [marking EXCEPT ![w] =
                     [active |-> TRUE, region |-> r,
                      page |-> L!page_number(first), last |-> L!page_number(last),
                      pages |-> L!TouchedPages(r, first, last, inner[r].logmem)]]
               /\ L!page_number(first) \in Nat /\ L!page_number(last) \in Nat
               /\ L!TouchedPages(r, first, last, inner[r].logmem) \in SUBSET L!LoggedPage
        BY <2>3, SliceType, BeginMarkType, Zenon
      <3> DEFINE new == [active |-> TRUE, region |-> r,
                         page |-> L!page_number(first), last |-> L!page_number(last),
                         pages |-> L!TouchedPages(r, first, last, inner[r].logmem)]
      <3>2. new \in WriterType /\ new.active /\ new.region = r
            /\ new.pages \in SUBSET L!LoggedPage
        BY <2>0, <3>1 DEF L!RegionIds
      <3>3. marking' = [marking EXCEPT ![w] = new]
        BY <3>1, Zenon
      <3> HIDE DEF new
      <3>4. marking' \in [Writers -> WriterType]
            /\ \A v \in Writers : marking'[v].active =>
                  marking'[v].region \in L!RegionIds /\ inner[marking'[v].region] # NoBitmap
        BY <2>3, <3>2, <3>3 DEF L!TypeOK, L!BeginMark
      <3>5. begun' = begun \cup new.pages
        BY <2>3, <3>3, Zenon DEF L!BeginMark, L!TypeOK
      <3>6. begun' \subseteq L!LoggedPage
        BY <3>2, <3>5, Zenon DEF L!TypeOK
      <3>7. UNCHANGED <<requests, length, inner, next, dirty, fetched, finished>>
        BY <2>3, Zenon DEF L!BeginMark, L!logVars
      <3> QED
        BY <3>4, <3>6, <3>7, Zenon DEF L!TypeOK
    <2>4. ASSUME NEW w \in Writers, L!MarkPage(w) PROVE L!TypeOK'
      <3>1. marking[w] \in WriterType /\ marking[w].region \in L!RegionIds
        BY <2>4, Zenon DEF L!MarkPage, L!TypeOK
      <3> DEFINE r == marking[w].region
                 b == L!PageBit(r, marking[w].page)
      <3>2. marking[w].page \in Nat /\ marking[w].page + 1 \in Nat
        BY <3>1
      <3>3. marking' = [marking EXCEPT ![w].page = marking[w].page + 1]
        BY <2>4, Zenon DEF L!MarkPage
      <3>4. marking' \in [Writers -> WriterType]
            /\ \A v \in Writers : marking'[v].active =>
                  marking'[v].region \in L!RegionIds /\ inner[marking'[v].region] # NoBitmap
        BY <3>1, <3>2, <3>3, Zenon DEF L!TypeOK
      <3>5. dirty' \subseteq [logmem : L!Logs, word : Nat, bit : 0 .. WordSize - 1]
        <4>1. inner[r] \in L!AtomicBitmap
          BY <2>4, <3>1, Zenon DEF L!MarkPage, L!TypeOK
        <4>2. b \in [logmem : L!Logs, word : Nat, bit : 0 .. WordSize - 1]
          BY <3>1, <3>2, <4>1, PageBitType, Zenon
        <4> QED
          BY <2>4, <4>2, Zenon DEF L!MarkPage, L!FetchOr, L!TypeOK
      <3>6. UNCHANGED <<requests, length, inner, next, fetched, begun, finished>>
        BY <2>4, Zenon DEF L!MarkPage, L!logVars, L!history
      <3> QED
        BY <3>4, <3>5, <3>6, Zenon DEF L!TypeOK
    <2>5. ASSUME NEW w \in Writers, L!EndMark(w) PROVE L!TypeOK'
      <3>1. L!NoWrite \in WriterType /\ ~ L!NoWrite.active
        BY <2>0 DEF L!NoWrite
      <3>2. marking' \in [Writers -> WriterType]
            /\ \A v \in Writers : marking'[v].active =>
                  marking'[v].region \in L!RegionIds /\ inner[marking'[v].region] # NoBitmap
        BY <2>5, <3>1, Zenon DEF L!EndMark, L!TypeOK
      <3>3. finished' \subseteq L!LoggedPage
        BY <2>5, Zenon DEF L!EndMark, L!TypeOK
      <3>4. UNCHANGED <<requests, length, inner, next, dirty, fetched, begun>>
        BY <2>5, Zenon DEF L!EndMark, L!logVars
      <3> QED
        BY <3>2, <3>3, <3>4, Zenon DEF L!TypeOK
    <2>6. ASSUME NEW b \in dirty, L!FetchWord(b.logmem, b.word) PROVE L!TypeOK'
      <3>1. \A c \in dirty : L!PageOf(c) \in L!LoggedPage
        BY Constants, SMTT(30) DEF L!TypeOK, L!PageOf, L!LoggedPage
      <3>2. dirty' \subseteq dirty
        BY <2>6, Zenon DEF L!FetchWord
      <3>3. fetched' \subseteq L!LoggedPage
        BY <2>6, <3>1, Zenon DEF L!FetchWord, L!TypeOK
      <3>4. UNCHANGED <<requests, length, inner, next, marking, begun, finished>>
        BY <2>6, Zenon DEF L!FetchWord, L!logVars, L!history
      <3> QED
        BY <3>2, <3>3, <3>4, Zenon DEF L!TypeOK
    <2>7. CASE UNCHANGED L!vars
      BY <2>7, Zenon DEF L!TypeOK, L!vars, L!logVars, L!history
    <2> QED
      BY <2>1, <2>2, <2>3, <2>4, <2>5, <2>6, <2>7, Zenon DEF L!Next
  <1> QED
    BY <1>1, <1>2, PTL DEF L!Spec
-------------------------------------------------------------------------------
\* The bitmaps follow from their regions, and their logs are long enough.
THEOREM BitmapsCorrect == L!Spec => []L!BitmapInv
  <1>1. L!Init => L!BitmapInv
    BY Zenon DEF L!Init, L!BitmapInv, L!Idle
  <1>2. L!TypeOK /\ L!BitmapInv /\ [L!Next]_(L!vars) => L!BitmapInv'
    <2> SUFFICES ASSUME L!TypeOK, L!BitmapInv, [L!Next]_(L!vars) PROVE L!BitmapInv'
      BY Zenon
    <2>1. ASSUME NEW len \in LogLens, L!SetLogBase(len) PROVE L!BitmapInv'
      <3>1. requests' = requests + 1 /\ requests + 1 \in L!Logs /\ inner' = inner
        BY <2>1, InputAssumption DEF L!SetLogBase, L!TypeOK, L!Logs
      <3>2. length' = [length EXCEPT ![requests + 1] = len]
        BY <2>1, Zenon DEF L!SetLogBase
      <3>3. ASSUME NEW r \in L!RegionIds, inner[r] # NoBitmap
            PROVE  /\ inner[r].logmem <= requests'
                   /\ length'[inner[r].logmem] = length[inner[r].logmem]
        <4>1. inner[r].logmem \in L!Logs /\ inner[r].logmem <= requests /\ requests \in Nat
          BY <3>3 DEF L!BitmapInv, L!TypeOK, L!AtomicBitmap
        <4> QED
          BY <3>1, <3>2, <4>1 DEF L!TypeOK, L!Logs
      <3>4. ~ L!Idle' => \A r \in L!RegionIds : L!Fits(r, length'[requests'])
        BY <2>1, <3>1, <3>2, Zenon DEF L!SetLogBase, L!Idle, L!TypeOK
      <3> QED
        BY <3>1, <3>3, <3>4, Zenon DEF L!BitmapInv, L!Fits
    <2>2. CASE L!Replace
      <3>1. next \in L!RegionIds /\ requests \in L!Logs /\ requests \in Nat
        BY <2>2, InputAssumption, RegionAssumption
           DEF L!Replace, L!Idle, L!TypeOK, L!RegionIds, L!Logs
      <3>2. inner' = [inner EXCEPT ![next] = L!NewBitmap(next, requests)]
            /\ UNCHANGED <<requests, length>>
        BY <2>2, Zenon DEF L!Replace
      <3>3. L!Fits(next, length[requests]) /\ L!NewBitmap(next, requests).logmem = requests
        BY <2>2, <3>1, Zenon DEF L!Replace, L!BitmapInv, L!NewBitmap
      <3>4. ASSUME NEW r \in L!RegionIds, inner'[r] # NoBitmap
            PROVE  /\ inner'[r] = L!NewBitmap(r, inner'[r].logmem)
                   /\ inner'[r].logmem <= requests
                   /\ L!Fits(r, length[inner'[r].logmem])
        <4>1. CASE r = next
          BY <3>1, <3>2, <3>3, <4>1 DEF L!TypeOK
        <4>2. CASE r # next
          BY <3>2, <3>4, <4>2, Zenon DEF L!TypeOK, L!BitmapInv
        <4> QED
          BY <4>1, <4>2, Zenon
      <3>5. \A r \in L!RegionIds : L!Fits(r, length[requests])
        BY <2>2, Zenon DEF L!Replace, L!BitmapInv
      <3> QED
        BY <3>2, <3>4, <3>5, Zenon DEF L!BitmapInv, L!Fits, L!NewBitmap
    <2>3. CASE UNCHANGED L!logVars
      BY <2>3, Zenon DEF L!BitmapInv, L!logVars, L!Idle, L!Fits, L!NewBitmap
    <2> QED
      BY <2>1, <2>2, <2>3 DEF L!Next, L!BeginMark, L!MarkPage, L!EndMark, L!FetchWord, L!vars
  <1> QED
    BY <1>1, <1>2, TypeCorrect, PTL DEF L!Spec

\* No mark_dirty indexes its log beyond the end: the assertion of MmapLogReg::index holds,
\* wherever regions start and end within pages and words.
THEOREM NoAccessOutsideLog == L!Spec => []AccessInsideLog
  <1>1. L!TypeOK /\ L!BitmapInv => AccessInsideLog
    <2> SUFFICES ASSUME L!TypeOK, L!BitmapInv,
                        NEW w \in Writers, marking[w].active, L!InLoop(w)
                 PROVE  L!PageBit(marking[w].region, marking[w].page).word
                           < length[inner[marking[w].region].logmem]
      BY Zenon DEF AccessInsideLog, L!AccessInsideLog
    <2> DEFINE r == marking[w].region
               p == marking[w].page
               len == length[inner[r].logmem]
               end == StartAddr[r] + (Length[r] - 1)
    <2>1. r \in L!RegionIds /\ inner[r] \in L!AtomicBitmap /\ inner[r] # NoBitmap /\ p \in Nat
      BY Zenon DEF L!TypeOK
    <2>2. len \in Nat /\ L!Fits(r, len) /\ inner[r] = L!NewBitmap(r, inner[r].logmem)
      BY <2>1, Zenon DEF L!TypeOK, L!BitmapInv, L!AtomicBitmap
    <2>3. L!PageBit(r, p).word = L!page_word(inner[r].pages_before_region + p)
      BY <2>1, PageBitType, Zenon
    <2>4. inner[r].pages_before_region = StartAddr[r] \div PageSize
          /\ inner[r].number_of_pages = Length[r] \div PageSize
      BY <2>2 DEF L!NewBitmap, L!page_number
    <2>5. p < Length[r] \div PageSize
      BY <2>4, Zenon DEF L!InLoop
    <2>6. /\ StartAddr[r] \in Nat /\ Length[r] \in Nat \ {0}
          /\ PageSize \in Nat \ {0} /\ WordSize \in Nat \ {0}
      BY <2>1, <2>2, Constants, Zenon DEF L!Fits
    <2>7. end \in Nat /\ (end \div PageSize) \div WordSize < len
      BY <2>2, <2>6 DEF L!Fits, L!page_word, L!page_number
    <2> HIDE DEF r, p, len
    <2>8. (StartAddr[r] \div PageSize) + p <= end \div PageSize
      BY <2>1, <2>5, <2>6, LastPage, Zenon
    <2>9. (StartAddr[r] \div PageSize) \in Nat /\ end \div PageSize \in Nat
      BY <2>6, <2>7, DivBounds, Zenon
    <2> HIDE DEF end
    <2>a. (StartAddr[r] \div PageSize) + p \in Nat
      BY <2>1, <2>9
    <2>10. ((StartAddr[r] \div PageSize) + p) \div WordSize <= (end \div PageSize) \div WordSize
      BY <2>6, <2>8, <2>9, <2>a, DivMono, Zenon
    <2>11. /\ ((StartAddr[r] \div PageSize) + p) \div WordSize \in Nat
           /\ (end \div PageSize) \div WordSize \in Nat
      BY <2>6, <2>9, <2>a, DivBounds, Zenon
    <2>12. L!PageBit(r, p).word = ((StartAddr[r] \div PageSize) + p) \div WordSize
      BY <2>3, <2>4, Zenon DEF L!page_word
    <2>13. L!PageBit(r, p).word < len
      BY <2>2, <2>7, <2>10, <2>11, <2>12
    <2> QED
      BY <2>13, Zenon DEF r, p, len
  <1> QED
    BY <1>1, TypeCorrect, BitmapsCorrect, PTL
-------------------------------------------------------------------------------
\* set_log_base switches the regions to the new log one after the other.
THEOREM ReplaceCorrect == L!Spec => []L!ReplaceInv
  <1>1. L!Init => L!ReplaceInv
    BY RegionAssumption DEF L!Init, L!ReplaceInv, L!SameLog, L!RegionIds
  <1>2. L!TypeOK /\ L!ReplaceInv /\ [L!Next]_(L!vars) => L!ReplaceInv'
    <2> SUFFICES ASSUME L!TypeOK, L!ReplaceInv, [L!Next]_(L!vars) PROVE L!ReplaceInv'
      BY Zenon
    <2>0. NumRegions \in Nat /\ next \in Nat /\ \A r \in L!RegionIds : r \in Nat /\ r >= 1
      BY RegionAssumption DEF L!TypeOK, L!RegionIds
    <2>1. ASSUME NEW len \in LogLens, L!SetLogBase(len) PROVE L!ReplaceInv'
      <3>1. next = 0 /\ next' \in {0, 1} /\ inner' = inner
        BY <2>1, Zenon DEF L!SetLogBase, L!Idle
      <3>2. \A r, s \in L!RegionIds : L!SameLog(r, s)
        BY <2>0, <3>1 DEF L!ReplaceInv
      <3>3. \A r \in L!RegionIds : ~ (r < next')
        BY <2>0, <3>1
      <3> QED
        BY <3>1, <3>2, <3>3, Zenon DEF L!ReplaceInv, L!SameLog
    <2>2. CASE L!Replace
      <3>1. next \in L!RegionIds /\ requests \in L!Logs
        BY <2>2, InputAssumption, RegionAssumption
           DEF L!Replace, L!Idle, L!TypeOK, L!RegionIds, L!Logs
      <3>2. inner' = [inner EXCEPT ![next] = L!NewBitmap(next, requests)] /\ requests' = requests
        BY <2>2, Zenon DEF L!Replace
      <3>3. L!NewBitmap(next, requests) # NoBitmap /\ L!NewBitmap(next, requests).logmem = requests
        BY <3>1, NewBitmapType, NoBitmapIsNone, Zenon DEF L!NewBitmap
      <3>4. inner'[next] # NoBitmap /\ inner'[next].logmem = requests
        BY <3>1, <3>2, <3>3, Zenon DEF L!TypeOK
      <3>5. \A r \in L!RegionIds : r # next => inner'[r] = inner[r]
        BY <3>2, Zenon DEF L!TypeOK
      <3>6. \A r \in L!RegionIds : r <= next => inner'[r] # NoBitmap /\ inner'[r].logmem = requests
        BY <2>0, <3>4, <3>5 DEF L!ReplaceInv
      <3>7. CASE next < NumRegions
        <4>1. next' = next + 1
          BY <2>2, <3>7, Zenon DEF L!Replace
        <4>2. \A r \in L!RegionIds : (r < next' <=> r <= next)
                                    /\ (r >= next' => r >= next /\ r # next)
          BY <2>0, <4>1
        <4> QED
          BY <3>2, <3>5, <3>6, <4>2 DEF L!ReplaceInv, L!SameLog
      <3>8. CASE ~ (next < NumRegions)
        <4>1. next' = 0 /\ \A r \in L!RegionIds : r <= next /\ ~ (r < next')
          BY <2>0, <2>2, <3>1, <3>8 DEF L!Replace, L!RegionIds
        <4> QED
          BY <3>6, <4>1, Zenon DEF L!ReplaceInv, L!SameLog
      <3> QED
        BY <3>7, <3>8, Zenon
    <2>3. CASE UNCHANGED L!logVars
      BY <2>3, Zenon DEF L!ReplaceInv, L!SameLog, L!logVars
    <2> QED
      BY <2>1, <2>2, <2>3 DEF L!Next, L!BeginMark, L!MarkPage, L!EndMark, L!FetchWord, L!vars
  <1> QED
    BY <1>1, <1>2, TypeCorrect, PTL DEF L!Spec

\* Between requests all regions log into one log: set_log_base changes all bitmaps or none.
THEOREM AllRegionsShareALog == L!Spec => []OneLogForAll
  <1>1. L!ReplaceInv => OneLogForAll
    BY RegionAssumption DEF L!ReplaceInv, OneLogForAll, L!OneLogForAll, L!Idle, L!RegionIds
  <1> QED
    BY <1>1, ReplaceCorrect, PTL

\* A thread in mark_dirty marks the log its region has now: set_log_base waits for it.
THEOREM OldLogsAreQuiet == L!Spec => []OldLogIsQuiet
  <1>1. L!Init => OldLogIsQuiet
    BY DEF L!Init, OldLogIsQuiet, L!OldLogIsQuiet, L!NoWrite
  <1>2. L!TypeOK /\ OldLogIsQuiet /\ [L!Next]_(L!vars) => OldLogIsQuiet'
    <2> SUFFICES ASSUME L!TypeOK, OldLogIsQuiet, [L!Next]_(L!vars) PROVE OldLogIsQuiet'
      BY Zenon
    <2>1. CASE UNCHANGED <<inner, marking>>
      BY <2>1, Zenon DEF OldLogIsQuiet, L!OldLogIsQuiet
    <2>2. CASE L!Replace
      <3>1. ASSUME NEW w \in Writers, marking[w].active
            PROVE  inner'[marking[w].region] = inner[marking[w].region]
        <4>1. marking[w].region # next
          BY <2>2, <3>1, Zenon DEF L!Replace, L!ReadLocked
        <4> QED
          BY <2>2, <3>1, <4>1, Zenon DEF L!Replace, L!TypeOK
      <3>2. marking' = marking
        BY <2>2, Zenon DEF L!Replace
      <3> QED
        BY <3>1, <3>2, Zenon DEF OldLogIsQuiet, L!OldLogIsQuiet
    <2>3. ASSUME NEW w \in Writers, NEW r \in L!RegionIds, NEW o1 \in Offsets, NEW o2 \in Offsets,
                 NEW len \in Lens, L!BeginMark(w, r, L!SliceAt(0, o1), o2, len)
          PROVE  OldLogIsQuiet'
      <3>1. PICK first, last \in Nat :
               marking' = [marking EXCEPT ![w] =
                     [active |-> TRUE, region |-> r,
                      page |-> L!page_number(first), last |-> L!page_number(last),
                      pages |-> L!TouchedPages(r, first, last, inner[r].logmem)]]
        BY <2>3, SliceType, BeginMarkType
      <3>2. \A q \in L!TouchedPages(r, first, last, inner[r].logmem) : q.logmem = inner[r].logmem
        BY DEF L!TouchedPages
      <3>3. inner' = inner
        BY <2>3, Zenon DEF L!BeginMark, L!logVars
      <3>4. ASSUME NEW v \in Writers, marking'[v].active, NEW q \in marking'[v].pages
            PROVE  q.logmem = inner[marking'[v].region].logmem
        <4>1. CASE v = w
          BY <3>1, <3>2, <3>4, <4>1, Zenon DEF L!TypeOK
        <4>2. CASE v # w
          BY <3>1, <3>4, <4>2, Zenon DEF L!TypeOK, OldLogIsQuiet, L!OldLogIsQuiet
        <4> QED
          BY <4>1, <4>2, Zenon
      <3> QED
        BY <3>3, <3>4, Zenon DEF OldLogIsQuiet, L!OldLogIsQuiet
    <2>4. ASSUME NEW w \in Writers, L!MarkPage(w) \/ L!EndMark(w) PROVE OldLogIsQuiet'
      <3>1. \A v \in Writers : marking'[v].active =>
               /\ marking[v].active
               /\ marking'[v].pages = marking[v].pages
               /\ marking'[v].region = marking[v].region
        BY <2>4, SMTT(30) DEF L!MarkPage, L!EndMark, L!TypeOK, L!NoWrite
      <3>2. inner' = inner
        BY <2>4, Zenon DEF L!MarkPage, L!EndMark, L!logVars
      <3> QED
        BY <3>1, <3>2 DEF OldLogIsQuiet, L!OldLogIsQuiet
    <2> QED
      BY <2>1, <2>2, <2>3, <2>4, Zenon DEF L!Next, L!SetLogBase, L!FetchWord, L!vars, L!logVars
  <1> QED
    BY <1>1, <1>2, TypeCorrect, PTL DEF L!Spec
-------------------------------------------------------------------------------
\* In a region of whole pages, the page of a byte is counted from the page of the region, and
\* it is one of the pages that AtomicBitmapMmap::new counts.
LEMMA AlignedPages ==
  ASSUME L!Aligned, NEW r \in L!RegionIds, NEW b \in Nat, b < Length[r]
  PROVE  /\ L!page_number(b) < L!page_number(Length[r])
         /\ L!page_number(StartAddr[r] + b) = L!page_number(StartAddr[r]) + L!page_number(b)
  <1> DEFINE P == PageSize
             s == StartAddr[r]
             n == Length[r]
             k == s \div P
             m == n \div P
             p == b \div P
  <1>1. P \in Nat \ {0} /\ s \in Nat /\ n \in Nat
    BY Constants, Zenon
  <1>2. s % P = 0 /\ n % P = 0
    BY Zenon DEF L!Aligned
  <1>3. k \in Nat /\ m \in Nat /\ p \in Nat /\ P * p <= b
    BY <1>1, DivBounds, Zenon
  <1>4. s = k * P + (s % P) /\ n = m * P + (n % P)
    BY <1>1, DivRemainder, Zenon
  <1>5. b < n
    BY Zenon
  <1> HIDE DEF s, n, k, m, p, P
  <1>6. s = P * k /\ n = P * m
    BY <1>1, <1>2, <1>3, <1>4, SMT
  <1>7. p < m
    <2> SUFFICES ASSUME m <= p PROVE FALSE
      BY <1>3
    <2>1. P * m <= P * p
      BY <1>1, <1>3, SMT
    <2>2. P * m \in Nat /\ P * p \in Nat
      BY <1>1, <1>3, SMT
    <2> QED
      BY <1>1, <1>3, <1>5, <1>6, <2>1, <2>2
  <1>8. (s + b) \div P = k + p
    <2>1. (P * k + b) \div P = k + (b \div P)
      BY <1>1, <1>3, DivShift, Zenon
    <2> QED
      BY <1>6, <2>1, Zenon DEF p
  <1>9. L!page_number(b) < L!page_number(Length[r])
    BY <1>7, Zenon DEF L!page_number, m, n, p, P
  <1>10. L!page_number(StartAddr[r] + b) = L!page_number(StartAddr[r]) + L!page_number(b)
    BY <1>8, Zenon DEF L!page_number, s, k, p, P
  <1> QED
    BY <1>9, <1>10, Zenon

\* In a region of whole pages, the guest pages of a range are the pages the loop of
\* mark_dirty counts, shifted by the pages before the region.
LEMMA TouchedIsCounted ==
  ASSUME L!Aligned, NEW r \in L!RegionIds, NEW first \in Nat, NEW last \in Nat, NEW l,
         NEW q \in L!TouchedPages(r, first, last, l)
  PROVE  \E p \in L!page_number(first) .. L!page_number(last) :
            /\ p < L!page_number(Length[r])
            /\ q = [logmem |-> l, page |-> L!page_number(StartAddr[r]) + p]
  <1>1. PICK b \in first .. last : b < Length[r]
                                  /\ q = [logmem |-> l, page |-> L!page_number(StartAddr[r] + b)]
    BY Zenon DEF L!TouchedPages
  <1>2. b \in Nat /\ b >= first /\ b <= last
    BY <1>1
  <1>3. /\ L!page_number(b) < L!page_number(Length[r])
        /\ L!page_number(StartAddr[r] + b) = L!page_number(StartAddr[r]) + L!page_number(b)
    BY <1>1, <1>2, AlignedPages, Zenon
  <1>4. L!page_number(first) <= L!page_number(b) /\ L!page_number(b) <= L!page_number(last)
        /\ L!page_number(first) \in Nat /\ L!page_number(last) \in Nat /\ L!page_number(b) \in Nat
    BY <1>2, Constants, DivMono, DivBounds, Zenon DEF L!page_number
  <1> QED
    BY <1>1, <1>3, <1>4, SMTT(30)

\* And the pages that the loop counts are touched: no page before, after or between.
LEMMA CountedIsTouched ==
  ASSUME L!Aligned, NEW r \in L!RegionIds, NEW first \in Nat, NEW last \in Nat, first <= last, NEW l,
         NEW p \in L!page_number(first) .. L!page_number(last), p < L!page_number(Length[r])
  PROVE  [logmem |-> l, page |-> L!page_number(StartAddr[r]) + p]
            \in L!TouchedPages(r, first, last, l)
  <1> DEFINE P == PageSize
             n == Length[r]
             m == n \div P
             a == first \div P
             z == last \div P
  <1>1. P \in Nat \ {0} /\ n \in Nat /\ m \in Nat /\ a \in Nat /\ z \in Nat
    BY Constants, DivBounds, Zenon
  <1>2. p \in Nat /\ a <= p /\ p <= z /\ p < m
    BY <1>1 DEF L!page_number
  <1>3. P * m <= n /\ P * z <= last /\ first < P * a + P
    BY <1>1, DivBounds, Zenon
  <1> HIDE DEF m, a, z, P, n
  <1>4. P * p + P <= P * m /\ P * p <= P * z /\ P * p \in Nat /\ P * m \in Nat /\ P * z \in Nat
        /\ P * a \in Nat
    <2>1. P * (p + 1) <= P * m
      BY <1>1, <1>2, SMT
    <2>2. P * (p + 1) = P * p + P
      BY <1>1, <1>2, SMT
    <2> QED
      BY <1>1, <1>2, <2>1, <2>2, SMT
  <1>5. PICK b \in first .. last : b < n /\ b \in Nat /\ b \div P = p
    <2>1. CASE p = a
      <3>1. first < n
        BY <1>1, <1>2, <1>3, <1>4, <2>1
      <3> QED
        BY <2>1, <3>1 DEF a
    <2>2. CASE a < p
      <3>1. P * a + P <= P * p
        <4>1. P * (a + 1) <= P * p
          BY <1>1, <1>2, <2>2, SMT
        <4>2. P * (a + 1) = P * a + P
          BY <1>1, <1>2, SMT
        <4> QED
          BY <4>1, <4>2, Zenon
      <3>2. P * p \in first .. last /\ P * p < n
        BY <1>1, <1>2, <1>3, <1>4, <3>1
      <3>3. (P * p) \div P = p
        <4>1. (P * p + 0) \div P = p + 0 \div P
          BY <1>1, <1>2, DivShift, Zenon
        <4>2. 0 \div P = 0
          BY <1>1, DivBounds, Z3
        <4> QED
          BY <1>2, <1>4, <4>1, <4>2
      <3> QED
        BY <1>4, <3>2, <3>3, Zenon
    <2> QED
      BY <1>1, <1>2, <2>1, <2>2
  <1>6. L!page_number(b) = p /\ b < Length[r]
    BY <1>5, Zenon DEF L!page_number, P, n
  <1>7. L!page_number(StartAddr[r] + b) = L!page_number(StartAddr[r]) + p
    BY <1>5, <1>6, AlignedPages, Zenon
  <1> QED
    BY <1>5, <1>6, <1>7, Zenon DEF L!TouchedPages

\* What the frontend knows or can find in the logs never gets less.
LEMMA LoggedGrows == ASSUME [L!Next]_(L!vars) PROVE L!Logged \subseteq L!Logged'
  <1>1. CASE UNCHANGED <<dirty, fetched>>
    BY <1>1, Zenon DEF L!Logged
  <1>2. ASSUME NEW w \in Writers, L!MarkPage(w) PROVE L!Logged \subseteq L!Logged'
    <2>1. dirty \subseteq dirty' /\ fetched' = fetched
      BY <1>2, Zenon DEF L!MarkPage, L!FetchOr
    <2> QED
      BY <2>1, Zenon DEF L!Logged
  <1>3. ASSUME NEW b \in dirty, L!FetchWord(b.logmem, b.word) PROVE L!Logged \subseteq L!Logged'
    <2> DEFINE bits == {c \in dirty : c.logmem = b.logmem /\ c.word = b.word}
    <2>1. dirty' = dirty \ bits /\ fetched' = fetched \cup {L!PageOf(c) : c \in bits}
      BY <1>3, Zenon DEF L!FetchWord
    <2> HIDE DEF bits
    <2> QED
      BY <2>1, Zenon DEF L!Logged
  <1> QED
    BY <1>1, <1>2, <1>3 DEF L!Next, L!SetLogBase, L!Replace, L!BeginMark, L!EndMark,
             L!vars, L!logVars

\* In regions of whole pages, every page of a range is in the log or still to come.
THEOREM WritersCorrect == ASSUME L!Aligned PROVE L!Spec => []L!WriterInv
  <1>1. L!Init => L!WriterInv
    BY DEF L!Init, L!WriterInv, L!NoWrite
  <1>2. L!TypeOK /\ L!BitmapInv /\ L!WriterInv /\ [L!Next]_(L!vars) => L!WriterInv'
    <2> SUFFICES ASSUME L!TypeOK, L!BitmapInv, L!WriterInv, [L!Next]_(L!vars) PROVE L!WriterInv'
      BY Zenon
    <2> DEFINE Coming(w, q) ==
                  \E p \in marking[w].page .. marking[w].last :
                     /\ p < inner[marking[w].region].number_of_pages
                     /\ q = [logmem |-> inner[marking[w].region].logmem,
                             page |-> inner[marking[w].region].pages_before_region + p]
    <2>0. L!Logged \subseteq L!Logged'
      BY LoggedGrows, Zenon
    <2>1. ASSUME NEW v \in Writers, marking[v].active, marking'[v] = marking[v],
                 inner'[marking[v].region] = inner[marking[v].region], NEW q \in marking[v].pages
          PROVE  q \in L!Logged' \/ Coming(v, q)'
      BY <2>0, <2>1, SMTT(30) DEF L!WriterInv
    <2>2. CASE UNCHANGED <<inner, marking>>
      BY <2>1, <2>2, Zenon DEF L!WriterInv
    <2>3. CASE L!Replace
      <3>1. ASSUME NEW w \in Writers, marking[w].active
            PROVE  inner'[marking[w].region] = inner[marking[w].region]
        <4>1. marking[w].region # next
          BY <2>3, <3>1, Zenon DEF L!Replace, L!ReadLocked
        <4> QED
          BY <2>3, <3>1, <4>1, Zenon DEF L!Replace, L!TypeOK
      <3>2. marking' = marking
        BY <2>3, ZenonT(40) DEF L!Replace
      <3> QED
        BY <2>1, <3>1, <3>2, Zenon DEF L!WriterInv
    <2>4. ASSUME NEW w \in Writers, NEW r \in L!RegionIds, NEW o1 \in Offsets, NEW o2 \in Offsets,
                 NEW len \in Lens, L!BeginMark(w, r, L!SliceAt(0, o1), o2, len)
          PROVE  L!WriterInv'
      <3>1. PICK first, last \in Nat :
               marking' = [marking EXCEPT ![w] =
                     [active |-> TRUE, region |-> r,
                      page |-> L!page_number(first), last |-> L!page_number(last),
                      pages |-> L!TouchedPages(r, first, last, inner[r].logmem)]]
        BY <2>4, SliceType, BeginMarkType
      <3>2. inner' = inner /\ inner[r] # NoBitmap
        BY <2>4, Zenon DEF L!BeginMark, L!logVars
      <3>3. inner[r].pages_before_region = L!page_number(StartAddr[r])
            /\ inner[r].number_of_pages = L!page_number(Length[r])
        <4>1. PICK l \in {inner[r].logmem} : inner[r] = L!NewBitmap(r, l)
          BY <3>2, Zenon DEF L!BitmapInv
        <4> QED
          BY <4>1 DEF L!NewBitmap
      <3>4. /\ marking'[w].page = L!page_number(first) /\ marking'[w].last = L!page_number(last)
            /\ marking'[w].region = r
            /\ marking'[w].pages = L!TouchedPages(r, first, last, inner[r].logmem)
        BY <3>1, Zenon DEF L!TypeOK
      <3>5. ASSUME NEW q \in marking'[w].pages PROVE Coming(w, q)'
        <4>1. PICK p \in L!page_number(first) .. L!page_number(last) :
                 /\ p < L!page_number(Length[r])
                 /\ q = [logmem |-> inner[r].logmem, page |-> L!page_number(StartAddr[r]) + p]
          BY <3>4, TouchedIsCounted
        <4> QED
          BY <3>2, <3>3, <3>4, <4>1, Zenon
      <3>6. ASSUME NEW v \in Writers, v # w PROVE marking'[v] = marking[v]
        BY <3>1, <3>6, Zenon DEF L!TypeOK
      <3> QED
        BY <2>1, <3>2, <3>5, <3>6, SMTT(30) DEF L!WriterInv
    <2>5. ASSUME NEW w \in Writers, L!MarkPage(w) PROVE L!WriterInv'
      <3> DEFINE r == marking[w].region
                 pg == marking[w].page
      <3>1. r \in L!RegionIds /\ inner[r] \in L!AtomicBitmap /\ pg \in Nat /\ marking[w].last \in Nat
        BY <2>5, Zenon DEF L!MarkPage, L!TypeOK
      <3>2. inner' = inner /\ marking' = [marking EXCEPT ![w].page = pg + 1]
        BY <2>5, Zenon DEF L!MarkPage, L!logVars
      <3>3. L!PageBit(r, pg) \in dirty'
        BY <2>5, Zenon DEF L!MarkPage, L!FetchOr
      <3>4. [logmem |-> inner[r].logmem, page |-> inner[r].pages_before_region + pg] \in L!Logged'
        BY <3>1, <3>3, PageBitType, Zenon DEF L!Logged
      <3>5. /\ marking'[w].page = pg + 1 /\ marking'[w].last = marking[w].last
            /\ marking'[w].region = r /\ marking'[w].pages = marking[w].pages
        BY <3>2, ZenonT(40) DEF L!TypeOK
      <3>6. ASSUME NEW q \in marking'[w].pages PROVE q \in L!Logged' \/ Coming(w, q)'
        <4>1. q \in L!Logged \/ Coming(w, q)
          BY <2>5, <3>5, ZenonT(40) DEF L!WriterInv, L!MarkPage
        <4>2. CASE q \in L!Logged
          BY <2>0, <4>2, Zenon
        <4>3. CASE Coming(w, q)
          <5>1. PICK p \in pg .. marking[w].last :
                   /\ p < inner[r].number_of_pages
                   /\ q = [logmem |-> inner[r].logmem,
                           page |-> inner[r].pages_before_region + p]
            BY <4>3, ZenonT(40)
          <5>2. CASE p = pg
            BY <3>4, <5>1, <5>2, Zenon
          <5>3. CASE p # pg
            <6>1. p \in pg + 1 .. marking[w].last
              BY <3>1, <5>1, <5>3
            <6> QED
              BY <3>2, <3>5, <5>1, <6>1, Zenon
          <5> QED
            BY <5>2, <5>3, Zenon
        <4> QED
          BY <4>1, <4>2, <4>3, Zenon
      <3>7. ASSUME NEW v \in Writers, v # w PROVE marking'[v] = marking[v]
        BY <3>2, <3>7, ZenonT(40) DEF L!TypeOK
      <3> QED
        BY <2>1, <3>2, <3>6, <3>7 DEF L!WriterInv
    <2>6. ASSUME NEW w \in Writers, L!EndMark(w) PROVE L!WriterInv'
      <3>1. inner' = inner /\ marking'[w] = L!NoWrite
        BY <2>6, Zenon DEF L!EndMark, L!logVars, L!TypeOK
      <3>2. ~ marking'[w].active
        BY <3>1 DEF L!NoWrite
      <3>3. ASSUME NEW v \in Writers, v # w PROVE marking'[v] = marking[v]
        BY <2>6, <3>3, Zenon DEF L!EndMark, L!TypeOK
      <3> QED
        BY <2>1, <3>1, <3>3, <3>2 DEF L!WriterInv
    <2> QED
      BY <2>2, <2>3, <2>4, <2>5, <2>6, Zenon DEF L!Next, L!SetLogBase, L!FetchWord, L!vars, L!logVars
  <1> QED
    BY <1>1, <1>2, TypeCorrect, BitmapsCorrect, PTL DEF L!Spec

\* In regions of whole pages, mark_dirty loses nothing: when it is over, every guest page of
\* the range is in the log or was taken by the frontend, whatever other writers, other
\* regions in the same word, and set_log_base did meanwhile.
THEOREM NoWriteIsLost == ASSUME L!Aligned PROVE L!Spec => []WritesAreLogged
  <1>1. L!Init => WritesAreLogged
    BY Zenon DEF L!Init, WritesAreLogged, L!WritesAreLogged
  <1>2. L!TypeOK /\ L!WriterInv /\ WritesAreLogged /\ [L!Next]_(L!vars) => WritesAreLogged'
    <2> SUFFICES ASSUME L!TypeOK, L!WriterInv, WritesAreLogged, [L!Next]_(L!vars)
                 PROVE  WritesAreLogged'
      BY Zenon
    <2>0. L!Logged \subseteq L!Logged'
      BY LoggedGrows, Zenon
    <2>1. ASSUME NEW w \in Writers, L!EndMark(w) PROVE WritesAreLogged'
      <3>1. ASSUME NEW q \in marking[w].pages PROVE q \in L!Logged
        <4>1. SUFFICES ASSUME NEW p \in marking[w].page .. marking[w].last,
                              p < inner[marking[w].region].number_of_pages
                       PROVE  FALSE
          BY <2>1, <3>1, Zenon DEF L!WriterInv, L!EndMark
        <4>2. marking[w].page \in Nat /\ marking[w].last \in Nat
              /\ inner[marking[w].region].number_of_pages \in Nat
          BY <2>1, Zenon DEF L!TypeOK, L!AtomicBitmap, L!EndMark
        <4> QED
          BY <2>1, <4>1, <4>2, SMTT(30) DEF L!EndMark, L!InLoop
      <3>2. finished' = finished \cup marking[w].pages
        BY <2>1, Zenon DEF L!EndMark
      <3> QED
        BY <2>0, <3>1, <3>2, Zenon DEF WritesAreLogged, L!WritesAreLogged
    <2>2. CASE UNCHANGED finished
      BY <2>0, <2>2, Zenon DEF WritesAreLogged, L!WritesAreLogged
    <2> QED
      BY <2>1, <2>2 DEF L!Next, L!SetLogBase, L!Replace, L!BeginMark, L!MarkPage, L!FetchWord, L!vars,
             L!history
  <1> QED
    BY <1>1, <1>2, TypeCorrect, WritersCorrect, PTL DEF L!Spec
-------------------------------------------------------------------------------
\* In regions of whole pages, the loop marks no page but those of the range.
THEOREM WritersAimWell == ASSUME L!Aligned PROVE L!Spec => []L!AimInv
  <1>1. L!Init => L!AimInv
    BY SMTT(30) DEF L!Init, L!AimInv, L!NoWrite
  <1>2. L!TypeOK /\ L!BitmapInv /\ L!AimInv /\ [L!Next]_(L!vars) => L!AimInv'
    <2> SUFFICES ASSUME L!TypeOK, L!BitmapInv, L!AimInv, [L!Next]_(L!vars) PROVE L!AimInv'
      BY Zenon
    <2> DEFINE Target(w, p) == [logmem |-> inner[marking[w].region].logmem,
                                page |-> inner[marking[w].region].pages_before_region + p]
               Aims(w) == \A p \in marking[w].page .. marking[w].last :
                             p < inner[marking[w].region].number_of_pages => Target(w, p) \in begun
    <2>0. begun \subseteq begun'
      BY DEF L!Next, L!SetLogBase, L!Replace, L!BeginMark, L!MarkPage, L!EndMark, L!FetchWord,
             L!vars, L!history
    <2>1. ASSUME NEW v \in Writers, marking[v].active, marking'[v] = marking[v],
                 inner'[marking[v].region] = inner[marking[v].region]
          PROVE  Aims(v)'
      BY <2>0, <2>1, Zenon DEF L!AimInv
    <2>2. CASE UNCHANGED <<inner, marking>>
      BY <2>1, <2>2, Zenon DEF L!AimInv
    <2>3. CASE L!Replace
      <3>1. ASSUME NEW w \in Writers, marking[w].active
            PROVE  inner'[marking[w].region] = inner[marking[w].region]
        <4>1. marking[w].region # next
          BY <2>3, <3>1, Zenon DEF L!Replace, L!ReadLocked
        <4> QED
          BY <2>3, <3>1, <4>1, Zenon DEF L!Replace, L!TypeOK
      <3>2. marking' = marking
        BY <2>3, Zenon DEF L!Replace
      <3> QED
        BY <2>1, <3>1, <3>2, Zenon DEF L!AimInv
    <2>4. ASSUME NEW w \in Writers, NEW r \in L!RegionIds, NEW o1 \in Offsets, NEW o2 \in Offsets,
                 NEW len \in Lens, L!BeginMark(w, r, L!SliceAt(0, o1), o2, len)
          PROVE  L!AimInv'
      <3>1. PICK first, last \in Nat :
               /\ marking' = [marking EXCEPT ![w] =
                     [active |-> TRUE, region |-> r,
                      page |-> L!page_number(first), last |-> L!page_number(last),
                      pages |-> L!TouchedPages(r, first, last, inner[r].logmem)]]
               /\ first <= last
        BY <2>4, SliceType, BeginMarkType, Zenon
      <3>2. inner' = inner /\ inner[r] # NoBitmap /\ begun' = begun \cup marking'[w].pages
        BY <2>4, Zenon DEF L!BeginMark, L!logVars
      <3>3. inner[r].pages_before_region = L!page_number(StartAddr[r])
            /\ inner[r].number_of_pages = L!page_number(Length[r])
        <4>1. PICK l \in {inner[r].logmem} : inner[r] = L!NewBitmap(r, l)
          BY <3>2, Zenon DEF L!BitmapInv
        <4> QED
          BY <4>1 DEF L!NewBitmap
      <3>4. /\ marking'[w].page = L!page_number(first) /\ marking'[w].last = L!page_number(last)
            /\ marking'[w].region = r
            /\ marking'[w].pages = L!TouchedPages(r, first, last, inner[r].logmem)
        BY <3>1, Zenon DEF L!TypeOK
      <3>5. Aims(w)'
        <4> SUFFICES ASSUME NEW p \in L!page_number(first) .. L!page_number(last),
                            p < L!page_number(Length[r])
                     PROVE  [logmem |-> inner[r].logmem,
                             page |-> L!page_number(StartAddr[r]) + p] \in begun'
          BY <3>2, <3>3, <3>4, Zenon
        <4> QED
          BY <3>1, <3>2, <3>4, CountedIsTouched, SMTT(30)
      <3>6. ASSUME NEW v \in Writers, v # w PROVE marking'[v] = marking[v]
        BY <3>1, <3>6, Zenon DEF L!TypeOK
      <3> QED
        BY <2>1, <3>2, <3>5, <3>6, Zenon DEF L!AimInv
    <2>5. ASSUME NEW w \in Writers, L!MarkPage(w) PROVE L!AimInv'
      <3>1. inner' = inner /\ marking' = [marking EXCEPT ![w].page = @ + 1] /\ marking[w].active
        BY <2>5, Zenon DEF L!MarkPage, L!logVars
      <3>2. /\ marking'[w].page = marking[w].page + 1 /\ marking'[w].last = marking[w].last
            /\ marking'[w].region = marking[w].region
            /\ marking[w].page \in Nat /\ marking[w].last \in Nat
        BY <3>1, Zenon DEF L!TypeOK
      <3>3. Aims(w)'
        BY <2>0, <3>1, <3>2 DEF L!AimInv
      <3>4. ASSUME NEW v \in Writers, v # w PROVE marking'[v] = marking[v]
        BY <3>1, <3>4, ZenonT(40) DEF L!TypeOK
      <3> QED
        BY <2>1, <3>1, <3>3, <3>4, Zenon DEF L!AimInv
    <2>6. ASSUME NEW w \in Writers, L!EndMark(w) PROVE L!AimInv'
      <3>1. inner' = inner /\ marking'[w] = L!NoWrite
        BY <2>6, Zenon DEF L!EndMark, L!logVars, L!TypeOK
      <3>2. ~ marking'[w].active
        BY <3>1 DEF L!NoWrite
      <3>3. ASSUME NEW v \in Writers, v # w PROVE marking'[v] = marking[v]
        BY <2>6, <3>3, Zenon DEF L!EndMark, L!TypeOK
      <3> QED
        BY <2>1, <3>1, <3>2, <3>3, Zenon DEF L!AimInv
    <2> QED
      BY <2>2, <2>3, <2>4, <2>5, <2>6, Zenon DEF L!Next, L!SetLogBase, L!FetchWord, L!vars, L!logVars
  <1> QED
    BY <1>1, <1>2, TypeCorrect, BitmapsCorrect, PTL DEF L!Spec

\* Two bits of the log that stand for the same page are the same bit.
LEMMA PageOfInjective ==
  ASSUME NEW b \in [logmem : L!Logs, word : Nat, bit : 0 .. WordSize - 1],
         NEW c \in [logmem : L!Logs, word : Nat, bit : 0 .. WordSize - 1],
         L!PageOf(b) = L!PageOf(c)
  PROVE  b = c
  <1> DEFINE W == WordSize
             x == b.word
             y == c.word
  <1>1. W \in Nat \ {0} /\ x \in Nat /\ y \in Nat /\ b.bit \in 0 .. W - 1 /\ c.bit \in 0 .. W - 1
    BY Constants, Zenon
  <1>2. x * W + b.bit = y * W + c.bit /\ b.logmem = c.logmem
    BY Zenon DEF L!PageOf
  <1>3. x = y
    <2> HIDE DEF W, x, y
    <2>1. x * W \in Nat /\ y * W \in Nat
      BY <1>1, SMT
    <2>2. ~ x < y
      <3> SUFFICES ASSUME x + 1 <= y PROVE FALSE
        BY <1>1
      <3>1. (x + 1) * W <= y * W
        BY <1>1, SMT
      <3>2. (x + 1) * W = x * W + W
        BY <1>1, SMT
      <3> QED
        BY <1>1, <1>2, <2>1, <3>1, <3>2
    <2>3. ~ y < x
      <3> SUFFICES ASSUME y + 1 <= x PROVE FALSE
        BY <1>1
      <3>1. (y + 1) * W <= x * W
        BY <1>1, SMT
      <3>2. (y + 1) * W = y * W + W
        BY <1>1, SMT
      <3> QED
        BY <1>1, <1>2, <2>1, <3>1, <3>2
    <2> QED
      BY <1>1, <2>2, <2>3
  <1>4. b.bit = c.bit
    <2>1. x * W \in Nat
      BY <1>1, SMT
    <2> QED
      BY <1>1, <1>2, <1>3, <2>1
  <1> QED
    BY <1>2, <1>3, <1>4

\* In regions of whole pages, nothing is marked but what somebody writes to, and dirty_at
\* reads the bit that the frontend reads for the same byte.
THEOREM OnlyWritesMark == ASSUME L!Aligned PROVE L!Spec => []OnlyWritesAreLogged
  <1> DEFINE OnlyBegun == L!Logged \subseteq begun
  <1>1. L!Init => OnlyBegun
    BY Zenon DEF L!Init, L!Logged
  <1>2. L!TypeOK /\ L!AimInv /\ OnlyBegun /\ [L!Next]_(L!vars) => OnlyBegun'
    <2> SUFFICES ASSUME L!TypeOK, L!AimInv, OnlyBegun, [L!Next]_(L!vars) PROVE OnlyBegun'
      BY Zenon
    <2>0. begun \subseteq begun'
      BY DEF L!Next, L!SetLogBase, L!Replace, L!BeginMark, L!MarkPage, L!EndMark, L!FetchWord,
             L!vars, L!history
    <2>1. CASE UNCHANGED <<dirty, fetched>>
      BY <2>0, <2>1, Zenon DEF L!Logged
    <2>2. ASSUME NEW w \in Writers, L!MarkPage(w) PROVE OnlyBegun'
      <3> DEFINE r == marking[w].region
                 pg == marking[w].page
      <3>1. r \in L!RegionIds /\ inner[r] \in L!AtomicBitmap /\ pg \in Nat /\ marking[w].last \in Nat
        BY <2>2, Zenon DEF L!MarkPage, L!TypeOK
      <3>2. dirty' = dirty \cup {L!PageBit(r, pg)} /\ fetched' = fetched
        BY <2>2, Zenon DEF L!MarkPage, L!FetchOr
      <3>3. pg \in pg .. marking[w].last /\ pg < inner[r].number_of_pages /\ marking[w].active
        BY <2>2, <3>1, SMTT(30) DEF L!MarkPage, L!InLoop
      <3>4. [logmem |-> inner[r].logmem, page |-> inner[r].pages_before_region + pg] \in begun
        BY <3>3, Zenon DEF L!AimInv
      <3>5. L!PageOf(L!PageBit(r, pg)) \in begun
        BY <3>1, <3>4, PageBitType, Zenon
      <3> QED
        BY <2>0, <3>2, <3>5, Zenon DEF L!Logged
    <2>3. ASSUME NEW b \in dirty, L!FetchWord(b.logmem, b.word) PROVE OnlyBegun'
      BY <2>0, <2>3, Zenon DEF L!Logged, L!FetchWord
    <2> QED
      BY <2>1, <2>2, <2>3 DEF L!Next, L!SetLogBase, L!Replace, L!BeginMark, L!EndMark,
             L!vars, L!logVars
  <1>3. L!TypeOK /\ L!BitmapInv /\ OnlyBegun => OnlyWritesAreLogged
    <2> SUFFICES ASSUME L!TypeOK, L!BitmapInv, NEW r \in L!RegionIds, NEW o \in Offsets,
                        inner[r] # NoBitmap, o < Length[r]
                 PROVE  L!dirty_at(r, o) <=>
                           [logmem |-> inner[r].logmem, page |-> L!page_number(StartAddr[r] + o)]
                              \in {L!PageOf(b) : b \in dirty}
      BY Zenon DEF OnlyWritesAreLogged, L!OnlyWritesAreLogged
    <2>1. o \in Nat /\ inner[r] \in L!AtomicBitmap
      BY InputAssumption, Constants, SMTT(30) DEF L!TypeOK
    <2>2. inner[r].pages_before_region = L!page_number(StartAddr[r])
          /\ inner[r].number_of_pages = L!page_number(Length[r])
      <3>1. PICK l \in {inner[r].logmem} : inner[r] = L!NewBitmap(r, l)
        BY Zenon DEF L!BitmapInv
      <3> QED
        BY <3>1 DEF L!NewBitmap
    <2>3. /\ L!page_number(o) < L!page_number(Length[r]) /\ L!page_number(o) \in Nat
          /\ L!page_number(StartAddr[r] + o) = L!page_number(StartAddr[r]) + L!page_number(o)
      BY <2>1, AlignedPages, PageArithmetic, Zenon
    <2>4. /\ L!PageBit(r, L!page_number(o)) \in [logmem : L!Logs, word : Nat, bit : 0 .. WordSize - 1]
          /\ L!PageOf(L!PageBit(r, L!page_number(o)))
                = [logmem |-> inner[r].logmem, page |-> L!page_number(StartAddr[r] + o)]
      BY <2>1, <2>2, <2>3, PageBitType, ZenonT(40)
    <2>5. L!dirty_at(r, o) <=> L!PageBit(r, L!page_number(o)) \in dirty
      BY <2>2, <2>3, Zenon DEF L!dirty_at
    <2>6. ASSUME NEW b \in dirty, L!PageOf(b) = L!PageOf(L!PageBit(r, L!page_number(o)))
          PROVE  b = L!PageBit(r, L!page_number(o))
      BY <2>4, <2>6, PageOfInjective, Zenon DEF L!TypeOK
    <2> QED
      BY <2>4, <2>5, <2>6, Zenon
  <1> QED
    BY <1>1, <1>2, <1>3, TypeCorrect, BitmapsCorrect, WritersAimWell, PTL DEF L!Spec
-------------------------------------------------------------------------------
INSTANCE FiniteSetTheorems

(* Event dispatch: counting the mask bits from above (update_vring_registration) and pushing  *)
(* the rings from below (VhostUserHandler::new) agree, for every number of queues and mask.   *)

\* Ring numbers fit in an event id.
LEMMA QueuesAssumption == EventQueues \in Nat /\ EventMod \in Nat /\ EventQueues < EventMod
  BY DispatchAssumption, Zenon DEF V!Counted

\* A number below the modulus is its own remainder.
LEMMA Remainder ==
  ASSUME NEW n \in Nat, NEW a \in Nat, a < n
  PROVE  (a % n) = a
  BY SMTT(30)

\* The counting of EventDispatch is that of FiniteSets.
LEMMA Counting ==
  ASSUME NEW S
  PROVE  (V!IsFiniteSet(S) <=> IsFiniteSet(S)) /\ V!Cardinality(S) = Cardinality(S)
  <1>1. V!IsFiniteSet(S) <=> IsFiniteSet(S)
    BY Zenon DEF V!IsFiniteSet, IsFiniteSet
  <1>2. V!Cardinality(S) = Cardinality(S)
    BY Zenon DEF V!Cardinality, Cardinality
  <1> QED
    BY <1>1, <1>2, Zenon

\* A mask is a finite set of bits.
LEMMA MaskAssumption == Mask \subseteq Nat /\ IsFiniteSet(Mask)
  <1>1. Mask \subseteq Nat /\ V!IsFiniteSet(Mask)
    BY DispatchAssumption, Zenon DEF V!Counted
  <1> QED
    BY <1>1, Counting, Zenon

\* The number of mask bits below n.
LEMMA BelowIs ==
  ASSUME NEW n
  PROVE  V!Below(n) = Cardinality({b \in Mask : b < n})
  BY Counting, Zenon DEF V!Below

\* A mask bit is a natural number.
LEMMA MaskBit == ASSUME NEW b \in Mask PROVE b \in Nat
  BY MaskAssumption, Zenon

\* The bits below n are finite in number, and at most n of them are rings.
LEMMA BelowType ==
  ASSUME NEW n \in Nat
  PROVE  /\ IsFiniteSet({b \in Mask : b < n})
         /\ V!Below(n) \in Nat
         /\ V!Below(n) <= n
  <1> DEFINE S == {b \in Mask : b < n}
  <1>1. IsFiniteSet(S)
    BY MaskAssumption, FS_Subset, Zenon
  <1>2. Cardinality(S) \in Nat
    BY <1>1, FS_CardinalityType, Zenon
  <1>3. IsFiniteSet(0 .. n - 1) /\ Cardinality(0 .. n - 1) = n
    BY FS_Interval, SMTT(30)
  <1>4. S \in SUBSET (0 .. n - 1)
    <2>1. ASSUME NEW b \in Mask, b < n PROVE b \in 0 .. n - 1
      BY <2>1, MaskBit, SMTT(30)
    <2> QED
      BY <2>1, Zenon
  <1>5. Cardinality(S) <= Cardinality(0 .. n - 1)
    BY <1>3, <1>4, FS_Subset, Zenon
  <1> QED
    BY <1>1, <1>2, <1>3, <1>5, BelowIs, Zenon

\* One more bit, one more ring.
LEMMA BelowNext ==
  ASSUME NEW n \in Nat
  PROVE  V!Below(n + 1) = IF n \in Mask THEN V!Below(n) + 1 ELSE V!Below(n)
  <1> DEFINE S == {b \in Mask : b < n}
             T == {b \in Mask : b < n + 1}
  <1>1. IsFiniteSet(S)
    BY BelowType, Zenon
  <1>2. CASE n \in Mask
    <2>1. \A b \in Mask : b < n + 1 <=> (b < n \/ b = n)
      BY MaskBit, SMTT(30)
    <2>2. T = S \cup {n} /\ n \notin S
      <3>1. n \notin S
        BY SMTT(30)
      <3>2. T \subseteq S \cup {n}
        BY <2>1, Zenon
      <3>3. S \cup {n} \subseteq T
        BY <1>2, <2>1, ZenonT(40)
      <3> QED
        BY <3>1, <3>2, <3>3, Zenon
    <2>3. Cardinality(T) = Cardinality(S) + 1
      BY <1>1, <2>2, FS_AddElement, Zenon
    <2> QED
      BY <1>2, <2>3, BelowIs, Zenon
  <1>3. CASE n \notin Mask
    <2>1. \A b \in Mask : b < n + 1 <=> b < n
      BY <1>3, MaskBit, SMTT(30)
    <2>2. T = S
      BY <2>1, Zenon
    <2> QED
      BY <1>3, <2>2, BelowIs, ZenonT(40)
  <1> QED
    BY <1>2, <1>3, Zenon

\* A collected ring sits before the end of the list.
LEMMA BelowStrict ==
  ASSUME NEW q \in Mask, NEW n \in Nat, q < n
  PROVE  V!Below(q) < V!Below(n)
  <1> DEFINE S == {b \in Mask : b < q}
             T == {b \in Mask : b < n}
  <1>1. q \in Nat
    BY MaskAssumption, Zenon
  <1>2. IsFiniteSet(S) /\ IsFiniteSet(T) /\ V!Below(q) \in Nat /\ V!Below(n) \in Nat
    BY <1>1, BelowType, Zenon
  <1>3. S \in SUBSET T /\ q \in T /\ q \notin S
    <2>1. \A b \in Mask : b < q => b < n
      BY <1>1, MaskBit, SMTT(30)
    <2>2. q < n /\ ~(q < q)
      BY <1>1, SMTT(30)
    <2> QED
      BY <2>1, <2>2, Zenon
  <1>4. Cardinality(S) <= Cardinality(T) /\ (Cardinality(T) = Cardinality(S) => T = S)
    BY <1>2, <1>3, FS_Subset, Zenon
  <1> QED
    BY <1>2, <1>3, <1>4, BelowIs, SMTT(30)

\* Shifting a mask right by n keeps the bits from n upwards, and their number.
LEMMA ShiftRightCount ==
  ASSUME NEW n \in Nat
  PROVE  /\ IsFiniteSet({c \in Mask : c >= n})
         /\ Cardinality(V!ShiftRight(Mask, n)) = Cardinality({c \in Mask : c >= n})
  <1> DEFINE S == {c \in Mask : c >= n}
             T == V!ShiftRight(Mask, n)
             f == [c \in S |-> c - n]
  <1>1. IsFiniteSet(S)
    BY MaskAssumption, FS_Subset, Zenon
  <1>2. f \in [S -> T]
    BY Zenon DEF V!ShiftRight
  <1>3. \A x, y \in S : f[x] = f[y] => x = y
    BY MaskAssumption, SMTT(30)
  <1>4. \A t \in T : \E x \in S : f[x] = t
    BY Zenon DEF V!ShiftRight
  <1> HIDE DEF f
  <1>5. f \in Bijection(S, T)
    BY <1>2, <1>3, <1>4, Zenon DEF Bijection, Injection, IsInjective, Surjection
  <1>6. ExistsBijection(S, T)
    BY <1>5, Zenon DEF ExistsBijection
  <1> QED
    BY <1>1, <1>6, FS_Bijection, Zenon

\* evt_idx is the number of mask bits below the ring.
LEMMA EvtIdxIsBelow ==
  ASSUME NEW q \in Nat
  PROVE  V!EvtIdx(q) = V!Below(q)
  <1> DEFINE S == {b \in Mask : b < q}
             T == {c \in Mask : c >= q}
  <1>1. IsFiniteSet(S) /\ IsFiniteSet(T) /\ V!Below(q) \in Nat
    BY BelowType, ShiftRightCount, Zenon
  <1>2. S \cap T = {} /\ S \cup T = Mask
    <2>1. \A b \in Mask : ~(b < q) <=> b >= q
      BY MaskBit, SMTT(30)
    <2> QED
      BY <2>1, Zenon
  <1>3. Cardinality(T) \in Nat
    BY <1>1, FS_CardinalityType, Zenon
  <1>4. Cardinality(S \cup T) = Cardinality(S) + Cardinality(T) - Cardinality(S \cap T)
    BY <1>1, FS_Union, Zenon
  <1>5. Cardinality({}) = 0
    BY FS_EmptySet, Zenon
  <1>6. Cardinality(V!ShiftRight(Mask, q)) = Cardinality(T)
    BY ShiftRightCount, Zenon
  <1>7. V!EvtIdx(q) = Cardinality(Mask) - Cardinality(T) /\ V!Below(q) = Cardinality(S)
    <2>1. V!EvtIdx(q) = Cardinality(Mask) - Cardinality(V!ShiftRight(Mask, q))
      <3>1. /\ V!Cardinality(Mask) = Cardinality(Mask)
            /\ V!Cardinality(V!ShiftRight(Mask, q)) = Cardinality(V!ShiftRight(Mask, q))
        BY Counting, Zenon
      <3> QED
        BY <3>1, Zenon DEF V!EvtIdx
    <2> QED
      BY <1>6, <2>1, BelowIs, ZenonT(40)
  <1>8. Cardinality(Mask) = Cardinality(S) + Cardinality(T) - 0
    BY <1>2, <1>4, <1>5, ZenonT(40)
  <1>9. Cardinality(S) \in Nat
    BY <1>1, FS_CardinalityType, Zenon
  <1> QED
    BY <1>3, <1>7, <1>8, <1>9, SMTT(30)
-------------------------------------------------------------------------------
\* The loop of VhostUserHandler::new puts every ring where Below says.
THEOREM CollectCorrect == V!Spec => [](index \in 0 .. EventQueues
                                     /\ thread_vrings \in Seq(V!Rings) /\ V!CollectInv)
  <1> DEFINE Inv == index \in 0 .. EventQueues /\ thread_vrings \in Seq(V!Rings) /\ V!CollectInv
  <1> USE QueuesAssumption
  <1>1. V!Init => Inv
    <2>1. V!Below(0) \in Nat /\ V!Below(0) <= 0
      BY BelowType, Zenon
    <2> QED
      BY <2>1, MaskBit, SMTT(30) DEF V!Init, V!CollectInv
  <1>2. Inv /\ [V!Next]_(V!vars) => Inv'
    <2> SUFFICES ASSUME Inv, [V!Next]_(V!vars) PROVE Inv'
      BY Zenon
    <2>1. CASE V!CollectVring
      <3>1. index \in V!Rings /\ index' = index + 1 /\ index' \in 0 .. EventQueues
        BY <2>1, SMTT(30) DEF V!CollectVring, V!Rings
      <3>2. index \in Nat
        BY <3>1, SMTT(30) DEF V!Rings
      <3>3. V!Below(index) \in Nat
        BY <3>2, BelowType, Zenon
      <3>4. \A q \in Mask : q < index => V!Below(q) \in Nat /\ V!Below(q) < V!Below(index)
        BY <3>2, MaskBit, BelowType, BelowStrict, ZenonT(40)
      <3>5. CASE index \in Mask
        <4>1. thread_vrings' = Append(thread_vrings, index)
          BY <2>1, <3>5, Zenon DEF V!CollectVring
        <4>2. V!Below(index') = V!Below(index) + 1
          BY <3>1, <3>5, <3>2, BelowNext, Zenon
        <4>3. thread_vrings' \in Seq(V!Rings) /\ Len(thread_vrings') = V!Below(index')
          BY <3>1, <3>3, <4>1, <4>2, SMTT(30) DEF V!CollectInv
        <4>4. ASSUME NEW q \in Mask, q < index' PROVE thread_vrings'[V!Below(q) + 1] = q
          <5>1. CASE q = index
            BY <3>1, <3>3, <4>1, <5>1, SMTT(30) DEF V!CollectInv
          <5>2. CASE q < index
            BY <3>3, <3>4, <4>1, <5>2, SMTT(30) DEF V!CollectInv
          <5> QED
            BY <3>1, <3>2, <4>4, <5>1, <5>2, MaskBit, SMTT(30)
        <4> QED
          BY <3>1, <4>3, <4>4, Zenon DEF V!CollectInv
      <3>6. CASE index \notin Mask
        <4>1. thread_vrings' = thread_vrings
          BY <2>1, <3>6, Zenon DEF V!CollectVring
        <4>2. V!Below(index') = V!Below(index)
          BY <3>1, <3>6, <3>2, BelowNext, Zenon
        <4>3. \A q \in Mask : q < index' => q < index
          BY <3>1, <3>6, <3>2, MaskBit, SMTT(30)
        <4> QED
          BY <3>1, <4>1, <4>2, <4>3, Zenon DEF V!CollectInv
      <3> QED
        BY <3>5, <3>6, Zenon
    <2>2. CASE UNCHANGED <<index, thread_vrings>>
      BY <2>2, Zenon DEF V!CollectInv
    <2> QED
      BY <2>1, <2>2, ZenonT(40) DEF V!Next, V!RegisterVring, V!UnregisterVring, V!RegisterExitEvent,
         V!RegisterListener, V!UnregisterListener, V!Register, V!Dispatch, V!vars
  <1> QED
    BY <1>1, <1>2, PTL DEF V!Spec
\* Only rings of the mask are registered as rings, and under their evt_idx.
THEOREM RegistrationsCorrect == V!Spec => []V!RegisteredInv
  <1>1. V!Init => V!RegisteredInv
    BY Zenon DEF V!Init, V!RegisteredInv
  <1>2. V!RegisteredInv /\ [V!Next]_(V!vars) => V!RegisteredInv'
    <2> SUFFICES ASSUME V!RegisteredInv, [V!Next]_(V!vars) PROVE V!RegisteredInv'
      BY Zenon
    <2>1. CASE V!CollectVring
      <3>1. registered = {} /\ registered' = {}
        BY <2>1, QueuesAssumption, SMTT(30) DEF V!CollectVring, V!RegisteredInv, V!Collected
      <3> QED
        BY <3>1, Zenon DEF V!RegisteredInv
    <2>2. ASSUME NEW q \in V!Rings, V!RegisterVring(q) PROVE V!RegisteredInv'
      BY <2>2, Zenon DEF V!RegisterVring, V!Register, V!RegisteredInv, V!Collected
    <2>3. ASSUME NEW q \in V!Rings, V!UnregisterVring(q) PROVE V!RegisteredInv'
      BY <2>3, Zenon DEF V!UnregisterVring, V!RegisteredInv, V!Collected
    <2>4. CASE V!RegisterExitEvent
      BY <2>4, SMTT(30) DEF V!RegisterExitEvent, V!Register, V!RegisteredInv, V!Collected
    <2>5. ASSUME NEW data \in ListenerData, V!RegisterListener(data) PROVE V!RegisteredInv'
      BY <2>5, SMTT(30) DEF V!RegisterListener, V!Register, V!RegisteredInv, V!Collected
    <2>6. ASSUME NEW data \in ListenerData, V!UnregisterListener(data) PROVE V!RegisteredInv'
      BY <2>6, Zenon DEF V!UnregisterListener, V!RegisteredInv, V!Collected
    <2>7. CASE UNCHANGED <<index, registered>>
      BY <2>7, Zenon DEF V!RegisteredInv, V!Collected
    <2> QED
      BY <2>1, <2>2, <2>3, <2>4, <2>5, <2>6, <2>7, Zenon DEF V!Next, V!Dispatch, V!vars
  <1> QED
    BY <1>1, <1>2, PTL DEF V!Spec

\* The kick of a ring makes the worker read that ring's kick, for every number of queues
\* that a u16 can count and every mask: event_loop.rs finds the ring that
\* update_vring_registration meant.
THEOREM KickReachesItsRing == V!Spec => []RingEventReachesItsRing
  <1> DEFINE Collect == index \in 0 .. EventQueues /\ thread_vrings \in Seq(V!Rings) /\ V!CollectInv
  <1>1. V!Init => V!RingEventReachesItsRing
    BY SMTT(30) DEF V!Init, V!RingEventReachesItsRing, V!None
  <1>2. V!RingEventReachesItsRing /\ Collect /\ V!RegisteredInv /\ [V!Next]_(V!vars)
          => V!RingEventReachesItsRing'
    <2> SUFFICES ASSUME V!RingEventReachesItsRing, Collect, V!RegisteredInv, [V!Next]_(V!vars)
                 PROVE  V!RingEventReachesItsRing'
      BY Zenon
    <2>1. ASSUME NEW r \in registered, V!Dispatch(r), r.source.kind = "ring"
          PROVE  V!RingEventReachesItsRing'
      <3>0. PICK q \in Mask \cap V!Rings :
               r = [source |-> [kind |-> "ring", id |-> q], data |-> V!EvtIdx(q)]
        BY <2>1, Zenon DEF V!RegisteredInv
      <3>1. q \in Mask /\ q \in Nat /\ q < EventQueues /\ r.data = V!EvtIdx(q)
        BY <3>0, QueuesAssumption, SMTT(30) DEF V!Rings
      <3>2. index = EventQueues /\ EventQueues \in Nat /\ EventQueues < EventMod /\ EventMod \in Nat
        BY <2>1, QueuesAssumption, Zenon DEF V!Dispatch, V!Collected
      <3>3. r.data = V!Below(q)
        BY <3>1, EvtIdxIsBelow, Zenon
      <3>4. V!Below(q) \in Nat /\ V!Below(q) <= q
        BY <3>1, BelowType, ZenonT(40)
      <3>5. V!Below(q) < Len(thread_vrings)
        BY <3>1, <3>2, BelowStrict, Zenon DEF V!CollectInv
      <3>6. thread_vrings[V!Below(q) + 1] = q
        BY <3>1, <3>2, Zenon DEF V!CollectInv
      <3>7. V!Below(q) % EventMod = V!Below(q) /\ V!Below(q) # EventQueues
        <4>1. V!Below(q) < EventMod /\ V!Below(q) # EventQueues
          BY <3>1, <3>2, <3>4, SMTT(30)
        <4> QED
          BY <3>2, <3>4, <4>1, Remainder, ZenonT(40)
      <3>8. handled'.source = r.source
            /\ handled'.target = [kind |-> "ring", id |-> q]
        BY <2>1, <3>3, <3>5, <3>6, <3>7, Zenon DEF V!Dispatch, V!HandleEvent
      <3> QED
        BY <3>0, <3>8, Zenon DEF V!RingEventReachesItsRing
    <2>2. ASSUME NEW r \in registered, V!Dispatch(r), r.source.kind # "ring"
          PROVE  V!RingEventReachesItsRing'
      BY <2>2, Zenon DEF V!Dispatch, V!RingEventReachesItsRing
    <2>3. CASE UNCHANGED handled
      BY <2>3, Zenon DEF V!RingEventReachesItsRing
    <2> QED
      BY <2>1, <2>2, <2>3, ZenonT(40) DEF V!Next, V!CollectVring, V!RegisterVring, V!UnregisterVring,
         V!RegisterExitEvent, V!RegisterListener, V!UnregisterListener, V!Register, V!vars
  <1> QED
    BY <1>1, <1>2, CollectCorrect, RegistrationsCorrect, PTL DEF V!Spec, RingEventReachesItsRing
-------------------------------------------------------------------------------
\* What is registered is a ring, the exit event or one of the backend's numbers.
THEOREM OthersCorrect == V!Spec => []V!ReservedInv
  <1>1. V!Init => V!ReservedInv
    BY Zenon DEF V!Init, V!ReservedInv
  <1>2. V!ReservedInv /\ [V!Next]_(V!vars) => V!ReservedInv'
    <2> SUFFICES ASSUME V!ReservedInv, [V!Next]_(V!vars) PROVE V!ReservedInv'
      BY Zenon
    <2>1. ASSUME NEW q \in V!Rings, V!RegisterVring(q) PROVE V!ReservedInv'
      BY <2>1, SMTT(30) DEF V!RegisterVring, V!Register, V!ReservedInv
    <2>2. ASSUME NEW q \in V!Rings, V!UnregisterVring(q) PROVE V!ReservedInv'
      BY <2>2, Zenon DEF V!UnregisterVring, V!ReservedInv
    <2>3. CASE V!RegisterExitEvent
      BY <2>3, Zenon DEF V!RegisterExitEvent, V!Register, V!ReservedInv
    <2>4. ASSUME NEW data \in ListenerData, V!RegisterListener(data) PROVE V!ReservedInv'
      BY <2>4, Zenon DEF V!RegisterListener, V!Register, V!ReservedInv
    <2>5. ASSUME NEW data \in ListenerData, V!UnregisterListener(data) PROVE V!ReservedInv'
      BY <2>5, Zenon DEF V!UnregisterListener, V!ReservedInv
    <2>6. CASE UNCHANGED registered
      BY <2>6, Zenon DEF V!ReservedInv
    <2> QED
      BY <2>1, <2>2, <2>3, <2>4, <2>5, <2>6, ZenonT(40) DEF V!Next, V!CollectVring, V!Dispatch, V!vars
  <1> QED
    BY <1>1, <1>2, PTL DEF V!Spec

\* Once they are collected a thread has no more rings than there are queues.
LEMMA NoMoreRings ==
  ASSUME index \in 0 .. EventQueues, V!CollectInv, V!Collected
  PROVE  Len(thread_vrings) <= EventQueues
  <1>1. V!Below(EventQueues) <= EventQueues
    BY QueuesAssumption, BelowType, Zenon
  <1> QED
    BY <1>1, Zenon DEF V!CollectInv, V!Collected

\* An event of the backend's own is passed on to the backend under its number, if the
\* numbers fit the u16 that run cuts them down to.
THEOREM ListenerEventArrives ==
  ASSUME ListenerData \subseteq 0 .. EventMod - 1
  PROVE  V!Spec => []ListenerEventReachesBackend
  <1> DEFINE Collect == index \in 0 .. EventQueues /\ thread_vrings \in Seq(V!Rings) /\ V!CollectInv
  <1>1. V!Init => V!ListenerEventReachesBackend
    BY SMTT(30) DEF V!Init, V!ListenerEventReachesBackend, V!None
  <1>2. V!ListenerEventReachesBackend /\ Collect /\ V!ReservedInv /\ [V!Next]_(V!vars)
          => V!ListenerEventReachesBackend'
    <2> SUFFICES ASSUME V!ListenerEventReachesBackend, Collect, V!ReservedInv, [V!Next]_(V!vars)
                 PROVE  V!ListenerEventReachesBackend'
      BY Zenon
    <2>1. ASSUME NEW r \in registered, V!Dispatch(r), r.source.kind = "listener"
          PROVE  V!ListenerEventReachesBackend'
      <3>1. PICK d \in ListenerData :
               ~ V!Reserved(d) /\ r = [source |-> [kind |-> "listener", id |-> d], data |-> d]
        BY <2>1, SMTT(30) DEF V!ReservedInv
      <3>2. d \in Nat /\ d < EventMod /\ d > EventQueues /\ EventQueues \in Nat /\ EventMod \in Nat
        BY <3>1, QueuesAssumption, SMTT(30) DEF V!Reserved
      <3>3. (d % EventMod) = d
        BY <3>2, Remainder, ZenonT(40)
      <3>4. Len(thread_vrings) <= EventQueues /\ Len(thread_vrings) \in Nat
        BY <2>1, NoMoreRings, SMTT(30) DEF V!Dispatch
      <3>5. V!HandleEvent(d) = [kind |-> "listener", id |-> d]
        BY <3>2, <3>4, SMTT(30) DEF V!HandleEvent
      <3>6. handled'.source = r.source /\ handled'.target = V!HandleEvent(d)
        BY <2>1, <3>1, <3>3, Zenon DEF V!Dispatch
      <3> QED
        BY <3>1, <3>5, <3>6, Zenon DEF V!ListenerEventReachesBackend
    <2>2. ASSUME NEW r \in registered, V!Dispatch(r), r.source.kind # "listener"
          PROVE  V!ListenerEventReachesBackend'
      BY <2>2, Zenon DEF V!Dispatch, V!ListenerEventReachesBackend
    <2>3. CASE UNCHANGED handled
      BY <2>3, Zenon DEF V!ListenerEventReachesBackend
    <2> QED
      BY <2>1, <2>2, <2>3, ZenonT(40) DEF V!Next, V!CollectVring, V!RegisterVring, V!UnregisterVring,
         V!RegisterExitEvent, V!RegisterListener, V!UnregisterListener, V!Register, V!vars
  <1> QED
    BY <1>1, <1>2, CollectCorrect, OthersCorrect, PTL DEF V!Spec, ListenerEventReachesBackend

\* The worker's loop ends at the exit event and at no other, if the numbers of the backend
\* fit in a u16.
THEOREM OnlyExitEnds ==
  ASSUME ListenerData \subseteq 0 .. EventMod - 1
  PROVE  V!Spec => []OnlyExitEventEndsLoop
  <1> DEFINE Collect == index \in 0 .. EventQueues /\ thread_vrings \in Seq(V!Rings) /\ V!CollectInv
  <1>1. V!Init => V!OnlyExitEventEndsLoop
    BY SMTT(30) DEF V!Init, V!OnlyExitEventEndsLoop
  <1>2. V!OnlyExitEventEndsLoop /\ Collect /\ V!ReservedInv /\ V!RegisteredInv /\ [V!Next]_(V!vars)
          => V!OnlyExitEventEndsLoop'
    <2> SUFFICES ASSUME V!OnlyExitEventEndsLoop, Collect, V!ReservedInv, V!RegisteredInv,
                        [V!Next]_(V!vars)
                 PROVE  V!OnlyExitEventEndsLoop'
      BY Zenon
    <2>1. ASSUME NEW r \in registered, V!Dispatch(r) PROVE V!OnlyExitEventEndsLoop'
      <3>1. EventQueues \in Nat /\ EventMod \in Nat /\ EventQueues < EventMod
        BY QueuesAssumption, Zenon
      <3>2. handled'.source = r.source /\ handled'.target = V!HandleEvent(r.data % EventMod)
        BY <2>1, Zenon DEF V!Dispatch
      <3>3. CASE r.source.kind = "ring"
        <4>1. PICK q \in Mask \cap V!Rings :
                 r = [source |-> [kind |-> "ring", id |-> q], data |-> V!EvtIdx(q)]
          BY <3>3, Zenon DEF V!RegisteredInv
        <4>2. q \in Nat /\ q < EventQueues /\ r.data = V!Below(q)
          BY <3>1, <4>1, EvtIdxIsBelow, SMTT(30) DEF V!Rings
        <4>3. V!Below(q) \in Nat /\ V!Below(q) <= q
          BY <4>2, BelowType, ZenonT(40)
        <4>4. (r.data % EventMod) = r.data /\ r.data # EventQueues
          <5>1. r.data \in Nat /\ r.data < EventMod /\ r.data # EventQueues
            BY <3>1, <4>2, <4>3, SMTT(30)
          <5> QED
            BY <3>1, <5>1, Remainder, ZenonT(40)
        <4>5. V!HandleEvent(r.data).kind # "exit"
          BY <4>4, Zenon DEF V!HandleEvent
        <4>6. handled'.source.kind # "exit" /\ handled'.target.kind # "exit"
          BY <3>2, <3>3, <4>4, <4>5, Zenon
        <4> QED
          BY <4>6, ZenonT(40) DEF V!OnlyExitEventEndsLoop
      <3>4. CASE HasExit /\ r = [source |-> [kind |-> "exit", id |-> EventQueues],
                                 data |-> EventQueues]
        <4>1. (EventQueues % EventMod) = EventQueues
          BY <3>1, Remainder, ZenonT(40)
        <4>2. V!HandleEvent(EventQueues).kind = "exit"
          BY <3>4, Zenon DEF V!HandleEvent
        <4>3. r.source.kind = "exit" /\ r.data = EventQueues
          BY <3>4, Zenon
        <4>4. handled'.source.kind = "exit" /\ handled'.target.kind = "exit"
          BY <3>2, <4>1, <4>2, <4>3, ZenonT(40)
        <4> QED
          BY <4>4, Zenon DEF V!OnlyExitEventEndsLoop
      <3>5. ASSUME NEW d \in ListenerData, ~ V!Reserved(d),
                   r = [source |-> [kind |-> "listener", id |-> d], data |-> d]
            PROVE  V!OnlyExitEventEndsLoop'
        <4>1. d \in Nat /\ d < EventMod /\ d > EventQueues
          BY <3>1, <3>5, SMTT(30) DEF V!Reserved
        <4>2. (d % EventMod) = d /\ d # EventQueues
          BY <3>1, <4>1, SMTT(30)
        <4>3. V!HandleEvent(d).kind # "exit"
          BY <4>2, Zenon DEF V!HandleEvent
        <4>4. r.source.kind # "exit" /\ r.data = d
          BY <3>5, Zenon
        <4>5. handled'.source.kind # "exit" /\ handled'.target.kind # "exit"
          BY <3>2, <4>2, <4>3, <4>4, ZenonT(40)
        <4> QED
          BY <4>5, ZenonT(40) DEF V!OnlyExitEventEndsLoop
      <3> QED
        BY <3>3, <3>4, <3>5, Zenon DEF V!ReservedInv
    <2>2. CASE UNCHANGED handled
      BY <2>2, Zenon DEF V!OnlyExitEventEndsLoop
    <2> QED
      BY <2>1, <2>2, ZenonT(40) DEF V!Next, V!CollectVring, V!RegisterVring, V!UnregisterVring,
         V!RegisterExitEvent, V!RegisterListener, V!UnregisterListener, V!Register, V!vars
  <1> QED
    BY <1>1, <1>2, CollectCorrect, OthersCorrect, RegistrationsCorrect, PTL DEF V!Spec,
       OnlyExitEventEndsLoop
===============================================================================
