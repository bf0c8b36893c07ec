------------------------------ MODULE LocksProofs ------------------------------
(***************************************************************************)
(* Proofs about DeviceLock, for any number of workers.  Every program      *)
(* gives back what it takes, and takes locks in the order of their ranks;  *)
(* so does what is left of it after each step, which is LockInv.  The last *)
(* part is about VringQueue, for every number of index values: which copy  *)
(* of an index is up to date while a ring is stopped and set up again.     *)
(***************************************************************************)
EXTENDS LockPart, QueuePart, Sequences, WellFoundedInduction, TLAPS

\* A set of natural numbers has a least element.
LEMMA LeastNatural ==
  ASSUME NEW T, T \subseteq Nat, T # {}
  PROVE  \E n \in T : \A m \in T : n <= m
  <1> DEFINE R == {p \in Nat \X Nat : p[1] < p[2]}
  <1>1. IsWellFoundedOn(R, Nat)
    BY NatLessThanWellFounded, Zenon DEF OpToRel
  <1>2. ASSUME NEW x \in Nat, NEW y \in Nat PROVE <<y, x>> \in R <=> y < x
    BY Zenon
  <1> HIDE DEF R
  <1>3. PICK x \in T : \A y \in T : <<y, x>> \notin R
    BY <1>1, WFMin, Zenon
  <1>4. ASSUME NEW y \in T PROVE x <= y
    <2>1. ~ y < x /\ x \in Nat /\ y \in Nat
      BY <1>2, <1>3, Zenon
    <2> QED
      BY <2>1
  <1> QED
    BY <1>4, Zenon

-------------------------------------------------------------------------------
(* Programs: what they take they give back, and in order of rank *)

\* A program in which every lock is taken before it is given back.
Complete(p) ==
  /\ p \in Seq(P!Ops) /\ P!Orderly(p)
  /\ \A l \in P!Locks, k \in DOMAIN p : ~ P!GivesBack(p, l, 0, k)

\* One after the other.
LEMMA InSequence ==
  ASSUME NEW p, NEW q, Complete(p), Complete(q)
  PROVE  Complete(p \o q)
  <1> USE DEF Complete
  <1> DEFINE r == p \o q
             m == Len(p)
             n == Len(q)
  <1>1. r \in Seq(P!Ops) /\ DOMAIN r = 1 .. m + n /\ DOMAIN p = 1 .. m /\ DOMAIN q = 1 .. n
        /\ m \in Nat /\ n \in Nat
    OBVIOUS
  <1>2. /\ \A i \in 1 .. m : r[i] = p[i]
        /\ \A i \in 1 .. n : r[m + i] = q[i]
    OBVIOUS
  <1>3. \A i \in 1 .. m + n : i \in 1 .. m \/ \E j \in 1 .. n : i = m + j
    <2> SUFFICES ASSUME NEW i \in 1 .. m + n, ~ i \in 1 .. m
                 PROVE  \E j \in 1 .. n : i = m + j
      BY Zenon
    <2>1. i - m \in 1 .. n /\ i = m + (i - m)
      BY <1>1
    <2> QED
      BY <2>1, Zenon
  <1> HIDE DEF r, m, n
  <1> USE DEF P!GivesBack
  <1>4. ASSUME NEW l \in P!Locks, NEW i \in 0 .. m, NEW k \in DOMAIN r, P!GivesBack(r, l, i, k)
        PROVE  k \in DOMAIN p /\ P!GivesBack(p, l, i, k)
    <2>1. CASE k \in 1 .. m
      BY <1>1, <1>2, <1>4, <2>1
    <2>2. ASSUME NEW j \in 1 .. n, k = m + j
          PROVE  FALSE
      <3>1. q[j].lock = l /\ q[j].op = "unlock"
        BY <1>2, <1>4, <2>2, Zenon
      <3>2. \A x \in 1 .. n : 0 < x /\ x < j => q[x].lock # l
        <4> SUFFICES ASSUME NEW x \in 1 .. n, x < j
                     PROVE  q[x].lock # l
          BY Zenon
        <4>1. m + x \in DOMAIN r /\ i < m + x /\ m + x < k
          BY <1>1, <2>2
        <4> QED
          BY <1>2, <1>4, <4>1
      <3>3. P!GivesBack(q, l, 0, j)
        BY <1>1, <3>1, <3>2
      <3> QED
        BY <1>1, <3>3, Zenon
    <2> QED
      BY <1>1, <1>3, <2>1, <2>2, Zenon
  <1>5. ASSUME NEW l \in P!Locks, NEW i \in 1 .. n, NEW k \in DOMAIN r, P!GivesBack(r, l, m + i, k)
        PROVE  \E j \in DOMAIN q : k = m + j /\ P!GivesBack(q, l, i, j)
    <2>1. k \notin 1 .. m
      BY <1>1, <1>5
    <2>2. PICK j \in 1 .. n : k = m + j
      BY <1>1, <1>3, <2>1, Zenon
    <2>3. i < j /\ q[j].lock = l /\ q[j].op = "unlock"
      BY <1>1, <1>2, <1>5, <2>2
    <2>4. \A x \in DOMAIN q : i < x /\ x < j => q[x].lock # l
      <3> SUFFICES ASSUME NEW x \in 1 .. n, i < x, x < j
                   PROVE  q[x].lock # l
        BY <1>1, Zenon
      <3>1. m + x \in DOMAIN r /\ m + i < m + x /\ m + x < k
        BY <1>1, <2>2, SMTT(30)
      <3> QED
        BY <1>2, <1>5, <3>1
    <2> QED
      BY <1>1, <2>2, <2>3, <2>4, Zenon
  <1>6. \A l \in P!Locks, k \in DOMAIN r : ~ P!GivesBack(r, l, 0, k)
    <2>1. 0 \in 0 .. m
      BY <1>1
    <2> QED
      BY <1>4, <2>1
  <1>7. ASSUME NEW i \in 1 .. m, NEW l, NEW k \in 1 .. m, P!GivesBack(p, l, i, k)
        PROVE  k \in DOMAIN r /\ P!GivesBack(r, l, i, k) /\ r[k] = p[k]
    <2>1. \A x \in DOMAIN r : i < x /\ x < k => r[x].lock # l
      <3> SUFFICES ASSUME NEW x \in DOMAIN r, i < x, x < k
                   PROVE  r[x].lock # l
        BY Zenon
      <3>1. x \in 1 .. m
        BY <1>1
      <3> QED
        BY <1>1, <1>2, <1>7, <3>1, Zenon
    <2> QED
      BY <1>1, <1>2, <1>7, <2>1
  <1>8. ASSUME NEW i \in 1 .. n, NEW l, NEW k \in 1 .. n, P!GivesBack(q, l, i, k)
        PROVE  m + k \in DOMAIN r /\ P!GivesBack(r, l, m + i, m + k) /\ r[m + k] = q[k]
    <2>1. \A x \in DOMAIN r : m + i < x /\ x < m + k => r[x].lock # l
      <3> SUFFICES ASSUME NEW x \in DOMAIN r, m + i < x, x < m + k
                   PROVE  r[x].lock # l
        BY Zenon
      <3>1. x \notin 1 .. m /\ x \in 1 .. m + n
        BY <1>1, SMTT(30)
      <3>2. PICK j \in 1 .. n : x = m + j
        BY <1>3, <3>1, Zenon
      <3>3. i < j /\ j < k /\ j \in DOMAIN q
        BY <1>1, <3>2
      <3> QED
        BY <1>2, <1>8, <3>2, <3>3
    <2> QED
      BY <1>1, <1>2, <1>8, <2>1
  <1> HIDE DEF P!GivesBack
  <1>9. ASSUME NEW i \in 1 .. m
        PROVE  /\ r[i].changes => r[i].mode = "write"
               /\ r[i].op = "lock" => P!Returned(r, i) /\ P!Ranked(r, i)
    <2>1. r[i] = p[i] /\ i \in DOMAIN p /\ i \in 0 .. m
      BY <1>1, <1>2
    <2>2. /\ p[i].changes => p[i].mode = "write"
          /\ p[i].op = "lock" => P!Returned(p, i) /\ P!Ranked(p, i)
      BY <2>1, Zenon DEF P!Orderly
    <2>3. P!Returned(p, i) => P!Returned(r, i)
      BY <1>1, <1>7, <2>1, Zenon DEF P!Returned
    <2>4. P!Ranked(p, i) => P!Ranked(r, i)
      BY <1>4, <2>1, Zenon DEF P!Ranked
    <2> QED
      BY <2>1, <2>2, <2>3, <2>4, Zenon
  <1>10. ASSUME NEW j \in 1 .. n
         PROVE  /\ r[m + j].changes => r[m + j].mode = "write"
                /\ r[m + j].op = "lock" => P!Returned(r, m + j) /\ P!Ranked(r, m + j)
    <2>1. r[m + j] = q[j] /\ j \in DOMAIN q
      BY <1>1, <1>2, Zenon
    <2>2. /\ q[j].changes => q[j].mode = "write"
          /\ q[j].op = "lock" => P!Returned(q, j) /\ P!Ranked(q, j)
      BY <2>1, Zenon DEF P!Orderly
    <2>3. ASSUME P!Returned(q, j)
          PROVE  P!Returned(r, m + j)
      <3>1. PICK k \in DOMAIN q : /\ P!GivesBack(q, q[j].lock, j, k)
                                  /\ q[j].mode = "read" => k = j + 1 /\ q[k].mode = "read"
        BY <2>3, Zenon DEF P!Returned
      <3>2. m + k \in DOMAIN r /\ P!GivesBack(r, q[j].lock, m + j, m + k) /\ r[m + k] = q[k]
        BY <1>1, <1>8, <3>1
      <3>3. q[j].mode = "read" => m + k = m + j + 1
        BY <1>1, <3>1
      <3> QED
        BY <2>1, <3>1, <3>2, <3>3, Zenon DEF P!Returned
    <2>4. P!Ranked(q, j) => P!Ranked(r, m + j)
      BY <1>5, <2>1, Zenon DEF P!Ranked
    <2> QED
      BY <2>1, <2>2, <2>3, <2>4, Zenon
  <1>11. P!Orderly(r)
    BY <1>1, <1>3, <1>9, <1>10, ZenonT(40) DEF P!Orderly
  <1> QED
    BY <1>1, <1>6, <1>11, Zenon DEF r


\* What the locks of a program rank above.
Above(p, l) == \A i \in DOMAIN p : P!Rank[l] < P!Rank[p[i].lock]

\* A method that runs with a lock held.
LEMMA Around ==
  ASSUME NEW l \in P!Locks, NEW mode \in {"read", "write"}, NEW method, NEW body,
         Complete(body), Above(body, l), mode = "read" => body = <<>>,
         l = "device" /\ method \notin P!Shared => mode = "write"
  PROVE  Complete(P!Hold(l, mode, method, body))
  <1> USE DEF Complete
  <1>f. PICK f \in BOOLEAN : f = (method \in P!Fallible \cup P!EarlyReturn)
    <2> DEFINE early == P!Fallible \cup P!EarlyReturn
    <2> HIDE DEF early
    <2>1. (method \in early) \in BOOLEAN
      OBVIOUS
    <2> QED
      BY <2>1, Zenon DEF early
  <1>g. PICK g \in BOOLEAN : g = (l = "device" /\ method \notin P!Shared)
    BY Zenon
  <1> DEFINE step(op) == [op |-> op, lock |-> l, mode |-> mode, fails |-> f, changes |-> g]
             a == step("lock")
             b == step("unlock")
             n == Len(body)
             h == P!Hold(l, mode, method, body)
  <1>1. a \in P!Ops /\ b \in P!Ops /\ a.op = "lock" /\ b.op = "unlock" /\ a.lock = l /\ b.lock = l
        /\ a.mode = mode /\ b.mode = mode
        /\ (a.changes => mode = "write") /\ (b.changes => mode = "write")
    <2>1. g => mode = "write"
      BY <1>g, Zenon
    <2> QED
      BY <2>1, Zenon DEF P!Ops
  <1>2. h = <<a>> \o body \o <<b>>
    BY <1>f, <1>g, Zenon DEF P!Hold
  <1> HIDE DEF a, b, h
  <1>3. body \in Seq(P!Ops) /\ n \in Nat /\ DOMAIN body = 1 .. n
    OBVIOUS
  <1>4. h \in Seq(P!Ops) /\ Len(h) = n + 2 /\ DOMAIN h = 1 .. n + 2
    BY <1>1, <1>2, <1>3
  <1>5. h[1] = a /\ h[n + 2] = b /\ \A i \in 1 .. n : h[i + 1] = body[i]
    BY <1>1, <1>2, <1>3
  <1>6. \A k \in DOMAIN h : k = 1 \/ k = n + 2 \/ \E i \in 1 .. n : k = i + 1
    <2> SUFFICES ASSUME NEW k \in 1 .. n + 2, k # 1, k # n + 2
                 PROVE  \E i \in 1 .. n : k = i + 1
      BY <1>4, Zenon
    <2>1. k - 1 \in 1 .. n /\ k = (k - 1) + 1
      BY <1>3
    <2> QED
      BY <2>1, Zenon
  <1> HIDE DEF n
  <1>7. \A i \in 1 .. n : body[i].lock # l /\ body[i] \in P!Ops
    <2> SUFFICES ASSUME NEW i \in 1 .. n, body[i].lock = l
                 PROVE  FALSE
      BY <1>3
    <2>1. P!Rank[l] < P!Rank[l] /\ P!Rank[l] \in Nat
      BY <1>3, SMTT(30) DEF Above, P!Rank, P!Locks
    <2> QED
      BY <2>1
  <1>8. ASSUME NEW x, NEW i \in 0 .. n, NEW k \in 1 .. n, P!GivesBack(h, x, i + 1, k + 1)
        PROVE  P!GivesBack(body, x, i, k)
    <2>1. i < k /\ body[k].lock = x /\ body[k].op = "unlock"
      BY <1>3, <1>5, <1>8, SMTT(30) DEF P!GivesBack
    <2>2. ASSUME NEW m \in 1 .. n, i < m, m < k
          PROVE  body[m].lock # x
      <3>1. m + 1 \in DOMAIN h /\ i + 1 < m + 1 /\ m + 1 < k + 1
        BY <1>3, <1>4, <2>2
      <3>2. h[m + 1].lock # x
        BY <1>8, <3>1, Zenon DEF P!GivesBack
      <3> QED
        BY <1>5, <3>2, Zenon
    <2> QED
      BY <1>3, <2>1, <2>2, Zenon DEF P!GivesBack
  <1>9. ASSUME NEW x, NEW i \in 1 .. n, NEW k \in 1 .. n, P!GivesBack(body, x, i, k)
        PROVE  P!GivesBack(h, x, i + 1, k + 1)
    <2>1. i + 1 < k + 1 /\ h[k + 1].lock = x /\ h[k + 1].op = "unlock"
      BY <1>3, <1>5, <1>9 DEF P!GivesBack
    <2>2. ASSUME NEW m \in DOMAIN h, i + 1 < m, m < k + 1
          PROVE  h[m].lock # x
      <3>1. m # 1 /\ m # n + 2
        BY <1>3, <1>4, <2>2
      <3>2. PICK j \in 1 .. n : m = j + 1
        BY <1>6, <3>1, Zenon
      <3>3. i < j /\ j < k /\ j \in DOMAIN body
        BY <1>3, <2>2, <3>2
      <3>4. body[j].lock # x
        BY <1>9, <3>3, Zenon DEF P!GivesBack
      <3> QED
        BY <1>5, <3>2, <3>4, Zenon
    <2> QED
      BY <2>1, <2>2, Zenon DEF P!GivesBack
  <1>10. \A x \in P!Locks, k \in DOMAIN body : ~ P!GivesBack(body, x, 0, k)
    BY Zenon
  <1>11. ASSUME NEW x \in P!Locks, NEW k \in DOMAIN h, P!GivesBack(h, x, 0, k)
         PROVE  FALSE
    <2>1. CASE k = 1
      BY <1>1, <1>5, <1>11, <2>1, Zenon DEF P!GivesBack
    <2>2. CASE k = n + 2
      <3>1. x = l
        BY <1>1, <1>5, <1>11, <2>2, Zenon DEF P!GivesBack
      <3>2. 1 \in DOMAIN h /\ 0 < 1 /\ 1 < k
        BY <1>3, <1>4, <2>2
      <3> QED
        BY <1>1, <1>5, <1>11, <3>1, <3>2, Zenon DEF P!GivesBack
    <2>3. ASSUME NEW i \in 1 .. n, k = i + 1
          PROVE  FALSE
      <3>1. P!GivesBack(h, x, 0 + 1, i + 1)
        <4>1. h[i + 1].lock = x /\ h[i + 1].op = "unlock" /\ 0 + 1 < i + 1
          BY <1>3, <1>11, <2>3 DEF P!GivesBack
        <4>2. ASSUME NEW m \in DOMAIN h, 0 + 1 < m, m < i + 1
              PROVE  h[m].lock # x
          <5>1. 0 < m /\ m < k
            BY <1>4, <2>3, <4>2, SMTT(30)
          <5> QED
            BY <1>11, <5>1, Zenon DEF P!GivesBack
        <4> QED
          BY <4>1, <4>2, Zenon DEF P!GivesBack
      <3>2. P!GivesBack(body, x, 0, i)
        BY <1>3, <1>8, <3>1
      <3> QED
        BY <1>3, <1>10, <3>2, Zenon
    <2> QED
      BY <1>6, <2>1, <2>2, <2>3, Zenon
  <1>12. P!Returned(h, 1)
    <2>1. P!GivesBack(h, l, 1, n + 2)
      <3>1. ASSUME NEW m \in DOMAIN h, 1 < m, m < n + 2
            PROVE  h[m].lock # l
        <4>1. m # 1 /\ m # n + 2
          BY <1>3, <1>4, <3>1
        <4>2. PICK i \in 1 .. n : m = i + 1
          BY <1>6, <4>1, Zenon
        <4> QED
          BY <1>5, <1>7, <4>2, Zenon
      <3> QED
        BY <1>1, <1>3, <1>5, <3>1 DEF P!GivesBack
    <2>2. mode = "read" => n = 0
      BY DEF n
    <2> QED
      BY <1>1, <1>3, <1>4, <1>5, <2>1, <2>2 DEF P!Returned
  <1>13. P!Ranked(h, 1)
    <2> SUFFICES ASSUME NEW x \in P!Locks, NEW k \in DOMAIN h, P!GivesBack(h, x, 1, k), x # l
                 PROVE  FALSE
      BY <1>1, <1>5, Zenon DEF P!Ranked
    <2>1. k # 1
      BY <1>4, Zenon DEF P!GivesBack
    <2>2. k # n + 2
      BY <1>1, <1>5, Zenon DEF P!GivesBack
    <2>3. PICK i \in 1 .. n : k = i + 1
      BY <1>6, <2>1, <2>2, Zenon
    <2>4. P!GivesBack(body, x, 0, i)
      <3>1. 0 \in 0 .. n /\ 0 + 1 = 1
        BY <1>3
      <3> QED
        BY <1>8, <2>3, <3>1, Zenon
    <2> QED
      BY <1>3, <1>10, <2>4, Zenon
  <1>14. ASSUME NEW i \in 1 .. n
         PROVE  /\ h[i + 1].changes => h[i + 1].mode = "write"
                /\ h[i + 1].op = "lock" => P!Returned(h, i + 1) /\ P!Ranked(h, i + 1)
    <2>1. /\ body[i].changes => body[i].mode = "write"
          /\ body[i].op = "lock" => P!Returned(body, i) /\ P!Ranked(body, i)
      BY <1>3, Zenon DEF P!Orderly
    <2>2. ASSUME P!Returned(body, i)
          PROVE  P!Returned(h, i + 1)
      <3>1. PICK k \in 1 .. n : /\ P!GivesBack(body, body[i].lock, i, k)
                                /\ body[i].mode = "read" => k = i + 1 /\ body[k].mode = "read"
        BY <1>3, <2>2, Zenon DEF P!Returned
      <3>2. P!GivesBack(h, body[i].lock, i + 1, k + 1) /\ k + 1 \in DOMAIN h /\ h[k + 1] = body[k]
        BY <1>3, <1>4, <1>5, <1>9, <3>1
      <3>3. body[i].mode = "read" => k + 1 = i + 1 + 1
        BY <1>3, <3>1, Zenon
      <3> QED
        BY <1>5, <3>1, <3>2, <3>3, Zenon DEF P!Returned
    <2>3. ASSUME P!Ranked(body, i), NEW x \in P!Locks, NEW k \in DOMAIN h, P!GivesBack(h, x, i + 1, k),
                 x # body[i].lock
          PROVE  P!Rank[x] < P!Rank[body[i].lock]
      <3>1. k # 1
        BY <1>3, <1>4, <2>3 DEF P!GivesBack
      <3>2. CASE k = n + 2
        <4>1. x = l
          BY <1>1, <1>5, <2>3, <3>2, Zenon DEF P!GivesBack
        <4> QED
          BY <1>3, <4>1, Zenon DEF Above
      <3>3. ASSUME NEW j \in 1 .. n, k = j + 1
            PROVE  P!Rank[x] < P!Rank[body[i].lock]
        <4>1. P!GivesBack(body, x, i, j)
          BY <1>3, <1>8, <2>3, <3>3
        <4> QED
          BY <1>3, <2>3, <4>1, Zenon DEF P!Ranked
      <3> QED
        BY <1>6, <3>1, <3>2, <3>3, Zenon
    <2>4. P!Ranked(body, i) => P!Ranked(h, i + 1)
      BY <1>5, <2>3, Zenon DEF P!Ranked
    <2> QED
      BY <1>5, <2>1, <2>2, <2>4, Zenon
  <1>15. P!Orderly(h)
    <2>1. ASSUME NEW i \in DOMAIN h
          PROVE  /\ h[i].changes => h[i].mode = "write"
                 /\ h[i].op = "lock" => P!Returned(h, i) /\ P!Ranked(h, i)
      <3>1. CASE i = 1
        BY <1>1, <1>5, <1>12, <1>13, <3>1, Zenon
      <3>2. CASE i = n + 2
        BY <1>1, <1>5, <3>2, Zenon
      <3>3. ASSUME NEW j \in 1 .. n, i = j + 1
            PROVE  /\ h[i].changes => h[i].mode = "write"
                   /\ h[i].op = "lock" => P!Returned(h, i) /\ P!Ranked(h, i)
        BY <1>14, <3>3, Zenon
      <3> QED
        BY <1>6, <3>1, <3>2, <3>3, Zenon
    <2> QED
      BY <2>1, Zenon DEF P!Orderly
  <1> QED
    BY <1>4, <1>11, <1>15, Zenon DEF h


\* Programs that may be run while lock l is held.
Fits(p, l) == Complete(p) /\ Above(p, l)

LEMMA NothingFits == \A l : Fits(<<>>, l)
  BY DEF Fits, Complete, Above, P!Orderly

LEMMA SequenceFits ==
  ASSUME NEW p, NEW q, NEW l, Fits(p, l), Fits(q, l)
  PROVE  Fits(p \o q, l)
  <1>1. Complete(p \o q)
    BY InSequence, Zenon DEF Fits
  <1>2. p \in Seq(P!Ops) /\ q \in Seq(P!Ops)
    BY Zenon DEF Fits, Complete
  <1>3. ASSUME NEW i \in DOMAIN (p \o q)
        PROVE  P!Rank[l] < P!Rank[(p \o q)[i].lock]
    <2>1. CASE i \in 1 .. Len(p)
      <3>1. i \in DOMAIN p /\ (p \o q)[i] = p[i]
        BY <1>2, <2>1
      <3> QED
        BY <3>1, Zenon DEF Fits, Above
    <2>2. CASE i \notin 1 .. Len(p)
      <3>1. i - Len(p) \in DOMAIN q /\ (p \o q)[i] = q[i - Len(p)]
        BY <1>2, <1>3, <2>2
      <3> QED
        BY <3>1, Zenon DEF Fits, Above
    <2> QED
      BY <2>1, <2>2, Zenon
  <1> QED
    BY <1>1, <1>3, Zenon DEF Fits, Above

LEMMA HoldFits ==
  ASSUME NEW l \in P!Locks, NEW mode \in {"read", "write"}, NEW method, NEW body, Fits(body, l),
         mode = "read" => body = <<>>, l = "device" /\ method \notin P!Shared => mode = "write"
  PROVE  /\ Complete(P!Hold(l, mode, method, body))
         /\ \A x \in P!Locks : P!Rank[x] < P!Rank[l] => Fits(P!Hold(l, mode, method, body), x)
  <1>1. Complete(P!Hold(l, mode, method, body))
    BY Around, Zenon DEF Fits
  <1>2. ASSUME NEW x \in P!Locks, P!Rank[x] < P!Rank[l]
        PROVE  Above(P!Hold(l, mode, method, body), x)
    <2> DEFINE step(op) == [op |-> op, lock |-> l, mode |-> mode,
                            fails |-> method \in P!Fallible \cup P!EarlyReturn,
                            changes |-> l = "device" /\ method \notin P!Shared]
               a == step("lock")
               b == step("unlock")
    <2>1. a.lock = l /\ b.lock = l
      BY Zenon
    <2>2. P!Hold(l, mode, method, body) = <<a>> \o body \o <<b>>
      BY Zenon DEF P!Hold
    <2> HIDE DEF a, b
    <2>3. body \in Seq(P!Ops) /\ Len(body) \in Nat
      BY DEF Fits, Complete
    <2> DEFINE h == <<a>> \o body \o <<b>>
    <2>4. DOMAIN h = 1 .. Len(body) + 2 /\ h[1] = a /\ h[Len(body) + 2] = b
          /\ \A i \in 1 .. Len(body) : h[i + 1] = body[i]
      BY <2>3
    <2> HIDE DEF h
    <2>5. \A i \in 1 .. Len(body) : P!Rank[l] < P!Rank[body[i].lock] /\ body[i].lock \in P!Locks
      <3>1. \A i \in 1 .. Len(body) : body[i] \in P!Ops /\ i \in DOMAIN body
        BY <2>3
      <3>2. \A o \in P!Ops : o.lock \in P!Locks
        BY Zenon DEF P!Ops
      <3> QED
        BY <3>1, <3>2, Zenon DEF Fits, Above
    <2>6. \A y \in P!Locks : P!Rank[y] \in Nat
      BY DEF P!Rank, P!Locks
    <2>7. ASSUME NEW i \in 1 .. Len(body)
          PROVE  P!Rank[x] < P!Rank[h[i + 1].lock]
      <3>1. P!Rank[l] < P!Rank[body[i].lock] /\ body[i].lock \in P!Locks
        BY <2>5, Zenon
      <3>2. P!Rank[l] \in Nat /\ P!Rank[x] \in Nat /\ P!Rank[body[i].lock] \in Nat
        BY <2>6, <3>1, Zenon
      <3>3. P!Rank[x] < P!Rank[body[i].lock]
        BY <1>2, <3>1, <3>2
      <3> QED
        BY <2>4, <3>3, Zenon
    <2>8. ASSUME NEW i \in DOMAIN h
          PROVE  P!Rank[x] < P!Rank[h[i].lock]
      <3>1. CASE i = 1 \/ i = Len(body) + 2
        BY <1>2, <2>1, <2>4, <3>1, Zenon
      <3>2. CASE ~ (i = 1 \/ i = Len(body) + 2)
        <4>1. i - 1 \in 1 .. Len(body) /\ (i - 1) + 1 = i
          BY <2>3, <2>4, <3>2
        <4> QED
          BY <2>7, <4>1, Zenon
      <3> QED
        BY <3>1, <3>2, Zenon
    <2> QED
      BY <2>2, <2>8, Zenon DEF Above, h
  <1> QED
    BY <1>1, <1>2, Zenon DEF Fits

\* Calls of a ring may be made with the device or the handler held, calls of the device with
\* the handler held.
LEMMA CallsFit ==
  /\ \A m : Complete(P!Ring(m)) /\ Fits(P!Ring(m), "device") /\ Fits(P!Ring(m), "handler")
  /\ \A m : Complete(P!Device(m)) /\ Fits(P!Device(m), "handler")
  <1>1. "device" \in P!Locks /\ "handler" \in P!Locks /\ "ring" \in P!Locks
    BY Zenon DEF P!Locks
  <1>2. P!Rank["handler"] < P!Rank["device"] /\ P!Rank["device"] < P!Rank["ring"]
        /\ P!Rank["handler"] < P!Rank["ring"]
    BY DEF P!Rank
  <1>3. \A m : P!RingMode(m) \in {"read", "write"}
    BY Zenon DEF P!RingMode
  <1>4. \A m : P!Mode(m) \in {"read", "write"} /\ (m \notin P!Shared => P!Mode(m) = "write")
    BY Zenon DEF P!Mode, P!ModeOfMutex, P!ModeOfRwLock
  <1>5. ASSUME NEW m
        PROVE  Complete(P!Ring(m)) /\ Fits(P!Ring(m), "device") /\ Fits(P!Ring(m), "handler")
    <2>1. Fits(<<>>, "ring")
      BY NothingFits, Zenon
    <2> QED
      BY <1>1, <1>2, <1>3, <2>1, HoldFits, Zenon DEF P!Ring
  <1>6. ASSUME NEW m
        PROVE  Complete(P!Device(m)) /\ Fits(P!Device(m), "handler")
    <2>1. Fits(<<>>, "device")
      BY NothingFits, Zenon
    <2> QED
      BY <1>1, <1>2, <1>4, <2>1, HoldFits DEF P!Device
  <1> QED
    BY <1>5, <1>6, Zenon

\* Every program of every thread is complete.
LEMMA ProgramsComplete ==
  ASSUME NEW t \in P!Threads, NEW p \in P!Programs(t)
  PROVE  Complete(p) /\ p # <<>>
  <1>1. \A m : Fits(P!Ring(m), "handler") /\ Fits(P!Device(m), "handler")
    BY CallsFit, Zenon
  <1>2. \A x, y : Fits(x, "handler") /\ Fits(y, "handler") => Fits(x \o y, "handler")
    BY SequenceFits, Zenon
  <1>3. Fits(<<>>, "handler")
    BY NothingFits, Zenon
  <1>4. ASSUME NEW m \in P!Methods
        PROVE  Fits(m, "handler")
    <2>1. Fits(P!update_vring_registration, "handler")
      BY <1>1, Zenon DEF P!update_vring_registration
    <2>2. Fits(P!initialize_vring, "handler")
      BY <1>1, <1>2, <2>1, Zenon DEF P!initialize_vring
    <2>3. Fits(P!set_vring_enable, "handler")
      BY <1>1, <1>2, <2>1, Zenon DEF P!set_vring_enable
    <2>4. Fits(P!reset_device, "handler")
      BY <1>1, <1>2, <2>3, Zenon DEF P!reset_device
    <2>5. Fits(P!set_vring_addr, "handler")
      BY <1>1, <1>2, Zenon DEF P!set_vring_addr
    <2>6. Fits(P!get_vring_base, "handler")
      BY <1>1, <1>2, <2>1, Zenon DEF P!get_vring_base
    <2>7. \A x \in P!set_features : Fits(x, "handler")
      <3>1. \A e \in {<<>>, P!Ring("set_enabled") \o P!update_vring_registration} : Fits(e, "handler")
        BY <1>1, <1>2, <1>3, <2>1, Zenon
      <3>2. ASSUME NEW e, Fits(e, "handler")
            PROVE  Fits(P!Device("features") \o e \o P!Ring("set_queue_event_idx")
                          \o P!Device("set_event_idx") \o P!Device("acked_features"), "handler")
        BY <1>1, <1>2, <3>2, Zenon
      <3> QED
        BY <3>1, <3>2, Zenon DEF P!set_features
    <2>8. \A f : \A x \in P!set_vring_file(f) : Fits(x, "handler")
      <3>1. ASSUME NEW f, NEW s \in {<<>>, P!initialize_vring}
            PROVE  Fits(P!Ring(f) \o P!Ring("vring_needs_init") \o s, "handler")
        BY <1>1, <1>2, <1>3, <2>2, Zenon
      <3> QED
        BY <3>1, Zenon DEF P!set_vring_file
    <2> QED
      BY <1>1, <1>3, <2>3, <2>4, <2>5, <2>6, <2>7, <2>8, Zenon DEF P!Methods, P!HandlerOnly
  <1> USE DEF P!Locks
  <1>5. ASSUME NEW l, NEW mode, NEW m, NEW b, Complete(P!Hold(l, mode, m, b)), b \in Seq(P!Ops)
        PROVE  P!Hold(l, mode, m, b) # <<>>
    <2>1. PICK x, y : P!Hold(l, mode, m, b) = <<x>> \o b \o <<y>>
      BY Zenon DEF P!Hold
    <2>2. Len(<<x>> \o b \o <<y>>) = Len(b) + 2
      BY <1>5
    <2> QED
      BY <1>5, <2>1, <2>2
  <1>6. \A m : P!Device(m) # <<>>
    <2>1. <<>> \in Seq(P!Ops)
      OBVIOUS
    <2> QED
      BY <1>5, <2>1, CallsFit, Zenon DEF P!Device
  <1>7. \A x, y : Complete(x) /\ Complete(y) /\ x # <<>> => x \o y # <<>>
    BY DEF Complete
  <1>8. ASSUME NEW q \in P!Requests \cup P!OwnerCalls
        PROVE  Complete(q) /\ q # <<>>
    <2>1. \A b, m : Fits(b, "handler") =>
             Complete(P!Hold("handler", "write", m, b)) /\ P!Hold("handler", "write", m, b) # <<>>
      <3>1. \A b, m : Fits(b, "handler") => Complete(P!Hold("handler", "write", m, b))
        BY HoldFits, Zenon
      <3>2. \A b : Fits(b, "handler") => b \in Seq(P!Ops)
        BY Zenon DEF Fits, Complete
      <3> QED
        BY <1>5, <3>1, <3>2, Zenon
    <2> QED
      BY <1>3, <1>4, <1>6, <2>1, CallsFit, Zenon DEF P!Requests, P!OwnerCalls
  <1>9. ASSUME NEW q \in P!Events
        PROVE  Complete(q) /\ q # <<>>
    <2>1. \A x, y : Complete(x) /\ Complete(y) => Complete(x \o y)
      BY InSequence, Zenon
    <2>2. \A w \in {<<>>, P!Ring("get_mut")} : Fits(w, "device")
      BY NothingFits, CallsFit, Zenon
    <2>3. P!Mode("handle_event") = "write"
      BY Zenon DEF P!Mode, P!ModeOfMutex, P!ModeOfRwLock, P!Shared
    <2>4. \A w \in {<<>>, P!Ring("get_mut")} :
             Complete(P!Hold("device", P!Mode("handle_event"), "handle_event", w))
      BY <2>2, <2>3, HoldFits, Zenon
    <2>5. \A k \in {<<>>, P!Ring("read_kick")} : Complete(k)
      BY NothingFits, CallsFit, Zenon DEF Fits
    <2>6. \A k \in {<<>>, P!Ring("read_kick")}, w \in {<<>>, P!Ring("get_mut")} :
             LET q1 == P!Device("num_queues") \o k
                         \o P!Hold("device", P!Mode("handle_event"), "handle_event", w)
             IN  Complete(q1) /\ q1 # <<>>
      BY <1>7, <1>6, <2>1, <2>4, <2>5, CallsFit, Zenon
    <2>7. /\ Complete(P!Device("num_queues")) /\ Complete(P!Device("num_queues") \o P!Ring("read_kick"))
          /\ P!Device("num_queues") # <<>> /\ P!Device("num_queues") \o P!Ring("read_kick") # <<>>
      BY <1>7, <1>6, <2>1, CallsFit, Zenon
    <2> DEFINE E(k, w) == P!Device("num_queues") \o k
                            \o P!Hold("device", P!Mode("handle_event"), "handle_event", w)
    <2>8. P!Events = {P!Device("num_queues"), P!Device("num_queues") \o P!Ring("read_kick")}
                     \cup {E(k, w) : k \in {<<>>, P!Ring("read_kick")}, w \in {<<>>, P!Ring("get_mut")}}
      BY DEF P!Events
    <2>9. \A k \in {<<>>, P!Ring("read_kick")}, w \in {<<>>, P!Ring("get_mut")} :
             Complete(E(k, w)) /\ E(k, w) # <<>>
      BY <2>6, Zenon
    <2> HIDE DEF E
    <2>10. CASE q \in {P!Device("num_queues"), P!Device("num_queues") \o P!Ring("read_kick")}
      BY <2>7, <2>10, Zenon
    <2>11. CASE q \in {E(k, w) : k \in {<<>>, P!Ring("read_kick")}, w \in {<<>>, P!Ring("get_mut")}}
      <3>1. PICK k \in {<<>>, P!Ring("read_kick")}, w \in {<<>>, P!Ring("get_mut")} : q = E(k, w)
        BY <2>11
      <3> QED
        BY <2>9, <3>1, Zenon
    <2> QED
      BY <2>8, <2>10, <2>11
  <1> QED
    BY <1>8, <1>9, Zenon DEF P!Programs
-------------------------------------------------------------------------------
(* Steps *)


\* What is left of a program after its first step.
LEMMA Later ==
  ASSUME NEW p \in Seq(P!Ops), p # <<>>, P!Orderly(p)
  PROVE  /\ Tail(p) \in Seq(P!Ops) /\ P!Orderly(Tail(p)) /\ Head(p) \in P!Ops /\ Head(p) = p[1]
         /\ \A l, k : k \in DOMAIN p /\ P!GivesBack(p, l, 1, k) =>
               k - 1 \in DOMAIN Tail(p) /\ P!GivesBack(Tail(p), l, 0, k - 1)
         /\ \A l : l # Head(p).lock /\ (\E k \in DOMAIN p : P!GivesBack(p, l, 0, k)) =>
               \E k \in DOMAIN Tail(p) : P!GivesBack(Tail(p), l, 0, k)
  <1> DEFINE q == Tail(p)
             n == Len(p)
  <1>1. q \in Seq(P!Ops) /\ n \in Nat /\ n >= 1 /\ DOMAIN p = 1 .. n /\ DOMAIN q = 1 .. n - 1
        /\ Head(p) = p[1] /\ Head(p) \in P!Ops
    OBVIOUS
  <1>2. \A i \in 1 .. n - 1 : q[i] = p[i + 1]
    OBVIOUS
  <1> HIDE DEF q, n
  <1>3. ASSUME NEW l, NEW i \in 0 .. n, NEW k \in 1 .. n, P!GivesBack(p, l, i + 1, k)
        PROVE  k - 1 \in DOMAIN q /\ P!GivesBack(q, l, i, k - 1) /\ q[k - 1] = p[k]
    <2>1. k - 1 \in 1 .. n - 1 /\ (k - 1) + 1 = k /\ i < k - 1
      BY <1>1, <1>3 DEF P!GivesBack
    <2>2. q[k - 1] = p[k]
      BY <1>2, <2>1, Zenon
    <2>3. ASSUME NEW m \in DOMAIN q, i < m, m < k - 1
          PROVE  q[m].lock # l
      <3>1. m \in 1 .. n - 1 /\ m + 1 \in DOMAIN p /\ i + 1 < m + 1 /\ m + 1 < k
        BY <1>1, <2>3
      <3>2. p[m + 1].lock # l
        BY <1>3, <3>1, Zenon DEF P!GivesBack
      <3> QED
        BY <1>2, <3>1, <3>2, Zenon
    <2> QED
      BY <1>1, <1>3, <2>1, <2>2, <2>3, Zenon DEF P!GivesBack
  <1>4. ASSUME NEW l, NEW i \in 1 .. n - 1, NEW k \in 1 .. n - 1, P!GivesBack(q, l, i, k)
        PROVE  P!GivesBack(p, l, i + 1, k + 1)
    <2>1. i + 1 < k + 1 /\ p[k + 1].lock = l /\ p[k + 1].op = "unlock"
      BY <1>1, <1>2, <1>4 DEF P!GivesBack
    <2>2. ASSUME NEW m \in DOMAIN p, i + 1 < m, m < k + 1
          PROVE  p[m].lock # l
      <3>1. m - 1 \in 1 .. n - 1 /\ m - 1 \in DOMAIN q /\ i < m - 1 /\ m - 1 < k /\ (m - 1) + 1 = m
        BY <1>1, <2>2
      <3>2. q[m - 1].lock # l
        BY <1>4, <3>1, Zenon DEF P!GivesBack
      <3> QED
        BY <1>2, <3>1, <3>2, Zenon
    <2> QED
      BY <2>1, <2>2, Zenon DEF P!GivesBack
  <1>5. ASSUME NEW i \in DOMAIN q
        PROVE  /\ q[i].changes => q[i].mode = "write"
               /\ q[i].op = "lock" => P!Returned(q, i) /\ P!Ranked(q, i)
    <2>1. i \in 1 .. n - 1 /\ i + 1 \in DOMAIN p /\ q[i] = p[i + 1] /\ i \in 0 .. n
      BY <1>1, <1>2
    <2>2. /\ p[i + 1].changes => p[i + 1].mode = "write"
          /\ p[i + 1].op = "lock" => P!Returned(p, i + 1) /\ P!Ranked(p, i + 1)
      BY <2>1, Zenon DEF P!Orderly
    <2>3. ASSUME P!Returned(p, i + 1)
          PROVE  P!Returned(q, i)
      <3>1. PICK k \in DOMAIN p :
              /\ P!GivesBack(p, p[i + 1].lock, i + 1, k)
              /\ p[i + 1].mode = "read" => k = i + 1 + 1 /\ p[k].mode = "read"
        BY <2>3, Zenon DEF P!Returned
      <3>2. k - 1 \in DOMAIN q /\ P!GivesBack(q, p[i + 1].lock, i, k - 1) /\ q[k - 1] = p[k]
        BY <1>1, <1>3, <2>1, <3>1, Zenon
      <3>3. p[i + 1].mode = "read" => k - 1 = i + 1
        BY <1>1, <2>1, <3>1
      <3> QED
        BY <2>1, <3>1, <3>2, <3>3, Zenon DEF P!Returned
    <2>4. ASSUME P!Ranked(p, i + 1)
          PROVE  P!Ranked(q, i)
      <3> SUFFICES ASSUME NEW l \in P!Locks, NEW k \in DOMAIN q, P!GivesBack(q, l, i, k), l # q[i].lock
                   PROVE  P!Rank[l] < P!Rank[q[i].lock]
        BY Zenon DEF P!Ranked
      <3>1. P!GivesBack(p, l, i + 1, k + 1) /\ k + 1 \in DOMAIN p
        BY <1>1, <1>4, <2>1
      <3> QED
        BY <2>1, <2>4, <3>1, Zenon DEF P!Ranked
    <2> QED
      BY <2>1, <2>2, <2>3, <2>4, Zenon
  <1>6. ASSUME NEW l, NEW k \in DOMAIN p, P!GivesBack(p, l, 1, k)
        PROVE  k - 1 \in DOMAIN q /\ P!GivesBack(q, l, 0, k - 1)
    <2>1. 0 \in 0 .. n /\ 0 + 1 = 1
      BY <1>1
    <2> QED
      BY <1>1, <1>3, <1>6, <2>1, Zenon
  <1>7. ASSUME NEW l, l # p[1].lock, NEW k \in DOMAIN p, P!GivesBack(p, l, 0, k)
        PROVE  P!GivesBack(p, l, 1, k)
    <2>1. k # 1
      BY <1>7, Zenon DEF P!GivesBack
    <2>2. 1 < k
      BY <1>1, <2>1
    <2>3. \A m \in DOMAIN p : 1 < m => 0 < m
      BY <1>1
    <2> QED
      BY <1>7, <2>2, <2>3, Zenon DEF P!GivesBack
  <1> QED
    BY <1>1, <1>5, <1>6, <1>7, Zenon DEF P!Orderly, q

\* A program of which only steps are left that give locks back.
LEMMA OnlyUnlocks ==
  ASSUME NEW q \in Seq(P!Ops), \A i \in DOMAIN q : q[i].op = "unlock"
  PROVE  \A l : (\E i \in DOMAIN q : q[i].lock = l) => \E k \in DOMAIN q : P!GivesBack(q, l, 0, k)
  <1> SUFFICES ASSUME NEW l, \E i \in DOMAIN q : q[i].lock = l
               PROVE  \E k \in DOMAIN q : P!GivesBack(q, l, 0, k)
    BY Zenon
  <1> DEFINE T == {i \in DOMAIN q : q[i].lock = l}
  <1>1. T \subseteq Nat /\ T # {}
    OBVIOUS
  <1>2. PICK k \in T : \A m \in T : k <= m
    <2> HIDE DEF T
    <2> QED
      BY <1>1, LeastNatural, Zenon
  <1>3. DOMAIN q \subseteq Nat \ {0} /\ k \in DOMAIN q /\ q[k].lock = l
    BY <1>2
  <1>4. \A m \in DOMAIN q : 0 < m /\ m < k => q[m].lock # l
    BY <1>2, <1>3
  <1>5. P!GivesBack(q, l, 0, k)
    BY <1>3, <1>4 DEF P!GivesBack
  <1> QED
    BY <1>3, <1>5, Zenon


\* What a thread goes on with knows of the locks that it has.
LEMMA AheadKnows ==
  ASSUME P!LockInv, NEW t \in P!Threads, NEW p \in P!Ahead(t)
  PROVE  /\ p \in Seq(P!Ops) /\ p # <<>> /\ P!Orderly(p)
         /\ \A l \in P!Locks : writer[l] = t => \E k \in DOMAIN p : P!GivesBack(p, l, 0, k)
         /\ \A l \in P!Locks : t \in readers[l] => Head(p).op = "unlock"
  <1>1. CASE program[t] # <<>>
    <2>1. p = program[t]
      BY <1>1, Zenon DEF P!Ahead
    <2>2. p \in Seq(P!Ops) /\ P!Orderly(p)
      BY <2>1, Zenon DEF P!LockInv, P!ProgramInv
    <2> QED
      BY <1>1, <2>1, <2>2, Zenon DEF P!LockInv, P!HeldInv, P!StopsReading, P!Op
  <1>2. CASE program[t] = <<>>
    <2>1. p \in P!Programs(t)
      BY <1>2, Zenon DEF P!Ahead
    <2>2. Complete(p) /\ p # <<>>
      BY <2>1, ProgramsComplete, Zenon
    <2>3. DOMAIN program[t] = {}
      BY <1>2
    <2>4. \A l \in P!Locks : writer[l] # t /\ t \notin readers[l]
      BY <1>2, <2>3, Zenon DEF P!LockInv, P!HeldInv, P!StopsReading, P!Busy
    <2> QED
      BY <2>2, <2>4, Zenon DEF Complete
  <1> QED
    BY <1>1, <1>2, Zenon

\* Taking a lock keeps the invariant.
LEMMA TakeSafe ==
  ASSUME P!Named, P!LockInv, NEW t \in P!Threads, NEW p \in P!Ahead(t), P!MayLock(p),
         Head(p).lock \notin panicked, P!Take(t, p), lockKind' = lockKind, halfway' = halfway
  PROVE  P!LockInv'
  <1> DEFINE l == Head(p).lock
             q == Tail(p)
  <1>1. /\ p \in Seq(P!Ops) /\ p # <<>> /\ P!Orderly(p)
        /\ \A x \in P!Locks : writer[x] = t => \E k \in DOMAIN p : P!GivesBack(p, x, 0, k)
        /\ \A x \in P!Locks : t \in readers[x] => Head(p).op = "unlock"
    BY AheadKnows, Zenon
  <1>2. /\ q \in Seq(P!Ops) /\ P!Orderly(q) /\ Head(p) \in P!Ops /\ Head(p) = p[1]
        /\ \A x, k : k \in DOMAIN p /\ P!GivesBack(p, x, 1, k) =>
              k - 1 \in DOMAIN q /\ P!GivesBack(q, x, 0, k - 1)
        /\ \A x : x # Head(p).lock /\ (\E k \in DOMAIN p : P!GivesBack(p, x, 0, k)) =>
              \E k \in DOMAIN q : P!GivesBack(q, x, 0, k)
    BY <1>1, Later, Zenon
  <1>3. /\ Head(p).op = "lock" /\ writer[l] = P!None
        /\ Head(p).mode = "write" => readers[l] = {}
        /\ l \in P!Locks /\ Head(p).mode \in {"read", "write"}
    BY <1>2, Zenon DEF P!MayLock, P!Free, P!Ops
  <1>4. t # P!None
    BY Zenon DEF P!Named, P!None
  <1>5. program' = [program EXCEPT ![t] = q] /\ panicked' = panicked /\ ended' = ended
    BY Zenon DEF P!Take
  <1>6. \A x \in P!Locks : t \notin readers[x]
    BY <1>1, <1>3, Zenon
  <1>7. PICK k \in DOMAIN p : /\ P!GivesBack(p, l, 1, k)
                              /\ Head(p).mode = "read" => k = 2 /\ p[k].mode = "read"
    <2>1. 1 \in DOMAIN p
      BY <1>1
    <2>2. P!Returned(p, 1)
      <3>1. p[1].op = "lock"
        BY <1>2, <1>3, Zenon
      <3> QED
        BY <1>1, <2>1, <3>1, Zenon DEF P!Orderly
    <2> QED
      BY <1>2, <2>2 DEF P!Returned
  <1>8. k - 1 \in DOMAIN q /\ P!GivesBack(q, l, 0, k - 1)
    BY <1>2, <1>7, Zenon
  <1>9. Head(p).mode = "read" => q # <<>> /\ Head(q) = p[2] /\ p[2].op = "unlock" /\ p[2].lock = l
                                 /\ p[2].mode = "read"
    <2> SUFFICES ASSUME Head(p).mode = "read"
                 PROVE  q # <<>> /\ Head(q) = p[2] /\ p[2].op = "unlock" /\ p[2].lock = l
                        /\ p[2].mode = "read"
      BY Zenon
    <2>1. 2 \in DOMAIN p /\ P!GivesBack(p, l, 1, 2) /\ p[2].mode = "read"
      BY <1>7, Zenon
    <2>2. q # <<>> /\ Head(q) = p[2]
      <3>1. Len(p) >= 2 /\ Len(q) = Len(p) - 1 /\ Len(p) \in Nat
        BY <1>1, <2>1
      <3>2. \A i \in 1 .. Len(p) - 1 : q[i] = p[i + 1]
        BY <1>1
      <3>3. q[1] = p[1 + 1]
        BY <3>1, <3>2
      <3>4. q # <<>>
        <4> HIDE DEF q
        <4>1. Len(q) # 0
          BY <3>1
        <4> QED
          BY <4>1
      <3> QED
        BY <1>2, <3>3, <3>4
    <2> QED
      BY <2>1, <2>2, Zenon DEF P!GivesBack
  <1> HIDE DEF l, q
  <1>10. P!ProgramInv'
    BY <1>2, <1>5, Zenon DEF P!LockInv, P!ProgramInv
  <1>11. /\ program'[t] = q
         /\ \A u \in P!Threads : u # t => program'[u] = program[u]
    BY <1>5, Zenon DEF P!LockInv, P!ProgramInv
  <1>12. CASE Head(p).mode = "write"
    <2>1. writer' = [writer EXCEPT ![l] = t] /\ readers' = readers
      BY <1>12, Zenon DEF P!Take, l
    <2>2. P!TypeOK'
      BY <1>3, <1>5, <1>12, <2>1, Zenon DEF P!LockInv, P!TypeOK
    <2>3. /\ writer'[l] = t
          /\ \A x \in P!Locks : x # l => writer'[x] = writer[x]
      BY <1>3, <2>1, Zenon DEF P!LockInv, P!TypeOK
    <2>4. ASSUME NEW u \in P!Threads, NEW x \in P!Locks
          PROVE  /\ writer'[x] = u => \E i \in DOMAIN program'[u] : P!GivesBack(program'[u], x, 0, i)
                 /\ u \in readers'[x] => P!StopsReading(u, x)'
      <3>1. CASE u = t
        <4>1. writer'[x] = t => \E i \in DOMAIN q : P!GivesBack(q, x, 0, i)
          BY <1>1, <1>2, <1>8, <2>3, Zenon DEF l
        <4> QED
          BY <1>6, <1>11, <2>1, <3>1, <4>1, Zenon
      <3>2. CASE u # t
        <4>1. writer'[x] = u => writer[x] = u
          BY <2>3, <3>2, Zenon
        <4>2. P!StopsReading(u, x)' <=> P!StopsReading(u, x)
          BY <1>11, <3>2, Zenon DEF P!StopsReading, P!Busy, P!Op
        <4> QED
          BY <1>11, <2>1, <3>2, <4>1, <4>2, Zenon DEF P!LockInv, P!HeldInv
      <3> QED
        BY <3>1, <3>2, Zenon
    <2>5. P!HeldInv'
      BY <2>4, Zenon DEF P!HeldInv
    <2>6. P!HalfwayInv'
      <3>1. halfway => l # "device"
        BY Zenon DEF P!LockInv, P!HalfwayInv, l
      <3> QED
        BY <1>5, <2>1, <2>3, <3>1, Zenon DEF P!LockInv, P!HalfwayInv, P!Locks
    <2> QED
      BY <1>10, <2>2, <2>5, <2>6, Zenon DEF P!LockInv
  <1>13. CASE Head(p).mode = "read"
    <2>1. writer' = writer /\ readers' = [readers EXCEPT ![l] = readers[l] \cup {t}]
      BY <1>13, Zenon DEF P!Take, l
    <2>2. P!TypeOK'
      BY <1>3, <1>5, <2>1, Zenon DEF P!LockInv, P!TypeOK
    <2>3. /\ readers'[l] = readers[l] \cup {t}
          /\ \A x \in P!Locks : x # l => readers'[x] = readers[x]
      BY <1>3, <2>1, Zenon DEF P!LockInv, P!TypeOK
    <2>4. ASSUME NEW u \in P!Threads, NEW x \in P!Locks
          PROVE  /\ writer'[x] = u => \E i \in DOMAIN program'[u] : P!GivesBack(program'[u], x, 0, i)
                 /\ u \in readers'[x] => P!StopsReading(u, x)'
      <3>1. CASE u = t
        <4>1. writer[x] = t => x # l
          BY <1>3, <1>4, Zenon
        <4>2. writer'[x] = t => \E i \in DOMAIN q : P!GivesBack(q, x, 0, i)
          BY <1>1, <1>2, <2>1, <4>1, Zenon DEF l
        <4>3. t \in readers'[x] => x = l
          BY <1>6, <2>3, Zenon
        <4>4. P!StopsReading(t, l)'
          BY <1>9, <1>11, <1>13, Zenon DEF P!StopsReading, P!Busy, P!Op
        <4> QED
          BY <1>11, <3>1, <4>2, <4>3, <4>4, Zenon
      <3>2. CASE u # t
        <4>1. u \in readers'[x] => u \in readers[x]
          BY <2>3, <3>2, Zenon
        <4>2. P!StopsReading(u, x)' <=> P!StopsReading(u, x)
          BY <1>11, <3>2, Zenon DEF P!StopsReading, P!Busy, P!Op
        <4> QED
          BY <1>11, <2>1, <3>2, <4>1, <4>2, Zenon DEF P!LockInv, P!HeldInv
      <3> QED
        BY <3>1, <3>2, Zenon
    <2>5. P!HeldInv'
      BY <2>4, Zenon DEF P!HeldInv
    <2>6. P!HalfwayInv'
      <3>1. halfway => l # "device"
        BY Zenon DEF P!LockInv, P!HalfwayInv, l
      <3> QED
        BY <1>5, <2>1, <2>3, <3>1, Zenon DEF P!LockInv, P!HalfwayInv, P!Locks
    <2> QED
      BY <1>10, <2>2, <2>5, <2>6, Zenon DEF P!LockInv
  <1> QED
    BY <1>3, <1>12, <1>13, Zenon

\* A thread that unwinds gives back what it has.
LEMMA UnwindSafe ==
  ASSUME P!Named, P!LockInv, NEW t \in P!Threads, P!Unwind(t), lockKind' = lockKind, halfway' \in BOOLEAN,
         halfway' => halfway \/ writer["device"] = t
  PROVE  P!LockInv'
  <1>1. /\ program' = [program EXCEPT ![t] = <<>>]
        /\ panicked' = panicked \cup {l \in P!Locks : writer[l] = t}
        /\ writer' = [l \in P!Locks |-> IF writer[l] = t THEN P!None ELSE writer[l]]
        /\ readers' = [l \in P!Locks |-> readers[l] \ {t}]
        /\ ended' = IF t \in DeviceWorkers THEN ended \cup {t} ELSE ended
    BY Zenon DEF P!Unwind
  <1>2. P!TypeOK'
    BY <1>1, Zenon DEF P!LockInv, P!TypeOK
  <1>3. <<>> \in Seq(P!Ops) /\ P!Orderly(<<>>)
    BY DEF P!Orderly
  <1>4. P!ProgramInv'
    BY <1>1, <1>3, Zenon DEF P!LockInv, P!ProgramInv
  <1>5. \A u \in P!Threads : u # t => program'[u] = program[u]
    BY <1>1, Zenon DEF P!LockInv, P!ProgramInv
  <1>6. ASSUME NEW u \in P!Threads, NEW x \in P!Locks
        PROVE  /\ writer'[x] = u => \E i \in DOMAIN program'[u] : P!GivesBack(program'[u], x, 0, i)
               /\ u \in readers'[x] => P!StopsReading(u, x)'
    <2>0. /\ writer'[x] = IF writer[x] = t THEN P!None ELSE writer[x]
          /\ readers'[x] = readers[x] \ {t} /\ u # P!None
      BY <1>1, Zenon DEF P!Named, P!None
    <2>1. CASE u = t
      BY <2>0, <2>1, Zenon
    <2>2. CASE u # t
      <3>1. P!StopsReading(u, x)' <=> P!StopsReading(u, x)
        BY <1>5, <2>2, Zenon DEF P!StopsReading, P!Busy, P!Op
      <3>2. /\ writer'[x] = u => writer[x] = u
            /\ u \in readers'[x] => u \in readers[x]
        BY <2>0, <2>2, Zenon
      <3> QED
        BY <1>5, <2>2, <3>1, <3>2, Zenon DEF P!LockInv, P!HeldInv
    <2> QED
      BY <2>1, <2>2, Zenon
  <1>7. P!HeldInv'
    BY <1>6, Zenon DEF P!HeldInv
  <1>8. P!HalfwayInv'
    <2>1. "device" \in P!Locks
      BY Zenon DEF P!Locks
    <2>2. writer["device"] = t => readers["device"] = {}
      BY <2>1, Zenon DEF P!LockInv, P!TypeOK, P!Named, P!None
    <2>3. /\ writer'["device"] = IF writer["device"] = t THEN P!None ELSE writer["device"]
          /\ readers'["device"] = readers["device"] \ {t}
          /\ writer["device"] = t => "device" \in panicked'
          /\ panicked \subseteq panicked'
      BY <1>1, <2>1, Zenon
    <2> QED
      BY <2>2, <2>3, Zenon DEF P!LockInv, P!HalfwayInv
  <1> QED
    BY <1>2, <1>4, <1>7, <1>8, Zenon DEF P!LockInv

\* A sequence that drops the guards of a set of locks and does nothing else.
Guards(q, H) ==
    /\ q \in Seq(P!Ops)
    /\ \A i \in DOMAIN q : q[i].op = "unlock" /\ ~ q[i].changes
    /\ \A l \in H : \E i \in DOMAIN q : q[i].lock = l

\* Some guards, and then others.
LEMMA GuardsJoin ==
  ASSUME NEW p, NEW q, NEW H, NEW K, Guards(p, H), Guards(q, K)
  PROVE  Guards(p \o q, H \cup K)
  <1> DEFINE r == p \o q
  <1>1. /\ r \in Seq(P!Ops) /\ Len(r) = Len(p) + Len(q) /\ Len(p) \in Nat /\ Len(q) \in Nat
        /\ p \in Seq(P!Ops) /\ q \in Seq(P!Ops)
    BY DEF Guards
  <1>2. /\ DOMAIN r = 1 .. Len(p) + Len(q) /\ DOMAIN p = 1 .. Len(p) /\ DOMAIN q = 1 .. Len(q)
        /\ \A i \in 1 .. Len(p) : r[i] = p[i]
        /\ \A i \in 1 .. Len(p) + Len(q) : i > Len(p) => r[i] = q[i - Len(p)]
    BY <1>1
  <1> HIDE DEF r
  <1>3. \A i \in DOMAIN r : r[i].op = "unlock" /\ ~ r[i].changes
    <2> SUFFICES ASSUME NEW i \in DOMAIN r PROVE r[i].op = "unlock" /\ ~ r[i].changes
      BY Zenon
    <2>1. CASE i <= Len(p)
      BY <1>1, <1>2, <2>1 DEF Guards
    <2>2. CASE i > Len(p)
      <3>1. i - Len(p) \in DOMAIN q /\ r[i] = q[i - Len(p)]
        BY <1>1, <1>2, <2>2
      <3> QED
        BY <3>1 DEF Guards
    <2> QED
      BY <1>1, <1>2, <2>1, <2>2
  <1>4. \A l \in H : \E i \in DOMAIN r : r[i].lock = l
    <2>1. \A i \in DOMAIN p : i \in DOMAIN r /\ r[i] = p[i]
      BY <1>1, <1>2
    <2> QED
      BY <2>1, ZenonT(40) DEF Guards
  <1>5. \A l \in K : \E i \in DOMAIN r : r[i].lock = l
    <2>1. ASSUME NEW i \in DOMAIN q
          PROVE  Len(p) + i \in DOMAIN r /\ r[Len(p) + i] = q[i]
      <3>1. /\ Len(p) + i \in 1 .. Len(p) + Len(q) /\ Len(p) + i > Len(p)
            /\ Len(p) + i - Len(p) = i
        BY <1>1, <1>2
      <3> QED
        BY <1>2, <3>1
    <2> QED
      BY <2>1 DEF Guards
  <1> QED
    BY <1>1, <1>3, <1>4, <1>5, Zenon DEF Guards, r


\* Giving a lock back keeps the invariant, also if an error is returned.
LEMMA ReleaseSafe ==
  ASSUME P!Named, P!LockInv, NEW t \in P!Threads, P!Release(t)
  PROVE  P!LockInv'
  <1> DEFINE p == program[t]
             l == Head(p).lock
             q == program'[t]
             Drop(x) ==
               IF x # l /\ writer[x] = t
               THEN <<[op |-> "unlock", lock |-> x, mode |-> "write", fails |-> FALSE, changes |-> FALSE]>>
               ELSE <<>>
             rest == Drop("ring") \o Drop("device") \o Drop("handler")
  <1>1. p \in Seq(P!Ops) /\ p # <<>> /\ P!Orderly(p)
    BY Zenon DEF P!Release, P!Busy, P!LockInv, P!ProgramInv
  <1>2. /\ Tail(p) \in Seq(P!Ops) /\ P!Orderly(Tail(p)) /\ Head(p) \in P!Ops /\ Head(p) = p[1]
        /\ \A x : x # Head(p).lock /\ (\E k \in DOMAIN p : P!GivesBack(p, x, 0, k)) =>
              \E k \in DOMAIN Tail(p) : P!GivesBack(Tail(p), x, 0, k)
    BY <1>1, Later, Zenon
  <1>3. /\ Head(p).op = "unlock" /\ l \in P!Locks
        /\ writer' = [writer EXCEPT ![l] = IF writer[l] = t THEN P!None ELSE writer[l]]
        /\ readers' = [readers EXCEPT ![l] = readers[l] \ {t}]
        /\ lockKind' = lockKind /\ panicked' = panicked /\ halfway' = halfway
    BY <1>2, Zenon DEF P!Release, P!Op, P!Ops
  <1>4. \/ program' = [program EXCEPT ![t] = Tail(p)] /\ ended' = ended
        \/ /\ program' = [program EXCEPT ![t] = rest]
           /\ ended' = IF t \in DeviceWorkers THEN ended \cup {t} ELSE ended
    BY Zenon DEF P!Release, P!Return, P!Op
  <1>5. /\ writer'[l] = IF writer[l] = t THEN P!None ELSE writer[l]
        /\ readers'[l] = readers[l] \ {t}
        /\ \A x \in P!Locks : x # l => writer'[x] = writer[x] /\ readers'[x] = readers[x]
    BY <1>3, Zenon DEF P!LockInv, P!TypeOK
  <1>6. t # P!None /\ \A u \in P!Threads : u # P!None
    BY Zenon DEF P!Named, P!None
  <1>7. P!TypeOK'
    BY <1>3, <1>4, <1>5, ZenonT(40) DEF P!LockInv, P!TypeOK
  <1>8. program \in [P!Threads -> Seq(P!Ops)]
    BY Zenon DEF P!LockInv, P!ProgramInv
  <1>9. /\ q = Tail(p) \/ q = rest
        /\ \A u \in P!Threads : u # t => program'[u] = program[u]
        /\ program' = [program EXCEPT ![t] = q]
    BY <1>4, <1>8, Zenon
  <1> HIDE DEF q
  <1>10. \A x \in P!Locks : x # l /\ writer[x] = t =>
            \E k \in DOMAIN Tail(p) : P!GivesBack(Tail(p), x, 0, k)
    BY <1>2, Zenon DEF P!LockInv, P!HeldInv
  <1>11. /\ q \in Seq(P!Ops) /\ P!Orderly(q)
         /\ \A x \in P!Locks : x # l /\ writer[x] = t => \E k \in DOMAIN q : P!GivesBack(q, x, 0, k)
    <2>1. CASE q = Tail(p)
      BY <1>2, <1>10, <2>1, Zenon
    <2>2. CASE q = rest
      <3>1. \A x \in P!Locks : Guards(Drop(x), {x} \cap {y \in P!Locks : y # l /\ writer[y] = t})
        <4> SUFFICES ASSUME NEW x \in P!Locks
                     PROVE  Guards(Drop(x), {x} \cap {y \in P!Locks : y # l /\ writer[y] = t})
          BY Zenon
        <4>1. CASE x # l /\ writer[x] = t
          BY <4>1 DEF Guards, P!Ops
        <4>2. CASE ~ (x # l /\ writer[x] = t)
          BY <4>2 DEF Guards
        <4> QED
          BY <4>1, <4>2, Zenon
      <3> HIDE DEF Drop
      <3>2. Guards(rest, {y \in P!Locks : y # l /\ writer[y] = t})
        <4>1. {"ring", "device", "handler"} = P!Locks
          BY Zenon DEF P!Locks
        <4> DEFINE H == {y \in P!Locks : y # l /\ writer[y] = t}
        <4>2. Guards(Drop("ring") \o Drop("device"), ({"ring"} \cap H) \cup ({"device"} \cap H))
          BY <3>1, <4>1, GuardsJoin, Zenon
        <4>3. Guards(rest, (({"ring"} \cap H) \cup ({"device"} \cap H)) \cup ({"handler"} \cap H))
          BY <3>1, <4>1, <4>2, GuardsJoin, Zenon
        <4>4. (({"ring"} \cap H) \cup ({"device"} \cap H)) \cup ({"handler"} \cap H) = H
          BY <4>1, Zenon
        <4> QED
          BY <4>3, <4>4, Zenon
      <3>3. /\ q \in Seq(P!Ops) /\ \A i \in DOMAIN q : q[i].op = "unlock" /\ ~ q[i].changes
            /\ \A x \in P!Locks : x # l /\ writer[x] = t => \E i \in DOMAIN q : q[i].lock = x
        BY <2>2, <3>2, Zenon DEF Guards
      <3>4. P!Orderly(q)
        BY <3>3, Zenon DEF P!Orderly
      <3> QED
        BY <3>3, <3>4, OnlyUnlocks, Zenon
    <2> QED
      BY <1>9, <2>1, <2>2, Zenon
  <1>12. P!ProgramInv'
    BY <1>8, <1>9, <1>11, Zenon DEF P!LockInv, P!ProgramInv
  <1>13. ASSUME NEW u \in P!Threads, NEW x \in P!Locks
         PROVE  /\ writer'[x] = u => \E i \in DOMAIN program'[u] : P!GivesBack(program'[u], x, 0, i)
                /\ u \in readers'[x] => P!StopsReading(u, x)'
    <2>1. CASE u = t
      <3>1. writer'[x] = t => x # l /\ writer[x] = t
        BY <1>5, <1>6, Zenon
      <3>2. t \notin readers'[x]
        BY <1>5, SMTT(30) DEF P!LockInv, P!HeldInv, P!StopsReading, P!Op
      <3> QED
        BY <1>11, <2>1, <3>1, <3>2, Zenon DEF q
    <2>2. CASE u # t
      <3>1. P!StopsReading(u, x)' <=> P!StopsReading(u, x)
        BY <1>9, <2>2, Zenon DEF P!StopsReading, P!Busy, P!Op
      <3>2. /\ writer'[x] = u => writer[x] = u
            /\ u \in readers'[x] => u \in readers[x]
        BY <1>5, <1>6, <2>2, Zenon
      <3> QED
        BY <1>9, <2>2, <3>1, <3>2, ZenonT(40) DEF P!LockInv, P!HeldInv
    <2> QED
      BY <2>1, <2>2, Zenon
  <1>14. P!HeldInv'
    BY <1>13, Zenon DEF P!HeldInv
  <1>15. P!HalfwayInv'
    <2>1. "device" \in P!Locks
      BY Zenon DEF P!Locks
    <2>2. /\ writer'["device"] \in {writer["device"], P!None}
          /\ readers'["device"] \subseteq readers["device"]
      BY <1>5, <2>1, Zenon
    <2> QED
      BY <1>3, <2>2, Zenon DEF P!LockInv, P!HalfwayInv
  <1> QED
    BY <1>7, <1>12, <1>14, <1>15, Zenon DEF P!LockInv

\* A panic in the device leaves a poisoned lock if it comes in the middle of a change.
LEMMA PanicSafe ==
  ASSUME P!Named, P!LockInv, NEW t \in P!Threads, P!Panic(t)
  PROVE  P!LockInv'
  <1>1. PICK i \in DOMAIN program[t] :
          /\ program[t][i].op = "unlock" /\ program[t][i].lock = "device"
          /\ \A j \in 1 .. i - 1 : program[t][j].lock # "device"
          /\ halfway' = (halfway \/ program[t][i].changes)
    BY Zenon DEF P!Panic
  <1>2. program[t] \in Seq(P!Ops) /\ P!Orderly(program[t]) /\ "device" \in P!Locks
    BY Zenon DEF P!LockInv, P!ProgramInv, P!Locks
  <1>3. program[t][i] \in P!Ops
    BY <1>2
  <1>4. halfway' \in BOOLEAN
    BY <1>1, <1>3, Zenon DEF P!LockInv, P!TypeOK, P!Ops
  <1>5. program[t][i].changes => writer["device"] = t
    <2> SUFFICES ASSUME program[t][i].changes, t \in readers["device"]
                 PROVE  FALSE
      BY Zenon DEF P!Panic, P!InDevice
    <2>1. program[t][i].mode = "write"
      BY <1>2, Zenon DEF P!Orderly
    <2>2. P!StopsReading(t, "device")
      BY <1>2, Zenon DEF P!LockInv, P!HeldInv
    <2>3. program[t][1].lock = "device" /\ program[t][1].mode = "read"
      BY <1>2, <2>2 DEF P!StopsReading, P!Busy, P!Op
    <2>4. i # 1
      BY <2>1, <2>3, Zenon
    <2>5. 1 \in 1 .. i - 1
      BY <1>2, <2>4
    <2> QED
      BY <1>1, <2>3, <2>5, Zenon
  <1>6. halfway' => halfway \/ writer["device"] = t
    BY <1>1, <1>5, Zenon
  <1> QED
    BY <1>4, <1>6, UnwindSafe, Zenon DEF P!Panic

\* The invariant of the locks is inductive.
LEMMA LockInvariant == ASSUME P!Named PROVE P!Spec => []P!LockInv
  <1>1. P!Init => P!LockInv
    <2> SUFFICES ASSUME P!Init PROVE P!LockInv
      BY Zenon
    <2>1. <<>> \in Seq(P!Ops) /\ P!Orderly(<<>>)
      BY DEF P!Orderly
    <2>2. P!ProgramInv
      BY <2>1, Zenon DEF P!Init, P!ProgramInv
    <2>3. P!HeldInv
      BY Zenon DEF P!Init, P!HeldInv, P!Named, P!None
    <2> QED
      BY <2>2, <2>3, Zenon DEF P!Init, P!LockInv, P!TypeOK, P!HalfwayInv
  <1>2. P!LockInv /\ [P!Next]_(P!vars) => P!LockInv'
    <2> SUFFICES ASSUME P!LockInv, [P!Next]_(P!vars) PROVE P!LockInv'
      BY Zenon
    <2>1. ASSUME NEW t \in P!Threads, P!Acquire(t)
          PROVE  P!LockInv'
      <3>1. PICK p \in P!Ahead(t) :
              P!MayLock(p) /\ IF Head(p).lock \in panicked THEN P!Unwind(t) ELSE P!Take(t, p)
        BY <2>1, Zenon DEF P!Acquire
      <3>2. lockKind' = lockKind /\ halfway' = halfway /\ halfway \in BOOLEAN
        BY <2>1, Zenon DEF P!Acquire, P!LockInv, P!TypeOK
      <3> QED
        BY <3>1, <3>2, TakeSafe, UnwindSafe, Zenon
    <2>2. ASSUME NEW t \in P!Threads, P!Release(t) \/ P!Panic(t)
          PROVE  P!LockInv'
      BY <2>2, ReleaseSafe, PanicSafe, Zenon
    <2>3. CASE UNCHANGED P!vars
      <3>1. P!TypeOK' /\ P!ProgramInv' /\ P!HalfwayInv'
        BY <2>3, Zenon DEF P!vars, P!LockInv, P!TypeOK, P!ProgramInv, P!HalfwayInv
      <3>2. P!HeldInv'
        BY <2>3, Zenon DEF P!vars, P!LockInv, P!HeldInv, P!StopsReading, P!Busy, P!Op
      <3> QED
        BY <3>1, <3>2, Zenon DEF P!LockInv
    <2> QED
      BY <2>1, <2>2, <2>3, Zenon DEF P!Next
  <1> QED
    BY <1>1, <1>2, PTL DEF P!Spec

\* With it nobody is in a device that panicked halfway.
LEMMA HalfwayLeft == ASSUME P!Named, P!LockInv PROVE P!HalfwayDeviceIsLeft
  <1>1. "device" \in P!Locks
    BY Zenon DEF P!Locks
  <1> QED
    BY <1>1, Zenon DEF P!LockInv, P!HalfwayInv, P!HalfwayDeviceIsLeft, P!InDevice, P!Named, P!None

\* And of the threads that wait for locks, the one that waits for a lock of the highest rank
\* waits for a thread that does not.
LEMMA NoCircle == ASSUME P!Named, P!LockInv PROVE P!NobodyWaitsInCircle
  <1> DEFINE Waits(t) == P!Busy(t) /\ P!Op(t).op = "lock" /\ ~ P!Free(P!Op(t).lock, P!Op(t).mode)
  <1> SUFFICES ASSUME NEW s \in P!Threads, Waits(s), \A t \in P!Threads : P!Busy(t) => Waits(t)
               PROVE  FALSE
    BY Zenon DEF P!NobodyWaitsInCircle
  <1>1. \A t \in P!Threads : P!Busy(t) => P!Op(t).lock \in P!Locks /\ program[t] \in Seq(P!Ops)
                                      /\ P!Op(t) = program[t][1] /\ 1 \in DOMAIN program[t]
    <2> SUFFICES ASSUME NEW t \in P!Threads, P!Busy(t)
                 PROVE  P!Op(t).lock \in P!Locks /\ program[t] \in Seq(P!Ops)
                        /\ P!Op(t) = program[t][1] /\ 1 \in DOMAIN program[t]
      BY Zenon
    <2>1. program[t] \in Seq(P!Ops) /\ program[t] # <<>>
      BY Zenon DEF P!LockInv, P!ProgramInv, P!Busy
    <2>2. Head(program[t]) \in P!Ops /\ Head(program[t]) = program[t][1] /\ 1 \in DOMAIN program[t]
      BY <2>1
    <2> QED
      BY <2>1, <2>2, Zenon DEF P!Op, P!Ops
  <1>2. \A x, y \in P!Locks : P!Rank[x] \in Nat /\ (x = "ring" => P!Rank[y] <= P!Rank[x])
                            /\ (y # "ring" /\ x = "device" => P!Rank[y] <= P!Rank[x])
                            /\ (y = "handler" => P!Rank[y] <= P!Rank[x])
    BY DEF P!Locks, P!Rank
  <1>3. PICK t \in P!Threads :
            Waits(t) /\ \A u \in P!Threads : Waits(u) => P!Rank[P!Op(u).lock] <= P!Rank[P!Op(t).lock]
    <2>1. CASE \E t \in P!Threads : Waits(t) /\ P!Op(t).lock = "ring"
      BY <1>1, <1>2, <2>1, Zenon
    <2>2. CASE /\ ~ \E t \in P!Threads : Waits(t) /\ P!Op(t).lock = "ring"
               /\ \E t \in P!Threads : Waits(t) /\ P!Op(t).lock = "device"
      BY <1>1, <1>2, <2>2, Zenon
    <2>3. CASE /\ ~ \E t \in P!Threads : Waits(t) /\ P!Op(t).lock = "ring"
               /\ ~ \E t \in P!Threads : Waits(t) /\ P!Op(t).lock = "device"
      <3>1. \A u \in P!Threads : Waits(u) => P!Op(u).lock = "handler"
        BY <1>1, <2>3, Zenon DEF P!Locks
      <3> QED
        BY <1>1, <1>2, <3>1
    <2> QED
      BY <2>1, <2>2, <2>3, Zenon
  <1> DEFINE l == P!Op(t).lock
  <1>4. l \in P!Locks
    BY <1>1, <1>3, Zenon
  <1>5. PICK u \in P!Threads : writer[l] = u \/ u \in readers[l]
    BY <1>3, <1>4, Zenon DEF P!Free, P!LockInv, P!TypeOK
  <1>6. u \notin readers[l]
    <2>1. u \in readers[l] => P!Busy(u) /\ P!Op(u).op = "unlock"
      BY <1>4, Zenon DEF P!LockInv, P!HeldInv, P!StopsReading
    <2> QED
      BY <2>1, Zenon
  <1>7. PICK k \in DOMAIN program[u] : P!GivesBack(program[u], l, 0, k)
    BY <1>4, <1>5, <1>6, Zenon DEF P!LockInv, P!HeldInv
  <1>8. P!Busy(u)
    BY <1>7 DEF P!Busy
  <1>9. Waits(u)
    BY <1>8, Zenon
  <1>10. /\ program[u] \in Seq(P!Ops) /\ P!Op(u) = program[u][1] /\ 1 \in DOMAIN program[u]
         /\ P!Op(u).lock \in P!Locks /\ P!Op(u).op = "lock"
    BY <1>1, <1>8, <1>9, Zenon
  <1> DEFINE p == program[u]
  <1> HIDE DEF l
  <1>11. k # 1
    BY <1>7, <1>10, Zenon DEF P!GivesBack
  <1>12. k \in Nat /\ 1 < k
    BY <1>7, <1>10, <1>11, SMTT(30)
  <1>13. p[1].lock # l
    BY <1>7, <1>10, <1>12, SMTT(30) DEF P!GivesBack
  <1>14. P!GivesBack(p, l, 1, k)
    <2>1. \A m \in DOMAIN p : 1 < m => 0 < m
      BY <1>10, SMTT(30)
    <2> QED
      BY <1>7, <1>12, <2>1, Zenon DEF P!GivesBack
  <1>15. P!Ranked(p, 1)
    BY <1>10, Zenon DEF P!LockInv, P!ProgramInv, P!Orderly
  <1>16. P!Rank[l] < P!Rank[p[1].lock]
    BY <1>4, <1>7, <1>13, <1>14, <1>15, Zenon DEF P!Ranked
  <1>17. P!Rank[P!Op(u).lock] <= P!Rank[l]
    BY <1>3, <1>9, Zenon DEF l
  <1> QED
    BY <1>2, <1>4, <1>10, <1>16, <1>17

\* No thread uses a device that panicked in the middle of a change: every thread that has its
\* lock gives it back on the way out of the panic and leaves it poisoned, so that the unwrap of
\* VhostUserBackendMut's impls for Mutex and RwLock keeps everybody else out.
THEOREM HalfwayDeviceStaysLeft == P!Spec => []HalfwayDeviceIsLeft
  <1>1. P!LockInv => HalfwayDeviceIsLeft
    BY HalfwayLeft, LockAssumption, Zenon DEF HalfwayDeviceIsLeft
  <1>2. P!Spec => []P!LockInv
    BY LockInvariant, LockAssumption, ZenonT(40)
  <1> QED
    BY <1>1, <1>2, PTL

\* The request thread, the workers and the owner of the daemon never wait for each other in a
\* circle: they take the handler's lock before the device's and the device's before a ring's,
\* and give each back on every path, the early returns and the panics included.
THEOREM LocksAreOrdered == P!Spec => []NobodyWaitsInCircle
  <1>1. P!LockInv => NobodyWaitsInCircle
    BY NoCircle, LockAssumption, Zenon DEF NobodyWaitsInCircle
  <1>2. P!Spec => []P!LockInv
    BY LockInvariant, LockAssumption, ZenonT(40)
  <1> QED
    BY <1>1, <1>2, PTL
-------------------------------------------------------------------------------
(* The queue of a ring *)

\* Division with a remainder.
LEMMA Division ==
  ASSUME NEW M \in Nat \ {0}, NEW a \in Nat
  PROVE  \E q \in Nat : \E r \in 0 .. M - 1 : a = M * q + r
  <1>1. a \div M \in Nat /\ M * (a \div M) <= a /\ a < M * (a \div M) + M
    BY SMT
  <1> DEFINE q == a \div M
  <1> HIDE DEF q
  <1>2. q \in Nat /\ M * q <= a /\ a < M * q + M
    BY <1>1, Zenon DEF q
  <1>3. M * q \in Nat
    BY <1>2, SMT
  <1>4. a - M * q \in 0 .. M - 1 /\ a = M * q + (a - M * q)
    BY <1>2, <1>3, SMT
  <1> QED
    BY <1>2, <1>4, Zenon

\* The remainder is the one of the division.
LEMMA Remainder ==
  ASSUME NEW M \in Nat \ {0}, NEW q \in Nat, NEW r \in 0 .. M - 1
  PROVE  (M * q + r) % M = r
  OBVIOUS

\* An index that wraps around may be counted on from where it is.
LEMMA WrappingSuccessor ==
  ASSUME NEW M \in Nat \ {0}, NEW a \in Nat
  PROVE  /\ a % M \in 0 .. M - 1 /\ (a % M) % M = a % M
         /\ ((a % M) + 1) % M = (a + 1) % M
  <1>1. PICK q \in Nat, r \in 0 .. M - 1 : a = M * q + r
    BY Division, Zenon
  <1>2. a % M = r
    BY <1>1, Remainder, Zenon
  <1>3. r % M = r
    <2>1. r = M * 0 + r
      OBVIOUS
    <2> QED
      BY <2>1, Remainder, Zenon
  <1>4. (r + 1) % M = (a + 1) % M
    <2>1. CASE r + 1 < M
      <3>1. r + 1 = M * 0 + (r + 1) /\ a + 1 = M * q + (r + 1) /\ r + 1 \in 0 .. M - 1
        BY <1>1, <2>1
      <3>2. (r + 1) % M = r + 1
        BY <3>1, Remainder, Zenon
      <3>3. (a + 1) % M = r + 1
        BY <3>1, Remainder, Zenon
      <3> QED
        BY <3>2, <3>3, Zenon
    <2>2. CASE r + 1 = M
      <3>1. r + 1 = M * 1 + 0 /\ 0 \in 0 .. M - 1
        BY <2>2
      <3>2. a + 1 = M * (q + 1) + 0 /\ q + 1 \in Nat
        <4>1. M * (q + 1) = M * q + M
          OBVIOUS
        <4> QED
          BY <1>1, <2>2, <4>1
      <3>3. (r + 1) % M = 0
        BY <3>1, Remainder
      <3>4. (a + 1) % M = 0
        BY <3>1, <3>2, Remainder, Zenon
      <3> QED
        BY <3>3, <3>4, Zenon
    <2> QED
      BY <2>1, <2>2
  <1> QED
    BY <1>2, <1>3, <1>4, Zenon

\* Steps that leave the history of the ring alone: the worker's guards and the requests.
LEMMA QueueHandlerSafe ==
  ASSUME Q!ResumeInv, Q!Handler \/ Q!get_ref \/ Q!get_mut \/ Q!Release
  PROVE  Q!ResumeInv'
  <1> USE QueueAssumption DEF Q!ResumeInv, Q!TypeOK, Q!RequestInv, Q!IndexInv, Q!Sized, Q!Index,
      Q!request, Q!frontend, Q!guest, Q!Idle
  <1>0. /\ taken % IdxMod \in 0 .. IdxMod - 1 /\ (taken % IdxMod) % IdxMod = taken % IdxMod
        /\ completed % IdxMod \in 0 .. IdxMod - 1
    BY WrappingSuccessor, ZenonT(40)
  <1>1. ASSUME NEW num \in Sizes, Q!set_vring_num(num)
        PROVE  Q!ResumeInv'
    <2>1. Q!SetSize(num) \in 1 .. MaxQueueSize
      BY <1>1, SMTT(30) DEF Q!set_vring_num, Q!SetSize
    <2> QED
      BY <1>1, <2>1, Zenon DEF Q!set_vring_num
  <1>2. CASE Q!set_vring_addr
    BY <1>2, ZenonT(40) DEF Q!set_vring_addr
  <1>3. CASE Q!queue_used_idx
    BY <1>3, Zenon DEF Q!queue_used_idx
  <1>4. CASE Q!set_queue_next_used
    BY <1>0, <1>4, Zenon DEF Q!set_queue_next_used
  <1>5. CASE Q!set_vring_base
    BY <1>0, <1>5, Zenon DEF Q!set_vring_base
  <1>6. CASE Q!set_vring_call
    BY <1>6, Zenon DEF Q!set_vring_call
  <1>7. CASE Q!set_vring_err
    BY <1>7, Zenon DEF Q!set_vring_err
  <1>8. CASE Q!set_vring_kick
    BY <1>8, Zenon DEF Q!set_vring_kick
  <1>9. CASE Q!get_vring_base
    BY <1>9, ZenonT(40) DEF Q!get_vring_base
  <1>10. CASE Q!queue_next_avail
    BY <1>10, Zenon DEF Q!queue_next_avail
  <1>11. CASE Q!unset_call
    BY <1>11, Zenon DEF Q!unset_call
  <1>12. CASE Q!get_ref \/ Q!get_mut \/ Q!Release
    BY <1>12, ZenonT(40) DEF Q!get_ref, Q!get_mut, Q!Release
  <1> QED
    BY <1>1, <1>2, <1>3, <1>4, <1>5, <1>6, <1>7, <1>8, <1>9, <1>10, <1>11, <1>12, ZenonT(40) DEF Q!Handler

\* Buffers that the driver publishes, the worker takes and gives back, and a driver that
\* starts over.
LEMMA QueueBuffersSafe ==
  ASSUME Q!ResumeInv, Q!Take \/ Q!add_used \/ Q!Publish \/ Q!Restart
  PROVE  Q!ResumeInv'
  <1> USE QueueAssumption DEF Q!ResumeInv, Q!TypeOK, Q!RequestInv, Q!IndexInv, Q!Sized, Q!Index,
      Q!request, Q!frontend, Q!guest, Q!Idle
  <1>1. CASE Q!Take
    <2>1. taken \in Nat /\ taken + 1 \in Nat /\ IdxMod \in Nat \ {0}
      BY SMTT(30)
    <2>2. (taken + 1) % IdxMod \in 0 .. IdxMod - 1
      BY ONLY <2>1, WrappingSuccessor, Zenon
    <2>3. ((taken % IdxMod) + 1) % IdxMod = (taken + 1) % IdxMod
      BY ONLY <2>1, WrappingSuccessor, ZenonT(40)
    <2> QED
      BY <1>1, <2>2, <2>3, SMTT(30) DEF Q!Take
  <1>2. CASE Q!add_used
    <2>1. completed \in Nat /\ completed + 1 \in Nat /\ IdxMod \in Nat \ {0}
      BY SMTT(30)
    <2>2. (completed + 1) % IdxMod \in 0 .. IdxMod - 1
      BY ONLY <2>1, WrappingSuccessor, Zenon
    <2>3. ((completed % IdxMod) + 1) % IdxMod = (completed + 1) % IdxMod
      BY ONLY <2>1, WrappingSuccessor, Zenon
    <2> QED
      BY <1>2, <2>2, <2>3, SMTT(30) DEF Q!add_used, Q!ByWorker
  <1>3. CASE Q!Publish
    BY <1>3, SMTT(30) DEF Q!Publish
  <1>4. CASE Q!Restart
    <2>1. 0 % IdxMod = 0
      BY SMTT(30)
    <2> QED
      BY <1>4, <2>1, SMTT(30) DEF Q!Restart
  <1> QED
    BY <1>1, <1>2, <1>3, <1>4, Zenon

\* The invariant of a ring's index is inductive.
LEMMA ResumeInvariant == Q!Spec => []Q!ResumeInv
  <1>1. Q!Init => Q!ResumeInv
    <2>1. 0 % IdxMod = 0
      BY QueueAssumption, SMTT(30) DEF Q!Sized
    <2> QED
      BY <2>1, QueueAssumption, SMTT(30) DEF Q!Init, Q!VringNew, Q!ResumeInv, Q!TypeOK, Q!RequestInv,
         Q!IndexInv, Q!Sized, Q!Index
  <1>2. Q!ResumeInv /\ [Q!Next]_(Q!vars) => Q!ResumeInv'
    <2> SUFFICES ASSUME Q!ResumeInv, [Q!Next]_(Q!vars) PROVE Q!ResumeInv'
      BY Zenon
    <2>1. CASE Q!Next
      BY <2>1, QueueHandlerSafe, QueueBuffersSafe, ZenonT(40) DEF Q!Next, Q!Worker
    <2>2. CASE UNCHANGED Q!vars
      BY <2>2, SMTT(30) DEF Q!vars, Q!request, Q!frontend, Q!guest, Q!ResumeInv, Q!TypeOK, Q!RequestInv,
         Q!IndexInv, Q!Index
    <2> QED
      BY <2>1, <2>2, Zenon
  <1> QED
    BY <1>1, <1>2, PTL DEF Q!Spec

\* A ring that was stopped goes on where it was (handler.rs, get_vring_base, set_vring_base
\* and set_vring_addr), however many buffers there were and wherever the indices wrap.
THEOREM StoppedRingResumes == Q!Spec => []RingResumes
  <1>1. Q!ResumeInv => RingResumes
    BY Zenon DEF Q!ResumeInv, Q!RequestInv, Q!IndexInv, RingResumes, Q!RingResumes
  <1> QED
    BY <1>1, ResumeInvariant, PTL
===============================================================================
