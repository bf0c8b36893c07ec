---------------------------- MODULE GuestMemoryProofs ----------------------------
(***************************************************************************)
(* Proofs about GuestMemory, for all regions that a frontend may announce. *)
(* IInv is inductive: what the properties need is that no two regions are  *)
(* mapped at one address, and that the mappings are the regions that the   *)
(* frontend was acknowledged.  The first part is induction over the        *)
(* natural numbers in a form that the provers can use, about the members   *)
(* of a set instead of a predicate, and what follows from it: what Select  *)
(* computes.                                                               *)
(***************************************************************************)
EXTENDS GuestMemory, WellFoundedInduction, FiniteSetTheorems, TLAPS

\* A set of natural numbers has a least element.
LEMMA LeastNatural ==
  ASSUME NEW T, T \subseteq Nat, T # {}
  PROVE  \E n \in T : \A m \in T : n <= m
  <1> DEFINE R == {p \in Nat \X Nat : p[1] < p[2]}
  <1>1. IsWellFoundedOn(R, Nat)
    BY NatLessThanWellFounded, Zenon DEF OpToRel
  <1>2. ASSUME NEW x \in Nat, NEW y \in Nat PROVE <<y, x>> \in R <=> y < x
    BY Zenon
  <1> HIDE DEF R
  <1>3. PICK x \in T : \A y \in T : <<y, x>> \notin R
    BY <1>1, WFMin, Zenon
  <1>4. ASSUME NEW y \in T PROVE x <= y
    <2>1. ~ y < x /\ x \in Nat /\ y \in Nat
      BY <1>2, <1>3, Zenon
    <2> QED
      BY <2>1
  <1> QED
    BY <1>4, Zenon

\* A set with 0 and with the successor of each of its numbers has all of them.
LEMMA SetInduction ==
  ASSUME NEW T, 0 \in T, \A n \in Nat : n \in T => n + 1 \in T
  PROVE  Nat \subseteq T
  <1>1. SUFFICES ASSUME Nat \ T # {} PROVE FALSE
    BY Zenon
  <1>2. PICK n \in Nat \ T : \A m \in Nat \ T : n <= m
    BY <1>1, LeastNatural, Zenon
  <1>3. n # 0 /\ n - 1 \in Nat
    BY <1>2
  <1>4. n - 1 \in T
    BY <1>2, <1>3
  <1> QED
    BY <1>2, <1>3, <1>4

\* The same for the numbers up to a bound.
LEMMA BoundedInduction ==
  ASSUME NEW k \in Nat, NEW T, 0 \in T, \A n \in 0 .. k - 1 : n \in T => n + 1 \in T
  PROVE  0 .. k \subseteq T
  <1> DEFINE U == {n \in Nat : n <= k => n \in T}
  <1>1. 0 \in U
    BY Zenon
  <1>2. \A n \in Nat : n \in U => n + 1 \in U
    OBVIOUS
  <1>3. Nat \subseteq U
    <2> HIDE DEF U
    <2> QED
      BY <1>1, <1>2, SetInduction, Zenon
  <1> QED
    BY <1>3
-------------------------------------------------------------------------------
-------------------------------------------------------------------------------
\* The recursion of Select, up to element k.
Chosen(s, S, k, f) ==
  f = [i \in 0 .. k |->
          IF i = 0 THEN <<>> ELSE IF s[i] \in S THEN Append(f[i - 1], s[i]) ELSE f[i - 1]]

\* There is a function that the recursion defines.
LEMMA ChosenExists ==
  ASSUME NEW s, NEW S, NEW n \in Nat
  PROVE  \E f : Chosen(s, S, n, f)
  <1> DEFINE T == {k \in Nat : \E f : Chosen(s, S, k, f)}
  <1>1. 0 \in T
    <2> DEFINE f == [i \in 0 .. 0 |-> <<>>]
    <2>1. Chosen(s, S, 0, f)
      BY DEF Chosen
    <2> QED
      BY <2>1, Zenon
  <1>2. ASSUME NEW k \in Nat, k \in T PROVE k + 1 \in T
    <2>1. PICK f : Chosen(s, S, k, f)
      BY <1>2, Zenon
    <2> DEFINE more == IF s[k + 1] \in S THEN Append(f[k], s[k + 1]) ELSE f[k]
               g == [i \in 0 .. k + 1 |-> IF i = k + 1 THEN more ELSE f[i]]
    <2>2. \A i \in 0 .. k : g[i] = f[i]
      OBVIOUS
    <2>3. ASSUME NEW i \in 0 .. k + 1
          PROVE  g[i] = IF i = 0 THEN <<>>
                        ELSE IF s[i] \in S THEN Append(g[i - 1], s[i]) ELSE g[i - 1]
      <3>1. CASE i = k + 1
        <4>1. i # 0 /\ i - 1 = k /\ g[i] = more /\ g[k] = f[k]
          BY <3>1, <2>2
        <4> QED
          BY <3>1, <4>1, Zenon
      <3>2. CASE i \in 0 .. k
        <4>1. f[i] = IF i = 0 THEN <<>>
                     ELSE IF s[i] \in S THEN Append(f[i - 1], s[i]) ELSE f[i - 1]
          BY <2>1, <3>2, Zenon DEF Chosen
        <4>2. i # 0 => i - 1 \in 0 .. k
          BY <3>2
        <4> HIDE DEF g
        <4> QED
          BY <2>2, <3>2, <4>1, <4>2, Zenon
      <3> QED
        BY <3>1, <3>2
    <2>4. g = [i \in 0 .. k + 1 |-> g[i]]
      BY Zenon
    <2> HIDE DEF g
    <2>5. Chosen(s, S, k + 1, g)
      BY <2>3, <2>4, Zenon DEF Chosen
    <2> QED
      BY <2>5
  <1>3. Nat \subseteq T
    <2> HIDE DEF T
    <2> QED
      BY <1>1, <1>2, SetInduction, Zenon
  <1> QED
    BY <1>3, Zenon

\* What the recursion has to have done after k elements.
Kept(s, A, S, q, k) ==
  /\ q \in Seq(A)
  /\ Len(q) <= k
  /\ \A i \in 1 .. Len(q) : q[i] \in S /\ \E j \in 1 .. k : q[i] = s[j]
  /\ \A j \in 1 .. k : s[j] \in S => \E i \in 1 .. Len(q) : q[i] = s[j]

\* Select keeps the elements that are in the set, and no others.
LEMMA SelectProperties ==
  ASSUME NEW A, NEW s \in Seq(A), NEW S
  PROVE  /\ Select(s, S) \in Seq(A)
         /\ Len(Select(s, S)) <= Len(s)
         /\ \A i \in 1 .. Len(Select(s, S)) :
               Select(s, S)[i] \in S /\ \E j \in 1 .. Len(s) : Select(s, S)[i] = s[j]
         /\ \A j \in 1 .. Len(s) : s[j] \in S => \E i \in 1 .. Len(Select(s, S)) : Select(s, S)[i] = s[j]
  <1> DEFINE n == Len(s)
  <1>0. n \in Nat /\ \A i \in 1 .. n : s[i] \in A
    OBVIOUS
  <1>1. PICK f : Chosen(s, S, n, f) /\ Select(s, S) = f[n]
    <2>1. \E f : Chosen(s, S, n, f)
      BY <1>0, ChosenExists, Zenon
    <2> QED
      BY <2>1, Zenon DEF Select, Chosen
  <1> HIDE DEF n
  <1>a. f[0] = <<>>
    BY <1>0, <1>1 DEF Chosen
  <1>b. ASSUME NEW k \in 0 .. n - 1
        PROVE  f[k + 1] = IF s[k + 1] \in S THEN Append(f[k], s[k + 1]) ELSE f[k]
    <2>1. k + 1 \in 0 .. n /\ k + 1 # 0 /\ (k + 1) - 1 = k
      BY <1>0
    <2> QED
      BY <1>1, <2>1, Zenon DEF Chosen
  <1> DEFINE T == {k \in 0 .. n : Kept(s, A, S, f[k], k)}
  <1>2. 0 \in T
    <2>1. <<>> \in Seq(A) /\ Len(<<>>) = 0
      OBVIOUS
    <2>2. Kept(s, A, S, <<>>, 0)
      BY <2>1 DEF Kept
    <2> QED
      BY <1>0, <1>a, <2>2
  <1>3. ASSUME NEW k \in 0 .. n - 1, k \in T PROVE k + 1 \in T
    <2> DEFINE p == f[k]
               q == f[k + 1]
               e == s[k + 1]
    <2>1. k \in Nat /\ k + 1 \in 0 .. n /\ k + 1 \in 1 .. n /\ Kept(s, A, S, p, k) /\ e \in A
      BY <1>0, <1>3
    <2>2. q = IF e \in S THEN Append(p, e) ELSE p
      BY <1>b, Zenon
    <2> SUFFICES Kept(s, A, S, q, k + 1)
      BY <2>1, Zenon
    <2> HIDE DEF T, p, q
    <2>3. CASE e \notin S
      BY <2>1, <2>2, <2>3 DEF Kept
    <2>4. CASE e \in S
      <3>1. p \in Seq(A) /\ Len(p) \in Nat /\ q = Append(p, e) /\ Len(p) <= k
        BY <2>1, <2>2, <2>4 DEF Kept
      <3>2. /\ q \in Seq(A) /\ Len(q) = Len(p) + 1
            /\ q[Len(p) + 1] = e /\ \A i \in 1 .. Len(p) : q[i] = p[i]
        BY <2>1, <3>1
      <3>3. ASSUME NEW i \in 1 .. Len(q) PROVE q[i] \in S /\ \E j \in 1 .. k + 1 : q[i] = s[j]
        <4>1. CASE i = Len(p) + 1
          BY <2>1, <2>4, <3>2, <4>1
        <4>2. CASE i \in 1 .. Len(p)
          <5>1. p[i] \in S /\ \E j \in 1 .. k : p[i] = s[j]
            BY <2>1, <4>2, Zenon DEF Kept
          <5>2. 1 .. k \subseteq 1 .. k + 1 /\ q[i] = p[i]
            BY <2>1, <3>2, <4>2
          <5> QED
            BY <5>1, <5>2, Zenon
        <4> QED
          BY <3>1, <3>2, <4>1, <4>2
      <3>4. ASSUME NEW j \in 1 .. k + 1, s[j] \in S PROVE \E i \in 1 .. Len(q) : q[i] = s[j]
        <4>1. CASE j = k + 1
          BY <3>1, <3>2, <4>1
        <4>2. CASE j \in 1 .. k
          <5>1. PICK i \in 1 .. Len(p) : p[i] = s[j]
            BY <2>1, <3>4, <4>2, Zenon DEF Kept
          <5> QED
            BY <3>1, <3>2, <5>1
        <4> QED
          BY <2>1, <4>1, <4>2
      <3>5. q \in Seq(A) /\ Len(q) <= k + 1
        BY <2>1, <3>1, <3>2
      <3> QED
        BY <3>3, <3>4, <3>5, Zenon DEF Kept
    <2> QED
      BY <2>3, <2>4, Zenon
  <1>4. 0 .. n \subseteq T
    <2> HIDE DEF T
    <2> QED
      BY <1>0, <1>2, <1>3, BoundedInduction, Zenon
  <1>5. Kept(s, A, S, f[n], n)
    BY <1>0, <1>4
  <1> QED
    BY <1>1, <1>5, ZenonT(40) DEF Kept, n
-------------------------------------------------------------------------------
(* The tables *)

\* The image of a finite set under a function is finite and no larger.
LEMMA ImageBound ==
  ASSUME NEW S, IsFiniteSet(S), NEW T, NEW f \in [S -> T], \A t \in T : \E x \in S : f[x] = t
  PROVE  IsFiniteSet(T) /\ Cardinality(T) <= Cardinality(S)
  <1>1. f \in Surjection(S, T)
    BY Zenon DEF Surjection
  <1> QED
    BY <1>1, FS_Surjection, Zenon

\* As many numbers as one counts.
LEMMA IntervalSize ==
  ASSUME NEW n \in Nat
  PROVE  IsFiniteSet(1 .. n) /\ Cardinality(1 .. n) = n
  <1>1. IsFiniteSet(1 .. n) /\ Cardinality(1 .. n) = IF 1 > n THEN 0 ELSE n - 1 + 1
    BY FS_Interval
  <1>2. (IF 1 > n THEN 0 ELSE n - 1 + 1) = n
    OBVIOUS
  <1> QED
    BY <1>1, <1>2

\* There is always another address to map a region at.
LEMMA FreshLocalsExist ==
  ASSUME Announced, TypeOK, TableInv, NEW n \in Nat
  PROVE  /\ FreshLocals(n) \in [1 .. n -> Nat]
         /\ \A i, j \in 1 .. n : FreshLocals(n)[i] = FreshLocals(n)[j] => i = j
         /\ \A i \in 1 .. n : FreshLocals(n)[i] \notin InUse
  <1> DEFINE A == {r.local : r \in mem}
             B == {mappings[i].local : i \in DOMAIN mappings}
             all == 1 .. 2 * MaxTable + n
             free == {i \in all : i \notin InUse}
  <1>0. MaxTable \in Nat /\ Cardinality(mem) <= MaxTable /\ IsFiniteSet(mem)
        /\ Len(mappings) \in Nat /\ Len(mappings) <= MaxTable
        /\ DOMAIN mappings = 1 .. Len(mappings)
    BY DEF Announced, TypeOK, TableInv
  <1>1. IsFiniteSet(A) /\ Cardinality(A) <= MaxTable /\ Cardinality(A) \in Nat
    <2>1. [r \in mem |-> r.local] \in [mem -> A]
      BY Zenon
    <2>2. \A t \in A : \E x \in mem : [r \in mem |-> r.local][x] = t
      BY Zenon
    <2>3. IsFiniteSet(A) /\ Cardinality(A) <= Cardinality(mem)
      <3> HIDE DEF A
      <3> QED
        BY <1>0, <2>1, <2>2, ImageBound, Zenon
    <2>4. Cardinality(A) \in Nat /\ Cardinality(mem) \in Nat
      BY <1>0, <2>3, FS_CardinalityType, Zenon
    <2> QED
      BY <1>0, <2>3, <2>4
  <1>2. IsFiniteSet(B) /\ Cardinality(B) <= MaxTable /\ Cardinality(B) \in Nat
    <2> DEFINE I == 1 .. Len(mappings)
    <2>1. [i \in I |-> mappings[i].local] \in [I -> B]
      BY <1>0, Zenon
    <2>2. \A t \in B : \E x \in I : [i \in I |-> mappings[i].local][x] = t
      BY <1>0, Zenon
    <2>3. IsFiniteSet(I) /\ Cardinality(I) = Len(mappings)
      BY <1>0, IntervalSize, Zenon
    <2>4. IsFiniteSet(B) /\ Cardinality(B) <= Cardinality(I)
      <3> HIDE DEF B, I
      <3> QED
        BY <2>1, <2>2, <2>3, ImageBound, Zenon
    <2>5. Cardinality(B) \in Nat
      BY <2>4, FS_CardinalityType, Zenon
    <2> QED
      BY <1>0, <2>3, <2>4, <2>5
  <1>3. InUse = A \cup B
    BY Zenon DEF InUse
  <1> HIDE DEF A, B
  <1>4. IsFiniteSet(InUse) /\ Cardinality(InUse) \in Nat /\ Cardinality(InUse) <= 2 * MaxTable
    <2>1. /\ IsFiniteSet(A \cup B)
          /\ Cardinality(A \cup B) = Cardinality(A) + Cardinality(B) - Cardinality(A \cap B)
      BY <1>1, <1>2, FS_Union, Zenon
    <2>2. Cardinality(A \cap B) \in Nat /\ Cardinality(A \cup B) \in Nat
      BY <1>1, <2>1, FS_Intersection, FS_CardinalityType, Zenon
    <2> QED
      BY <1>0, <1>1, <1>2, <1>3, <2>1, <2>2
  <1>5. IsFiniteSet(all) /\ Cardinality(all) = 2 * MaxTable + n
    <2>1. 2 * MaxTable + n \in Nat
      BY <1>0
    <2> QED
      BY <2>1, IntervalSize, Zenon
  <1> HIDE DEF all
  <1>6. IsFiniteSet(free) /\ Cardinality(free) \in Nat /\ n <= Cardinality(free)
    <2>1. free = all \ InUse
      BY Zenon
    <2>2. /\ IsFiniteSet(all \ InUse)
          /\ Cardinality(all \ InUse) = Cardinality(all) - Cardinality(all \cap InUse)
      BY <1>5, FS_Difference, Zenon
    <2>3. Cardinality(all \cap InUse) <= Cardinality(InUse)
          /\ IsFiniteSet(all \cap InUse)
      BY <1>4, <1>5, FS_Intersection, Zenon
    <2>4. Cardinality(all \cap InUse) \in Nat /\ Cardinality(all \ InUse) \in Nat
      BY <2>2, <2>3, FS_CardinalityType, Zenon
    <2> HIDE DEF free
    <2> QED
      BY <1>0, <1>4, <1>5, <2>1, <2>2, <2>3, <2>4, SMTT(30)
  <1>7. PICK g : g \in Bijection(1 .. Cardinality(free), free)
    BY <1>6, FS_CardinalityType, Zenon DEF ExistsBijection
  <1> DEFINE h == [i \in 1 .. n |-> g[i]]
  <1>8. h \in [1 .. n -> free] /\ \A i, j \in 1 .. n : h[i] = h[j] => i = j
    <2>1. g \in [1 .. Cardinality(free) -> free]
          /\ \A i, j \in 1 .. Cardinality(free) : g[i] = g[j] => i = j
      BY <1>7, Zenon DEF Bijection, Injection, IsInjective
    <2>2. 1 .. n \subseteq 1 .. Cardinality(free)
      BY <1>6
    <2> HIDE DEF free
    <2> QED
      BY <2>1, <2>2, Zenon
  <1>9. FreshLocals(n) \in [1 .. n -> free]
        /\ \A i, j \in 1 .. n : FreshLocals(n)[i] = FreshLocals(n)[j] => i = j
    <2> HIDE DEF h
    <2> QED
      BY <1>8, Zenon DEF FreshLocals, all
  <1> QED
    BY <1>0, <1>9 DEF all
-------------------------------------------------------------------------------
\* The sequence of mappings that SET_MEM_TABLE installs, region by region.
LEMMA SetMemTableSafe ==
  ASSUME Announced, IInv, NEW t \in Tables, set_mem_table(t)
  PROVE  IInv'
  <1> USE DEF IInv
  <1>1. PICK n \in 1 .. MaxTable : t \in [1 .. n -> Regions]
    BY Zenon DEF Tables
  <1>2. n \in Nat /\ n <= MaxTable /\ MaxTable \in Nat
    BY <1>1 DEF Announced
  <1>3. t \in Seq(Regions) /\ Len(t) = n /\ DOMAIN t = 1 .. n
    BY <1>1, <1>2
  <1> DEFINE L == FreshLocals(n)
             news == {GuestRegion(t[i], L[i]) : i \in 1 .. n}
             maps == [i \in 1 .. n |-> AddrMapping(t[i], L[i])]
  <1>4. /\ L \in [1 .. n -> Nat]
        /\ \A i, j \in 1 .. n : L[i] = L[j] => i = j
    BY <1>2, FreshLocalsExist, Zenon
  <1>5. PICK ok \in BOOLEAN :
          /\ mem' = news
          /\ mappings' = IF ok THEN maps ELSE mappings
          /\ told' = IF ok THEN Range(t) ELSE told
          /\ torn' = ~ ok
    BY <1>3, Zenon DEF set_mem_table, UpdateMemory
  <1>6. uffd' = uffd /\ mistaken' = mistaken /\ missed' = missed
    BY Zenon DEF set_mem_table, derived
  <1>7. \A i \in 1 .. n : t[i] \in [gpa : Nat, vmm : Nat, size : Nat \ {0}] /\ t[i] \in Regions
    BY <1>1, Zenon DEF Announced, RegionsAgree
  <1> HIDE DEF L
  <1>8. maps \in Seq([gpa : Nat, vmm : Nat, size : Nat \ {0}, local : Nat]) /\ Len(maps) = n
        /\ DOMAIN maps = 1 .. n
    BY <1>2, <1>4, <1>7 DEF AddrMapping
  <1>9. news \subseteq [gpa : Nat, size : Nat \ {0}, local : Nat]
    <2>1. \A i \in 1 .. n : GuestRegion(t[i], L[i]) \in
                              [gpa : Nat, size : Nat \ {0}, local : Nat]
      BY <1>4, <1>7, Zenon DEF GuestRegion
    <2> QED
      BY <2>1, Zenon
  <1>10. IsFiniteSet(news) /\ Cardinality(news) <= MaxTable
    <2>1. [i \in 1 .. n |-> GuestRegion(t[i], L[i])] \in [1 .. n -> news]
      BY Zenon
    <2>2. \A r \in news : \E i \in 1 .. n : [k \in 1 .. n |-> GuestRegion(t[k], L[k])][i] = r
      BY Zenon
    <2>3. IsFiniteSet(1 .. n) /\ Cardinality(1 .. n) = n
      BY <1>2, IntervalSize, Zenon
    <2>4. IsFiniteSet(news) /\ Cardinality(news) <= n
      <3> HIDE DEF news
      <3> QED
        BY <2>1, <2>2, <2>3, ImageBound, ZenonT(40)
    <2>5. Cardinality(news) \in Nat
      BY <2>4, FS_CardinalityType, Zenon
    <2> QED
      BY <1>2, <2>4, <2>5
  <1>11. TypeOK'
    <2>1. Range(t) \subseteq Regions
      BY <1>3, <1>7, Zenon DEF Range
    <2> HIDE DEF news, maps
    <2> QED
      BY <1>5, <1>6, <1>8, <1>9, <2>1, Zenon DEF TypeOK
  <1>12. TableInv'
    <2> HIDE DEF news, maps
    <2> QED
      BY <1>2, <1>5, <1>8, <1>10, Zenon DEF TableInv
  <1>13. LocalInv'
    <2>1. ASSUME NEW r \in news, NEW s \in news, r.local = s.local
          PROVE  r = s
      <3>1. PICK i \in 1 .. n : r = GuestRegion(t[i], L[i])
        BY Zenon
      <3>2. PICK j \in 1 .. n : s = GuestRegion(t[j], L[j])
        BY Zenon
      <3>3. L[i] = L[j]
        BY <2>1, <3>1, <3>2, Zenon DEF GuestRegion
      <3> QED
        BY <1>4, <3>1, <3>2, <3>3, Zenon
    <2> HIDE DEF news
    <2> QED
      BY <1>5, <1>6, <2>1, Zenon DEF LocalInv
  <1>14. ok => Range(maps) = {AddrMapping(t[i], L[i]) : i \in 1 .. n}
    BY <1>8, Zenon DEF Range
  <1>15. ToldInv'
    <2>1. CASE ok
      <3>1. Range(t) = {t[i] : i \in 1 .. n}
        BY <1>3, Zenon DEF Range
      <3>2. \A i \in 1 .. n : LET a == AddrMapping(t[i], L[i])
                              IN  [gpa |-> a.gpa, vmm |-> a.vmm, size |-> a.size] = t[i]
        BY <1>7, Zenon DEF AddrMapping
      <3>3. {[gpa |-> a.gpa, vmm |-> a.vmm, size |-> a.size] : a \in Range(maps)} = Range(t)
        <4> DEFINE F(i) == AddrMapping(t[i], L[i])
                   p(a) == [gpa |-> a.gpa, vmm |-> a.vmm, size |-> a.size]
        <4>1. Range(maps) = {F(i) : i \in 1 .. n}
          BY <1>14, <2>1, Zenon
        <4>2. \A i \in 1 .. n : p(F(i)) = t[i]
          BY <3>2, Zenon
        <4> HIDE DEF F, p, maps
        <4>3. {p(a) : a \in Range(maps)} = Range(t)
          BY <3>1, <4>1, <4>2, Zenon
        <4> QED
          BY <4>3, Zenon DEF p
      <3> HIDE DEF maps
      <3> QED
        BY <1>5, <2>1, <3>3 DEF ToldInv, Range
    <2>2. CASE ~ ok
      BY <1>5, <2>2, Zenon DEF ToldInv
    <2> QED
      BY <2>1, <2>2, Zenon
  <1>16. MappingsMatchMemory'
    <2>1. CASE ok
      <3>1. \A i \in 1 .. n : LET a == AddrMapping(t[i], L[i])
                              IN  [gpa |-> a.gpa, size |-> a.size, local |-> a.local]
                                     = GuestRegion(t[i], L[i])
        BY Zenon DEF AddrMapping, GuestRegion
      <3>2. {[gpa |-> a.gpa, size |-> a.size, local |-> a.local] : a \in Range(maps)} = news
        <4> DEFINE F(i) == AddrMapping(t[i], L[i])
                   H(i) == GuestRegion(t[i], L[i])
                   p(a) == [gpa |-> a.gpa, size |-> a.size, local |-> a.local]
        <4>1. Range(maps) = {F(i) : i \in 1 .. n} /\ news = {H(i) : i \in 1 .. n}
          BY <1>14, <2>1, Zenon
        <4>2. \A i \in 1 .. n : p(F(i)) = H(i)
          BY <3>1, Zenon
        <4> HIDE DEF F, H, p, maps, news
        <4>3. {p(a) : a \in Range(maps)} = news
          BY <4>1, <4>2, SMTT(30)
        <4> QED
          BY <4>3, Zenon DEF p
      <3> HIDE DEF maps, news
      <3> QED
        BY <1>5, <2>1, <3>2 DEF MappingsMatchMemory, Range
    <2>2. CASE ~ ok
      BY <1>5, <2>2, Zenon DEF MappingsMatchMemory
    <2> QED
      BY <2>1, <2>2, Zenon
  <1>17. AddressesAsMeant' /\ PostcopyCoversMemory'
    BY <1>6, Zenon DEF AddressesAsMeant, PostcopyCoversMemory
  <1> QED
    BY <1>11, <1>12, <1>13, <1>15, <1>16, <1>17, Zenon
-------------------------------------------------------------------------------
\* What mappings name after a push, and after mappings.retain.
LEMMA RangeAfter ==
  ASSUME NEW A, NEW s \in Seq(A)
  PROVE  /\ \A a \in A : Range(Append(s, a)) = Range(s) \cup {a}
         /\ \A S : Range(Select(s, S)) = Range(s) \cap S
  <1>1. ASSUME NEW a \in A
        PROVE  Range(Append(s, a)) = Range(s) \cup {a}
    <2>1. DOMAIN s = 1 .. Len(s) /\ DOMAIN Append(s, a) = 1 .. (Len(s) + 1) /\ Len(s) \in Nat
      OBVIOUS
    <2>2. /\ \A i \in 1 .. Len(s) : Append(s, a)[i] = s[i]
          /\ Append(s, a)[Len(s) + 1] = a
      OBVIOUS
    <2>3. 1 .. (Len(s) + 1) = (1 .. Len(s)) \cup {Len(s) + 1}
      BY <2>1
    <2> DEFINE z == Append(s, a)
    <2>4. {z[i] : i \in 1 .. (Len(s) + 1)} = {s[i] : i \in 1 .. Len(s)} \cup {a}
      <3> HIDE DEF z
      <3> QED
        BY <2>2, <2>3, Zenon DEF z
    <2> QED
      BY <2>1, <2>4, Zenon DEF Range
  <1>2. ASSUME NEW S
        PROVE  Range(Select(s, S)) = Range(s) \cap S
    <2> DEFINE z == Select(s, S)
    <2>1. z \in Seq(A)
      BY SelectProperties, Zenon
    <2>2. \A i \in 1 .. Len(z) : z[i] \in S /\ \E j \in 1 .. Len(s) : z[i] = s[j]
      BY SelectProperties
    <2>3. \A j \in 1 .. Len(s) : s[j] \in S => \E i \in 1 .. Len(z) : z[i] = s[j]
      BY SelectProperties
    <2>4. DOMAIN z = 1 .. Len(z) /\ DOMAIN s = 1 .. Len(s)
      <3> HIDE DEF z
      <3> QED
        BY <2>1
    <2> HIDE DEF z
    <2>5. {z[i] : i \in 1 .. Len(z)} = {s[i] : i \in 1 .. Len(s)} \cap S
      <3> DEFINE X == {z[i] : i \in 1 .. Len(z)}
                 Y == {s[i] : i \in 1 .. Len(s)}
      <3>1. ASSUME NEW x \in X
            PROVE  x \in Y /\ x \in S
        <4>1. PICK i \in 1 .. Len(z) : x = z[i]
          BY Zenon
        <4> QED
          BY <2>2, <4>1, Zenon
      <3>2. ASSUME NEW x \in Y, x \in S
            PROVE  x \in X
        <4>1. PICK j \in 1 .. Len(s) : x = s[j]
          BY Zenon
        <4> QED
          BY <2>3, <3>2, <4>1, Zenon
      <3> QED
        BY <3>1, <3>2, Zenon
    <2> QED
      BY <2>4, <2>5, Zenon DEF Range, z
  <1> QED
    BY <1>1, <1>2, Zenon

\* ADD_MEM_REG keeps the invariant of guest memory.
LEMMA AddMemRegionSafe ==
  ASSUME Announced, IInv, NEW r \in Regions, add_mem_region(r)
  PROVE  IInv'
  <1> USE DEF IInv
  <1> DEFINE l == FreshLocals(1)[1]
             g == GuestRegion(r, l)
             a == AddrMapping(r, l)
             T == [gpa : Nat, vmm : Nat, size : Nat \ {0}, local : Nat]
  <1>1. PICK ok \in BOOLEAN :
          /\ mem' = mem \cup {g}
          /\ mappings' = IF ok THEN Append(mappings, a) ELSE mappings
          /\ told' = IF ok THEN told \cup {r} ELSE told
          /\ torn' = (torn \/ ~ ok)
    BY Zenon DEF add_mem_region, UpdateMemory
  <1>2. uffd' = uffd /\ mistaken' = mistaken /\ missed' = missed
    BY Zenon DEF add_mem_region, derived
  <1>3. Cardinality(mem) < MaxTable /\ Len(mappings) < MaxTable /\ IsFiniteSet(mem)
        /\ MaxTable \in Nat /\ Cardinality(mem) \in Nat
    BY FS_CardinalityType, Zenon DEF Announced, add_mem_region, TableInv
  <1>4. l \in Nat /\ l \notin InUse
    BY FreshLocalsExist
  <1>5. r \in [gpa : Nat, vmm : Nat, size : Nat \ {0}]
    BY Zenon DEF Announced, RegionsAgree
  <1> HIDE DEF l
  <1>6. a \in T /\ g \in [gpa : Nat, size : Nat \ {0}, local : Nat]
        /\ a.gpa = r.gpa /\ a.vmm = r.vmm /\ a.size = r.size /\ a.local = l
        /\ g.gpa = r.gpa /\ g.size = r.size /\ g.local = l
    BY <1>4, <1>5, Zenon DEF AddrMapping, GuestRegion
  <1>7. mappings \in Seq(T)
    BY Zenon DEF TypeOK
  <1>8. Range(Append(mappings, a)) = Range(mappings) \cup {a}
    <2> HIDE DEF a, T
    <2> QED
      BY <1>6, <1>7, RangeAfter
  <1>9. Append(mappings, a) \in Seq(T) /\ Len(Append(mappings, a)) = Len(mappings) + 1
        /\ Len(mappings) \in Nat
    <2> HIDE DEF a, T
    <2> QED
      BY <1>6, <1>7
  <1> HIDE DEF a, g, T
  <1>10. TypeOK'
    BY <1>1, <1>2, <1>6, <1>9, Zenon DEF TypeOK, T
  <1>11. TableInv'
    <2>1. IsFiniteSet(mem \cup {g}) /\ Cardinality(mem \cup {g}) \in {Cardinality(mem), Cardinality(mem) + 1}
      BY <1>3, FS_AddElement, Zenon
    <2>2. Cardinality(mem \cup {g}) <= MaxTable
      BY <1>3, <2>1
    <2>3. Len(mappings') <= MaxTable
      BY <1>1, <1>3, <1>9
    <2> QED
      BY <1>1, <2>1, <2>2, <2>3, Zenon DEF TableInv
  <1>12. \A s \in mem : s.local # l
    BY <1>4, Zenon DEF InUse
  <1>13. LocalInv'
    BY <1>1, <1>6, <1>12, SMTT(30) DEF LocalInv
  <1>14. ToldInv'
    <2>1. CASE torn'
      BY <2>1, Zenon DEF ToldInv
    <2>2. CASE ~ torn'
      <3>1. ok /\ ~ torn
        BY <1>1, <2>2, Zenon
      <3> DEFINE p(x) == [gpa |-> x.gpa, vmm |-> x.vmm, size |-> x.size]
      <3>2. {p(x) : x \in Range(mappings)} = told
        BY <3>1, Zenon DEF ToldInv
      <3>3. p(a) = r
        BY <1>5, <1>6, Zenon
      <3> HIDE DEF p
      <3>4. {p(x) : x \in Range(mappings) \cup {a}} = told \cup {r}
        BY <3>2, <3>3, Zenon
      <3>5. told' = told \cup {r} /\ Range(mappings)' = Range(mappings) \cup {a}
        BY <1>1, <1>8, <3>1, Zenon DEF Range
      <3> QED
        BY <3>4, <3>5, Zenon DEF ToldInv, p
    <2> QED
      BY <2>1, <2>2, Zenon
  <1>15. MappingsMatchMemory'
    <2>1. CASE torn'
      BY <2>1, Zenon DEF MappingsMatchMemory
    <2>2. CASE ~ torn'
      <3>1. ok /\ ~ torn
        BY <1>1, <2>2, Zenon
      <3> DEFINE p(x) == [gpa |-> x.gpa, size |-> x.size, local |-> x.local]
      <3>2. {p(x) : x \in Range(mappings)} = mem
        BY <3>1, Zenon DEF MappingsMatchMemory
      <3>3. p(a) = g
        BY Zenon DEF a, g, AddrMapping, GuestRegion
      <3> HIDE DEF p
      <3>4. {p(x) : x \in Range(mappings) \cup {a}} = mem \cup {g}
        BY <3>2, <3>3
      <3>5. mem' = mem \cup {g} /\ Range(mappings)' = Range(mappings) \cup {a}
        BY <1>1, <1>8, <3>1, Zenon DEF Range
      <3> QED
        BY <3>4, <3>5, Zenon DEF MappingsMatchMemory, p
    <2> QED
      BY <2>1, <2>2, Zenon
  <1>16. AddressesAsMeant' /\ PostcopyCoversMemory'
    BY <1>2, Zenon DEF AddressesAsMeant, PostcopyCoversMemory
  <1> QED
    BY <1>10, <1>11, <1>13, <1>14, <1>15, <1>16, Zenon
-------------------------------------------------------------------------------
\* REM_MEM_REG keeps the invariant of guest memory.
LEMMA RemoveMemRegionSafe ==
  ASSUME Announced, IInv, NEW r \in Regions, remove_mem_region(r)
  PROVE  IInv'
  <1> USE DEF IInv
  <1> DEFINE T == [gpa : Nat, vmm : Nat, size : Nat \ {0}, local : Nat]
             S == {a \in Range(mappings) : a.gpa # r.gpa}
             left == {s \in mem : s.gpa # r.gpa}
             kept == Select(mappings, S)
  <1>1. PICK ok \in BOOLEAN :
          /\ mem' = left
          /\ mappings' = IF ok THEN kept ELSE mappings
          /\ told' = IF ok THEN {s \in told : s.gpa # r.gpa} ELSE told
          /\ torn' = (torn \/ ~ ok)
    BY Zenon DEF remove_mem_region, UpdateMemory, Retain
  <1>2. uffd' = uffd /\ mistaken' = mistaken /\ missed' = missed
    BY Zenon DEF remove_mem_region, derived
  <1>3. mappings \in Seq(T)
    BY Zenon DEF TypeOK
  <1>4. kept \in Seq(T) /\ Len(kept) <= Len(mappings) /\ Range(kept) = S
    <2>1. S \subseteq Range(mappings)
      BY Zenon
    <2> HIDE DEF T, S
    <2>2. kept \in Seq(T) /\ Len(kept) <= Len(mappings)
      BY <1>3, SelectProperties, Zenon
    <2>3. Range(kept) = Range(mappings) \cap S
      BY <1>3, RangeAfter, Zenon
    <2> QED
      BY <2>1, <2>2, <2>3, Zenon
  <1> HIDE DEF kept
  <1>5. TypeOK'
    BY <1>1, <1>2, <1>4, Zenon DEF TypeOK
  <1>6. TableInv'
    <2>1. IsFiniteSet(mem) /\ Cardinality(mem) <= MaxTable /\ MaxTable \in Nat
      BY Zenon DEF Announced, TableInv
    <2>2. IsFiniteSet(left) /\ Cardinality(left) <= Cardinality(mem)
      <3>1. left \subseteq mem
        BY Zenon
      <3> HIDE DEF left
      <3> QED
        BY <2>1, <3>1, FS_Subset, Zenon
    <2>3. Cardinality(left) \in Nat /\ Cardinality(mem) \in Nat
      <3> HIDE DEF left
      <3> QED
        BY <2>1, <2>2, FS_CardinalityType, Zenon
    <2>4. Len(mappings) \in Nat /\ Len(kept) \in Nat /\ Len(mappings) <= MaxTable
      BY <1>3, <1>4 DEF TableInv
    <2> HIDE DEF left
    <2>5. Cardinality(left) <= MaxTable /\ Len(mappings') <= MaxTable
      BY <1>1, <1>4, <2>1, <2>2, <2>3, <2>4, SMTT(30)
    <2> QED
      BY <1>1, <2>2, <2>5, Zenon DEF TableInv
  <1>7. LocalInv'
    BY <1>1, Zenon DEF LocalInv
  <1>8. ToldInv'
    <2>1. CASE torn'
      BY <2>1, Zenon DEF ToldInv
    <2>2. CASE ~ torn'
      <3>1. ok /\ ~ torn
        BY <1>1, <2>2, Zenon
      <3> DEFINE p(x) == [gpa |-> x.gpa, vmm |-> x.vmm, size |-> x.size]
      <3>2. {p(x) : x \in Range(mappings)} = told
        BY <3>1, Zenon DEF ToldInv
      <3>3. \A x : p(x).gpa = x.gpa
        BY Zenon
      <3> HIDE DEF p
      <3>4. {p(x) : x \in S} = {s \in told : s.gpa # r.gpa}
        BY <3>2, <3>3, Zenon
      <3>5. told' = {s \in told : s.gpa # r.gpa} /\ Range(mappings)' = S
        BY <1>1, <1>4, <3>1, Zenon DEF Range
      <3> QED
        BY <3>4, <3>5, Zenon DEF ToldInv, p
    <2> QED
      BY <2>1, <2>2, Zenon
  <1>9. MappingsMatchMemory'
    <2>1. CASE torn'
      BY <2>1, Zenon DEF MappingsMatchMemory
    <2>2. CASE ~ torn'
      <3>1. ok /\ ~ torn
        BY <1>1, <2>2, Zenon
      <3> DEFINE p(x) == [gpa |-> x.gpa, size |-> x.size, local |-> x.local]
      <3>2. {p(x) : x \in Range(mappings)} = mem
        BY <3>1, Zenon DEF MappingsMatchMemory
      <3>3. \A x : p(x).gpa = x.gpa
        BY Zenon
      <3> HIDE DEF p
      <3>4. {p(x) : x \in S} = left
        BY <3>2, <3>3, SMTT(30)
      <3>5. mem' = left /\ Range(mappings)' = S
        BY <1>1, <1>4, <3>1, Zenon DEF Range
      <3> HIDE DEF S, left
      <3> QED
        BY <3>4, <3>5, Zenon DEF MappingsMatchMemory, p
    <2> QED
      BY <2>1, <2>2, Zenon
  <1>10. AddressesAsMeant' /\ PostcopyCoversMemory'
    BY <1>2, Zenon DEF AddressesAsMeant, PostcopyCoversMemory
  <1> QED
    BY <1>5, <1>6, <1>7, <1>8, <1>9, <1>10, Zenon

-------------------------------------------------------------------------------
\* What vmm_va_to_gpa finds is what the frontend means.
LEMMA TranslatedAsMeant ==
  ASSUME Announced, TypeOK, ToldInv, ~ torn, NEW va \in Nat, Translatable(va)
  PROVE  Meant(va) = {VmmVaToGpa(va)}
  <1> DEFINE hits == {i \in DOMAIN mappings : InMapping(mappings[i], va)}
             least(i) == i \in hits /\ \A j \in hits : i <= j
             c == CHOOSE i \in hits : \A j \in hits : i <= j
             f == mappings[c]
             told1 == {s \in told : va >= s.vmm /\ va < s.vmm + s.size}
  <1>1. hits \subseteq Nat /\ hits # {}
    <2>1. DOMAIN mappings = 1 .. Len(mappings) /\ Len(mappings) \in Nat
      BY DEF TypeOK
    <2> QED
      BY <2>1 DEF Translatable
  <1>2. \E i \in hits : \A j \in hits : i <= j
    <2> HIDE DEF hits
    <2> QED
      BY <1>1, LeastNatural, Zenon
  <1>3. c \in hits
    <2> HIDE DEF hits
    <2> QED
      BY <1>2, Zenon
  <1> HIDE DEF c
  <1>4. c \in DOMAIN mappings /\ InMapping(f, va)
        /\ f \in [gpa : Nat, vmm : Nat, size : Nat \ {0}, local : Nat]
    <2>1. c \in DOMAIN mappings /\ InMapping(f, va)
      BY <1>3, Zenon
    <2> DEFINE T == [gpa : Nat, vmm : Nat, size : Nat \ {0}, local : Nat]
    <2>2. mappings \in Seq(T)
      BY Zenon DEF TypeOK
    <2> HIDE DEF T
    <2>3. f \in T
      BY <2>1, <2>2
    <2> QED
      BY <2>1, <2>3, Zenon DEF T
  <1>5. VmmVaToGpa(va) = va - f.vmm + f.gpa
    BY Zenon DEF VmmVaToGpa, c
  <1> DEFINE q == [gpa |-> f.gpa, vmm |-> f.vmm, size |-> f.size]
  <1>6. q \in told
    <2>1. f \in Range(mappings)
      BY <1>4, Zenon DEF Range
    <2> HIDE DEF f
    <2> QED
      BY <2>1, Zenon DEF ToldInv
  <1> HIDE DEF f, hits
  <1>7. q.gpa = f.gpa /\ q.vmm = f.vmm /\ q.size = f.size
        /\ f.gpa \in Nat /\ f.vmm \in Nat /\ f.size \in Nat
    BY <1>4, Zenon
  <1>8. q \in told1
    BY <1>4, <1>6, <1>7, Zenon DEF InMapping
  <1> HIDE DEF q
  <1>9. ASSUME NEW s \in told1
        PROVE  va - s.vmm + s.gpa = va - f.vmm + f.gpa
    <2>1. s \in Regions /\ q \in Regions /\ s \in [gpa : Nat, vmm : Nat, size : Nat \ {0}]
      BY <1>6, <1>9, Zenon DEF Announced, TypeOK, RegionsAgree
    <2>2. s.gpa \in Nat /\ s.vmm \in Nat /\ s.size \in Nat /\ va >= s.vmm /\ va < s.vmm + s.size
          /\ va >= f.vmm /\ va < f.vmm + f.size
      BY <1>4, <2>1, Zenon DEF InMapping
    <2>3. q.vmm < s.vmm + s.size /\ s.vmm < q.vmm + q.size
      BY <1>7, <2>2
    <2>4. q.gpa - q.vmm = s.gpa - s.vmm
      BY <2>1, <2>3, Zenon DEF Announced, RegionsAgree
    <2> QED
      BY <1>7, <2>2, <2>4
  <1>10. Meant(va) = {va - s.vmm + s.gpa : s \in told1}
    BY Zenon DEF Meant
  <1> HIDE DEF told1
  <1>11. {va - s.vmm + s.gpa : s \in told1} = {va - f.vmm + f.gpa}
    BY <1>8, <1>9, Zenon
  <1> QED
    BY <1>5, <1>10, <1>11, Zenon

\* A request that changes no more than the userfaultfd keeps the invariant.
LEMMA MemoryKept ==
  ASSUME Announced, IInv, uffd' \in BOOLEAN, mem' = mem, mappings' = mappings, told' = told, torn' = torn,
         mistaken' = mistaken, missed' = missed
  PROVE  IInv'
  <1>1. TypeOK'
    BY Zenon DEF IInv, TypeOK
  <1>2. TableInv' /\ LocalInv'
    BY Zenon DEF IInv, TableInv, LocalInv
  <1>3. Range(mappings)' = Range(mappings)
    BY Zenon DEF Range
  <1>4. ToldInv'
    BY <1>3, Zenon DEF IInv, ToldInv
  <1>5. MappingsMatchMemory'
    BY <1>3, Zenon DEF IInv, MappingsMatchMemory
  <1>6. AddressesAsMeant' /\ PostcopyCoversMemory'
    BY Zenon DEF IInv, AddressesAsMeant, PostcopyCoversMemory
  <1> QED
    BY <1>1, <1>2, <1>4, <1>5, <1>6, Zenon DEF IInv

\* SET_VRING_ADDR keeps the invariant of guest memory.
LEMMA SetVringAddrSafe ==
  ASSUME Announced, IInv, NEW d \in VmmAddrs, NEW a \in VmmAddrs, NEW u \in VmmAddrs,
         set_vring_addr(d, a, u)
  PROVE  IInv'
  <1> USE DEF IInv
  <1>1. /\ mem' = mem /\ mappings' = mappings /\ told' = told /\ torn' = torn
        /\ uffd' = uffd /\ missed' = missed
    BY Zenon DEF set_vring_addr, memory
  <1> DEFINE wrong(n) == {v \in Range(SubSeq(<<d, a, u>>, 1, n)) : Meant(v) # {VmmVaToGpa(v)}}
  <1>2. PICK n \in 0 .. 3 : mistaken' = mistaken \cup IF torn THEN {} ELSE wrong(n)
    BY Zenon DEF set_vring_addr
  <1>3. ~ torn => wrong(n) = {}
    <2>1. ASSUME NEW v \in Range(SubSeq(<<d, a, u>>, 1, n))
          PROVE  v \in {d, a, u}
      <3>1. <<d, a, u>> \in Seq({d, a, u}) /\ Len(<<d, a, u>>) = 3
        OBVIOUS
      <3>2. SubSeq(<<d, a, u>>, 1, n) \in Seq({d, a, u})
        BY <3>1
      <3> DEFINE z == SubSeq(<<d, a, u>>, 1, n)
      <3> HIDE DEF z
      <3> QED
        BY <2>1, <3>2 DEF Range, z
    <2>2. Translatable(d) /\ Translatable(a) /\ Translatable(u)
      BY Zenon DEF set_vring_addr
    <2>3. d \in Nat /\ a \in Nat /\ u \in Nat
      BY Zenon DEF Announced
    <2>4. ~ torn => \A v \in {d, a, u} : Meant(v) = {VmmVaToGpa(v)}
      BY <2>2, <2>3, TranslatedAsMeant, Zenon
    <2> QED
      BY <2>1, <2>4, Zenon
  <1>4. mistaken' = mistaken
    BY <1>2, <1>3, Zenon
  <1> QED
    BY <1>1, <1>4, MemoryKept, Zenon DEF TypeOK

\* The requests of postcopy keep the invariant of guest memory.
LEMMA PostcopySafe ==
  ASSUME Announced, IInv, postcopy_advice \/ postcopy_listen \/ postcopy_end
  PROVE  IInv'
  <1> USE DEF IInv
  <1>1. /\ mem' = mem /\ mappings' = mappings /\ told' = told /\ torn' = torn
        /\ mistaken' = mistaken
    BY Zenon DEF postcopy_advice, postcopy_listen, postcopy_end, memory
  <1>2. uffd' \in BOOLEAN
    BY Zenon DEF postcopy_advice, postcopy_listen, postcopy_end, TypeOK
  <1>3. missed' = missed
    <2>1. CASE postcopy_listen
      <3>1. ~ torn => \A r \in mem : r.local \in Registered
        <4> SUFFICES ASSUME ~ torn, NEW r \in mem
                     PROVE  r.local \in Registered
          BY Zenon
        <4> DEFINE p(x) == [gpa |-> x.gpa, size |-> x.size, local |-> x.local]
        <4>1. r \in {p(x) : x \in Range(mappings)}
          BY Zenon DEF MappingsMatchMemory
        <4>2. PICK x \in Range(mappings) : r = p(x)
          BY <4>1, Zenon
        <4>3. r.local = x.local
          BY <4>2, Zenon
        <4> QED
          BY <4>3, Zenon DEF Registered, Range
      <3> QED
        BY <2>1, <3>1, Zenon DEF postcopy_listen
    <2>2. CASE postcopy_advice \/ postcopy_end
      BY <2>2, Zenon DEF postcopy_advice, postcopy_end
    <2> QED
      BY <2>1, <2>2, Zenon
  <1> QED
    BY <1>1, <1>2, <1>3, MemoryKept, Zenon

\* The invariant of guest memory is inductive.
THEOREM MemoryInvariant ==
  ASSUME Announced
  PROVE  Spec => []IInv
  <1>1. Init => IInv
    <2> SUFFICES ASSUME Init PROVE IInv
      BY Zenon
    <2>1. IsFiniteSet({}) /\ Cardinality({}) = 0
      BY FS_EmptySet, Zenon
    <2>2. TableInv
      BY <2>1 DEF Announced, Init, TableInv
    <2>3. TypeOK
      <3> DEFINE T == [gpa : Nat, vmm : Nat, size : Nat \ {0}, local : Nat]
      <3>1. mappings \in Seq(T)
        <4> HIDE DEF T
        <4> QED
          BY DEF Init
      <3> QED
        BY <3>1, Zenon DEF Init, TypeOK
    <2>4. Range(mappings) = {}
      BY DEF Init, Range
    <2>5. ToldInv /\ MappingsMatchMemory
      BY <2>4, Zenon DEF Init, ToldInv, MappingsMatchMemory
    <2> QED
      BY <2>2, <2>3, <2>5, Zenon DEF Init, IInv, LocalInv, AddressesAsMeant,
         PostcopyCoversMemory
  <1>2. IInv /\ [Next]_(vars) => IInv'
    <2> SUFFICES ASSUME IInv, [Next]_(vars) PROVE IInv'
      BY Zenon
    <2>1. CASE Next
      BY <2>1, SetMemTableSafe, AddMemRegionSafe, RemoveMemRegionSafe,
         SetVringAddrSafe, PostcopySafe, Zenon DEF Next
    <2>2. CASE UNCHANGED vars
      <3>1. uffd \in BOOLEAN
        BY Zenon DEF IInv, TypeOK
      <3> QED
        BY <2>2, <3>1, MemoryKept, Zenon DEF vars, memory, derived
    <2> QED
      BY <2>1, <2>2, Zenon
  <1> QED
    BY <1>1, <1>2, PTL DEF Spec
==================================================================================
