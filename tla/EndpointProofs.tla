----------------------------- MODULE EndpointProofs -----------------------------
(***************************************************************************)
(* Proofs about Endpoint, for headers and bodies of any size, any number   *)
(* of messages and any way of cutting them into pieces.  StreamInv is      *)
(* inductive.  The first part is induction over the natural numbers in a   *)
(* form that the provers can use, about the members of a set instead of a  *)
(* predicate, and what follows from it about the recursive functions of    *)
(* the specification.                                                      *)
(***************************************************************************)
EXTENDS EndpointPart, Integers, Sequences, WellFoundedInduction, TLAPS

\* A set of natural numbers has a least element.
LEMMA LeastNatural ==
  ASSUME NEW T, T \subseteq Nat, T # {}
  PROVE  \E n \in T : \A m \in T : n <= m
  <1> DEFINE R == {p \in Nat \X Nat : p[1] < p[2]}
  <1>1. IsWellFoundedOn(R, Nat)
    BY NatLessThanWellFounded, Zenon DEF OpToRel
  <1>2. ASSUME NEW x \in Nat, NEW y \in Nat PROVE <<y, x>> \in R <=> y < x
    BY Zenon
  <1> HIDE DEF R
  <1>3. PICK x \in T : \A y \in T : <<y, x>> \notin R
    BY <1>1, WFMin, Zenon
  <1>4. ASSUME NEW y \in T PROVE x <= y
    <2>1. ~ y < x /\ x \in Nat /\ y \in Nat
      BY <1>2, <1>3, Zenon
    <2> QED
      BY <2>1
  <1> QED
    BY <1>4, Zenon

\* A set with 0 and with the successor of each of its numbers has all of them.
LEMMA SetInduction ==
  ASSUME NEW T, 0 \in T, \A n \in Nat : n \in T => n + 1 \in T
  PROVE  Nat \subseteq T
  <1>1. SUFFICES ASSUME Nat \ T # {} PROVE FALSE
    BY Zenon
  <1>2. PICK n \in Nat \ T : \A m \in Nat \ T : n <= m
    BY <1>1, LeastNatural, Zenon
  <1> QED
    BY <1>2

\* The same for the numbers up to a bound.
LEMMA BoundedInduction ==
  ASSUME NEW k \in Nat, NEW T, 0 \in T, \A n \in 0 .. k - 1 : n \in T => n + 1 \in T
  PROVE  0 .. k \subseteq T
  <1> DEFINE U == {n \in Nat : n <= k => n \in T}
  <1>1. 0 \in U
    BY Zenon
  <1>2. \A n \in Nat : n \in U => n + 1 \in U
    OBVIOUS
  <1>3. Nat \subseteq U
    <2> HIDE DEF U
    <2> QED
      BY <1>1, <1>2, SetInduction, Zenon
  <1> QED
    BY <1>3
-------------------------------------------------------------------------------
(* Recursive functions *)

\* The recursion of Total, up to element k.
Summed(s, k, f) ==
  f = [i \in 0 .. k |-> IF i = 0 THEN 0 ELSE f[i - 1] + s[i]]

\* There is a function that this recursion defines.
LEMMA SummedExists ==
  ASSUME NEW s, NEW n \in Nat
  PROVE  \E f : Summed(s, n, f)
  <1> DEFINE T == {k \in Nat : \E f : Summed(s, k, f)}
  <1>1. 0 \in T
    <2> DEFINE f == [i \in 0 .. 0 |-> 0]
    <2>1. Summed(s, 0, f)
      BY DEF Summed
    <2> QED
      BY <2>1, Zenon
  <1>2. ASSUME NEW k \in Nat, k \in T PROVE k + 1 \in T
    <2>1. PICK f : Summed(s, k, f)
      BY <1>2, Zenon
    <2> DEFINE more == f[k] + s[k + 1]
               g == [i \in 0 .. k + 1 |-> IF i = k + 1 THEN more ELSE f[i]]
    <2>2. \A i \in 0 .. k : g[i] = f[i]
      OBVIOUS
    <2>3. ASSUME NEW i \in 0 .. k + 1
          PROVE  g[i] = IF i = 0 THEN 0 ELSE g[i - 1] + s[i]
      <3>1. CASE i = k + 1
        BY <2>2, <3>1
      <3>2. CASE i \in 0 .. k
        <4> HIDE DEF g
        <4> QED
          BY <2>1, <2>2, <3>2 DEF Summed
      <3> QED
        BY <3>1, <3>2
    <2>4. g = [i \in 0 .. k + 1 |-> g[i]]
      BY Zenon
    <2> HIDE DEF g
    <2>5. Summed(s, k + 1, g)
      BY <2>3, <2>4, Zenon DEF Summed
    <2> QED
      BY <2>5
  <1>3. Nat \subseteq T
    <2> HIDE DEF T
    <2> QED
      BY <1>1, <1>2, SetInduction, Zenon
  <1> QED
    BY <1>3, Zenon

\* The recursion of Concat, up to element k.
Joined(s, k, f) ==
  f = [i \in 0 .. k |-> IF i = 0 THEN <<>> ELSE f[i - 1] \o s[i]]

\* There is a function that this recursion defines.
LEMMA JoinedExists ==
  ASSUME NEW s, NEW n \in Nat
  PROVE  \E f : Joined(s, n, f)
  <1> DEFINE T == {k \in Nat : \E f : Joined(s, k, f)}
  <1>1. 0 \in T
    <2> DEFINE f == [i \in 0 .. 0 |-> <<>>]
    <2>1. Joined(s, 0, f)
      BY DEF Joined
    <2> QED
      BY <2>1, Zenon
  <1>2. ASSUME NEW k \in Nat, k \in T PROVE k + 1 \in T
    <2>1. PICK f : Joined(s, k, f)
      BY <1>2, Zenon
    <2> DEFINE more == f[k] \o s[k + 1]
               g == [i \in 0 .. k + 1 |-> IF i = k + 1 THEN more ELSE f[i]]
    <2>2. \A i \in 0 .. k : g[i] = f[i]
      OBVIOUS
    <2>3. ASSUME NEW i \in 0 .. k + 1
          PROVE  g[i] = IF i = 0 THEN <<>> ELSE g[i - 1] \o s[i]
      <3>1. CASE i = k + 1
        <4>1. i # 0 /\ i - 1 = k /\ g[i] = more /\ g[k] = f[k]
          BY <3>1, <2>2
        <4> QED
          BY <3>1, <4>1, Zenon
      <3>2. CASE i \in 0 .. k
        <4>1. f[i] = IF i = 0 THEN <<>> ELSE f[i - 1] \o s[i]
          BY <2>1, <3>2, Zenon DEF Joined
        <4>2. i # 0 => i - 1 \in 0 .. k
          BY <3>2
        <4> HIDE DEF g
        <4> QED
          BY <2>2, <3>2, <4>1, <4>2, Zenon
      <3> QED
        BY <3>1, <3>2
    <2>4. g = [i \in 0 .. k + 1 |-> g[i]]
      BY Zenon
    <2> HIDE DEF g
    <2>5. Joined(s, k + 1, g)
      BY <2>3, <2>4, Zenon DEF Joined
    <2> QED
      BY <2>5
  <1>3. Nat \subseteq T
    <2> HIDE DEF T
    <2> QED
      BY <1>1, <1>2, SetInduction, Zenon
  <1> QED
    BY <1>3, Zenon

\* The recursion of get_sub_iovs_offset, up to element k.
Skipped(lens, skip, k, f) ==
  f = [i \in 0 .. k |-> IF i = 0 THEN [size |-> skip, skipped |-> 0]
                 ELSE IF f[i - 1].skipped = i - 1 /\ f[i - 1].size >= lens[i]
                 THEN [size |-> f[i - 1].size - lens[i], skipped |-> i] ELSE f[i - 1]]

\* There is a function that this recursion defines.
LEMMA SkippedExists ==
  ASSUME NEW lens, NEW skip, NEW n \in Nat
  PROVE  \E f : Skipped(lens, skip, n, f)
  <1> DEFINE T == {k \in Nat : \E f : Skipped(lens, skip, k, f)}
  <1>1. 0 \in T
    <2> DEFINE f == [i \in 0 .. 0 |-> [size |-> skip, skipped |-> 0]]
    <2>1. Skipped(lens, skip, 0, f)
      BY DEF Skipped
    <2> QED
      BY <2>1, Zenon
  <1>2. ASSUME NEW k \in Nat, k \in T PROVE k + 1 \in T
    <2>1. PICK f : Skipped(lens, skip, k, f)
      BY <1>2, Zenon
    <2> DEFINE more == IF f[k].skipped = k /\ f[k].size >= lens[k + 1]
                 THEN [size |-> f[k].size - lens[k + 1], skipped |-> k + 1] ELSE f[k]
               g == [i \in 0 .. k + 1 |-> IF i = k + 1 THEN more ELSE f[i]]
    <2>2. \A i \in 0 .. k : g[i] = f[i]
      BY SMTT(30)
    <2>3. ASSUME NEW i \in 0 .. k + 1
          PROVE  g[i] = IF i = 0 THEN [size |-> skip, skipped |-> 0]
                 ELSE IF g[i - 1].skipped = i - 1 /\ g[i - 1].size >= lens[i]
                 THEN [size |-> g[i - 1].size - lens[i], skipped |-> i] ELSE g[i - 1]
      <3>1. CASE i = k + 1
        BY <2>2, <3>1
      <3>2. CASE i \in 0 .. k
        <4>1. i # 0 => i - 1 \in 0 .. k
          BY <3>2
        <4> HIDE DEF g
        <4> QED
          BY <2>1, <2>2, <3>2, <4>1, Zenon DEF Skipped
      <3> QED
        BY <3>1, <3>2, SMTT(30)
    <2>4. g = [i \in 0 .. k + 1 |-> g[i]]
      BY Zenon
    <2> HIDE DEF g
    <2>5. Skipped(lens, skip, k + 1, g)
      BY <2>3, <2>4, Zenon DEF Skipped
    <2> QED
      BY <2>5
  <1>3. Nat \subseteq T
    <2> HIDE DEF T
    <2> QED
      BY <1>1, <1>2, SetInduction, Zenon
  <1> QED
    BY <1>3, Zenon

\* What Total computes, one element after the other.
LEMMA TotalUnfolds ==
  ASSUME NEW s, Len(s) \in Nat
  PROVE  \E f : /\ E!Total(s) = f[Len(s)] /\ f[0] = 0
                /\ \A i \in 1 .. Len(s) : f[i] = f[i - 1] + s[i]
  <1> DEFINE n == Len(s)
  <1>1. PICK f : Summed(s, n, f) /\ E!Total(s) = f[n]
    BY SummedExists, Zenon DEF E!Total, Summed
  <1> QED
    BY <1>1, SMTT(30) DEF Summed

\* What Concat computes, one element after the other.
LEMMA ConcatUnfolds ==
  ASSUME NEW s, Len(s) \in Nat
  PROVE  \E f : /\ E!Concat(s) = f[Len(s)] /\ f[0] = <<>>
                /\ \A i \in 1 .. Len(s) : f[i] = f[i - 1] \o s[i]
  <1> DEFINE n == Len(s)
  <1>1. PICK f : Joined(s, n, f) /\ E!Concat(s) = f[n]
    BY JoinedExists, Zenon DEF E!Concat, Joined
  <1> QED
    BY <1>1 DEF Joined

\* What get_sub_iovs_offset computes, one vector after the other.
LEMMA OffsetUnfolds ==
  ASSUME NEW lens, Len(lens) \in Nat, NEW skip
  PROVE  \E f : Skipped(lens, skip, Len(lens), f) /\ E!get_sub_iovs_offset(lens, skip) = f[Len(lens)]
  <1>1. \E f : Skipped(lens, skip, Len(lens), f)
    BY SkippedExists, Zenon
  <1> QED
    BY <1>1, Zenon DEF E!get_sub_iovs_offset, Skipped

\* The sum of at most two sizes.
LEMMA TotalOfFew ==
  ASSUME NEW a \in Nat, NEW b \in Nat
  PROVE  E!Total(<<>>) = 0 /\ E!Total(<<a>>) = a /\ E!Total(<<a, b>>) = a + b
  <1>1. E!Total(<<>>) = 0
    BY TotalUnfolds
  <1>2. E!Total(<<a>>) = a
    <2> DEFINE s == <<a>>
    <2>1. Len(s) = 1 /\ s[1] = a
      BY Zenon
    <2>2. PICK f : E!Total(s) = f[1] /\ f[0] = 0 /\ \A i \in 1 .. 1 : f[i] = f[i - 1] + s[i]
      BY <2>1, TotalUnfolds, Zenon
    <2> QED
      BY <2>1, <2>2
  <1>3. E!Total(<<a, b>>) = a + b
    <2> DEFINE s == <<a, b>>
    <2>1. Len(s) = 2 /\ s[1] = a /\ s[2] = b
      BY Zenon
    <2>2. PICK f : E!Total(s) = f[2] /\ f[0] = 0 /\ \A i \in 1 .. 2 : f[i] = f[i - 1] + s[i]
      BY <2>1, TotalUnfolds, Zenon
    <2> QED
      BY <2>1, <2>2
  <1> QED
    BY <1>1, <1>2, <1>3, Zenon

\* The units of at most two vectors.
LEMMA ConcatOfFew ==
  ASSUME NEW A, NEW a \in Seq(A), NEW b \in Seq(A)
  PROVE  E!Concat(<<>>) = <<>> /\ E!Concat(<<a>>) = a /\ E!Concat(<<a, b>>) = a \o b
  <1>0. <<>> \o a = a
    OBVIOUS
  <1>1. E!Concat(<<>>) = <<>>
    <2>1. Len(<<>>) = 0
      BY Zenon
    <2> QED
      BY <2>1, ConcatUnfolds, Zenon
  <1>2. E!Concat(<<a>>) = a
    <2> DEFINE s == <<a>>
    <2>1. Len(s) = 1 /\ s[1] = a
      BY Zenon
    <2>2. PICK f : E!Concat(s) = f[1] /\ f[0] = <<>> /\ \A i \in 1 .. 1 : f[i] = f[i - 1] \o s[i]
      BY <2>1, ConcatUnfolds, Zenon
    <2>3. f[1] = f[0] \o s[1]
      <3>1. 1 \in 1 .. 1 /\ 1 - 1 = 0
        OBVIOUS
      <3> QED
        BY <2>2, <3>1, Zenon
    <2> QED
      BY <1>0, <2>1, <2>2, <2>3, Zenon
  <1>3. E!Concat(<<a, b>>) = a \o b
    <2> DEFINE s == <<a, b>>
    <2>1. Len(s) = 2 /\ s[1] = a /\ s[2] = b
      BY Zenon
    <2>2. PICK f : E!Concat(s) = f[2] /\ f[0] = <<>> /\ \A i \in 1 .. 2 : f[i] = f[i - 1] \o s[i]
      BY <2>1, ConcatUnfolds, Zenon
    <2>3. f[1] = f[0] \o s[1] /\ f[2] = f[1] \o s[2]
      <3>1. 1 \in 1 .. 2 /\ 1 - 1 = 0 /\ 2 \in 1 .. 2 /\ 2 - 1 = 1
        OBVIOUS
      <3> QED
        BY <2>2, <3>1, Zenon
    <2> QED
      BY <1>0, <2>1, <2>2, <2>3, Zenon
  <1> QED
    BY <1>1, <1>2, <1>3, Zenon

\* One more element adds its value to the sum.
LEMMA TotalOfMore ==
  ASSUME NEW s \in Seq(Nat), NEW t \in Seq(Nat), Len(t) = Len(s) + 1,
         \A i \in 1 .. Len(s) : t[i] = s[i]
  PROVE  E!Total(s) \in Nat /\ E!Total(t) = E!Total(s) + t[Len(t)]
  <1> DEFINE n == Len(s)
  <1>0. /\ n \in Nat /\ Len(t) \in Nat /\ Len(t) = n + 1 /\ \A i \in 1 .. n : s[i] \in Nat
        /\ \A i \in 1 .. n : t[i] = s[i]
    BY SMTT(30)
  <1>1. PICK f : /\ E!Total(s) = f[n] /\ f[0] = 0
                 /\ \A i \in 1 .. n : f[i] = f[i - 1] + s[i]
    BY <1>0, TotalUnfolds, Zenon
  <1>2. PICK g : /\ E!Total(t) = g[Len(t)] /\ g[0] = 0
                 /\ \A i \in 1 .. Len(t) : g[i] = g[i - 1] + t[i]
    BY <1>0, TotalUnfolds, Zenon
  <1> HIDE DEF n
  <1> DEFINE T == {k \in 0 .. n : f[k] \in Nat /\ f[k] = g[k]}
  <1>3. 0 \in T
    BY <1>0, <1>1, <1>2
  <1>4. ASSUME NEW k \in 0 .. n - 1, k \in T PROVE k + 1 \in T
    <2>1. /\ k + 1 \in 1 .. n /\ k + 1 \in 1 .. Len(t) /\ (k + 1) - 1 = k /\ k + 1 \in 0 .. n
          /\ f[k] \in Nat /\ f[k] = g[k]
      BY <1>0, <1>4
    <2>2. f[k + 1] = f[k] + s[k + 1] /\ g[k + 1] = g[k] + t[k + 1]
      BY <1>1, <1>2, <2>1, Zenon
    <2>3. s[k + 1] \in Nat /\ t[k + 1] = s[k + 1]
      BY <1>0, <2>1, Zenon
    <2>4. f[k] + s[k + 1] \in Nat
      BY <2>1, <2>3, SMTT(30)
    <2> QED
      BY <2>1, <2>2, <2>3, <2>4, Zenon
  <1>5. 0 .. n \subseteq T
    <2> HIDE DEF T
    <2> QED
      BY <1>0, <1>3, <1>4, BoundedInduction, Zenon
  <1>6. g[n + 1] = g[n] + t[n + 1]
    BY <1>0, <1>2
  <1> QED
    BY <1>0, <1>1, <1>2, <1>5, <1>6, SMTT(30)

\* One more vector adds its units at the end.
LEMMA ConcatOfMore ==
  ASSUME NEW A, NEW s \in Seq(Seq(A)), NEW t \in Seq(Seq(A)), Len(t) = Len(s) + 1,
         \A i \in 1 .. Len(s) : t[i] = s[i]
  PROVE  E!Concat(s) \in Seq(A) /\ E!Concat(t) = E!Concat(s) \o t[Len(t)]
  <1> DEFINE n == Len(s)
  <1>0. /\ n \in Nat /\ Len(t) \in Nat /\ Len(t) = n + 1 /\ \A i \in 1 .. n : s[i] \in Seq(A)
        /\ \A i \in 1 .. n : t[i] = s[i]
    OBVIOUS
  <1>1. PICK f : /\ E!Concat(s) = f[n] /\ f[0] = <<>>
                 /\ \A i \in 1 .. n : f[i] = f[i - 1] \o s[i]
    BY <1>0, ConcatUnfolds, Zenon
  <1>2. PICK g : /\ E!Concat(t) = g[Len(t)] /\ g[0] = <<>>
                 /\ \A i \in 1 .. Len(t) : g[i] = g[i - 1] \o t[i]
    BY <1>0, ConcatUnfolds, Zenon
  <1> HIDE DEF n
  <1> DEFINE T == {k \in 0 .. n : f[k] \in Seq(A) /\ f[k] = g[k]}
  <1>3. 0 \in T
    <2>1. <<>> \in Seq(A) /\ 0 \in 0 .. n
      BY <1>0
    <2> QED
      BY <1>1, <1>2, <2>1, Zenon
  <1>4. ASSUME NEW k \in 0 .. n - 1, k \in T PROVE k + 1 \in T
    <2>1. /\ k + 1 \in 1 .. n /\ k + 1 \in 1 .. Len(t) /\ (k + 1) - 1 = k /\ k + 1 \in 0 .. n
          /\ f[k] \in Seq(A) /\ f[k] = g[k]
      BY <1>0, <1>4
    <2>2. s[k + 1] \in Seq(A) /\ t[k + 1] = s[k + 1]
      BY <1>0, <2>1, Zenon
    <2>3. f[k] \o s[k + 1] \in Seq(A)
      BY <2>1, <2>2
    <2> QED
      BY <1>1, <1>2, <2>1, <2>2, <2>3, ZenonT(40)
  <1>5. 0 .. n \subseteq T
    <2> HIDE DEF T
    <2> QED
      BY <1>0, <1>3, <1>4, BoundedInduction, Zenon
  <1>6. f[n] \in Seq(A) /\ f[n] = g[n]
    BY <1>0, <1>5
  <1>7. g[n + 1] = g[n] \o t[n + 1]
    <2>1. n + 1 \in 1 .. Len(t) /\ (n + 1) - 1 = n
      BY <1>0
    <2> QED
      BY <1>2, <2>1, Zenon
  <1> QED
    BY <1>0, <1>1, <1>2, <1>6, <1>7, Zenon

\* Where reading a header goes on.
LEMMA OffsetInOne ==
  ASSUME NEW h \in Nat, NEW b \in 0 .. h - 1
  PROVE  E!get_sub_iovs_offset(<<h>>, b) = [size |-> b, skipped |-> 0]
  <1> DEFINE s == <<h>>
  <1>1. Len(s) = 1 /\ s[1] = h
    BY Zenon
  <1> HIDE DEF s
  <1>2. PICK f : Skipped(s, b, 1, f) /\ E!get_sub_iovs_offset(s, b) = f[1]
    <2>1. Len(s) \in Nat
      BY <1>1
    <2> QED
      BY <1>1, <2>1, OffsetUnfolds, Zenon
  <1>3. f[1] = IF f[0].skipped = 0 /\ f[0].size >= h
               THEN [size |-> f[0].size - h, skipped |-> 1] ELSE f[0]
    BY <1>1, <1>2 DEF Skipped
  <1> QED
    BY <1>2, <1>3 DEF s, Skipped

\* Where reading or writing a header and a body goes on.
LEMMA OffsetInTwo ==
  ASSUME NEW h \in Nat, NEW r \in Nat, NEW b \in 0 .. h + r - 1
  PROVE  E!get_sub_iovs_offset(<<h, r>>, b) =
           IF b < h THEN [size |-> b, skipped |-> 0] ELSE [size |-> b - h, skipped |-> 1]
  <1> DEFINE s == <<h, r>>
  <1>1. Len(s) = 2 /\ s[1] = h /\ s[2] = r
    BY Zenon
  <1> HIDE DEF s
  <1>2. PICK f : Skipped(s, b, 2, f) /\ E!get_sub_iovs_offset(s, b) = f[2]
    <2>1. Len(s) \in Nat
      BY <1>1
    <2> QED
      BY <1>1, <2>1, OffsetUnfolds, Zenon
  <1>0. f[0] = [size |-> b, skipped |-> 0]
    BY <1>2 DEF Skipped
  <1>3. f[1] = IF f[0].skipped = 0 /\ f[0].size >= h
               THEN [size |-> f[0].size - h, skipped |-> 1] ELSE f[0]
    BY <1>1, <1>2 DEF Skipped
  <1>4. f[2] = IF f[1].skipped = 1 /\ f[1].size >= r
               THEN [size |-> f[1].size - r, skipped |-> 2] ELSE f[1]
    BY <1>1, <1>2 DEF Skipped
  <1>5. CASE b < h
    BY <1>0, <1>2, <1>3, <1>4, <1>5, SMTT(30) DEF s
  <1>6. CASE b >= h
    BY <1>0, <1>2, <1>3, <1>4, <1>6 DEF s
  <1> QED
    BY <1>5, <1>6
-------------------------------------------------------------------------------
(* Units and buffers *)

\* The numbers of messages.
Numbers == 1 .. MaxMsgs

\* Unit i of message n.
UnitAt(n, i) == [msg |-> n, at |-> i]

\* A sequence of the units a + 1 to b of message n.
IsSpan(s, n, a, b) ==
  /\ s \in Seq(E!Unit) /\ Len(s) = b - a
  /\ \A i \in 1 .. b - a : s[i] = UnitAt(n, a + i)

\* What a span is.
LEMMA SpanType ==
  ASSUME NEW n \in Numbers, NEW a \in Nat, NEW b \in Nat, a <= b
  PROVE  IsSpan(E!Span(n, a, b), n, a, b)
  <1> QED
    BY DEF IsSpan, E!Span, UnitAt, E!Unit, Numbers

\* A sequence of these units is the span.
LEMMA SpanUnique ==
  ASSUME NEW n \in Numbers, NEW a \in Nat, NEW b \in Nat, a <= b, NEW s, IsSpan(s, n, a, b)
  PROVE  s = E!Span(n, a, b)
  <1> DEFINE t == E!Span(n, a, b)
  <1>1. IsSpan(t, n, a, b)
    BY SpanType, Zenon
  <1> HIDE DEF t
  <1> QED
    BY <1>1 DEF t, IsSpan

\* The empty span is the only one without units.
LEMMA SpanEmpty ==
  ASSUME NEW n \in Numbers, NEW a \in Nat, NEW b \in Nat, a <= b
  PROVE  E!Span(n, a, b) \in Seq(E!Unit) /\ Len(E!Span(n, a, b)) = b - a /\ (E!Span(n, a, b) = <<>> <=> a = b)
  <1> DEFINE t == E!Span(n, a, b)
  <1>1. IsSpan(t, n, a, b)
    BY SpanType, Zenon
  <1> HIDE DEF t
  <1> QED
    BY <1>1 DEF t, IsSpan

\* A span continues a span.
LEMMA SpanJoin ==
  ASSUME NEW n \in Numbers, NEW a \in Nat, NEW b \in Nat, NEW c \in Nat, a <= b, b <= c
  PROVE  E!Span(n, a, b) \o E!Span(n, b, c) = E!Span(n, a, c)
  <1> DEFINE s == E!Span(n, a, b)
             t == E!Span(n, b, c)
  <1>0. a <= c
    OBVIOUS
  <1>1. IsSpan(s, n, a, b) /\ IsSpan(t, n, b, c)
    BY SpanType, Zenon
  <1> HIDE DEF s, t
  <1>2. s \in Seq(E!Unit) /\ Len(s) = b - a /\ t \in Seq(E!Unit) /\ Len(t) = c - b
    BY <1>1, Zenon DEF IsSpan
  <1>3. s \o t \in Seq(E!Unit) /\ Len(s \o t) = c - a
    BY <1>2, SMTT(30)
  <1>4. ASSUME NEW i \in 1 .. c - a PROVE (s \o t)[i] = UnitAt(n, a + i)
    <2>1. CASE i <= b - a
      <3>1. (s \o t)[i] = s[i] /\ i \in 1 .. b - a
        BY <1>2, <2>1
      <3> QED
        BY <1>1, <3>1, Zenon DEF IsSpan
    <2>2. CASE i > b - a
      <3>1. (s \o t)[i] = t[i - (b - a)] /\ i - (b - a) \in 1 .. c - b
        BY <1>2, <2>2, SMTT(30)
      <3>2. b + (i - (b - a)) = a + i
        OBVIOUS
      <3>3. t[i - (b - a)] = UnitAt(n, b + (i - (b - a)))
        BY <1>1, <3>1, Zenon DEF IsSpan
      <3> QED
        BY <3>1, <3>2, <3>3, Zenon
    <2>3. i <= b - a \/ i > b - a
      OBVIOUS
    <2> QED
      BY <2>1, <2>2, <2>3, Zenon
  <1> QED
    BY <1>0, <1>3, <1>4, SpanUnique, Zenon DEF s, t, IsSpan

\* The beginning of a span.
LEMMA SpanFront ==
  ASSUME NEW n \in Numbers, NEW a \in Nat, NEW b \in Nat, NEW c \in Nat, a <= b, b <= c
  PROVE  SubSeq(E!Span(n, a, c), 1, b - a) = E!Span(n, a, b)
  <1> DEFINE s == E!Span(n, a, c)
             t == SubSeq(s, 1, b - a)
  <1>1. IsSpan(s, n, a, c)
    BY SpanType
  <1> HIDE DEF s
  <1>2. t \in Seq(E!Unit) /\ Len(t) = b - a /\ \A i \in 1 .. b - a : t[i] = s[i]
    BY <1>1 DEF IsSpan
  <1> HIDE DEF t
  <1>3. ASSUME NEW i \in 1 .. b - a PROVE t[i] = UnitAt(n, a + i)
    BY <1>1, <1>2 DEF IsSpan
  <1> QED
    BY <1>2, <1>3, SpanUnique, Zenon DEF s, t, IsSpan

\* What is left of a sequence after d elements.
LEMMA EndOf ==
  ASSUME NEW A, NEW s \in Seq(A), NEW d \in 0 .. Len(s)
  PROVE  /\ SubSeq(s, d + 1, Len(s)) \in Seq(A) /\ Len(SubSeq(s, d + 1, Len(s))) = Len(s) - d
         /\ \A i \in 1 .. Len(s) - d : SubSeq(s, d + 1, Len(s))[i] = s[d + i]
  <1> QED
    OBVIOUS

\* What comes after unit b in the units a + 1 to c.
HasEnd(n, a, b, c) == SubSeq(E!Span(n, a, c), (b - a) + 1, c - a) = E!Span(n, b, c)

\* The end of a span.
LEMMA SpanBack ==
  ASSUME NEW n \in Numbers, NEW a \in Nat, NEW b \in Nat, NEW c \in Nat, a <= b, b <= c
  PROVE  HasEnd(n, a, b, c)
  <1> DEFINE s == E!Span(n, a, c)
             t == SubSeq(s, (b - a) + 1, c - a)
  <1>1. IsSpan(s, n, a, c)
    BY SpanType
  <1> HIDE DEF s
  <1>2. s \in Seq(E!Unit) /\ Len(s) = c - a
    BY <1>1, Zenon DEF IsSpan
  <1>3. t \in Seq(E!Unit) /\ Len(t) = c - b /\ \A e \in 1 .. c - b : t[e] = s[(b - a) + e]
    <2>1. b - a \in 0 .. Len(s) /\ (c - a) - (b - a) = c - b
      BY <1>2
    <2> QED
      BY <1>2, <2>1, EndOf
  <1> HIDE DEF t
  <1>4. ASSUME NEW e \in 1 .. c - b PROVE t[e] = UnitAt(n, b + e)
    BY <1>1, <1>3 DEF IsSpan
  <1> QED
    BY <1>3, <1>4, SpanUnique, Zenon DEF s, t, HasEnd, IsSpan

\* Header and body are a span each.
LEMMA IovsAreSpans ==
  ASSUME E!Framed, NEW n \in Numbers, NEW len \in Nat
  PROVE  E!Iovs(n, len) = <<E!Span(n, 0, HdrLen), E!Span(n, HdrLen, HdrLen + len)>>
  <1> QED
    BY DEF E!Iovs, E!Span, E!Framed

\* All of a message.
LEMMA WholeMessage ==
  ASSUME E!Framed, NEW n \in Numbers, NEW len \in Nat
  PROVE  E!Concat(E!Iovs(n, len)) = E!Span(n, 0, HdrLen + len)
  <1>1. HdrLen \in Nat /\ HdrLen + len \in Nat /\ HdrLen <= HdrLen + len /\ 0 <= HdrLen /\ 0 \in Nat
    BY DEF E!Framed
  <1>2. E!Span(n, 0, HdrLen) \in Seq(E!Unit) /\ E!Span(n, HdrLen, HdrLen + len) \in Seq(E!Unit)
    BY <1>1, SpanEmpty, Zenon
  <1>3. E!Concat(E!Iovs(n, len)) = E!Span(n, 0, HdrLen) \o E!Span(n, HdrLen, HdrLen + len)
    BY <1>2, IovsAreSpans, ConcatOfFew, Zenon
  <1> QED
    BY <1>1, <1>3, SpanJoin, Zenon

\* Parts of a pair of vectors.
LEMMA TwoVectors ==
  ASSUME NEW A, NEW x \in A, NEW y \in A
  PROVE  /\ SubSeq(<<x, y>>, 2, 2) = <<y>> /\ SubSeq(<<x, y>>, 3, 2) = <<>>
         /\ SubSeq(<<x, y>>, 1, 1) = <<x>> /\ SubSeq(<<x, y>>, 1, 0) = <<>>
         /\ <<x>> \o <<y>> = <<x, y>>
  <1> DEFINE p == <<x, y>>
  <1>1. p \in Seq(A) /\ Len(p) = 2 /\ p[1] = x /\ p[2] = y
    OBVIOUS
  <1> HIDE DEF p
  <1>2. SubSeq(p, 2, 2) = <<y>>
    <2> DEFINE s == SubSeq(p, 2, 2)
    <2>1. s \in Seq(A) /\ Len(s) = 1 /\ s[1] = p[2]
      BY <1>1
    <2> HIDE DEF s
    <2>2. s = <<y>>
      BY <1>1, <2>1
    <2> QED
      BY <2>2, Zenon DEF s
  <1>3. SubSeq(p, 1, 1) = <<x>>
    <2> DEFINE s == SubSeq(p, 1, 1)
    <2>1. s \in Seq(A) /\ Len(s) = 1 /\ s[1] = p[1]
      BY <1>1
    <2> HIDE DEF s
    <2>2. s = <<x>>
      BY <1>1, <2>1
    <2> QED
      BY <2>2, Zenon DEF s
  <1>4. <<x>> \o <<y>> = <<x, y>>
    <2> DEFINE s == <<x>> \o <<y>>
    <2>1. s \in Seq(A) /\ Len(s) = 2 /\ s[1] = x /\ s[2] = y
      OBVIOUS
    <2> HIDE DEF s
    <2>2. s = <<x, y>>
      BY <2>1
    <2> QED
      BY <2>2, Zenon DEF s
  <1> QED
    BY <1>1, <1>2, <1>4, <1>3 DEF p

\* What send_iovec_all has left to send, wherever the last sendmsg stopped.
LEMMA RestIsSpan ==
  ASSUME E!Framed, NEW n \in Numbers, NEW len \in Nat, NEW skip \in 0 .. HdrLen + len - 1
  PROVE  E!Rest(E!Iovs(n, len), skip) = E!Span(n, skip, HdrLen + len)
  <1> DEFINE h == E!Span(n, 0, HdrLen)
             b == E!Span(n, HdrLen, HdrLen + len)
             iovs == E!Iovs(n, len)
             o == E!get_sub_iovs_offset(E!Lens(iovs), skip)
  <1>0. /\ HdrLen \in Nat /\ HdrLen + len \in Nat /\ HdrLen <= HdrLen + len /\ 0 <= HdrLen
        /\ 0 \in Nat /\ skip \in Nat /\ skip < HdrLen + len
    BY DEF E!Framed
  <1>1. h \in Seq(E!Unit) /\ Len(h) = HdrLen /\ b \in Seq(E!Unit) /\ Len(b) = len
    <2>1. h \in Seq(E!Unit) /\ Len(h) = HdrLen - 0
      BY <1>0, SpanEmpty, Zenon
    <2>2. b \in Seq(E!Unit) /\ Len(b) = (HdrLen + len) - HdrLen
      BY <1>0, SpanEmpty, Zenon
    <2> QED
      BY <1>0, <2>1, <2>2
  <1>2. iovs = <<h, b>>
    BY IovsAreSpans, Zenon
  <1> HIDE DEF h, b, iovs
  <1>3. o = IF skip < HdrLen THEN [size |-> skip, skipped |-> 0]
            ELSE [size |-> skip - HdrLen, skipped |-> 1]
    BY <1>0, <1>1, <1>2, OffsetInTwo DEF E!Lens
  <1>4. Len(iovs) = 2 /\ iovs[1] = h /\ iovs[2] = b
    BY <1>2, Zenon
  <1>r. E!Rest(iovs, skip) = E!Concat(<<SubSeq(iovs[o.skipped + 1], o.size + 1, Len(iovs[o.skipped + 1]))>>
                                    \o SubSeq(iovs, o.skipped + 2, Len(iovs)))
    BY Zenon DEF E!Rest
  <1> HIDE DEF o
  <1>5. CASE skip < HdrLen
    <2>1. o.skipped + 1 = 1 /\ o.size + 1 = skip + 1 /\ o.skipped + 2 = 2
      BY <1>0, <1>3, <1>5
    <2>2. SubSeq(h, skip + 1, HdrLen) = E!Span(n, skip, HdrLen)
      BY <1>0, <1>5, SpanBack DEF h, HasEnd
    <2>3. SubSeq(iovs, 2, 2) = <<b>>
      BY <1>1, <1>2, TwoVectors, ZenonT(40)
    <2>4. E!Rest(iovs, skip) = E!Concat(<<E!Span(n, skip, HdrLen)>> \o <<b>>)
      BY <1>1, <1>4, <1>r, <2>1, <2>2, <2>3, Zenon
    <2>5. E!Span(n, skip, HdrLen) \in Seq(E!Unit)
      BY <1>0, <1>5, SpanEmpty
    <2>6. <<E!Span(n, skip, HdrLen)>> \o <<b>> = <<E!Span(n, skip, HdrLen), b>>
      BY <1>1, <2>5, TwoVectors, Zenon
    <2>7. E!Rest(iovs, skip) = E!Span(n, skip, HdrLen) \o b
      BY <1>1, <2>4, <2>5, <2>6, ConcatOfFew, ZenonT(40)
    <2> QED
      BY <1>0, <1>5, <2>7, SpanJoin, SMTT(30) DEF b, iovs
  <1>6. CASE skip >= HdrLen
    <2>1. o.skipped + 1 = 2 /\ o.size + 1 = skip - HdrLen + 1 /\ o.skipped + 2 = 3
      BY <1>0, <1>3, <1>6
    <2>2. SubSeq(b, skip - HdrLen + 1, len) = E!Span(n, skip, HdrLen + len)
      <3> DEFINE c == HdrLen + len
      <3>1. c \in Nat /\ c - HdrLen = len /\ HdrLen <= skip /\ skip <= c
        BY <1>0, <1>6
      <3> HIDE DEF c
      <3>2. HasEnd(n, HdrLen, skip, c)
        BY <1>0, <3>1, SpanBack, Zenon
      <3> QED
        BY <3>1, <3>2, Zenon DEF c, HasEnd, b
    <2>3. SubSeq(iovs, 3, 2) = <<>>
      BY <1>1, <1>2, TwoVectors, Zenon
    <2>4. E!Span(n, skip, HdrLen + len) \in Seq(E!Unit)
      BY <1>0, SpanEmpty
    <2>5. E!Rest(iovs, skip) = E!Concat(<<E!Span(n, skip, HdrLen + len)>> \o <<>>)
      BY <1>1, <1>4, <1>r, <2>1, <2>2, <2>3, Zenon
    <2>6. <<E!Span(n, skip, HdrLen + len)>> \o <<>> = <<E!Span(n, skip, HdrLen + len)>>
      OBVIOUS
    <2> QED
      BY <2>4, <2>5, <2>6, ConcatOfFew, Zenon DEF iovs
  <1> QED
    BY <1>0, <1>5, <1>6

\* No units.
LEMMA NoSpan ==
  ASSUME NEW n, NEW a \in Nat
  PROVE  E!Span(n, a, a) = <<>>
  <1> QED
    BY DEF E!Span, UnitAt

MsgsOK == msgs \in Seq([len : BodyLens, file : BOOLEAN]) /\ Len(msgs) <= MaxMsgs
Buffers == [data : Seq(E!Unit), fds : 0 .. MaxMsgs]

\* The numbers of messages and their sizes.
LEMMA MessageFacts ==
  ASSUME E!Framed, MsgsOK, NEW n \in DOMAIN msgs
  PROVE  /\ n \in Numbers /\ n \in Nat /\ n \in 1 .. Len(msgs) /\ msgs[n].len \in Nat
         /\ E!Size(n) \in Nat /\ HdrLen <= E!Size(n) /\ 0 < E!Size(n) /\ E!Size(n) = HdrLen + msgs[n].len
         /\ msgs[n].len \in BodyLens /\ msgs[n].file \in BOOLEAN
  <1>1. n \in 1 .. Len(msgs) /\ Len(msgs) \in Nat /\ Len(msgs) <= MaxMsgs /\ MaxMsgs \in Nat
    BY DEF MsgsOK, E!Framed
  <1>2. msgs[n] \in [len : BodyLens, file : BOOLEAN]
    <2> DEFINE A == [len : BodyLens, file : BOOLEAN]
    <2>1. msgs \in Seq(A)
      BY Zenon DEF MsgsOK
    <2> HIDE DEF A
    <2>2. msgs[n] \in A
      BY <1>1, <2>1
    <2> QED
      BY <2>2, Zenon DEF A
  <1>3. msgs[n].len \in Nat /\ msgs[n].len \in BodyLens /\ msgs[n].file \in BOOLEAN
    BY <1>2, Zenon DEF E!Framed
  <1> QED
    BY <1>1, <1>3, SMTT(30) DEF E!Framed, E!Size, Numbers

\* Descriptors come with the first unit only.
LEMMA FilesAtFacts ==
  ASSUME E!Framed, MsgsOK, NEW n \in DOMAIN msgs, NEW a
  PROVE  E!FilesAt(n, a) \in 0 .. MaxMsgs /\ (a # 0 => E!FilesAt(n, a) = 0)
  <1> QED
    BY MessageFacts DEF E!Framed, Numbers, E!FilesAt

\* What a buffer is: its first and its last unit.
LEMMA PieceFacts ==
  ASSUME E!Framed, MsgsOK, NEW n \in DOMAIN msgs, NEW a \in Nat, NEW b \in Nat, a < b
  PROVE  /\ E!Piece(n, a, b) \in Buffers
         /\ E!Piece(n, a, b).data = E!Span(n, a, b) /\ Len(E!Span(n, a, b)) = b - a
         /\ E!Piece(n, a, b).fds = E!FilesAt(n, a)
         /\ E!From(E!Piece(n, a, b)) = <<n, a>> /\ E!To(E!Piece(n, a, b)) = E!After(n, b)
  <1> DEFINE s == E!Span(n, a, b)
             p == E!Piece(n, a, b)
  <1>1. IsSpan(s, n, a, b)
    BY MessageFacts, SpanType
  <1> HIDE DEF s
  <1>2. s \in Seq(E!Unit) /\ Len(s) = b - a /\ 1 \in 1 .. b - a
    BY <1>1 DEF IsSpan
  <1>3. s[1] = UnitAt(n, a + 1)
    BY <1>1, <1>2, Zenon DEF IsSpan
  <1>4. s[1].msg = n /\ s[1].at - 1 = a
    BY <1>3 DEF UnitAt
  <1>5. p = [data |-> s, fds |-> E!FilesAt(n, a)]
    BY Zenon DEF E!Piece, s
  <1> HIDE DEF p
  <1>6. p.data = s /\ p.fds = E!FilesAt(n, a)
    BY <1>5, Zenon
  <1>7. E!To(p) = E!After(n, b)
    BY <1>2, <1>4, <1>6 DEF E!To
  <1> QED
    BY <1>2, <1>4, <1>5, <1>6, <1>7, FilesAtFacts, Zenon DEF p, s, Buffers, E!From
-------------------------------------------------------------------------------
(* What recvmsg takes from the socket *)

\* The data of the first j buffers.
Upto(j) == E!Concat([i \in 1 .. j |-> wire[i].data])

\* Buffer after buffer.
LEMMA UptoUnfolds ==
  ASSUME wire \in Seq(Buffers)
  PROVE  /\ Upto(0) = <<>>
         /\ \A j \in 0 .. Len(wire) : Upto(j) \in Seq(E!Unit)
         /\ \A j \in 0 .. Len(wire) - 1 : Upto(j + 1) = Upto(j) \o wire[j + 1].data
  <1> DEFINE L(j) == [i \in 1 .. j |-> wire[i].data]
  <1>0. Len(wire) \in Nat /\ \A i \in 1 .. Len(wire) : wire[i].data \in Seq(E!Unit)
    <2>1. \A w \in Buffers : w.data \in Seq(E!Unit)
      BY Zenon DEF Buffers
    <2> QED
      BY <2>1
  <1>1. ASSUME NEW j \in 0 .. Len(wire)
        PROVE  L(j) \in Seq(Seq(E!Unit)) /\ Len(L(j)) = j /\ \A i \in 1 .. j : L(j)[i] = wire[i].data
    <2> DEFINE A == Seq(E!Unit)
    <2> HIDE DEF A
    <2> QED
      BY <1>0, <1>1 DEF A
  <1>2. Upto(0) = <<>>
    <2>1. E!Concat(<<>>) = <<>>
      BY ConcatOfFew, Zenon
    <2> QED
      BY <2>1 DEF Upto
  <1>3. ASSUME NEW j \in 0 .. Len(wire) - 1
        PROVE  Upto(j) \in Seq(E!Unit) /\ Upto(j + 1) = Upto(j) \o wire[j + 1].data
    <2> DEFINE s == L(j)
               t == L(j + 1)
    <2>0. j \in 0 .. Len(wire) /\ j + 1 \in 0 .. Len(wire) /\ j + 1 \in 1 .. j + 1
      BY <1>0
    <2>1. s \in Seq(Seq(E!Unit)) /\ t \in Seq(Seq(E!Unit))
      BY <1>1, <2>0, Zenon
    <2>2. /\ Len(s) = j /\ \A i \in 1 .. j : s[i] = wire[i].data
          /\ Len(t) = j + 1 /\ \A i \in 1 .. j + 1 : t[i] = wire[i].data
      BY <1>1, <2>0, Zenon
    <2>3. Upto(j) = E!Concat(s) /\ Upto(j + 1) = E!Concat(t)
      BY Zenon DEF Upto
    <2> HIDE DEF s, t
    <2>4. Len(t) = Len(s) + 1 /\ \A i \in 1 .. Len(s) : t[i] = s[i]
      BY <2>0, <2>2
    <2>5. E!Concat(s) \in Seq(E!Unit) /\ E!Concat(t) = E!Concat(s) \o t[Len(t)]
      BY <2>1, <2>2, <2>4, ConcatOfMore, Zenon
    <2> QED
      BY <2>0, <2>2, <2>3, <2>5, Zenon
  <1>4. ASSUME NEW j \in 0 .. Len(wire) PROVE Upto(j) \in Seq(E!Unit)
    <2>1. CASE j = Len(wire) /\ j # 0
      <3>1. PICK i \in 0 .. Len(wire) - 1 : i + 1 = j
        <4>1. j - 1 \in 0 .. Len(wire) - 1 /\ (j - 1) + 1 = j
          BY <1>0, <2>1
        <4> QED
          BY <4>1, Zenon
      <3>2. Upto(i) \in Seq(E!Unit) /\ Upto(j) = Upto(i) \o wire[j].data
        BY <1>3, <3>1, Zenon
      <3> QED
        BY <1>0, <2>1, <3>2
    <2>2. CASE j = 0
      <3>1. <<>> \in Seq(E!Unit)
        OBVIOUS
      <3> QED
        BY <1>2, <2>2, <3>1, Zenon
    <2> QED
      BY <1>0, <1>3, <2>1, <2>2, SMTT(30)
  <1> QED
    BY <1>2, <1>3, <1>4, Zenon

\* The buffer at which recvmsg stops.
StopsAt(k, l) ==
  /\ l \in DOMAIN wire
  /\ Len(Upto(l)) >= k \/ wire[l].fds # 0 \/ l = Len(wire)
  /\ \A i \in 1 .. l - 1 : Len(Upto(i)) < k /\ wire[i].fds = 0

\* What RecvWithFds returns when it stops at buffer l.
Taken(k, l) ==
  LET n == IF Len(Upto(l)) < k THEN Len(Upto(l)) ELSE k
      left == SubSeq(Upto(l), n + 1, Len(Upto(l)))
  IN  [data |-> SubSeq(Upto(l), 1, n), fds |-> wire[l].fds,
       wire |-> (IF left = <<>> THEN <<>> ELSE <<[data |-> left, fds |-> 0]>>)
                    \o SubSeq(wire, l + 1, Len(wire))]

\* There is such a buffer.
LEMMA RecvStops ==
  ASSUME wire \in Seq(Buffers), wire # <<>>, NEW k \in Nat
  PROVE  \E l \in 1 .. Len(wire) : StopsAt(k, l) /\ E!RecvWithFds(k) = Taken(k, l)
  <1> DEFINE Stop(j) == Len(Upto(j)) >= k \/ wire[j].fds # 0 \/ j = Len(wire)
             S == {j \in 1 .. Len(wire) : Stop(j)}
  <1>0. Len(wire) \in Nat /\ Len(wire) # 0 /\ DOMAIN wire = 1 .. Len(wire)
    OBVIOUS
  <1>1. S \subseteq Nat /\ Len(wire) \in S
    BY <1>0
  <1>2. PICK l \in S : \A j \in S : l <= j
    <2> HIDE DEF S
    <2> QED
      BY <1>1, LeastNatural, Zenon
  <1>3. l \in 1 .. Len(wire) /\ Stop(l)
    BY <1>2, Zenon
  <1>a. l \in 1 .. Len(wire)
    BY <1>3, Zenon
  <1> HIDE DEF Stop
  <1>4. ASSUME NEW i \in 1 .. l - 1 PROVE Len(Upto(i)) < k /\ wire[i].fds = 0
    <2>1. i \in 1 .. Len(wire) /\ i < l /\ i \in 0 .. Len(wire)
      BY <1>0, <1>a
    <2>2. i \notin S
      <3> HIDE DEF S
      <3> QED
        BY <1>2, <1>a, <2>1
    <2> QED
      BY <2>1, <2>2, UptoUnfolds, SMTT(30) DEF Stop
  <1> DEFINE c == CHOOSE j \in DOMAIN wire :
                      /\ Len(Upto(j)) >= k \/ wire[j].fds # 0 \/ j = Len(wire)
                      /\ \A i \in 1 .. j - 1 : Len(Upto(i)) < k /\ wire[i].fds = 0
  <1>5. StopsAt(k, c)
    BY <1>0, <1>3, <1>4, Zenon DEF StopsAt, Stop
  <1>6. c \in 1 .. Len(wire)
    <2> HIDE DEF c
    <2> QED
      BY <1>0, <1>5, Zenon DEF StopsAt
  <1> QED
    BY <1>5, <1>6, Zenon DEF E!RecvWithFds, Taken, Upto

\* A buffer of a stretch.
LEMMA PieceOf ==
  ASSUME E!Framed, MsgsOK, NEW w, NEW x, NEW y, E!Stretch(w, x, y), NEW j \in DOMAIN w
  PROVE  \E n \in DOMAIN msgs : \E a \in Nat : \E b \in Nat :
            /\ a < b /\ b <= E!Size(n) /\ w[j] = E!Piece(n, a, b)
            /\ E!From(w[j]) = <<n, a>> /\ E!To(w[j]) = E!After(n, b)
            /\ w[j].data = E!Span(n, a, b) /\ w[j].fds = E!FilesAt(n, a)
  <1>1. PICK n \in DOMAIN msgs : \E b \in 1 .. E!Size(n) : \E a \in 0 .. b - 1 : w[j] = E!Piece(n, a, b)
    BY Zenon DEF E!Stretch
  <1>2. PICK b \in 1 .. E!Size(n) : \E a \in 0 .. b - 1 : w[j] = E!Piece(n, a, b)
    BY <1>1, Zenon
  <1>3. PICK a \in 0 .. b - 1 : w[j] = E!Piece(n, a, b)
    BY <1>2, Zenon
  <1>4. a \in Nat /\ b \in Nat /\ a < b /\ b <= E!Size(n)
    BY MessageFacts
  <1>5. /\ E!From(w[j]) = <<n, a>> /\ E!To(w[j]) = E!After(n, b)
        /\ w[j].data = E!Span(n, a, b) /\ w[j].fds = E!FilesAt(n, a)
    BY <1>3, <1>4, PieceFacts, Zenon
  <1> QED
    BY <1>3, <1>4, <1>5, Zenon

\* Up to buffer j, recvmsg has the units of message n after unit p, and the last buffer has
\* those from b to c.
Reached(n, p, k, j) ==
  \E b \in Nat : \E c \in Nat :
     /\ p <= b /\ b <= c /\ c <= E!Size(n) /\ b - p < k
     /\ Upto(j) = E!Span(n, p, c)
     /\ j = 0 => c = p
     /\ j # 0 => b < c /\ wire[j] = E!Piece(n, b, c)
     /\ j = 1 => b = p
     /\ j > 1 => p < b

\* recvmsg does not go beyond the message that it is in.
LEMMA UptoIsSpan ==
  ASSUME E!Framed, MsgsOK, wire \in Seq(Buffers), wire # <<>>,
         NEW n \in DOMAIN msgs, NEW p \in Nat, NEW y, E!Stretch(wire, <<n, p>>, y),
         NEW k \in Nat, 1 <= k, p + k <= E!Size(n),
         NEW l \in 1 .. Len(wire), StopsAt(k, l)
  PROVE  Reached(n, p, k, l)
  <1> DEFINE T == {j \in 0 .. l : Reached(n, p, k, j)}
  <1>0. /\ l \in Nat /\ Len(wire) \in Nat /\ l <= Len(wire) /\ 1 <= l /\ DOMAIN wire = 1 .. Len(wire)
        /\ n \in Numbers /\ n \in Nat /\ E!Size(n) \in Nat
    BY MessageFacts, SMTT(30)
  <1>1. 0 \in T
    <2>1. Upto(0) = E!Span(n, p, p)
      BY NoSpan, UptoUnfolds, Zenon
    <2> QED
      BY <1>0, <2>1, SMTT(30) DEF Reached
  <1>2. ASSUME NEW j \in 0 .. l - 1, j \in T PROVE j + 1 \in T
    <2>0. /\ j \in Nat /\ j + 1 \in 0 .. l /\ j + 1 \in 1 .. Len(wire) /\ j \in 0 .. Len(wire) - 1
          /\ j # 0 => j \in 1 .. l - 1 /\ j \in 1 .. Len(wire) - 1
          /\ j + 1 # 0 /\ (j + 1 = 1 => j = 0) /\ (j + 1 > 1 => j # 0)
      BY <1>0, SMTT(30)
    <2>1. PICK b \in Nat, c \in Nat :
             /\ p <= b /\ b <= c /\ c <= E!Size(n) /\ b - p < k
             /\ Upto(j) = E!Span(n, p, c)
             /\ j = 0 => c = p
             /\ j # 0 => b < c /\ wire[j] = E!Piece(n, b, c)
             /\ j = 1 => b = p
             /\ j > 1 => p < b
      BY <1>2, Zenon DEF Reached
    <2>a. p <= c /\ c <= E!Size(n) /\ (j = 0 => c = p) /\ (j # 0 => p < c)
      BY <1>0, <2>1, SMTT(30)
    <2>2. c - p < k
      <3>1. CASE j # 0
        <4>1. Len(E!Span(n, p, c)) = c - p
          BY <1>0, <2>a, SpanEmpty, SMTT(30)
        <4> QED
          BY <2>0, <2>1, <3>1, <4>1, Zenon DEF StopsAt
      <3> QED
        BY <2>1, <3>1
    <2>3. E!From(wire[j + 1]) = <<n, c>>
      <3>1. CASE j = 0
        BY <2>1, <3>1, SMTT(30) DEF E!Stretch
      <3>2. CASE j # 0
        <4>1. E!To(wire[j]) = E!After(n, c)
          BY <2>1, <3>2, PieceFacts, ZenonT(40)
        <4> QED
          BY <1>0, <2>0, <2>1, <2>2, <3>2, <4>1, SMTT(30) DEF E!Stretch, E!After
      <3> QED
        BY <3>1, <3>2, Zenon
    <2>4. PICK m \in DOMAIN msgs, a \in Nat, d \in Nat :
             /\ a < d /\ d <= E!Size(m) /\ wire[j + 1] = E!Piece(m, a, d)
             /\ E!From(wire[j + 1]) = <<m, a>> /\ wire[j + 1].data = E!Span(m, a, d)
      BY <1>0, <2>0, PieceOf, SMTT(30)
    <2>5. m = n /\ a = c
      BY <2>3, <2>4
    <2>6. Upto(j + 1) = E!Span(n, p, d)
      <3>1. c <= d
        BY <2>4, <2>5
      <3>2. p <= c
        BY <2>a, Zenon
      <3>3. E!Span(n, p, c) \o E!Span(n, c, d) = E!Span(n, p, d)
        <4>1. n \in Numbers /\ p \in Nat /\ c \in Nat /\ d \in Nat
          BY <1>0, <2>1, <2>4, Zenon
        <4> QED
          BY <3>1, <3>2, <4>1, SpanJoin, ZenonT(40)
      <3> QED
        BY <2>0, <2>1, <2>4, <2>5, <3>3, UptoUnfolds, Zenon
    <2> QED
      BY <2>0, <2>a, <2>2, <2>4, <2>5, <2>6, SMTT(30) DEF Reached
  <1>3. 0 .. l \subseteq T
    <2> HIDE DEF T
    <2> QED
      BY <1>0, <1>1, <1>2, BoundedInduction, Zenon
  <1> QED
    BY <1>0, <1>3

\* A difference of zero.
LEMMA NoneLeft ==
  ASSUME NEW a \in Nat, NEW b \in Nat, b - a = 0
  PROVE  a = b
  OBVIOUS

\* The elements of a concatenation.
LEMMA Concatenated ==
  ASSUME NEW A, NEW s \in Seq(A), NEW t \in Seq(A)
  PROVE  /\ s \o t \in Seq(A) /\ Len(s \o t) = Len(s) + Len(t)
         /\ \A i \in 1 .. Len(s) + Len(t) :
              (s \o t)[i] = IF i <= Len(s) THEN s[i] ELSE t[i - Len(s)]
  OBVIOUS

\* A sequence with one more element in front.
LEMMA Prepended ==
  ASSUME NEW A, NEW u \in A, NEW s \in Seq(A)
  PROVE  /\ <<u>> \o s \in Seq(A) /\ Len(<<u>> \o s) = Len(s) + 1 /\ (<<u>> \o s)[1] = u
         /\ \A i \in 1 .. Len(s) : (<<u>> \o s)[i + 1] = s[i]
  <1> DEFINE h == <<u>>
  <1>1. h \in Seq(A) /\ Len(h) = 1 /\ h[1] = u
    OBVIOUS
  <1> HIDE DEF h
  <1>2. ASSUME NEW i \in 1 .. Len(s) PROVE (h \o s)[i + 1] = s[i]
    <2>1. i + 1 \in 1 .. Len(h) + Len(s) /\ ~ i + 1 <= Len(h) /\ (i + 1) - Len(h) = i
      BY <1>1
    <2>2. (h \o s)[i + 1] = IF i + 1 <= Len(h) THEN h[i + 1] ELSE s[(i + 1) - Len(h)]
      BY <1>1, <2>1, Concatenated, ZenonT(40)
    <2> QED
      BY <2>1, <2>2, Zenon
  <1> QED
    BY <1>1, <1>2, Concatenated DEF h

\* recvmsg takes the next units of the message, at most k of them, and the descriptors when
\* these are its first units; what is left is the rest of the stretch.
LEMMA Receives ==
  ASSUME E!Framed, MsgsOK, wire \in Seq(Buffers), wire # <<>>,
         NEW n \in DOMAIN msgs, NEW p \in Nat, NEW y, E!Stretch(wire, <<n, p>>, y),
         NEW k \in Nat, 1 <= k, p + k <= E!Size(n)
  PROVE  \E q \in Nat : /\ p < q /\ q <= p + k
                        /\ E!RecvWithFds(k).data = E!Span(n, p, q)
                        /\ E!RecvWithFds(k).fds = E!FilesAt(n, p)
                        /\ E!RecvWithFds(k).wire \in Seq(Buffers)
                        /\ E!Stretch(E!RecvWithFds(k).wire, E!After(n, q), y)
  <1>1. PICK l \in 1 .. Len(wire) : StopsAt(k, l) /\ E!RecvWithFds(k) = Taken(k, l)
    BY RecvStops, Zenon
  <1>0. /\ l \in Nat /\ Len(wire) \in Nat /\ l <= Len(wire) /\ 1 <= l /\ DOMAIN wire = 1 .. Len(wire)
        /\ n \in Numbers /\ n \in Nat /\ E!Size(n) \in Nat
    BY MessageFacts, SMTT(30)
  <1>2. PICK b \in Nat, c \in Nat :
           /\ p <= b /\ b < c /\ c <= E!Size(n) /\ b - p < k
           /\ Upto(l) = E!Span(n, p, c) /\ wire[l] = E!Piece(n, b, c)
           /\ l = 1 => b = p
           /\ l > 1 => p < b
    BY <1>0, <1>1, UptoIsSpan, SMTT(30) DEF Reached
  <1>3. Len(E!Span(n, p, c)) = c - p
    <2>1. p <= c
      BY <1>2
    <2> QED
      BY <1>0, <2>1, SpanEmpty, Zenon
  <1> DEFINE q == IF c - p < k THEN c ELSE p + k
             left == E!Span(n, q, c)
             rest == SubSeq(wire, l + 1, Len(wire))
             first == IF left = <<>> THEN <<>> ELSE <<[data |-> left, fds |-> 0]>>
  <1>4. q \in Nat /\ p < q /\ q <= p + k /\ b < q /\ q <= c /\ p <= q /\ q # 0
    BY <1>2, SMTT(30)
  <1>5. (IF c - p < k THEN c - p ELSE k) = q - p
    BY <1>2
  <1> HIDE DEF q
  <1>6. SubSeq(E!Span(n, p, c), 1, q - p) = E!Span(n, p, q)
    BY <1>0, <1>4, SpanFront, Zenon
  <1>7. SubSeq(E!Span(n, p, c), (q - p) + 1, c - p) = left
    <2>1. HasEnd(n, p, q, c)
      BY <1>0, <1>4, SpanBack, Zenon
    <2> QED
      BY <2>1, Zenon DEF HasEnd
  <1>8. E!RecvWithFds(k) = [data |-> E!Span(n, p, q), fds |-> wire[l].fds, wire |-> first \o rest]
    BY <1>1, <1>2, <1>3, <1>5, <1>6, <1>7, Zenon DEF Taken
  <1>9. wire[l].fds = E!FilesAt(n, p)
    <2>1. wire[l].fds = E!FilesAt(n, b)
      BY <1>2, PieceFacts, ZenonT(40)
    <2>2. CASE l > 1
      <3>1. wire[1].fds = 0
        <4>1. 1 \in 1 .. l - 1
          BY <1>0, <2>2, SMTT(30)
        <4> QED
          BY <1>1, <4>1, Zenon DEF StopsAt
      <3>2. wire[1].fds = E!FilesAt(n, p)
        <4>1. E!From(wire[1]) = <<n, p>> /\ 1 \in DOMAIN wire
          BY <1>0 DEF E!Stretch
        <4>2. PICK m \in DOMAIN msgs, a \in Nat : E!From(wire[1]) = <<m, a>> /\ wire[1].fds = E!FilesAt(m, a)
          BY <4>1, PieceOf, ZenonT(40)
        <4> QED
          BY <4>1, <4>2, SMTT(30)
      <3> QED
        BY <1>2, <2>1, <2>2, <3>1, <3>2, FilesAtFacts, SMTT(30)
    <2> QED
      BY <1>0, <1>2, <2>1, <2>2, SMTT(30)
  <1>10. /\ rest \in Seq(Buffers) /\ Len(rest) = Len(wire) - l
         /\ \A i \in 1 .. Len(wire) - l : rest[i] = wire[l + i]
    <2>1. l \in 0 .. Len(wire)
      BY <1>0
    <2> QED
      BY <2>1, EndOf, Zenon
  <1>11. E!To(wire[l]) = E!After(n, c)
    BY <1>2, PieceFacts, ZenonT(40)
  <1>12. E!Stretch(rest, E!After(n, c), y)
    <2> HIDE DEF rest
    <2>1. ASSUME NEW i \in DOMAIN rest
          PROVE  \E m \in DOMAIN msgs : \E d \in 1 .. E!Size(m) : \E a \in 0 .. d - 1 :
                    rest[i] = E!Piece(m, a, d)
      <3>1. i \in 1 .. Len(wire) - l /\ l + i \in DOMAIN wire
        BY <1>0, <1>10, <2>1, SMTT(30)
      <3> QED
        BY <1>10, <3>1, ZenonT(40) DEF E!Stretch
    <2>2. ASSUME NEW i \in 1 .. Len(rest) - 1 PROVE E!To(rest[i]) = E!From(rest[i + 1])
      <3>1. /\ i \in 1 .. Len(wire) - l /\ i + 1 \in 1 .. Len(wire) - l
            /\ l + i \in 1 .. Len(wire) - 1 /\ l + (i + 1) = (l + i) + 1
        BY <1>0, <1>10, <2>2, SMTT(30)
      <3> QED
        BY <1>10, <3>1, Zenon DEF E!Stretch
    <2>3. CASE rest = <<>>
      BY <1>0, <1>10, <1>11, <2>1, <2>2, <2>3, NoneLeft, Zenon DEF E!Stretch
    <2>4. CASE rest # <<>>
      <3>1. /\ 1 \in 1 .. Len(wire) - l /\ Len(wire) - l \in 1 .. Len(wire) - l
            /\ l + (Len(wire) - l) = Len(wire) /\ l \in 1 .. Len(wire) - 1
        BY <1>0, <1>10, <2>4, SMTT(30)
      <3> QED
        BY <1>10, <1>11, <2>1, <2>2, <2>4, <3>1, Zenon DEF E!Stretch
    <2> QED
      BY <2>3, <2>4, Zenon
  <1>13. first \o rest \in Seq(Buffers) /\ E!Stretch(first \o rest, E!After(n, q), y)
    <2> HIDE DEF rest
    <2>1. CASE q = c
      <3>1. <<>> \o rest = rest
        BY <1>10
      <3> QED
        BY <1>4, <1>10, <1>12, <2>1, <3>1, NoSpan, Zenon
    <2>2. CASE q # c
      <3> DEFINE u == E!Piece(n, q, c)
      <3>1. q < c
        BY <1>4, <2>2, SMTT(30)
      <3>2. E!FilesAt(n, q) = 0
        BY <1>4, FilesAtFacts, Zenon
      <3>3. first = <<u>>
        BY <1>0, <1>4, <3>1, <3>2, SpanEmpty, SMTT(30) DEF E!Piece
      <3>4. /\ u \in Buffers /\ E!From(u) = <<n, q>> /\ E!To(u) = E!After(n, c)
        BY <1>4, <3>1, PieceFacts, Zenon
      <3>5. E!After(n, q) = <<n, q>>
        BY <1>0, <1>2, <1>4, <3>1, SMTT(30) DEF E!After
      <3>6. \E m \in DOMAIN msgs : \E d \in 1 .. E!Size(m) : \E a \in 0 .. d - 1 : u = E!Piece(m, a, d)
        BY <1>0, <1>2, <1>4, <3>1, SMTT(30)
      <3> HIDE DEF u, first
      <3> DEFINE w == <<u>> \o rest
      <3>7. /\ w \in Seq(Buffers) /\ Len(w) = Len(rest) + 1 /\ w[1] = u
            /\ \A i \in 1 .. Len(rest) : w[i + 1] = rest[i]
        <4>1. u \in Buffers /\ rest \in Seq(Buffers)
          BY <1>10, <3>4, Zenon
        <4> QED
          BY <4>1, Prepended, SMTT(30)
      <3>8. Len(rest) \in Nat /\ DOMAIN rest = 1 .. Len(rest) /\ DOMAIN w = 1 .. Len(rest) + 1 /\ w # <<>>
        BY <1>10, <3>7, SMTT(30)
      <3> HIDE DEF w
      <3>9. ASSUME NEW i \in DOMAIN w
             PROVE  \E m \in DOMAIN msgs : \E d \in 1 .. E!Size(m) : \E a \in 0 .. d - 1 :
                       w[i] = E!Piece(m, a, d)
        <4>1. CASE i # 1
          <5>1. PICK h \in DOMAIN rest : i = h + 1
            <6>1. i - 1 \in 1 .. Len(rest) /\ i = (i - 1) + 1
              BY <3>8, <4>1, SMTT(30)
            <6> QED
              BY <3>8, <6>1, Zenon
          <5> QED
            BY <1>12, <3>7, <3>8, <5>1, Zenon DEF E!Stretch
        <4> QED
          BY <3>6, <3>7, <4>1, Zenon
      <3>10. ASSUME NEW i \in 1 .. Len(w) - 1 PROVE E!To(w[i]) = E!From(w[i + 1])
        <4>1. CASE i = 1
          BY <1>12, <3>4, <3>7, <3>8, <4>1, SMTT(30) DEF E!Stretch
        <4>2. CASE i # 1
          <5>1. PICK h \in 1 .. Len(rest) - 1 : i = h + 1
            BY <3>7, <3>8, <4>2, SMTT(30)
          <5>2. w[i] = rest[h] /\ w[i + 1] = rest[h + 1]
            BY <3>7, <3>8, <5>1, SMTT(30)
          <5> QED
            BY <1>12, <5>2, Zenon DEF E!Stretch
        <4> QED
          BY <4>1, <4>2, Zenon
      <3>11. E!To(w[Len(w)]) = y
        <4>1. CASE rest = <<>>
          BY <1>12, <3>4, <3>7, <4>1, SMTT(30) DEF E!Stretch
        <4>2. CASE rest # <<>>
          <5>1. Len(rest) \in 1 .. Len(rest)
            BY <1>10, <3>8, <4>2, SMTT(30)
          <5> QED
            BY <1>12, <3>7, <4>2, <5>1, Zenon DEF E!Stretch
        <4> QED
          BY <4>1, <4>2, Zenon
      <3> QED
        BY <3>3, <3>4, <3>5, <3>7, <3>8, <3>9, <3>10, <3>11, Zenon DEF w, E!Stretch
    <2> QED
      BY <2>1, <2>2, Zenon
  <1>14. /\ E!RecvWithFds(k).data = E!Span(n, p, q) /\ E!RecvWithFds(k).fds = E!FilesAt(n, p)
         /\ E!RecvWithFds(k).wire = first \o rest
    <2> HIDE DEF first, rest
    <2> QED
      BY <1>8, <1>9, SMTT(30)
  <1> QED
    BY <1>4, <1>13, <1>14, Zenon
-------------------------------------------------------------------------------
(* The invariant *)

IInv == E!TypeOK /\ E!StreamInv /\ E!AcceptedAsSent

\* The types of the parts, one by one.
LEMMA Types ==
  ASSUME E!Framed, IInv
  PROVE  /\ MsgsOK /\ wire \in Seq(Buffers) /\ buf \in Seq(E!Unit) /\ Len(buf) \in Nat
         /\ Len(accepted) \in Nat /\ Len(msgs) \in Nat /\ done \in Nat
         /\ DOMAIN msgs = 1 .. Len(msgs) /\ DOMAIN accepted = 1 .. Len(accepted)
         /\ HdrLen \in Nat /\ 0 < HdrLen /\ ReplyLen \in Nat /\ MaxMsgs \in Nat
  <1>1. buf \in Seq(E!Unit) /\ done \in Nat
    BY Zenon DEF IInv, E!TypeOK
  <1>2. Len(accepted) \in Nat /\ DOMAIN accepted = 1 .. Len(accepted)
    <2> DEFINE A == [units : Seq(E!Unit), fds : 0 .. MaxMsgs]
    <2> HIDE DEF A
    <2> QED
      BY DEF IInv, E!TypeOK
  <1> QED
    BY <1>1, <1>2 DEF E!Framed, IInv, E!TypeOK, Buffers, MsgsOK, E!StreamInv, E!SenderInv

\* What was sent stays what it was.
Grown == \A n \in DOMAIN msgs : n \in DOMAIN msgs' /\ msgs'[n] = msgs[n]

\* What is said of a message that was sent stays true.
LEMMA MessageKept ==
  ASSUME Grown, NEW n \in DOMAIN msgs, NEW a, NEW b
  PROVE  /\ n \in DOMAIN msgs' /\ E!Size(n)' = E!Size(n) /\ E!FilesAt(n, a)' = E!FilesAt(n, a)
         /\ E!Piece(n, a, b)' = E!Piece(n, a, b) /\ E!After(n, a)' = E!After(n, a)
  <1>1. n \in DOMAIN msgs' /\ msgs'[n] = msgs[n]
    BY Zenon DEF Grown
  <1> QED
    BY <1>1, Zenon DEF E!Piece, E!Span, E!FilesAt, E!After, E!Size

\* A stretch of the messages that were sent stays one.
LEMMA StretchKept ==
  ASSUME E!Framed, MsgsOK, Grown, NEW w \in Seq(Buffers), NEW x, NEW y, E!Stretch(w, x, y),
         wire' = w, E!ReadTo' = x, E!SentTo' = y
  PROVE  E!Stretch(wire, E!ReadTo, E!SentTo)'
  <1>1. ASSUME NEW j \in DOMAIN w
        PROVE  \E n \in DOMAIN msgs' : \E b \in 1 .. E!Size(n)' : \E a \in 0 .. b - 1 :
                  w[j] = E!Piece(n, a, b)'
    <2>1. PICK n \in DOMAIN msgs : \E b \in 1 .. E!Size(n) : \E a \in 0 .. b - 1 : w[j] = E!Piece(n, a, b)
      BY Zenon DEF E!Stretch
    <2>2. PICK b \in 1 .. E!Size(n) : \E a \in 0 .. b - 1 : w[j] = E!Piece(n, a, b)
      BY <2>1, Zenon
    <2>3. PICK a \in 0 .. b - 1 : w[j] = E!Piece(n, a, b)
      BY <2>2, Zenon
    <2> QED
      BY <2>3, MessageKept, Zenon
  <1>2. ASSUME NEW j \in DOMAIN w PROVE E!To(w[j])' = E!To(w[j])
    <2>1. PICK n \in DOMAIN msgs, a \in Nat, b \in Nat :
             a < b /\ E!From(w[j]) = <<n, a>> /\ E!To(w[j]) = E!After(n, b) /\ w[j].data = E!Span(n, a, b)
      BY PieceOf, Zenon
    <2> DEFINE d == w[j].data
    <2> QED
      BY <2>1, MessageKept, Zenon DEF E!To, E!From
  <1>3. \A j \in 1 .. Len(w) - 1 : E!To(w[j])' = E!From(w[j + 1])'
    <2>1. ASSUME NEW j \in 1 .. Len(w) - 1 PROVE E!To(w[j])' = E!From(w[j + 1])'
      BY <1>2, SMTT(30) DEF E!Stretch, E!From
    <2> QED
      BY <2>1, Zenon
  <1>4. IF w = <<>> THEN x = y ELSE E!From(w[1])' = x /\ E!To(w[Len(w)])' = y
    <2>1. CASE w # <<>>
      BY <1>2, <2>1, SMTT(30) DEF E!Stretch, E!From
    <2> QED
      BY <2>1, Zenon DEF E!Stretch
  <1> QED
    BY <1>1, <1>3, <1>4, Zenon DEF E!Stretch

\* Where the receiver is, between two units of a message and after its last.
LEMMA AfterFacts ==
  ASSUME E!Framed, MsgsOK, NEW n
  PROVE  /\ \A a : n \in DOMAIN msgs /\ a # E!Size(n) => E!After(n, a) = <<n, a>>
         /\ n \in DOMAIN msgs => E!After(n, E!Size(n)) = <<n + 1, 0>>
         /\ \A a : n \notin DOMAIN msgs => E!After(n, a) = <<n, a>>
         /\ E!After(n, 0) = <<n, 0>>
  <1> QED
    BY MessageFacts DEF E!After

\* A sendmsg adds a buffer at the end of the stretch.
LEMMA StretchSent ==
  ASSUME E!Framed, MsgsOK, NEW w \in Seq(Buffers), NEW x, NEW n \in DOMAIN msgs, NEW a \in Nat,
         NEW b \in Nat, a < b, b <= E!Size(n), E!Stretch(w, x, <<n, a>>)
  PROVE  /\ Append(w, E!Piece(n, a, b)) \in Seq(Buffers)
         /\ E!Stretch(Append(w, E!Piece(n, a, b)), x, E!After(n, b))
  <1> DEFINE u == E!Piece(n, a, b)
             v == Append(w, u)
  <1>1. u \in Buffers /\ E!From(u) = <<n, a>> /\ E!To(u) = E!After(n, b)
    BY PieceFacts, Zenon
  <1>2. \E m \in DOMAIN msgs : \E d \in 1 .. E!Size(m) : \E c \in 0 .. d - 1 : u = E!Piece(m, c, d)
    BY MessageFacts, SMTT(30)
  <1> HIDE DEF u
  <1>3. /\ v \in Seq(Buffers) /\ Len(v) = Len(w) + 1 /\ v[Len(w) + 1] = u /\ Len(w) \in Nat
        /\ \A i \in 1 .. Len(w) : v[i] = w[i]
    BY <1>1, SMTT(30)
  <1>4. DOMAIN v = 1 .. Len(w) + 1 /\ DOMAIN w = 1 .. Len(w) /\ v # <<>>
    BY <1>3
  <1>e. w = <<>> <=> Len(w) = 0
    OBVIOUS
  <1> HIDE DEF v
  <1>5. ASSUME NEW i \in DOMAIN v
        PROVE  \E m \in DOMAIN msgs : \E d \in 1 .. E!Size(m) : \E c \in 0 .. d - 1 : v[i] = E!Piece(m, c, d)
    <2>1. CASE i # Len(w) + 1
      BY <1>3, <1>4, <2>1, SMTT(30) DEF E!Stretch
    <2> QED
      BY <1>2, <1>3, <2>1, Zenon
  <1>6. ASSUME NEW i \in 1 .. Len(v) - 1 PROVE E!To(v[i]) = E!From(v[i + 1])
    <2>1. CASE i = Len(w)
      BY <1>e, <1>1, <1>3, <2>1, SMTT(30) DEF E!Stretch
    <2>2. CASE i # Len(w)
      <3>1. i \in 1 .. Len(w) - 1 /\ i \in 1 .. Len(w) /\ i + 1 \in 1 .. Len(w)
        BY <1>3, <2>2, SMTT(30)
      <3> QED
        BY <1>3, <3>1, Zenon DEF E!Stretch
    <2> QED
      BY <2>1, <2>2, Zenon
  <1>7. E!From(v[1]) = x
    <2>1. CASE w = <<>>
      BY <1>e, <1>1, <1>3, <2>1, SMTT(30) DEF E!Stretch
    <2>2. CASE w # <<>>
      BY <1>e, <1>3, <2>2, SMTT(30) DEF E!Stretch
    <2> QED
      BY <2>1, <2>2, Zenon
  <1> QED
    BY <1>1, <1>3, <1>4, <1>5, <1>6, <1>7, Zenon DEF v, u, E!Stretch

\* What was accepted stays what was sent.
LEMMA AcceptedKept ==
  ASSUME E!Framed, IInv, Grown, MsgsOK', accepted' = accepted
  PROVE  E!AcceptedAsSent'
  <1>1. ASSUME NEW n \in DOMAIN accepted
        PROVE  /\ n <= Len(msgs')
               /\ accepted[n] = [units |-> E!Concat(E!Iovs(n, msgs'[n].len)),
                                 fds |-> IF msgs'[n].file THEN n ELSE 0]
    <2>1. /\ n <= Len(msgs)
          /\ accepted[n] = [units |-> E!Concat(E!Iovs(n, msgs[n].len)),
                            fds |-> IF msgs[n].file THEN n ELSE 0]
      BY Zenon DEF IInv, E!AcceptedAsSent
    <2> QED
      BY <2>1, Types, SMTT(30) DEF MsgsOK, Grown
  <1> QED
    BY <1>1, Zenon DEF E!AcceptedAsSent, E!Concat, E!Iovs
-------------------------------------------------------------------------------
(* The sender *)

\* A message that begins changes nothing about those before it.
LEMMA BeginSendKeeps ==
  ASSUME E!Framed, IInv, NEW len \in BodyLens, NEW file \in BOOLEAN, E!BeginSend(len, file)
  PROVE  IInv'
  <1> DEFINE m == [len |-> len, file |-> file]
             R == [len : BodyLens, file : BOOLEAN]
  <1>p. PICK N \in Nat : N = Len(msgs)
    BY Types, Zenon
  <1>0. /\ MsgsOK /\ wire \in Seq(Buffers) /\ buf \in Seq(E!Unit) /\ Len(buf) \in Nat
        /\ Len(accepted) \in Nat /\ N = Len(msgs) /\ done \in Nat
        /\ DOMAIN msgs = 1 .. N /\ DOMAIN accepted = 1 .. Len(accepted)
        /\ HdrLen \in Nat /\ 0 < HdrLen /\ ReplyLen \in Nat /\ MaxMsgs \in Nat
    BY <1>p, Types, Zenon
  <1>1. /\ sender = "idle" /\ N < MaxMsgs /\ (len = ReplyLen \/ mode = "request")
        /\ msgs' = Append(msgs, m) /\ done' = 0 /\ sender' = "sending"
        /\ UNCHANGED <<mode, wire, E!rx>>
    BY <1>p, Zenon DEF E!BeginSend
  <1>u. /\ mode' = mode /\ wire' = wire /\ phase' = phase /\ buf' = buf /\ files' = files
        /\ header' = header /\ outcome' = outcome /\ accepted' = accepted
    BY <1>1, Zenon DEF E!rx
  <1>2. m \in R
    BY Zenon
  <1>3. /\ msgs' \in Seq(R) /\ Len(msgs') = N + 1 /\ msgs'[N + 1] = m
        /\ \A i \in 1 .. N : msgs'[i] = msgs[i]
    <2>1. msgs \in Seq(R)
      BY <1>0, Zenon DEF MsgsOK
    <2> HIDE DEF m, R
    <2> QED
      BY <1>0, <1>1, <1>2, <2>1, SMTT(30)
  <1>4. DOMAIN msgs' = 1 .. N + 1 /\ msgs' # <<>>
    BY <1>0, <1>3, SMTT(30)
  <1>5. Grown
    BY <1>0, <1>3, <1>4, SMTT(30) DEF Grown
  <1>6. E!Size(N + 1)' = HdrLen + len /\ len \in Nat
    BY <1>3 DEF E!Size, E!Framed
  <1>7. E!TypeOK'
    BY <1>u, <1>1, <1>3, Zenon DEF IInv, E!TypeOK
  <1>8. E!SenderInv'
    <2>1. ASSUME mode = "reply", NEW n \in DOMAIN msgs' PROVE msgs'[n].len = ReplyLen
      <3>1. CASE n = N + 1
        BY <1>1, <1>3, <2>1, <3>1, SMTT(30)
      <3>2. CASE n # N + 1
        <4>1. n \in DOMAIN msgs /\ msgs'[n] = msgs[n]
          BY <1>0, <1>3, <1>4, <3>2, SMTT(30)
        <4> QED
          BY <2>1, <4>1, Zenon DEF IInv, E!StreamInv, E!SenderInv
      <3> QED
        BY <3>1, <3>2, Zenon
    <2>2. done' < E!Size(Len(msgs))' /\ done' <= E!Size(Len(msgs))' /\ sender' # "idle"
      BY <1>0, <1>1, <1>3, <1>6, SMTT(30) DEF E!Size
    <2> QED
      BY <1>0, <1>u, <1>1, <1>3, <1>4, <2>1, <2>2, SMTT(30) DEF E!SenderInv
  <1>9. E!SentTo' = E!SentTo
    <2>1. E!After(N + 1, 0)' = <<N + 1, 0>>
      BY <1>0, <1>6, SMTT(30) DEF E!After
    <2>2. E!SentTo = <<N + 1, 0>>
      <3>1. CASE msgs # <<>>
        BY <1>0, <1>1, <3>1, AfterFacts, SMTT(30) DEF E!SentTo, IInv, E!StreamInv, E!SenderInv
      <3> QED
        BY <1>0, <3>1, SMTT(30) DEF E!SentTo
    <2> QED
      BY <1>1, <1>3, <1>4, <2>1, <2>2, Zenon DEF E!SentTo, E!After
  <1>10. ASSUME phase' # "ended"
         PROVE  E!Stretch(wire, E!ReadTo, E!SentTo)' /\ E!ReceiverInv'
    <2>p. PICK n \in Nat : n = Len(accepted) + 1
      BY <1>0
    <2>1. E!Stretch(wire, E!ReadTo, E!SentTo) /\ E!ReceiverInv
      BY <1>u, <1>10, Zenon DEF IInv, E!StreamInv
    <2>2. E!ReadTo' = E!ReadTo
      <3>1. CASE n \notin DOMAIN msgs
        <4>1. Len(buf) = 0
          BY <2>p, <2>1, <3>1, SMTT(30) DEF E!ReceiverInv
        <4>2. E!ReadTo' = <<n, 0>>
          BY <1>0, <1>u, <1>4, <1>6, <2>p, <3>1, <4>1, SMTT(30) DEF E!ReadTo, E!After, E!Size
        <4> QED
          BY <1>0, <2>p, <4>1, <4>2, AfterFacts, Zenon DEF E!ReadTo
      <3> QED
        BY <1>0, <1>u, <1>5, <2>p, <3>1, MessageKept, Zenon DEF E!ReadTo
    <2>3. E!ReceiverInv'
      <3>1. CASE n \in DOMAIN msgs
        BY <1>u, <1>5, <2>p, <2>1, <3>1, Zenon DEF E!ReceiverInv, E!Size, E!FilesAt, E!Span, Grown
      <3>2. CASE n \notin DOMAIN msgs
        <4>1. buf = <<>> /\ phase \notin {"body", "handle", "gotReply"}
          BY <1>0, <2>1, <2>p, <3>2, SMTT(30) DEF E!ReceiverInv
        <4> QED
          BY <1>u, <2>1, <2>p, <4>1, Zenon DEF E!ReceiverInv, E!Size, E!FilesAt, E!Span
      <3> QED
        BY <3>1, <3>2, Zenon
    <2> QED
      BY <1>0, <1>u, <1>5, <1>9, <2>1, <2>2, <2>3, StretchKept, Zenon
  <1> QED
    BY <1>0, <1>u, <1>1, <1>3, <1>5, <1>7, <1>8, <1>10, AcceptedKept, SMTT(30) DEF IInv, E!StreamInv, MsgsOK

\* A sendmsg puts the next units of the message on the stream, the descriptors with its
\* first unit.
LEMMA SendKeeps ==
  ASSUME E!Framed, IInv, NEW k, E!send_iovec_all(k)
  PROVE  IInv'
  <1>p. PICK N \in Nat : N = Len(msgs)
    BY Types, Zenon
  <1>q. PICK d \in Nat : d = done
    BY Types, Zenon
  <1>0. /\ MsgsOK /\ wire \in Seq(Buffers) /\ DOMAIN msgs = 1 .. N /\ HdrLen \in Nat
    BY <1>p, Types, Zenon
  <1>1. /\ sender = "sending" /\ phase # "ended"
        /\ k \in 1 .. Len(E!Rest(E!Iovs(N, msgs[N].len), d))
        /\ wire' = Append(wire, [data |-> SubSeq(E!Rest(E!Iovs(N, msgs[N].len), d), 1, k),
                                 fds |-> IF msgs[N].file THEN E!SendFds(N, d) ELSE 0])
        /\ done' = d + k
        /\ sender' = IF d + k >= HdrLen + msgs[N].len THEN "idle" ELSE "sending"
        /\ UNCHANGED <<mode, msgs, E!rx>>
    BY <1>p, <1>q, Zenon DEF E!send_iovec_all
  <1>u. /\ mode' = mode /\ msgs' = msgs /\ phase' = phase /\ buf' = buf /\ files' = files
        /\ header' = header /\ outcome' = outcome /\ accepted' = accepted
    BY <1>1, Zenon DEF E!rx
  <1>2. /\ N \in DOMAIN msgs /\ msgs # <<>> /\ d < E!Size(N)
    BY <1>0, <1>1, <1>p, <1>q, SMTT(30) DEF IInv, E!StreamInv, E!SenderInv
  <1>3. N \in Numbers /\ msgs[N].len \in Nat /\ E!Size(N) \in Nat /\ E!Size(N) = HdrLen + msgs[N].len
    BY <1>0, <1>2, MessageFacts, Zenon
  <1>4. E!Rest(E!Iovs(N, msgs[N].len), d) = E!Span(N, d, E!Size(N))
    <2>1. d \in 0 .. HdrLen + msgs[N].len - 1
      BY <1>0, <1>2, <1>3, SMTT(30)
    <2> QED
      BY <1>3, <2>1, RestIsSpan, Zenon
  <1>5. k \in Nat /\ d < d + k /\ d + k \in Nat /\ d + k <= E!Size(N) /\ (d + k) - d = k
    <2>1. Len(E!Span(N, d, E!Size(N))) = E!Size(N) - d
      <3>1. d <= E!Size(N) /\ d \in Nat /\ E!Size(N) \in Nat /\ N \in Numbers
        BY <1>2, <1>3, <1>q, SMTT(30)
      <3> QED
        BY <3>1, SpanEmpty, Zenon
    <2> QED
      BY <1>1, <1>2, <1>3, <1>4, <2>1, SMTT(30)
  <1>6. SubSeq(E!Span(N, d, E!Size(N)), 1, k) = E!Span(N, d, d + k)
    <2>1. SubSeq(E!Span(N, d, E!Size(N)), 1, (d + k) - d) = E!Span(N, d, d + k)
      <3>1. d \in Nat /\ N \in Numbers /\ E!Size(N) \in Nat
        BY <1>3, <1>q, Zenon
      <3>2. \A e \in Nat : d <= e /\ e <= E!Size(N) =>
                SubSeq(E!Span(N, d, E!Size(N)), 1, e - d) = E!Span(N, d, e)
        BY <3>1, SpanFront, Zenon
      <3> QED
        BY <1>5, <3>2, SMTT(30)
    <2> QED
      BY <1>5, <2>1, Zenon
  <1>7. wire' = Append(wire, E!Piece(N, d, d + k))
    BY <1>1, <1>4, <1>6, Zenon DEF E!Piece, E!SendFds, E!FilesAt
  <1>8. E!SentTo = <<N, d>>
    BY <1>p, <1>q, <1>2, <1>3, SMTT(30) DEF E!After, E!SentTo
  <1>9. wire' \in Seq(Buffers) /\ E!Stretch(wire', E!ReadTo, E!After(N, d + k))
    <2>1. E!Stretch(wire, E!ReadTo, <<N, d>>)
      BY <1>1, <1>8, Zenon DEF IInv, E!StreamInv
    <2> QED
      BY <1>0, <1>2, <1>5, <1>7, <2>1, StretchSent, Zenon
  <1>10. Grown
    BY <1>u, Zenon DEF Grown
  <1>11. E!ReceiverInv'
    BY <1>u, <1>1, Zenon DEF E!ReceiverInv, E!Size, E!Span, E!FilesAt, IInv, E!StreamInv
  <1>12. E!SenderInv'
    <2>1. /\ done' <= E!Size(N) /\ sender' # "closed"
          /\ sender' = "idle" => done' = E!Size(N)
          /\ sender' = "sending" => done' < E!Size(N)
      <3>1. sender' = IF d + k >= E!Size(N) THEN "idle" ELSE "sending"
        BY <1>1, <1>3, Zenon
      <3>2. done' = d + k
        BY <1>1, Zenon
      <3> QED
        BY <1>3, <1>5, <3>1, <3>2, SMTT(30)
    <2> QED
      BY <1>p, <1>u, <1>2, <2>1, Zenon DEF E!SenderInv, E!Size, IInv, E!StreamInv
  <1>13. E!TypeOK'
    BY <1>u, <1>1, <1>5, <1>9, Zenon DEF IInv, E!TypeOK, Buffers
  <1>14. E!AcceptedAsSent'
    BY <1>0, <1>u, <1>10, AcceptedKept, Zenon DEF MsgsOK
  <1> QED
    BY <1>0, <1>p, <1>u, <1>1, <1>2, <1>9, <1>10, <1>11, <1>12, <1>13, <1>14, StretchKept, ZenonT(40)
       DEF IInv, E!StreamInv, E!SentTo, E!ReadTo, E!After, E!Size

\* The end of the sender is not an end of the stream before its place.
LEMMA CloseKeeps ==
  ASSUME E!Framed, IInv, E!Close
  PROVE  IInv'
  <1>u. /\ mode' = mode /\ msgs' = msgs /\ phase' = phase /\ buf' = buf /\ files' = files
        /\ header' = header /\ outcome' = outcome /\ accepted' = accepted /\ wire' = wire
        /\ done' = done /\ sender' = "closed" /\ sender # "closed"
    BY Zenon DEF E!Close, E!rx
  <1>1. Grown
    BY <1>u, Zenon DEF Grown
  <1>2. ASSUME phase' # "ended" PROVE E!Stretch(wire, E!ReadTo, E!SentTo)' /\ E!ReceiverInv'
    BY <1>u, <1>1, <1>2, Types, StretchKept, Zenon DEF E!ReceiverInv, E!Size, E!Span, E!FilesAt,
       E!ReadTo, E!SentTo, E!After, IInv, E!StreamInv
  <1>3. E!AcceptedAsSent'
    BY <1>u, <1>1, Types, AcceptedKept, Zenon DEF MsgsOK
  <1> QED
    BY <1>u, <1>2, <1>3, Zenon DEF IInv, E!StreamInv, E!TypeOK, E!SenderInv, E!Size
-------------------------------------------------------------------------------
(* The receiver *)

\* The first q units of a message, and those with the ones before.
LEMMA FirstUnits ==
  ASSUME NEW n \in Numbers, NEW q \in Nat
  PROVE  /\ E!Span(n, 0, q) \in Seq(E!Unit) /\ Len(E!Span(n, 0, q)) = q /\ (q # 0 => E!Span(n, 0, q) # <<>>)
         /\ \A p \in 0 .. q : E!Span(n, 0, p) \o E!Span(n, p, q) = E!Span(n, 0, q)
  <1>1. 0 \in Nat /\ 0 <= q /\ q - 0 = q
    OBVIOUS
  <1>2. ASSUME NEW p \in 0 .. q PROVE E!Span(n, 0, p) \o E!Span(n, p, q) = E!Span(n, 0, q)
    BY <1>1, SpanJoin, SMTT(30)
  <1> QED
    BY <1>1, <1>2, SpanEmpty, ZenonT(40)

\* Where get_sub_iovs_offset puts what comes after so many units.
Place(lens, read) ==
  E!Total(SubSeq(lens, 1, E!get_sub_iovs_offset(lens, read).skipped))
      + E!get_sub_iovs_offset(lens, read).size

\* After them, in one vector and in two.
LEMMA PlaceInOne ==
  ASSUME NEW h \in Nat, NEW b \in 0 .. h - 1
  PROVE  Place(<<h>>, b) = b
  <1> DEFINE o == E!get_sub_iovs_offset(<<h>>, b)
             s == <<h>>
  <1>1. o = [size |-> b, skipped |-> 0]
    BY OffsetInOne, Zenon
  <1>2. o.size = b /\ o.skipped = 0
    BY <1>1
  <1> HIDE DEF o, s
  <1>3. SubSeq(s, 1, o.skipped) = <<>>
    BY <1>2
  <1>t. E!Total(SubSeq(s, 1, o.skipped)) = 0
    BY <1>3, TotalOfFew, Zenon
  <1> QED
    BY <1>t, <1>2 DEF Place, o, s

LEMMA PlaceInTwo ==
  ASSUME NEW h \in Nat, NEW r \in Nat, NEW b \in 0 .. h + r - 1
  PROVE  Place(<<h, r>>, b) = b
  <1> DEFINE o == E!get_sub_iovs_offset(<<h, r>>, b)
             s == <<h, r>>
  <1>1. o = IF b < h THEN [size |-> b, skipped |-> 0] ELSE [size |-> b - h, skipped |-> 1]
    BY OffsetInTwo, Zenon
  <1>2. SubSeq(s, 1, 0) = <<>> /\ SubSeq(s, 1, 1) = <<h>>
    BY TwoVectors, Zenon
  <1>3. E!Total(<<>>) = 0 /\ E!Total(<<h>>) = h
    BY TotalOfFew, Zenon
  <1> HIDE DEF o, s
  <1>4. \/ o.size = b /\ E!Total(SubSeq(s, 1, o.skipped)) = 0
        \/ o.size = b - h /\ E!Total(SubSeq(s, 1, o.skipped)) = h
    BY <1>1, <1>2, <1>3, Zenon
  <1> QED
    BY <1>4 DEF Place, o, s

\* The receiver leaves what was sent, and the sender, alone.
LEMMA SenderStays ==
  ASSUME E!Framed, IInv, mode' = mode, E!tx' = E!tx
  PROVE  /\ msgs' = msgs /\ sender' = sender /\ Grown /\ MsgsOK' /\ E!SenderInv' /\ E!SentTo' = E!SentTo
         /\ \A n : E!Size(n)' = E!Size(n)
         /\ \A n, a : E!FilesAt(n, a)' = E!FilesAt(n, a) /\ E!After(n, a)' = E!After(n, a)
  <1>u. msgs' = msgs /\ done' = done /\ sender' = sender
    BY Zenon DEF E!tx
  <1>1. MsgsOK'
    BY <1>u, Types, Zenon DEF MsgsOK
  <1>2. ASSUME NEW n, NEW a PROVE E!FilesAt(n, a)' = E!FilesAt(n, a) /\ E!After(n, a)' = E!After(n, a)
    BY <1>u, Zenon DEF E!FilesAt, E!After, E!Size
  <1> QED
    BY <1>u, <1>1, <1>2, Zenon DEF Grown, IInv, E!StreamInv, E!SenderInv, E!Size, E!SentTo, E!After

Outcomes == {"none", "PartialMessage", "InvalidMessage", "SocketRetry", "SocketBroken",
             "SocketConnect", "SocketError"}

\* An error ends the receiver, with Disconnected where nothing is left.
LEMMA EndsWell ==
  ASSUME E!Framed, IInv, mode' = mode, E!tx' = E!tx, accepted' = accepted, phase' = "ended",
         wire' \in Seq(Buffers), buf' \in Seq(E!Unit), header' \in Seq(E!Unit), files' \in 0 .. MaxMsgs,
         \/ outcome' \in Outcomes
         \/ outcome' = "Disconnected" /\ sender = "closed" /\ E!SentTo = <<Len(accepted) + 1, 0>>
  PROVE  IInv'
  <1>1. /\ msgs' = msgs /\ sender' = sender /\ done' = done
        /\ Grown /\ MsgsOK' /\ E!SenderInv' /\ E!SentTo' = E!SentTo
    BY SenderStays, Zenon DEF E!tx
  <1>2. E!TypeOK'
    BY <1>1, Zenon DEF IInv, E!TypeOK, Buffers, Outcomes
  <1> QED
    BY <1>1, <1>2, AcceptedKept, Zenon DEF IInv, E!StreamInv, Outcomes

\* The receiver has more of the message it reads.
LEMMA GoesOn ==
  ASSUME E!Framed, IInv, phase # "ended", mode' = mode, E!tx' = E!tx, accepted' = accepted,
         outcome' = outcome, NEW n \in DOMAIN msgs, n = Len(accepted) + 1, NEW q \in Nat,
         0 < q, q <= E!Size(n),
         buf' = E!Span(n, 0, q), files' = E!FilesAt(n, 0), header' \in Seq(E!Unit),
         wire' \in Seq(Buffers), E!Stretch(wire', E!After(n, q), E!SentTo),
         \/ phase' = "header" /\ mode = "request" /\ q < HdrLen
         \/ phase' = "body" /\ mode = "request" /\ q = HdrLen /\ header' = buf' /\ HdrLen < E!Size(n)
         \/ phase' = "handle" /\ mode = "request" /\ q = E!Size(n)
         \/ phase' = "reply" /\ mode = "reply" /\ q < HdrLen + ReplyLen
         \/ phase' = "gotReply" /\ mode = "reply" /\ q = HdrLen + ReplyLen
  PROVE  IInv'
  <1>1. /\ msgs' = msgs /\ sender' = sender /\ done' = done /\ Grown /\ MsgsOK' /\ E!SenderInv'
        /\ E!SentTo' = E!SentTo /\ E!Size(n)' = E!Size(n) /\ E!FilesAt(n, 0)' = E!FilesAt(n, 0)
        /\ E!After(n, q)' = E!After(n, q)
    BY SenderStays, Zenon DEF E!tx
  <1>0. MsgsOK
    BY Types, Zenon
  <1>2. n \in Numbers /\ E!FilesAt(n, 0) \in 0 .. MaxMsgs
    BY <1>0, MessageFacts, FilesAtFacts, Zenon
  <1>3. buf' \in Seq(E!Unit) /\ Len(buf') = q /\ buf' # <<>>
    BY <1>2, FirstUnits, SMTT(30)
  <1>4. E!TypeOK'
    BY <1>1, <1>2, <1>3, Zenon DEF IInv, E!TypeOK, Buffers
  <1>5. E!ReceiverInv'
    BY <1>1, <1>3, Zenon DEF E!ReceiverInv, E!Span, E!FilesAt, E!Size
  <1> QED
    BY <1>0, <1>1, <1>3, <1>4, <1>5, StretchKept, AcceptedKept, Zenon DEF IInv, E!StreamInv,
       E!ReadTo, E!After, E!Size

\* What a recvmsg brings when the receiver has the first p units of a message.
Brought(n, p, k) ==
  \E q \in Nat : /\ p < q /\ q <= p + k
                 /\ E!RecvWithFds(k).data = E!Span(n, p, q)
                 /\ E!RecvWithFds(k).fds = E!FilesAt(n, p)
                 /\ E!RecvWithFds(k).wire \in Seq(Buffers)
                 /\ E!Stretch(E!RecvWithFds(k).wire, E!After(n, q), E!SentTo)

\* A socket with buffers has units of the message that is read, and recvmsg takes these.
LEMMA Arrives ==
  ASSUME E!Framed, IInv, phase # "ended", wire # <<>>, NEW n, n = Len(accepted) + 1, NEW k \in Nat, 1 <= k,
         n \in DOMAIN msgs => Len(buf) + k <= E!Size(n)
  PROVE  n \in DOMAIN msgs /\ Brought(n, Len(buf), k)
  <1>0. MsgsOK /\ wire \in Seq(Buffers) /\ Len(buf) \in Nat /\ n \in Nat
    BY Types, SMTT(30)
  <1>1. E!Stretch(wire, E!ReadTo, E!SentTo) /\ E!ReceiverInv /\ E!ReadTo = E!After(n, Len(buf))
    BY Zenon DEF IInv, E!StreamInv, E!ReadTo
  <1>2. E!ReadTo = <<n, Len(buf)>>
    BY <1>0, <1>1, MessageFacts, SMTT(30) DEF E!After
  <1>3. n \in DOMAIN msgs
    <2>1. PICK m \in DOMAIN msgs, a \in Nat : E!From(wire[1]) = <<m, a>>
      BY <1>0, <1>1, PieceOf, SMTT(30)
    <2> QED
      BY <1>1, <1>2, <2>1, SMTT(30) DEF E!Stretch
  <1>4. Brought(n, Len(buf), k)
    BY <1>0, <1>1, <1>2, <1>3, Receives, Zenon DEF Brought
  <1> QED
    BY <1>3, <1>4, Zenon

\* A turn of recv_into_iovec_all for vectors with room for t units in all, of which the
\* receiver has fewer: it has more of the same message after it.
LEMMA RecvTurn ==
  ASSUME E!Framed, IInv, phase # "ended", NEW n, n = Len(accepted) + 1, NEW lens, NEW t \in Nat,
         Len(buf) < t, n \in DOMAIN msgs => t <= E!Size(n), E!recv_into_iovec_all(lens),
         E!Total(lens) = t, Place(lens, Len(buf)) = Len(buf)
  PROVE  /\ n \in DOMAIN msgs
         /\ \E q \in Nat : /\ 0 < q /\ q <= t
                           /\ buf' = E!Span(n, 0, q) /\ files' = E!FilesAt(n, 0)
                           /\ wire' \in Seq(Buffers) /\ E!Stretch(wire', E!After(n, q), E!SentTo)
  <1>p. PICK p \in Nat : p = Len(buf)
    BY Types, Zenon
  <1>0. MsgsOK /\ buf \in Seq(E!Unit) /\ p < t /\ t - p \in Nat /\ 1 <= t - p /\ p + (t - p) = t
    BY <1>p, Types, SMTT(30)
  <1>1. /\ wire # <<>>
        /\ buf' = SubSeq(buf, 1, p) \o E!RecvWithFds(t - p).data
        /\ files' = E!KeepFiles(p, E!RecvWithFds(t - p).fds)
        /\ wire' = E!RecvWithFds(t - p).wire
    BY <1>p, Zenon DEF E!recv_into_iovec_all, Place
  <1>2. n \in DOMAIN msgs /\ Brought(n, p, t - p)
    BY <1>0, <1>1, <1>p, Arrives, Zenon
  <1>3. PICK q \in Nat : /\ p < q /\ q <= p + (t - p)
                         /\ E!RecvWithFds(t - p).data = E!Span(n, p, q)
                         /\ E!RecvWithFds(t - p).fds = E!FilesAt(n, p)
                         /\ E!RecvWithFds(t - p).wire \in Seq(Buffers)
                         /\ E!Stretch(E!RecvWithFds(t - p).wire, E!After(n, q), E!SentTo)
    BY <1>2, Zenon DEF Brought
  <1>4. 0 < q /\ q <= t /\ 0 <= p /\ p <= q
    BY <1>0, <1>3, <1>p, SMTT(30)
  <1>5. buf = E!Span(n, 0, p) /\ files = (IF buf = <<>> THEN 0 ELSE E!FilesAt(n, 0))
    BY <1>p, Zenon DEF IInv, E!StreamInv, E!ReceiverInv
  <1>6. SubSeq(buf, 1, p) = buf
    BY <1>0, <1>p, SMTT(30)
  <1>7. buf' = E!Span(n, 0, q)
    <2>1. E!Span(n, 0, p) \o E!Span(n, p, q) = E!Span(n, 0, q)
      <3>1. p \in 0 .. q /\ q \in Nat
        BY <1>3, <1>4, <1>p, SMTT(30)
      <3> QED
        BY <1>0, <1>2, <3>1, MessageFacts, FirstUnits, ZenonT(40)
    <2> QED
      BY <1>1, <1>3, <1>5, <1>6, <2>1, Zenon
  <1>8. files' = E!FilesAt(n, 0)
    BY <1>p, <1>1, <1>3, <1>5, SMTT(30) DEF E!KeepFiles
  <1> QED
    BY <1>1, <1>2, <1>3, <1>4, <1>7, <1>8, Zenon

\* The first HdrLen units of a message are a header, with the size of its body.
LEMMA HeaderOf ==
  ASSUME E!Framed, MsgsOK, NEW n \in DOMAIN msgs
  PROVE  E!ValidHeader(E!Span(n, 0, HdrLen)) /\ E!SizeOf(E!Span(n, 0, HdrLen)) = msgs[n].len
  <1>0. /\ n \in Numbers /\ n \in 1 .. Len(msgs) /\ HdrLen \in Nat /\ 0 < HdrLen /\ 0 \in Nat
        /\ 0 <= HdrLen /\ HdrLen - 0 = HdrLen /\ 1 \in 1 .. HdrLen
    BY MessageFacts, SMTT(30) DEF E!Framed
  <1>1. E!Iovs(n, 0)[1] = E!Span(n, 0, HdrLen)
    BY <1>0, SMTT(30) DEF E!Iovs, UnitAt, E!Span
  <1> QED
    BY <1>0, <1>1, Zenon DEF E!SizeOf, E!ValidHeader, E!Span

\* recv_header: more of the header; the whole of it; or the end of the stream.
LEMMA RecvHeaderKeeps ==
  ASSUME E!Framed, IInv, E!recv_header
  PROVE  IInv'
  <1>p. PICK n \in Nat : n = Len(accepted) + 1
    BY Types, SMTT(30)
  <1>0. /\ MsgsOK /\ wire \in Seq(Buffers) /\ HdrLen \in Nat /\ 0 < HdrLen /\ Len(buf) \in Nat
        /\ buf \in Seq(E!Unit) /\ header \in Seq(E!Unit) /\ files \in 0 .. MaxMsgs
    BY Types, Zenon DEF IInv, E!TypeOK
  <1>1. phase = "header" /\ phase # "ended" /\ E!ReceiverInv /\ E!Stretch(wire, E!ReadTo, E!SentTo)
    BY Zenon DEF E!recv_header, IInv, E!StreamInv
  <1>2. mode = "request" /\ Len(buf) < HdrLen
    BY <1>1, Zenon DEF E!ReceiverInv
  <1>3. CASE wire = <<>>
    <2>1. sender = "closed" /\ E!End(E!HeaderError(Len(buf)))
      BY <1>3, Zenon DEF E!recv_header
    <2>2. /\ mode' = mode /\ E!tx' = E!tx /\ accepted' = accepted /\ phase' = "ended" /\ wire' = wire
          /\ buf' = buf /\ header' = header /\ files' = files /\ outcome' = E!HeaderError(Len(buf))
      BY <2>1, Zenon DEF E!End
    <2>3. CASE Len(buf) = 0
      <3>1. outcome' = "Disconnected"
        BY <2>2, <2>3, Zenon DEF E!HeaderError
      <3>2. E!SentTo = E!ReadTo
        BY <1>1, <1>3, Zenon DEF E!Stretch
      <3>3. E!ReadTo = <<Len(accepted) + 1, 0>>
        BY <1>0, <2>3, AfterFacts, Zenon DEF E!ReadTo
      <3> QED
        BY <1>0, <2>1, <2>2, <3>1, <3>2, <3>3, EndsWell, ZenonT(40)
    <2>4. CASE Len(buf) # 0
      <3>1. outcome' \in Outcomes
        BY <2>2, <2>4, Zenon DEF E!HeaderError, Outcomes
      <3> QED
        BY <1>0, <2>2, <3>1, EndsWell, Zenon
    <2> QED
      BY <2>3, <2>4, Zenon
  <1>4. CASE wire # <<>>
    <2>1. /\ E!recv_into_iovec_all(<<HdrLen>>) /\ mode' = mode /\ E!tx' = E!tx
          /\ IF Len(buf') < HdrLen
             THEN UNCHANGED <<phase, header, outcome, accepted>>
             ELSE IF ~ E!ValidHeader(buf')
             THEN phase' = "ended" /\ outcome' = "InvalidMessage" /\ UNCHANGED <<header, accepted>>
             ELSE IF E!SizeOf(buf') = 0
             THEN phase' = "handle" /\ header' = buf' /\ UNCHANGED <<outcome, accepted>>
             ELSE phase' = "body" /\ header' = buf' /\ UNCHANGED <<outcome, accepted>>
      BY <1>4, Zenon DEF E!recv_header, E!ValidHeader, E!SizeOf
    <2>2. n \in DOMAIN msgs => HdrLen <= E!Size(n)
      BY <1>0, MessageFacts, Zenon
    <2>3. E!Total(<<HdrLen>>) = HdrLen /\ Place(<<HdrLen>>, Len(buf)) = Len(buf)
      <3>1. Len(buf) \in 0 .. HdrLen - 1
        BY <1>0, <1>2, SMTT(30)
      <3> QED
        BY <1>0, <3>1, TotalOfFew, PlaceInOne, Zenon
    <2>4. /\ n \in DOMAIN msgs
          /\ \E q \in Nat : /\ 0 < q /\ q <= HdrLen
                            /\ buf' = E!Span(n, 0, q) /\ files' = E!FilesAt(n, 0)
                            /\ wire' \in Seq(Buffers) /\ E!Stretch(wire', E!After(n, q), E!SentTo)
      BY <1>0, <1>1, <1>2, <1>p, <2>1, <2>2, <2>3, RecvTurn, ZenonT(40)
    <2>5. PICK q \in Nat : /\ 0 < q /\ q <= HdrLen
                           /\ buf' = E!Span(n, 0, q) /\ files' = E!FilesAt(n, 0)
                           /\ wire' \in Seq(Buffers) /\ E!Stretch(wire', E!After(n, q), E!SentTo)
      BY <2>4, Zenon
    <2>6. n \in Numbers /\ E!Size(n) \in Nat /\ E!Size(n) = HdrLen + msgs[n].len /\ msgs[n].len \in Nat
      BY <1>0, <2>4, MessageFacts, Zenon
    <2>7. Len(buf') = q /\ buf' \in Seq(E!Unit) /\ q <= E!Size(n)
      <3>1. q \in Nat /\ q <= E!Size(n)
        BY <1>0, <2>5, <2>6, SMTT(30)
      <3>2. E!Span(n, 0, q) \in Seq(E!Unit) /\ Len(E!Span(n, 0, q)) = q
        BY <2>6, <3>1, FirstUnits, Zenon
      <3> QED
        BY <2>5, <3>1, <3>2, Zenon
    <2>8. CASE q < HdrLen
      <3>1. phase' = "header" /\ header' \in Seq(E!Unit) /\ outcome' = outcome /\ accepted' = accepted
        BY <1>0, <1>1, <2>1, <2>7, <2>8, ZenonT(40)
      <3> QED
        BY <1>1, <1>2, <1>p, <2>1, <2>4, <2>5, <2>7, <2>8, <3>1, GoesOn, Zenon
    <2>9. CASE ~ q < HdrLen
      <3>1. q = HdrLen
        BY <1>0, <2>5, <2>9, SMTT(30)
      <3>2. buf' = E!Span(n, 0, HdrLen)
        BY <2>5, <3>1, Zenon
      <3>3. E!ValidHeader(buf') /\ E!SizeOf(buf') = msgs[n].len
        BY <1>0, <2>4, <3>2, HeaderOf, ZenonT(40)
      <3>4. ~ Len(buf') < HdrLen
        BY <2>7, <2>9, Zenon
      <3>5. /\ header' = buf' /\ outcome' = outcome /\ accepted' = accepted
            /\ phase' = IF msgs[n].len = 0 THEN "handle" ELSE "body"
        BY <2>1, <3>3, <3>4, Zenon
      <3>6. CASE msgs[n].len = 0
        <4>1. phase' = "handle" /\ q = E!Size(n)
          BY <1>0, <2>6, <3>1, <3>5, <3>6, SMTT(30)
        <4> QED
          BY <1>1, <1>2, <1>p, <2>1, <2>4, <2>5, <2>7, <3>5, <4>1, GoesOn, ZenonT(40)
      <3>7. CASE msgs[n].len # 0
        <4>1. phase' = "body" /\ HdrLen < E!Size(n)
          BY <1>0, <2>6, <3>5, <3>7, SMTT(30)
        <4> QED
          BY <1>1, <1>2, <1>p, <2>1, <2>4, <2>5, <2>7, <3>1, <3>5, <4>1, GoesOn, ZenonT(40)
      <3> QED
        BY <3>6, <3>7, Zenon
    <2> QED
      BY <2>8, <2>9, Zenon
  <1> QED
    BY <1>3, <1>4, Zenon

\* recv_data: one recvmsg brings the whole body, or the receiver ends.
LEMMA RecvDataKeeps ==
  ASSUME E!Framed, IInv, E!recv_data
  PROVE  IInv'
  <1>p. PICK n \in Nat : n = Len(accepted) + 1
    BY Types
  <1>0. /\ MsgsOK /\ wire \in Seq(Buffers) /\ HdrLen \in Nat /\ 0 < HdrLen
        /\ buf \in Seq(E!Unit) /\ header \in Seq(E!Unit) /\ files \in 0 .. MaxMsgs
    BY Types, Zenon DEF IInv, E!TypeOK
  <1>1. phase = "body" /\ phase # "ended" /\ E!ReceiverInv
    BY Zenon DEF E!recv_data, IInv, E!StreamInv
  <1>2. /\ Len(buf) = HdrLen /\ header = buf /\ HdrLen < E!Size(n) /\ buf = E!Span(n, 0, HdrLen)
        /\ n \in DOMAIN msgs /\ files = E!FilesAt(n, 0)
    <2>1. buf # <<>>
      BY <1>0, <1>1, SMTT(30) DEF E!ReceiverInv
    <2> QED
      BY <1>1, <1>p, <2>1, ZenonT(40) DEF E!ReceiverInv
  <1>3. CASE wire = <<>>
    <2>1. E!End("InvalidMessage")
      BY <1>3, Zenon DEF E!recv_data
    <2>2. /\ mode' = mode /\ E!tx' = E!tx /\ accepted' = accepted /\ phase' = "ended" /\ wire' = wire
          /\ buf' = buf /\ header' = header /\ files' = files /\ outcome' \in Outcomes
      BY <2>1, Zenon DEF E!End, Outcomes
    <2> QED
      BY <1>0, <2>2, EndsWell, Zenon
  <1>4. CASE wire # <<>>
    <2>1. PICK k \in Nat : k = msgs[n].len /\ E!Size(n) = HdrLen + k /\ 1 <= k /\ E!SizeOf(header) = k
      <3>1. /\ msgs[n].len \in Nat /\ E!Size(n) = HdrLen + msgs[n].len /\ 1 <= msgs[n].len
            /\ E!SizeOf(header) = msgs[n].len
        BY <1>0, <1>2, MessageFacts, HeaderOf, SMTT(30)
      <3> QED
        BY <3>1, ZenonT(40)
    <2>2. /\ wire' = E!RecvWithFds(k).wire /\ mode' = mode /\ E!tx' = E!tx /\ files' = files
          /\ header' = header /\ accepted' = accepted
          /\ IF Len(E!RecvWithFds(k).data) = k
             THEN phase' = "handle" /\ buf' = header \o E!RecvWithFds(k).data /\ outcome' = outcome
             ELSE phase' = "ended" /\ outcome' = "InvalidMessage" /\ buf' = buf
      BY <1>4, <2>1, Zenon DEF E!recv_data
    <2>3. Brought(n, HdrLen, k)
      <3>1. Len(buf) + k <= E!Size(n)
        BY <1>0, <1>2, <2>1, SMTT(30)
      <3>2. Brought(n, Len(buf), k)
        BY <1>1, <1>4, <1>p, <2>1, <3>1, Arrives, Zenon
      <3> QED
        BY <1>2, <3>2, Zenon
    <2>4. PICK q \in Nat : /\ HdrLen < q /\ q <= HdrLen + k
                           /\ E!RecvWithFds(k).data = E!Span(n, HdrLen, q)
                           /\ E!RecvWithFds(k).fds = E!FilesAt(n, HdrLen)
                           /\ E!RecvWithFds(k).wire \in Seq(Buffers)
                           /\ E!Stretch(E!RecvWithFds(k).wire, E!After(n, q), E!SentTo)
      BY <2>3, Zenon DEF Brought
    <2>5. n \in Numbers
      BY <1>0, <1>2, MessageFacts, Zenon
    <2>6. Len(E!RecvWithFds(k).data) = q - HdrLen
      <3>1. q \in Nat /\ HdrLen <= q
        BY <1>0, <2>4, SMTT(30)
      <3>2. Len(E!Span(n, HdrLen, q)) = q - HdrLen
        BY <1>0, <2>5, <3>1, SpanEmpty, Zenon
      <3> QED
        BY <2>4, <3>2, Zenon
    <2>7. CASE q = E!Size(n)
      <3>1. Len(E!RecvWithFds(k).data) = k /\ 0 < q /\ q <= E!Size(n) /\ q \in Nat /\ HdrLen \in 0 .. q
        <4>1. /\ q \in Nat /\ HdrLen \in Nat /\ k \in Nat /\ HdrLen < q /\ q <= HdrLen + k
              /\ q = HdrLen + k
          BY <1>0, <2>1, <2>4, <2>7, Zenon
        <4>2. q - HdrLen = k /\ 0 < q /\ HdrLen \in 0 .. q /\ q <= q
          BY <4>1, SMTT(30)
        <4> QED
          BY <2>6, <2>7, <4>1, <4>2, Zenon
      <3>2. phase' = "handle" /\ buf' = header \o E!Span(n, HdrLen, q) /\ outcome' = outcome
        BY <2>2, <2>4, <3>1, Zenon
      <3>3. buf' = E!Span(n, 0, q)
        <4>1. E!Span(n, 0, HdrLen) \o E!Span(n, HdrLen, q) = E!Span(n, 0, q)
          BY <2>5, <3>1, FirstUnits, Zenon
        <4> QED
          BY <1>2, <3>2, <4>1, Zenon
      <3>4. mode = "request"
        BY <1>1, Zenon DEF E!ReceiverInv
      <3>5. /\ files' = E!FilesAt(n, 0) /\ header' \in Seq(E!Unit) /\ wire' \in Seq(Buffers)
            /\ E!Stretch(wire', E!After(n, q), E!SentTo)
        BY <1>0, <1>2, <2>2, <2>4, Zenon
      <3> QED
        BY <1>1, <1>2, <1>p, <2>2, <2>7, <3>1, <3>2, <3>3, <3>4, <3>5, GoesOn, ZenonT(40)
    <2>8. CASE q # E!Size(n)
      <3>1. Len(E!RecvWithFds(k).data) # k
        BY <1>0, <2>1, <2>4, <2>6, <2>8, SMTT(30)
      <3>2. phase' = "ended" /\ outcome' = "InvalidMessage" /\ buf' = buf
        BY <2>2, <3>1, Zenon
      <3>3. outcome' \in Outcomes
        BY <3>2, Zenon DEF Outcomes
      <3>4. wire' \in Seq(Buffers) /\ header' \in Seq(E!Unit) /\ files' \in 0 .. MaxMsgs /\ buf' \in Seq(E!Unit)
        BY <1>0, <2>2, <2>4, <3>2, ZenonT(40)
      <3> QED
        BY <2>2, <3>2, <3>3, <3>4, EndsWell, ZenonT(40)
    <2> QED
      BY <2>7, <2>8, Zenon
  <1> QED
    BY <1>3, <1>4, Zenon

\* recv_body: more of the header and the body of a reply, or the end of the stream.
LEMMA RecvBodyKeeps ==
  ASSUME E!Framed, IInv, E!recv_body
  PROVE  IInv'
  <1>p. PICK n \in Nat : n = Len(accepted) + 1
    BY Types
  <1>t. PICK t \in Nat : t = HdrLen + ReplyLen
    BY Types, SMTT(30)
  <1>0. /\ MsgsOK /\ wire \in Seq(Buffers) /\ HdrLen \in Nat /\ ReplyLen \in Nat /\ Len(buf) \in Nat
        /\ buf \in Seq(E!Unit) /\ header \in Seq(E!Unit) /\ files \in 0 .. MaxMsgs
    BY Types, Zenon DEF IInv, E!TypeOK
  <1>1. phase = "reply" /\ phase # "ended" /\ E!ReceiverInv
    BY Zenon DEF E!recv_body, IInv, E!StreamInv
  <1>2. mode = "reply" /\ Len(buf) < t
    BY <1>1, <1>t, Zenon DEF E!ReceiverInv
  <1>3. CASE wire = <<>>
    BY <1>0, <1>3, EndsWell, ZenonT(40) DEF E!End, Outcomes, E!recv_body
  <1>4. CASE wire # <<>>
    <2>1. /\ E!recv_into_iovec_all(<<HdrLen, ReplyLen>>) /\ mode' = mode /\ E!tx' = E!tx
          /\ phase' = IF Len(buf') < t THEN "reply" ELSE "gotReply"
          /\ header' = header /\ outcome' = outcome /\ accepted' = accepted
      BY <1>4, <1>t, Zenon DEF E!recv_body
    <2>2. n \in DOMAIN msgs => t = E!Size(n) /\ t <= E!Size(n)
      BY <1>t, <1>2, SMTT(30) DEF E!Size, IInv, E!StreamInv, E!SenderInv
    <2>3. /\ E!Total(<<HdrLen, ReplyLen>>) = t
          /\ Place(<<HdrLen, ReplyLen>>, Len(buf)) = Len(buf)
      <3>1. Len(buf) \in 0 .. HdrLen + ReplyLen - 1
        BY <1>0, <1>2, <1>t, SMTT(30)
      <3> QED
        BY <1>0, <1>t, <3>1, TotalOfFew, PlaceInTwo, Zenon
    <2>4. /\ n \in DOMAIN msgs
          /\ \E q \in Nat : /\ 0 < q /\ q <= t
                            /\ buf' = E!Span(n, 0, q) /\ files' = E!FilesAt(n, 0)
                            /\ wire' \in Seq(Buffers) /\ E!Stretch(wire', E!After(n, q), E!SentTo)
      BY <1>0, <1>1, <1>2, <1>p, <1>t, <2>1, <2>2, <2>3, RecvTurn, ZenonT(40)
    <2>5. PICK q \in Nat : /\ 0 < q /\ q <= t
                           /\ buf' = E!Span(n, 0, q) /\ files' = E!FilesAt(n, 0)
                           /\ wire' \in Seq(Buffers) /\ E!Stretch(wire', E!After(n, q), E!SentTo)
      BY <2>4, Zenon
    <2>6. Len(buf') = q /\ q <= E!Size(n)
      BY <1>0, <2>2, <2>4, <2>5, MessageFacts, FirstUnits, ZenonT(40)
    <2> QED
      BY <1>0, <1>p, <1>t, <1>1, <1>2, <2>1, <2>4, <2>5, <2>6, GoesOn, SMTT(30)
  <1> QED
    BY <1>3, <1>4, ZenonT(40)

\* A whole message goes to the caller: it is the one that was sent.
LEMMA Returned ==
  ASSUME E!Framed, IInv, phase # "ended", mode' = mode, E!tx' = E!tx,
         NEW n \in DOMAIN msgs, n = Len(accepted) + 1, Len(buf) = E!Size(n), E!Accept(buf, files),
         phase' = E!Start(mode), wire' = wire, buf' = <<>>, files' = 0, header' \in Seq(E!Unit),
         outcome' = outcome
  PROVE  IInv'
  <1>0. /\ MsgsOK /\ wire \in Seq(Buffers) /\ HdrLen \in Nat /\ 0 < HdrLen /\ ReplyLen \in Nat
        /\ Len(accepted) \in Nat /\ buf \in Seq(E!Unit) /\ files \in 0 .. MaxMsgs
        /\ DOMAIN accepted = 1 .. Len(accepted)
    BY Types, ZenonT(40) DEF IInv, E!TypeOK
  <1>m. n \in Numbers /\ n \in Nat /\ n <= Len(msgs) /\ msgs[n].len \in Nat /\ E!Size(n) \in Nat
        /\ 0 < E!Size(n) /\ E!Size(n) = HdrLen + msgs[n].len
    BY <1>0, MessageFacts, SMTT(30)
  <1>1. /\ msgs' = msgs /\ sender' = sender /\ done' = done /\ Grown /\ MsgsOK' /\ E!SenderInv'
        /\ E!SentTo' = E!SentTo
    BY SenderStays, Zenon DEF E!tx
  <1>2. E!ReceiverInv /\ E!Stretch(wire, E!ReadTo, E!SentTo) /\ E!ReadTo = E!After(n, E!Size(n))
    BY Zenon DEF IInv, E!StreamInv, E!ReadTo
  <1>3. buf = E!Span(n, 0, E!Size(n)) /\ files = E!FilesAt(n, 0)
    <2>1. buf # <<>>
      BY <1>m, SMTT(30)
    <2> QED
      BY <1>2, <2>1, ZenonT(40) DEF E!ReceiverInv
  <1> DEFINE A == [units : Seq(E!Unit), fds : 0 .. MaxMsgs]
             m == [units |-> buf, fds |-> files]
  <1>4. accepted \in Seq(A) /\ m \in A
    BY <1>0, Zenon DEF IInv, E!TypeOK
  <1>5. accepted' = Append(accepted, m)
    BY Zenon DEF E!Accept
  <1>6. m = [units |-> E!Concat(E!Iovs(n, msgs[n].len)), fds |-> IF msgs[n].file THEN n ELSE 0]
    <2>1. buf = E!Concat(E!Iovs(n, msgs[n].len))
      <3>1. E!Concat(E!Iovs(n, msgs[n].len)) = E!Span(n, 0, HdrLen + msgs[n].len)
        BY <1>m, WholeMessage, Zenon
      <3> QED
        BY <1>3, <1>m, <3>1, Zenon
    <2>2. files = IF msgs[n].file THEN n ELSE 0
      BY <1>3, ZenonT(40) DEF E!FilesAt
    <2> QED
      BY <2>1, <2>2, Zenon
  <1> HIDE DEF A, m
  <1>7. /\ accepted' \in Seq(A) /\ Len(accepted') = n /\ accepted'[n] = m
        /\ DOMAIN accepted' = 1 .. n
        /\ \A i \in DOMAIN accepted : accepted'[i] = accepted[i]
    BY <1>0, <1>4, <1>5, <1>m, SMTT(30)
  <1>8. E!AcceptedAsSent'
    <2>1. ASSUME NEW i \in DOMAIN accepted'
          PROVE  /\ i <= Len(msgs)
                 /\ accepted'[i] = [units |-> E!Concat(E!Iovs(i, msgs[i].len)),
                                    fds |-> IF msgs[i].file THEN i ELSE 0]
      <3>1. CASE i = n
        BY <1>6, <1>7, <1>m, <3>1, Zenon
      <3>2. CASE i # n
        <4>1. i \in DOMAIN accepted
          BY <1>0, <1>7, <1>m, <3>2, SMTT(30)
        <4>2. /\ i <= Len(msgs)
              /\ accepted[i] = [units |-> E!Concat(E!Iovs(i, msgs[i].len)),
                                fds |-> IF msgs[i].file THEN i ELSE 0]
          BY <4>1, Zenon DEF IInv, E!AcceptedAsSent
        <4> QED
          BY <1>7, <4>1, <4>2, ZenonT(40)
      <3> QED
        BY <3>1, <3>2, Zenon
    <2>2. ASSUME NEW i \in DOMAIN accepted'
          PROVE  /\ i <= Len(msgs')
                 /\ accepted'[i] = [units |-> E!Concat(E!Iovs(i, msgs'[i].len)),
                                    fds |-> IF msgs'[i].file THEN i ELSE 0]
      BY <1>1, <2>1, Zenon
    <2> QED
      BY <2>2, Zenon DEF E!AcceptedAsSent, E!Concat, E!Iovs
  <1>9. E!TypeOK'
    <2>1. phase' \in {"header", "body", "handle", "reply", "gotReply", "ended"}
      BY Zenon DEF E!Start
    <2>2. files' \in 0 .. MaxMsgs /\ buf' \in Seq(E!Unit)
      BY DEF E!Framed
    <2> QED
      BY <1>1, <1>7, <2>1, <2>2, ZenonT(40) DEF IInv, E!TypeOK, A
  <1>10. outcome' # "Disconnected"
    BY Zenon DEF IInv, E!StreamInv
  <1>11. E!ReadTo' = E!ReadTo
    <2>1. E!ReadTo = <<n + 1, 0>>
      BY <1>0, <1>2, AfterFacts, Zenon
    <2>2. n + 1 \in DOMAIN msgs => E!Size(n + 1) # 0
      <3>1. n + 1 \in DOMAIN msgs => 0 < E!Size(n + 1)
        BY <1>0, MessageFacts, Zenon
      <3> QED
        BY <3>1, SMTT(30)
    <2>3. Len(buf') = 0
      BY Zenon
    <2>4. E!ReadTo' = <<n + 1, 0>>
      BY <1>1, <1>7, <2>2, <2>3, Zenon DEF E!ReadTo, E!After, E!Size
    <2> QED
      BY <2>1, <2>4, Zenon
  <1>12. E!Stretch(wire, E!ReadTo, E!SentTo)'
    BY <1>0, <1>1, <1>2, <1>11, StretchKept, ZenonT(40)
  <1>13. E!ReceiverInv'
    <2>1. E!Span(n + 1, 0, 0) = <<>>
      BY NoSpan, Zenon
    <2>2. Len(buf') = 0
      BY Zenon
    <2>3. buf' = E!Span(Len(accepted') + 1, 0, Len(buf'))
      BY <1>7, <2>1, <2>2, Zenon
    <2>4. \/ phase' = "header" /\ mode = "request"
          \/ phase' = "reply" /\ mode = "reply"
      BY Zenon DEF E!Start, IInv, E!TypeOK
    <2> QED
      BY <1>0, <2>2, <2>3, <2>4, SMTT(30) DEF E!ReceiverInv, E!Span
  <1> QED
    BY <1>1, <1>8, <1>9, <1>10, <1>12, <1>13, ZenonT(40) DEF IInv, E!StreamInv

\* Handle: the request is whole.
LEMMA HandleKeeps ==
  ASSUME E!Framed, IInv, E!Handle
  PROVE  IInv'
  <1>p. PICK n \in Nat : n = Len(accepted) + 1
    BY Types
  <1>1. /\ phase = "handle" /\ phase # "ended" /\ E!Accept(buf, files) /\ mode' = mode /\ E!tx' = E!tx
        /\ phase' = "header" /\ buf' = <<>> /\ files' = 0 /\ header' = <<>> /\ wire' = wire
        /\ outcome' = outcome
    BY Zenon DEF E!Handle
  <1>2. mode = "request" /\ n \in DOMAIN msgs /\ Len(buf) = E!Size(n)
    BY <1>1, <1>p, ZenonT(40) DEF IInv, E!StreamInv, E!ReceiverInv
  <1>3. phase' = E!Start(mode) /\ header' \in Seq(E!Unit)
    BY <1>1, <1>2, SMTT(30) DEF E!Start
  <1> QED
    BY <1>1, <1>2, <1>3, <1>p, Returned, Zenon

\* GetReply: the reply is whole.
LEMMA GetReplyKeeps ==
  ASSUME E!Framed, IInv, E!GetReply
  PROVE  IInv'
  <1>p. PICK n \in Nat : n = Len(accepted) + 1
    BY Types
  <1>0. /\ MsgsOK /\ wire \in Seq(Buffers) /\ HdrLen \in Nat /\ 0 < HdrLen /\ ReplyLen \in Nat
        /\ buf \in Seq(E!Unit) /\ header \in Seq(E!Unit) /\ files \in 0 .. MaxMsgs
    BY Types, Zenon DEF IInv, E!TypeOK
  <1>1. phase = "gotReply" /\ phase # "ended" /\ E!ReceiverInv
    BY Zenon DEF E!GetReply, IInv, E!StreamInv
  <1>2. CASE E!ValidHeader(SubSeq(buf, 1, HdrLen))
    <2>1. /\ E!Accept(buf, files) /\ mode' = mode /\ E!tx' = E!tx
          /\ phase' = "reply" /\ buf' = <<>> /\ files' = 0 /\ header' = header /\ wire' = wire
          /\ outcome' = outcome
      BY <1>2, Zenon DEF E!GetReply
    <2>2. buf # <<>>
      BY <1>0, <1>1, SMTT(30) DEF E!ReceiverInv
    <2>3. mode = "reply" /\ n \in DOMAIN msgs /\ Len(buf) = HdrLen + ReplyLen
      BY <1>1, <1>p, <2>2, ZenonT(40) DEF E!ReceiverInv
    <2>4. Len(buf) = E!Size(n)
      BY <2>3, Zenon DEF IInv, E!StreamInv, E!SenderInv, E!Size
    <2>5. phase' = E!Start(mode) /\ header' \in Seq(E!Unit)
      BY <1>0, <2>1, <2>3, Zenon DEF E!Start
    <2> QED
      BY <1>1, <1>p, <2>1, <2>3, <2>4, <2>5, Returned, Zenon
  <1>3. CASE ~ E!ValidHeader(SubSeq(buf, 1, HdrLen))
    <2>1. E!End("InvalidMessage")
      BY <1>3, Zenon DEF E!GetReply
    <2>2. /\ mode' = mode /\ E!tx' = E!tx /\ accepted' = accepted /\ phase' = "ended" /\ wire' = wire
          /\ buf' = buf /\ header' = header /\ files' = files /\ outcome' \in Outcomes
      BY <2>1, Zenon DEF E!End, Outcomes
    <2> QED
      BY <1>0, <2>2, EndsWell, Zenon
  <1> QED
    BY <1>2, <1>3, Zenon

\* An error of recvmsg.
LEMMA RecvFailsKeeps ==
  ASSUME E!Framed, IInv, NEW e, E!RecvFails(e)
  PROVE  IInv'
  <1> QED
    BY Types, EndsWell, Zenon DEF IInv, E!TypeOK, E!RecvFails, E!End, E!FromErrno, Outcomes

\* No step.
LEMMA StutterKeeps ==
  ASSUME E!Framed, IInv, UNCHANGED E!vars
  PROVE  IInv'
  <1>u. /\ mode' = mode /\ msgs' = msgs /\ phase' = phase /\ buf' = buf /\ files' = files
        /\ header' = header /\ outcome' = outcome /\ accepted' = accepted /\ wire' = wire
        /\ done' = done /\ sender' = sender /\ E!tx' = E!tx
    BY Zenon DEF E!vars, E!tx, E!rx
  <1>1. Grown /\ MsgsOK' /\ E!SenderInv' /\ E!SentTo' = E!SentTo
    BY <1>u, SenderStays, Zenon
  <1>2. ASSUME phase' # "ended" PROVE E!Stretch(wire, E!ReadTo, E!SentTo)' /\ E!ReceiverInv'
    BY <1>u, <1>1, <1>2, Types, StretchKept, ZenonT(40) DEF E!ReceiverInv, E!Size, E!Span, E!FilesAt,
       E!ReadTo, E!After, IInv, E!StreamInv
  <1>3. outcome' = "Disconnected" =>
           phase' = "ended" /\ sender' = "closed" /\ E!SentTo' = <<Len(accepted') + 1, 0>>
    BY <1>1, <1>u, Zenon DEF IInv, E!StreamInv
  <1> QED
    BY <1>u, <1>1, <1>2, <1>3, AcceptedKept, ZenonT(40) DEF IInv, E!StreamInv, E!TypeOK

\* Nothing was sent and nothing was received.
LEMMA Starts ==
  ASSUME E!Framed, E!Init
  PROVE  IInv
  <1>1. E!TypeOK
    BY SMTT(30) DEF E!TypeOK, E!Init, E!Framed, E!Start
  <1>2. E!Stretch(wire, E!ReadTo, E!SentTo)
    BY SMTT(30) DEF E!Stretch, E!Init, E!ReadTo, E!After, E!SentTo
  <1>3. E!ReceiverInv
    BY NoSpan, SMTT(30) DEF E!ReceiverInv, E!Framed, E!Init, E!Start
  <1> QED
    BY <1>1, <1>2, <1>3, SMTT(30) DEF IInv, E!StreamInv, E!Init, E!AcceptedAsSent, E!SenderInv, E!Framed

\* What the stream holds is what was sent and not yet read, at every step of a sender that
\* writes in pieces of any size and a receiver that reads them in pieces of any size.
THEOREM StreamInvariant ==
  ASSUME E!Framed
  PROVE  E!Spec => []IInv
  <1>1. E!Init => IInv
    BY Starts, Zenon
  <1>2. ASSUME IInv, [E!Next]_(E!vars) PROVE IInv'
    <2>1. CASE E!Receiver
      <3>1. CASE E!recv_body
        BY <1>2, <3>1, RecvBodyKeeps, Zenon
      <3>2. CASE E!GetReply
        BY <1>2, <3>2, GetReplyKeeps, Zenon
      <3>3. ASSUME NEW e \in Errnos, E!RecvFails(e) PROVE IInv'
        BY <1>2, <3>3, RecvFailsKeeps, Zenon
      <3> QED
        BY <1>2, <2>1, <3>1, <3>2, <3>3, HandleKeeps, RecvDataKeeps, RecvHeaderKeeps, ZenonT(40) DEF
           E!Receiver
    <2> QED
      BY <1>2, <2>1, CloseKeeps, SendKeeps, BeginSendKeeps, StutterKeeps, Zenon DEF E!Next
  <1> QED
    BY <1>1, <1>2, PTL DEF E!Spec

\* A disconnection is at the end of a message: the sizes of the messages the receiver has
\* returned are those of the messages that were sent, up to the units not sent.
LEMMA BoundaryFollows ==
  ASSUME E!Framed, IInv
  PROVE  E!DisconnectedAtBoundary
  <1> DEFINE S == [n \in DOMAIN msgs |-> HdrLen + msgs[n].len]
             A == [n \in DOMAIN accepted |-> Len(accepted[n].units)]
             N == Len(msgs)
             c == Len(accepted)
             unsent == IF msgs = <<>> THEN 0 ELSE HdrLen + msgs[N].len - done
  <1> SUFFICES ASSUME outcome = "Disconnected" PROVE E!Total(S) - unsent = E!Total(A)
    BY Zenon DEF E!DisconnectedAtBoundary
  <1>0. /\ MsgsOK /\ N \in Nat /\ c \in Nat /\ done \in Nat /\ HdrLen \in Nat
        /\ DOMAIN msgs = 1 .. N /\ DOMAIN accepted = 1 .. c
    BY Types, Zenon
  <1>1. E!SentTo = <<c + 1, 0>>
    BY Zenon DEF IInv, E!StreamInv
  <1>2. ASSUME NEW n \in DOMAIN msgs
        PROVE  S[n] = E!Size(n) /\ S[n] \in Nat
    <2>1. E!Size(n) \in Nat
      BY <1>0, MessageFacts, Zenon
    <2>2. S[n] = E!Size(n)
      BY Zenon DEF E!Size
    <2> QED
      BY <2>1, <2>2, Zenon
  <1>3. ASSUME NEW n \in DOMAIN accepted
        PROVE  n \in DOMAIN msgs /\ A[n] = S[n]
    <2>1. n <= N /\ accepted[n].units = E!Concat(E!Iovs(n, msgs[n].len))
      BY SMTT(30) DEF IInv, E!AcceptedAsSent
    <2>2. n \in DOMAIN msgs
      BY <1>0, <2>1, SMTT(30)
    <2>3. n \in Numbers /\ msgs[n].len \in Nat /\ E!Size(n) \in Nat /\ E!Size(n) = HdrLen + msgs[n].len
      BY <1>0, <2>2, MessageFacts, Zenon
    <2>4. accepted[n].units = E!Span(n, 0, E!Size(n))
      BY <2>1, <2>3, WholeMessage, Zenon
    <2>5. Len(E!Span(n, 0, E!Size(n))) = E!Size(n)
      BY <2>3, FirstUnits, Zenon
    <2>6. A[n] = E!Size(n)
      BY <2>4, <2>5, Zenon
    <2> QED
      BY <1>2, <2>2, <2>6, ZenonT(40)
  <1>4. S \in Seq(Nat) /\ Len(S) = N /\ DOMAIN S = 1 .. N
    <2> HIDE DEF N
    <2>1. S \in [1 .. N -> Nat]
      BY <1>0, <1>2, Zenon
    <2> HIDE DEF S
    <2> QED
      BY <1>0, <2>1, SMTT(30)
  <1>5. A \in Seq(Nat) /\ Len(A) = c /\ DOMAIN A = 1 .. c
    <2>1. \A n \in DOMAIN accepted : A[n] \in Nat
      BY <1>2, <1>3, Zenon
    <2> HIDE DEF c, S
    <2>2. A \in [1 .. c -> Nat]
      BY <1>0, <2>1, Zenon
    <2> HIDE DEF A
    <2> QED
      BY <1>0, <2>2, SMTT(30)
  <1>6. CASE msgs = <<>>
    <2>1. c = 0 /\ N = 0
      BY <1>0, <1>1, <1>6, SMTT(30) DEF E!SentTo
    <2>2. S = <<>> /\ A = <<>>
      <3> HIDE DEF S, A, N, c
      <3> QED
        BY <1>4, <1>5, <2>1, SMTT(30)
    <2>3. E!Total(<<>>) = 0
      BY TotalOfFew, Zenon
    <2>4. unsent = 0
      BY <1>6, Zenon
    <2> HIDE DEF S, A, unsent
    <2> QED
      BY <2>2, <2>3, <2>4, SMTT(30)
  <1>7. CASE msgs # <<>>
    <2>1. N \in DOMAIN msgs /\ N \in 1 .. N
      BY <1>0, <1>7, SMTT(30)
    <2>2. E!Size(N) \in Nat /\ msgs[N].len \in Nat /\ E!Size(N) = HdrLen + msgs[N].len
      BY <1>0, <2>1, MessageFacts, ZenonT(40)
    <2>3. unsent = E!Size(N) - done
      <3>1. unsent = HdrLen + (msgs[N].len - done)
        BY <1>7, Zenon
      <3> HIDE DEF unsent, N
      <3> QED
        BY <1>0, <2>2, <3>1, SMTT(30)
    <2>4. E!SentTo = E!After(N, done)
      BY <1>7, ZenonT(40) DEF E!SentTo
    <2>5. CASE done = E!Size(N)
      <3>1. c = N
        <4>1. <<c + 1, 0>> = <<N + 1, 0>>
          BY <1>1, <2>1, <2>4, <2>5, ZenonT(40) DEF E!After
        <4>2. c \in Nat /\ N \in Nat
          BY <1>0, Zenon
        <4> HIDE DEF c, N
        <4> QED
          BY <4>1, <4>2, SMTT(30)
      <3>2. A = S
        <4>1. \A n \in 1 .. N : A[n] = S[n]
          BY <1>0, <1>3, <3>1, Zenon
        <4> HIDE DEF A, S, c, N
        <4> QED
          BY <1>4, <1>5, <3>1, <4>1, SMTT(30)
      <3>3. E!Total(S) \in Nat
        <4> DEFINE t == Append(S, 0)
        <4> HIDE DEF S, N
        <4>1. t \in Seq(Nat) /\ Len(t) = Len(S) + 1 /\ \A i \in 1 .. Len(S) : t[i] = S[i]
          BY <1>4, SMTT(30)
        <4> HIDE DEF t
        <4> QED
          BY <1>4, <4>1, TotalOfMore, Zenon
      <3> HIDE DEF A, S, unsent, N
      <3> QED
        BY <1>0, <2>2, <2>3, <2>5, <3>2, <3>3, SMTT(30)
    <2>6. CASE done # E!Size(N)
      <3>1. c + 1 = N /\ done = 0
        <4>1. <<c + 1, 0>> = <<N, done>>
          BY <1>1, <2>4, <2>6, Zenon DEF E!After
        <4> QED
          BY <4>1, Zenon
      <3>2. /\ Len(S) = Len(A) + 1 /\ \A i \in 1 .. Len(A) : S[i] = A[i]
        <4>1. \A n \in 1 .. c : S[n] = A[n]
          BY <1>0, <1>3, Zenon
        <4> HIDE DEF A, S, c, N
        <4> QED
          BY <1>4, <1>5, <3>1, <4>1, Zenon
      <3>3. S[N] = E!Size(N)
        BY <1>2, <2>1, Zenon
      <3> HIDE DEF A, S, unsent, N, c
      <3>4. E!Total(A) \in Nat /\ E!Total(S) = E!Total(A) + S[Len(S)]
        BY <1>4, <1>5, <3>2, TotalOfMore, Zenon
      <3>5. E!Total(S) = E!Total(A) + E!Size(N)
        BY <1>4, <3>3, <3>4, ZenonT(40)
      <3>6. unsent = E!Size(N)
        BY <2>2, <2>3, <3>1, SMTT(30)
      <3>7. E!Total(A) \in Nat
        BY <3>4, Zenon
      <3> QED
        BY <2>2, <3>5, <3>6, <3>7, SMTT(30)
    <2> QED
      BY <2>5, <2>6, Zenon
  <1> QED
    BY <1>6, <1>7, Zenon

\* What send_iovec_all cut into pieces and recv_into_iovec_all and recv_data put together
\* again is what was sent: the messages in order, each whole and with its own descriptors,
\* for headers, bodies and pieces of every size and for every number of messages.
THEOREM StreamAcceptedAsSent == E!Spec => []AcceptedAsSent
  <1>1. IInv => AcceptedAsSent
    BY ZenonT(40) DEF IInv, AcceptedAsSent
  <1> QED
    BY <1>1, EndpointAssumption, StreamInvariant, PTL

\* recv_header says Disconnected only to a receiver that has returned all that was sent.
THEOREM StreamDisconnectedAtBoundary == E!Spec => []DisconnectedAtBoundary
  <1>1. IInv => DisconnectedAtBoundary
    BY EndpointAssumption, BoundaryFollows, Zenon DEF DisconnectedAtBoundary
  <1> QED
    BY <1>1, EndpointAssumption, StreamInvariant, PTL
================================================================================
