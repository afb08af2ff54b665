----------------------- MODULE SignalSemaphoreProofs -----------------------
(***************************************************************************)
(* Theorems about SignalSemaphore, for every set of tasks, semaphores and  *)
(* messages and every bound MaxNest.                                       *)
(*                                                                         *)
(* The inductive invariant of the first part says what is in a queue, that *)
(* the counters agree with it, and who is signalled.                       *)
(***************************************************************************)
EXTENDS SignalSemaphore, ListLemmas, FiniteSetTheorems

-----------------------------------------------------------------------------
(* Facts about the operators the actions are built from                    *)

(* Induction over an initial segment of the naturals.                      *)
LEMMA UpToInduction ==
    ASSUME NEW n \in Nat, NEW T, 0 \in T,
           \A i \in 0..n : i \in T /\ i + 1 <= n => i + 1 \in T
    PROVE  \A i \in 0..n : i \in T
<1> DEFINE Bad == {i \in 0..n : i \notin T}
<1>1. SUFFICES ASSUME Bad # {} PROVE FALSE
  OBVIOUS
<1>2. Bad \in SUBSET Nat
  OBVIOUS
<1>3. PICK x \in Bad : \A y \in Bad : x <= y
  <2> HIDE DEF Bad
  <2> QED
    BY <1>1, <1>2, LeastOf
<1>4. x \in 0..n /\ x \notin T /\ x # 0
  OBVIOUS
<1>5. x - 1 \in 0..n /\ x - 1 \notin Bad /\ (x - 1) + 1 = x
  BY <1>2, <1>3, <1>4
<1>6. x - 1 \in T
  BY <1>5
<1> QED
  BY <1>4, <1>5, <1>6

(* The recursion in WithoutUpTo: what is left of the first i places.       *)
Kept(g, i, q, K) ==
    LET before == IF i = 1 THEN << >> ELSE g[i - 1]
    IN IF i \in K THEN before ELSE Append(before, q[i])

LEMMA KeptExists ==
    ASSUME NEW n \in Nat, NEW q, NEW K
    PROVE  \E g : g = [i \in 1..n |-> Kept(g, i, q, K)]
<1> DEFINE Solves(g, m) == g = [i \in 1..m |-> Kept(g, i, q, K)]
           T == {m \in 0..n : \E g : Solves(g, m)}
<1>1. 0 \in T
  <2>1. Solves(<< >>, 0)
    OBVIOUS
  <2>2. \E f : Solves(f, 0)
    <3> HIDE DEF Solves
    <3> QED
      BY <2>1
  <2>3. 0 \in 0..n
    OBVIOUS
  <2> HIDE DEF Solves
  <2> QED
    BY <2>2, <2>3
<1>2. ASSUME NEW m \in 0..n, m \in T, m + 1 <= n PROVE m + 1 \in T
  <2>1. PICK g : Solves(g, m)
    BY <1>2
  <2> DEFINE h == [i \in 1..(m + 1) |-> IF i <= m THEN g[i] ELSE Kept(g, m + 1, q, K)]
  <2>2. \A i \in 1..m : h[i] = g[i]
    OBVIOUS
  <2>3. \A i \in 1..m : Kept(h, i, q, K) = Kept(g, i, q, K)
    BY <2>2 DEF Kept
  <2>4. Kept(h, m + 1, q, K) = Kept(g, m + 1, q, K)
    BY <2>2 DEF Kept
  <2>5. \A i \in 1..m : g[i] = Kept(g, i, q, K)
    BY <2>1
  <2>6. \A i \in 1..(m + 1) : h[i] = Kept(h, i, q, K)
    <3>1. \A i \in 1..(m + 1) : i \in 1..m \/ i = m + 1
      OBVIOUS
    <3>2. h[m + 1] = Kept(g, m + 1, q, K)
      OBVIOUS
    <3> HIDE DEF h
    <3> QED
      BY <2>2, <2>3, <2>4, <2>5, <3>1, <3>2
  <2>7. h = [i \in 1..(m + 1) |-> h[i]]
    OBVIOUS
  <2>8. Solves(h, m + 1)
    <3> HIDE DEF h
    <3> QED
      BY <2>6, <2>7
  <2>9. \E f : Solves(f, m + 1)
    <3> HIDE DEF Solves
    <3> QED
      BY <2>8
  <2> QED
    BY <1>2, <2>9
<1>3. \A m \in 0..n : m \in T
  <2> HIDE DEF T
  <2> QED
    BY <1>1, <1>2, UpToInduction
<1> QED
  BY <1>3

LEMMA WithoutUpToDef ==
    ASSUME NEW n \in Nat, NEW q, NEW K
    PROVE  \E g : /\ g = [i \in 1..n |-> Kept(g, i, q, K)]
                  /\ WithoutUpTo(n, q, K) = IF n = 0 THEN << >> ELSE g[n]
<1> DEFINE keep == CHOOSE g : g = [i \in 1..n |-> Kept(g, i, q, K)]
<1>1. keep = [i \in 1..n |-> Kept(keep, i, q, K)]
  BY KeptExists
<1>2. WithoutUpTo(n, q, K) = IF n = 0 THEN << >> ELSE keep[n]
  BY DEF WithoutUpTo, Kept
<1> QED
  BY <1>1, <1>2

(* r is q without the places K: every place of r comes from a place of q   *)
(* that is not in K, in the same order, and every such place is in r.      *)
LeavesOut(r, q, K) ==
    /\ Len(r) = Len(q) - Cardinality(K)
    /\ \A j \in 1..Len(r) : \E k \in 1..Len(q) : k \notin K /\ r[j] = q[k]
    /\ \A k \in 1..Len(q) : k \notin K => \E j \in 1..Len(r) : r[j] = q[k]
    /\ \A i, j \in 1..Len(r) : i < j =>
          \E k, l \in 1..Len(q) :
             k < l /\ k \notin K /\ l \notin K /\ r[i] = q[k] /\ r[j] = q[l]

(* Without leaves out exactly the places it is told to.                    *)
LEMMA WithoutLeavesOut ==
    ASSUME NEW S, NEW q \in Seq(S), NEW K, \A k \in K : k \in 1..Len(q)
    PROVE  /\ Without(q, K) \in Seq(S)
           /\ Cardinality(K) \in Nat
           /\ LeavesOut(Without(q, K), q, K)
<1> DEFINE n == Len(q)
           Out(i) == {k \in K : k <= i}
           Size(i) == i - Cardinality(Out(i))
           Type(i, r) == r \in Seq(S) /\ Len(r) = Size(i)
           From(i, r) == \A j \in 1..Len(r) : \E k \in 1..i : k \notin K /\ r[j] = q[k]
           Into(i, r) == \A k \in 1..i : k \notin K => \E j \in 1..Len(r) : r[j] = q[k]
           Order(i, r) == \A a, b \in 1..Len(r) : a < b =>
                             \E k, l \in 1..i :
                                k < l /\ k \notin K /\ l \notin K /\ r[a] = q[k] /\ r[b] = q[l]
           Good(i, r) == Type(i, r) /\ From(i, r) /\ Into(i, r) /\ Order(i, r)
<1>1. n \in Nat /\ \A i \in 1..n : q[i] \in S
  BY LenProperties, ElementOfSeq
<1>2. IsFiniteSet(K) /\ Cardinality(K) \in Nat
  <2>1. IsFiniteSet(1..n)
    BY <1>1, FS_Interval
  <2>2. K \in SUBSET (1..n)
    OBVIOUS
  <2> QED
    BY <2>1, <2>2, FS_Subset, FS_CardinalityType
<1>3. \A i \in Nat : IsFiniteSet(Out(i)) /\ Cardinality(Out(i)) \in Nat
  BY <1>2, FS_Subset, FS_CardinalityType
<1>4. \A k \in K : k \in Nat /\ k >= 1
  BY <1>1
<1>5. PICK g : /\ g = [i \in 1..n |-> Kept(g, i, q, K)]
               /\ Without(q, K) = IF n = 0 THEN << >> ELSE g[n]
  BY <1>1, WithoutUpToDef DEF Without
<1> DEFINE G(i) == IF i = 0 THEN << >> ELSE g[i]
<1>6. Good(0, G(0))
  <2>1. Out(0) = {}
    BY <1>4
  <2>2. Cardinality(Out(0)) = 0
    BY <2>1, FS_EmptySet
  <2> QED
    BY <2>2
<1>7. ASSUME NEW i \in 0..n, Good(i, G(i)), i + 1 <= n PROVE Good(i + 1, G(i + 1))
  <2> DEFINE r == G(i)
             next == G(i + 1)
  <2>1. i \in Nat /\ i + 1 \in 1..n /\ q[i + 1] \in S /\ i + 1 # 0
    BY <1>1, <1>7
  <2>2. g[i + 1] = Kept(g, i + 1, q, K)
    BY <1>5, <2>1
  <2>3. next = IF i + 1 \in K THEN r ELSE Append(r, q[i + 1])
    BY <2>1, <2>2 DEF Kept
  <2>4. Good(i, r)
    BY <1>7
  <2> HIDE DEF G, n, r, next
  <2>5. ASSUME i + 1 \in K PROVE Good(i + 1, next)
    <3>1. Out(i + 1) = Out(i) \cup {i + 1} /\ i + 1 \notin Out(i)
      BY <1>4, <2>1, <2>5
    <3>2. Cardinality(Out(i + 1)) = Cardinality(Out(i)) + 1
      BY <1>3, <2>1, <3>1, FS_AddElement
    <3>3. next = r
      BY <2>3, <2>5
    <3>4. Type(i + 1, r)
      <4>1. r \in Seq(S) /\ Len(r) = Size(i)
        BY <2>4
      <4>2. Size(i) = Size(i + 1)
        <5> HIDE DEF Out
        <5>1. Cardinality(Out(i)) \in Nat
          BY <1>3, <2>1
        <5>2. i - Cardinality(Out(i)) = (i + 1) - Cardinality(Out(i + 1))
          BY <2>1, <3>2, <5>1
        <5> QED
          BY <5>2, Zenon
      <4> HIDE DEF Size
      <4> QED
        BY <4>1, <4>2, Zenon
    <3>5. From(i + 1, r) /\ Into(i + 1, r) /\ Order(i + 1, r)
      <4>1. \A k \in 1..(i + 1) : k \notin K => k \in 1..i
        BY <2>1, <2>5
      <4>2. \A k \in 1..i : k \in 1..(i + 1)
        BY <2>1
      <4>3. From(i + 1, r)
        BY <2>4, <4>2
      <4>4. Into(i + 1, r)
        BY <2>4, <4>1
      <4>5. Order(i + 1, r)
        <5>1. Order(i, r)
          BY <2>4
        <5> QED
          BY <4>2, <5>1
      <4> QED
        BY <4>3, <4>4, <4>5
    <3> HIDE DEF Type, From, Into, Order
    <3> QED
      BY <3>3, <3>4, <3>5, Zenon
  <2>6. ASSUME i + 1 \notin K PROVE Good(i + 1, next)
    <3>1. Out(i + 1) = Out(i)
      BY <1>4, <2>1, <2>6
    <3>2. next = Append(r, q[i + 1]) /\ r \in Seq(S)
      BY <2>3, <2>4, <2>6
    <3>3. /\ next \in Seq(S) /\ Len(r) \in Nat /\ Len(next) = Len(r) + 1
          /\ next[Len(r) + 1] = q[i + 1] /\ \A j \in 1..Len(r) : next[j] = r[j]
      BY <2>1, <3>2, AppendProperties, LenProperties
    <3>4. Type(i + 1, next)
      <4> HIDE DEF Out
      <4> QED
        BY <1>3, <2>1, <2>4, <3>1, <3>3
    <3>5. \A j \in 1..Len(next) : j \in 1..Len(r) \/ j = Len(r) + 1
      BY <3>3
    <3>6. (\A k \in 1..i : k \in 1..(i + 1) /\ k < i + 1) /\ i + 1 \in 1..(i + 1)
      BY <2>1
    <3>7. From(i + 1, next)
      BY <2>4, <2>6, <3>3, <3>5, <3>6
    <3>8. Into(i + 1, next)
      <4>1. \A k \in 1..(i + 1) : k \in 1..i \/ k = i + 1
        BY <2>1
      <4>2. \A j \in 1..Len(r) : j \in 1..Len(next)
        BY <3>3
      <4>3. Len(r) + 1 \in 1..Len(next)
        BY <3>3
      <4> QED
        BY <2>4, <3>3, <4>1, <4>2, <4>3
    <3>9. Order(i + 1, next)
      <4>1. ASSUME NEW a \in 1..Len(next), NEW b \in 1..Len(next), a < b
            PROVE  \E k, l \in 1..(i + 1) :
                      k < l /\ k \notin K /\ l \notin K /\ next[a] = q[k] /\ next[b] = q[l]
        <5>1. a \in 1..Len(r)
          BY <3>3, <4>1
        <5>2. CASE b \in 1..Len(r)
          <6>1. PICK k \in 1..i, l \in 1..i :
                   k < l /\ k \notin K /\ l \notin K /\ r[a] = q[k] /\ r[b] = q[l]
            <7>1. Order(i, r)
              BY <2>4
            <7> QED
              BY <4>1, <5>1, <5>2, <7>1
          <6> QED
            BY <3>3, <3>6, <5>1, <5>2, <6>1
        <5>3. CASE b = Len(r) + 1
          <6>1. PICK k \in 1..i : k \notin K /\ r[a] = q[k]
            BY <2>4, <5>1
          <6> QED
            BY <2>6, <3>3, <3>6, <5>1, <5>3, <6>1
        <5> QED
          BY <3>5, <5>2, <5>3
      <4> QED
        BY <4>1
    <3> HIDE DEF Type, From, Into, Order
    <3> QED
      BY <3>4, <3>7, <3>8, <3>9, Zenon
  <2>7. Good(i + 1, next)
    <3> HIDE DEF Good
    <3> QED
      BY <2>5, <2>6
  <2> QED
    BY <2>7, Zenon DEF next
<1>8. \A i \in 0..n : Good(i, G(i))
  <2> DEFINE T == {i \in 0..n : Good(i, G(i))}
  <2> HIDE DEF Good, G, n
  <2>1. 0 \in T
    BY <1>1, <1>6
  <2>2. \A i \in 0..n : i \in T /\ i + 1 <= n => i + 1 \in T
    BY <1>1, <1>7
  <2>3. \A i \in 0..n : i \in T
    <3> HIDE DEF T
    <3> QED
      BY <1>1, <2>1, <2>2, UpToInduction
  <2> QED
    BY <2>3
<1>9. Good(n, Without(q, K)) /\ Out(n) = K
  <2>1. n \in 0..n
    BY <1>1
  <2>2. Without(q, K) = G(n)
    BY <1>5
  <2>3. Out(n) = K
    BY <1>1
  <2> HIDE DEF Good, G, n
  <2> QED
    BY <1>8, <2>1, <2>2, <2>3
<1> QED
  BY <1>2, <1>9 DEF LeavesOut

(* RemoveAt leaves out one place.                                          *)
LEMMA RemoveAtLeavesOut ==
    ASSUME NEW S, NEW q \in Seq(S), NEW i \in 1..Len(q)
    PROVE  RemoveAt(q, i) \in Seq(S) /\ LeavesOut(RemoveAt(q, i), q, {i})
<1> DEFINE head == SubSeq(q, 1, i - 1)
           tail == SubSeq(q, i + 1, Len(q))
           r == head \o tail
<1>1. /\ Len(q) \in Nat /\ i \in Nat /\ 1 <= i /\ i <= Len(q)
      /\ \A j \in 1..Len(q) : q[j] \in S
  BY LenProperties, ElementOfSeq
<1>2. /\ head \in Seq(S) /\ Len(head) = i - 1
      /\ \A j \in 1..(i - 1) : head[j] = q[j]
  <2>1. \A j \in 1..(i - 1) : q[j] \in S
    BY <1>1
  <2> QED
    BY <1>1, <2>1, SubSeqProperties
<1>3. /\ tail \in Seq(S) /\ Len(tail) = Len(q) - i
      /\ \A j \in 1..(Len(q) - i) : tail[j] = q[i + j]
  <2>1. \A j \in (i + 1)..Len(q) : q[j] \in S
    BY <1>1
  <2> QED
    BY <1>1, <2>1, SubSeqProperties
<1> HIDE DEF head, tail
<1>4. /\ r \in Seq(S) /\ Len(r) = Len(head) + Len(tail)
      /\ \A j \in 1..(Len(head) + Len(tail)) :
            r[j] = IF j <= Len(head) THEN head[j] ELSE tail[j - Len(head)]
  BY <1>2, <1>3, ConcatProperties
<1>5. RemoveAt(q, i) = r
  BY DEF RemoveAt, head, tail
<1> HIDE DEF r
<1>6. /\ Len(r) = Len(q) - 1
      /\ \A j \in 1..(i - 1) : r[j] = q[j]
      /\ \A j \in i..(Len(q) - 1) : r[j] = q[j + 1]
  <2>1. Len(r) = Len(q) - 1
    BY <1>1, <1>2, <1>3, <1>4
  <2>2. ASSUME NEW j \in 1..(i - 1) PROVE r[j] = q[j]
    <3>1. j \in 1..(Len(head) + Len(tail)) /\ j <= Len(head)
      BY <1>1, <1>2, <1>3
    <3>2. r[j] = head[j]
      BY <1>4, <3>1
    <3> QED
      BY <1>2, <3>2
  <2>3. ASSUME NEW j \in i..(Len(q) - 1) PROVE r[j] = q[j + 1]
    <3>1. j - (i - 1) \in 1..(Len(q) - i) /\ i + (j - (i - 1)) = j + 1
      BY <1>1
    <3>2. j \in 1..(Len(head) + Len(tail)) /\ ~(j <= Len(head))
      BY <1>1, <1>2, <1>3
    <3>3. r[j] = tail[j - Len(head)]
      BY <1>4, <3>2
    <3>4. r[j] = tail[j - (i - 1)]
      BY <1>2, <3>3
    <3> QED
      BY <1>3, <3>1, <3>4
  <2> QED
    BY <2>1, <2>2, <2>3
<1>7. Cardinality({i}) = 1
  BY FS_Singleton
<1>8. LeavesOut(r, q, {i})
  <2>1. \A j \in 1..Len(r) : j \in 1..(i - 1) \/ j \in i..(Len(q) - 1)
    BY <1>1, <1>6
  <2>2. \A j \in 1..Len(r) : \E k \in 1..Len(q) : k \notin {i} /\ r[j] = q[k]
    BY <1>1, <1>6, <2>1
  <2>3. \A k \in 1..Len(q) : k \notin {i} => \E j \in 1..Len(r) : r[j] = q[k]
    <3>1. ASSUME NEW k \in 1..Len(q), k # i PROVE \E j \in 1..Len(r) : r[j] = q[k]
      <4>1. CASE k < i
        BY <1>1, <1>6, <4>1
      <4>2. CASE k > i
        <5>1. k - 1 \in i..(Len(q) - 1) /\ k - 1 \in 1..Len(r) /\ (k - 1) + 1 = k
          BY <1>1, <1>6, <4>2
        <5> QED
          BY <1>6, <5>1
      <4> QED
        BY <1>1, <3>1, <4>1, <4>2
    <3> QED
      BY <3>1
  <2>4. ASSUME NEW a \in 1..Len(r), NEW b \in 1..Len(r), a < b
        PROVE  \E k, l \in 1..Len(q) :
                  k < l /\ k \notin {i} /\ l \notin {i} /\ r[a] = q[k] /\ r[b] = q[l]
    <3> DEFINE at(j) == IF j < i THEN j ELSE j + 1
    <3>1. at(a) \in 1..Len(q) /\ at(b) \in 1..Len(q) /\ at(a) < at(b) /\ at(a) # i /\ at(b) # i
      BY <1>1, <1>6, <2>4
    <3>2. ASSUME NEW j \in 1..Len(r) PROVE r[j] = q[at(j)]
      <4>1. CASE j \in 1..(i - 1)
        BY <1>1, <1>6, <4>1
      <4>2. CASE j \in i..(Len(q) - 1)
        BY <1>1, <1>6, <4>2
      <4> QED
        BY <2>1, <4>1, <4>2
    <3> QED
      BY <3>1, <3>2
  <2> QED
    BY <1>6, <1>7, <2>2, <2>3, <2>4 DEF LeavesOut
<1> QED
  BY <1>4, <1>5, <1>8

(* The requests in a queue, whether a node is in it once, how many there   *)
(* are, and whether there are none.                                        *)
NodesOnce(q) == \A i, j \in 1..Len(q) : q[i].node = q[j].node => i = j

Size(q) == Len(q)

Empty(q) == q = << >>

LEMMA QueueFacts ==
    ASSUME NEW S, NEW q \in Seq(S)
    PROVE  /\ Size(q) \in Nat
           /\ Empty(q) <=> Size(q) = 0
           /\ \A x \in Entries(q) : x \in S
           /\ ~Empty(q) => q[1] \in Entries(q)
<1>1. Len(q) \in Nat /\ \A i \in 1..Len(q) : q[i] \in S
  BY LenProperties, ElementOfSeq
<1>2. q = << >> <=> Len(q) = 0
  BY <1>1, EmptySeq
<1> QED
  BY <1>1, <1>2 DEF Entries, Size, Empty

LEMMA EmptyQueueFacts == Size(<< >>) = 0 /\ Entries(<< >>) = {} /\ NodesOnce(<< >>) /\ Empty(<< >>)
<1>1. Len(<< >>) = 0
  BY EmptySeq
<1> QED
  BY <1>1 DEF Size, Entries, NodesOnce, Empty

(* Enlisting a node that is not in the queue keeps every node in it once.  *)
LEMMA AppendRequestFacts ==
    ASSUME NEW S, NEW q \in Seq(S), NEW x \in S
    PROVE  /\ Append(q, x) \in Seq(S)
           /\ Size(Append(q, x)) = Size(q) + 1
           /\ Entries(Append(q, x)) = Entries(q) \cup {x}
           /\ NodesOnce(q) /\ (\A y \in Entries(q) : y.node # x.node) => NodesOnce(Append(q, x))
<1> DEFINE r == Append(q, x)
           n == Len(q)
<1>1. /\ n \in Nat /\ r \in Seq(S) /\ Len(r) = n + 1
      /\ r[n + 1] = x /\ \A i \in 1..n : r[i] = q[i]
  BY AppendProperties, LenProperties
<1> HIDE DEF r, n
<1>2. \A i \in 1..Len(r) : i \in 1..n \/ i = n + 1
  BY <1>1
<1>3. (\A i \in 1..n : i \in 1..Len(r)) /\ n + 1 \in 1..Len(r)
  BY <1>1
<1>4. Entries(r) = {q[i] : i \in 1..n} \cup {x}
  BY <1>1, <1>2, <1>3 DEF Entries
<1>5. ASSUME \A i, j \in 1..n : q[i].node = q[j].node => i = j,
             \A i \in 1..n : q[i].node # x.node
      PROVE  \A i, j \in 1..Len(r) : r[i].node = r[j].node => i = j
  BY <1>1, <1>2, <1>5
<1> QED
  BY <1>1, <1>4, <1>5 DEF Entries, NodesOnce, Size, r, n

(* What is left of a queue after taking out places, in terms of requests.  *)
LEMMA LeavesOutFacts ==
    ASSUME NEW S, NEW q \in Seq(S), NEW r \in Seq(S), NEW K, LeavesOut(r, q, K),
           \A k \in K : k \in 1..Len(q)
    PROVE  /\ Size(r) = Size(q) - Cardinality(K)
           /\ \A y : y \in Entries(r) <=> \E k \in 1..Len(q) : k \notin K /\ y = q[k]
           /\ NodesOnce(q) => NodesOnce(r)
           /\ NodesOnce(q) => \A x \in Entries(q) :
                            x \in Entries(r) <=> x.node \notin {q[k].node : k \in K}
<1>1. Size(r) = Size(q) - Cardinality(K)
  BY DEF LeavesOut, Size
<1>2. \A y : y \in Entries(r) <=> \E k \in 1..Len(q) : k \notin K /\ y = q[k]
  <2>1. /\ \A j \in 1..Len(r) : \E k \in 1..Len(q) : k \notin K /\ r[j] = q[k]
        /\ \A k \in 1..Len(q) : k \notin K => \E j \in 1..Len(r) : r[j] = q[k]
    BY DEF LeavesOut
  <2>2. ASSUME NEW j \in 1..Len(r) PROVE \E k \in 1..Len(q) : k \notin K /\ r[j] = q[k]
    BY <2>1
  <2>3. ASSUME NEW k \in 1..Len(q), k \notin K PROVE q[k] \in Entries(r)
    <3>1. PICK j \in 1..Len(r) : r[j] = q[k]
      BY <2>1, <2>3
    <3> QED
      BY <3>1 DEF Entries
  <2>4. \A y \in Entries(r) : \E j \in 1..Len(r) : y = r[j]
    BY DEF Entries
  <2> QED
    BY <2>2, <2>3, <2>4
<1>3. ASSUME NodesOnce(q) PROVE NodesOnce(r)
  <2>1. ASSUME NEW i \in 1..Len(r), NEW j \in 1..Len(r), i < j
        PROVE  r[i].node # r[j].node
    <3>1. PICK k \in 1..Len(q), l \in 1..Len(q) : k < l /\ r[i] = q[k] /\ r[j] = q[l]
      BY <2>1 DEF LeavesOut
    <3> QED
      BY <1>3, <3>1 DEF NodesOnce
  <2> QED
    BY <2>1 DEF NodesOnce
<1>4. ASSUME NodesOnce(q), NEW x \in Entries(q)
      PROVE  x \in Entries(r) <=> x.node \notin {q[k].node : k \in K}
  <2>1. PICK i \in 1..Len(q) : x = q[i]
    BY <1>4 DEF Entries
  <2>2. x.node \in {q[k].node : k \in K} <=> i \in K
    BY <1>4, <2>1 DEF NodesOnce
  <2>3. x \in Entries(r) <=> i \notin K
    BY <1>2, <1>4, <2>1 DEF NodesOnce
  <2> QED
    BY <2>2, <2>3
<1> QED
  BY <1>1, <1>2, <1>3, <1>4

(* The last release of a semaphore with waiters takes at least one request *)
(* out of the queue and hands out as many locks as it takes out; when the  *)
(* oldest is shared, no shared request is left.                            *)
LEMMA ServeFacts ==
    ASSUME NEW q \in Seq(Request), ~Empty(q), NodesOnce(q)
    PROVE  /\ Unserved(q) \in Seq(Request)
           /\ NewLocks(q) \in Nat /\ NewLocks(q) # 0
           /\ Size(Unserved(q)) = Size(q) - NewLocks(q)
           /\ NodesOnce(Unserved(q))
           /\ \A x \in Entries(Unserved(q)) : x \in Entries(q)
           /\ \A n \in ServedNodes(q) : \E x \in Entries(q) : x.node = n
           /\ \A x \in Entries(q) : x \in Entries(Unserved(q)) <=> x.node \notin ServedNodes(q)
           /\ q[1].mode = "shared" => \A x \in Entries(Unserved(q)) : x.mode # "shared"
<1> DEFINE K == Served(q)
           r == Unserved(q)
<1>1. Len(q) \in Nat /\ Len(q) # 0 /\ DOMAIN q = 1..Len(q)
  BY LenProperties, QueueFacts DEF Size
<1>2. 1 \in K /\ \A k \in K : k \in 1..Len(q)
  BY <1>1 DEF Served, SharedAt
<1>3. q[1].mode = "shared" => \A k \in 1..Len(q) : k \notin K => q[k].mode # "shared"
  BY <1>1 DEF Served, SharedAt
<1> HIDE DEF K
<1>4. r \in Seq(Request) /\ Cardinality(K) \in Nat /\ LeavesOut(r, q, K)
  BY <1>2, WithoutLeavesOut DEF Unserved, K
<1>5. Cardinality(K) # 0
  <2>1. IsFiniteSet(1..Len(q))
    BY <1>1, FS_Interval
  <2>2. K \subseteq 1..Len(q)
    BY <1>2
  <2>3. IsFiniteSet(K)
    BY <2>1, <2>2, FS_Subset
  <2> QED
    BY <1>2, <2>3, FS_EmptySet
<1>6. NewLocks(q) = Cardinality(K)
  BY DEF NewLocks, K
<1> HIDE DEF r
<1>7. /\ Size(r) = Size(q) - Cardinality(K)
      /\ \A y : y \in Entries(r) <=> \E k \in 1..Len(q) : k \notin K /\ y = q[k]
      /\ NodesOnce(r)
      /\ \A x \in Entries(q) : x \in Entries(r) <=> x.node \notin {q[k].node : k \in K}
  BY <1>2, <1>4, LeavesOutFacts
<1>8. ServedNodes(q) = {q[k].node : k \in K}
  BY DEF ServedNodes, K
<1>9. \A x \in Entries(r) : x \in Entries(q) /\ (q[1].mode = "shared" => x.mode # "shared")
  BY <1>3, <1>7 DEF Entries
<1>10. \A n \in ServedNodes(q) : \E x \in Entries(q) : x.node = n
  BY <1>2, <1>8 DEF Entries
<1> QED
  BY <1>4, <1>5, <1>6, <1>7, <1>8, <1>9, <1>10 DEF r

(* Taking one request out of the queue.                                    *)
LEMMA RemoveAtFacts ==
    ASSUME NEW q \in Seq(Request), NEW i \in DOMAIN q, NodesOnce(q)
    PROVE  /\ RemoveAt(q, i) \in Seq(Request)
           /\ Size(RemoveAt(q, i)) = Size(q) - 1
           /\ NodesOnce(RemoveAt(q, i))
           /\ q[i] \in Entries(q)
           /\ \A x \in Entries(RemoveAt(q, i)) : x \in Entries(q)
           /\ \A x \in Entries(q) : x \in Entries(RemoveAt(q, i)) <=> x.node # q[i].node
<1> DEFINE r == RemoveAt(q, i)
<1>1. Len(q) \in Nat /\ i \in 1..Len(q) /\ \A k \in {i} : k \in 1..Len(q)
  BY LenProperties
<1>2. r \in Seq(Request) /\ LeavesOut(r, q, {i})
  BY <1>1, RemoveAtLeavesOut
<1> HIDE DEF r
<1>3. Cardinality({i}) = 1
  BY FS_Singleton
<1>4. /\ Size(r) = Size(q) - Cardinality({i})
      /\ \A y : y \in Entries(r) <=> \E k \in 1..Len(q) : k \notin {i} /\ y = q[k]
      /\ NodesOnce(r)
      /\ \A x \in Entries(q) : x \in Entries(r) <=> x.node \notin {q[k].node : k \in {i}}
  BY <1>1, <1>2, LeavesOutFacts
<1>5. q[i] \in Entries(q) /\ \A x \in Entries(r) : x \in Entries(q)
  BY <1>1, <1>4 DEF Entries
<1> QED
  BY <1>2, <1>3, <1>4, <1>5 DEF r

(* One lock for each request served.                                       *)
LockFor(x) == <<x.node, x.mode, 0>>

LocksServed(q) == {LockFor(x) : x \in {e \in Entries(q) : e.node \in ServedNodes(q)}}

LEMMA LocksServedFacts ==
    ASSUME NEW q \in Seq(Request), ~Empty(q), NodesOnce(q)
    PROVE  IsFiniteSet(LocksServed(q)) /\ Cardinality(LocksServed(q)) = NewLocks(q)
<1> DEFINE K == Served(q)
           T == LocksServed(q)
           f == [k \in K |-> LockFor(q[k])]
<1>1. Len(q) \in Nat /\ Len(q) # 0 /\ DOMAIN q = 1..Len(q)
  BY LenProperties, QueueFacts DEF Size
<1>2. \A k \in K : k \in 1..Len(q)
  BY <1>1 DEF Served, SharedAt
<1>3. IsFiniteSet(K)
  <2>1. IsFiniteSet(1..Len(q))
    BY <1>1, FS_Interval
  <2>2. K \subseteq 1..Len(q)
    BY <1>2
  <2> QED
    BY <2>1, <2>2, FS_Subset
<1>4. NewLocks(q) = Cardinality(K)
  BY DEF NewLocks
<1>5. \A k, l \in K : q[k].node = q[l].node => k = l
  BY <1>2 DEF NodesOnce
<1>6. \A k \in K : q[k] \in Entries(q) /\ q[k].node \in ServedNodes(q)
  BY <1>2 DEF Entries, ServedNodes
<1>7. \A x \in Entries(q) : x.node \in ServedNodes(q) => \E k \in K : x = q[k]
  <2>1. ASSUME NEW i \in 1..Len(q), NEW k \in K, q[i].node = q[k].node PROVE q[i] = q[k]
    BY <1>2, <2>1 DEF NodesOnce
  <2> QED
    BY <2>1 DEF Entries, ServedNodes
<1> HIDE DEF K
<1>8. \A k \in K : f[k] = LockFor(q[k]) /\ f[k] \in T
  BY <1>6 DEF LocksServed
<1>9. \A y \in T : \E k \in K : f[k] = y
  BY <1>7, <1>8 DEF LocksServed
<1>10. f \in [K -> T]
  <2> HIDE DEF T
  <2> QED
    BY <1>8
<1>11. \A k, l \in K : f[k] = f[l] => k = l
  <2>1. \A k, l \in K : LockFor(q[k]) = LockFor(q[l]) => q[k].node = q[l].node
    BY DEF LockFor
  <2> QED
    BY <1>5, <1>8, <2>1
<1> HIDE DEF f, T
<1>12. f \in Surjection(K, T)
  BY <1>9, <1>10 DEF Surjection
<1>13. f \in Injection(K, T)
  BY <1>10, <1>11 DEF Injection, IsInjective
<1>14. IsFiniteSet(T) /\ Cardinality(T) = Cardinality(K)
  BY <1>3, <1>12, <1>13, FS_Surjection
<1> QED
  BY <1>4, <1>14 DEF T

(* A release serves shared requests only, or the oldest one.               *)
LEMMA ServedModes ==
    ASSUME NEW q \in Seq(Request), ~Empty(q), NodesOnce(q), NEW r \in Entries(q),
           r.node \in ServedNodes(q)
    PROVE  IF q[1].mode = "shared" THEN r.mode = "shared" ELSE r = q[1]
<1>1. Len(q) \in Nat /\ Len(q) # 0 /\ DOMAIN q = 1..Len(q) /\ 1 \in 1..Len(q)
  BY LenProperties, QueueFacts DEF Size
<1>2. PICK i \in 1..Len(q) : r = q[i]
  BY DEF Entries
<1>3. PICK k \in Served(q) : q[k].node = r.node
  BY DEF ServedNodes
<1>4. k \in 1..Len(q)
  BY <1>1, <1>3 DEF Served, SharedAt
<1>5. k = i
  BY <1>2, <1>3, <1>4 DEF NodesOnce
<1> QED
  BY <1>2, <1>3, <1>5 DEF Served, SharedAt

-----------------------------------------------------------------------------
(* The node of a request has been told to wait for it.  X are the pairs of *)
(* a task and a semaphore that it asks for otherwise than by a call of     *)
(* ObtainSemaphore: none in this module, those of ObtainSemaphoreList in   *)
(* SemaphoreList.                                                          *)
Claims(r, s, X) ==
    \/ r.node \in Tasks /\ waitingFor[r.node] = [sem |-> s, mode |-> r.mode]
    \/ <<r.node, s>> \in X /\ r.mode = "exclusive"
    \/ /\ r.node \in Msgs /\ Queued(r.node) /\ bid[r.node] # NULL
       /\ bid[r.node].sem = s /\ bid[r.node].mode = r.mode
       /\ ssmSemaphore[r.node] = OwnerFor(bid[r.node].task, r.mode)

InQueue(n, s) == \E r \in Entries(ssWaitQueue[s]) : r.node = n

QueueInv(X) ==
    /\ \A s \in Sems : NodesOnce(ssWaitQueue[s])
    /\ \A s \in Sems : \A r \in Entries(ssWaitQueue[s]) : Claims(r, s, X)
    /\ \A m \in Msgs : Queued(m) => bid[m] # NULL /\ InQueue(m, bid[m].sem)
    /\ \A x \in X : \E t \in Tasks, s \in Sems : x = <<t, s>> /\ Running(t)

(* CountsAgree.                                                            *)
Balanced ==
    \A s \in Sems : ssQueueCount[s] + 1 = ssNestCount[s] + Size(ssWaitQueue[s])

(* AwakeMeansHanded in terms of the requests in the queue.                 *)
WakeInv ==
    \A t \in Tasks : ~Running(t) => (sigSingle[t] <=> ~InQueue(t, waitingFor[t].sem))

IInv(X) == TypeOK /\ QueueInv(X) /\ Balanced /\ WakeInv

-----------------------------------------------------------------------------
LEMMA InitIInv == Init => IInv({})
<1> SUFFICES ASSUME Init PROVE IInv({})
  OBVIOUS
<1>1. TypeOK
  <2>1. ssWaitQueue \in [Sems -> Seq(Request)]
    <3>1. << >> \in Seq(Request)
      OBVIOUS
    <3> QED
      BY <3>1 DEF Init
  <2> QED
    BY <2>1 DEF Init, TypeOK
<1>2. \A s \in Sems : ssWaitQueue[s] = << >> /\ ssNestCount[s] = 0 /\ ssQueueCount[s] = -1
  BY DEF Init
<1>3. \A s \in Sems : /\ Entries(ssWaitQueue[s]) = {} /\ Size(ssWaitQueue[s]) = 0
                      /\ NodesOnce(ssWaitQueue[s]) /\ Empty(ssWaitQueue[s])
  BY <1>2, EmptyQueueFacts
<1>4. QueueInv({})
  BY <1>3 DEF Init, QueueInv, Queued
<1>5. Balanced
  BY <1>2, <1>3 DEF Balanced
<1>6. WakeInv
  BY DEF Init, WakeInv, Running
<1> QED
  BY <1>1, <1>4, <1>5, <1>6 DEF IInv

-----------------------------------------------------------------------------
(* What the parts of the actions do                                        *)

LEMMA AcquireFacts ==
    ASSUME TypeOK, Balanced, NEW s \in Sems, NEW owner \in Tasks \cup {NULL},
           Acquire(s, owner)
    PROVE  /\ ssOwner' \in [Sems -> Tasks \cup {NULL}]
           /\ ssNestCount' \in [Sems -> Int]
           /\ ssQueueCount' \in [Sems -> Int]
           /\ ssWaitQueue' = ssWaitQueue
           /\ Balanced'
<1>1. /\ ssOwner \in [Sems -> Tasks \cup {NULL}]
      /\ ssNestCount \in [Sems -> Int] /\ ssQueueCount \in [Sems -> Int]
      /\ ssWaitQueue \in [Sems -> Seq(Request)]
  BY DEF TypeOK
<1>2. \A s2 \in Sems : Size(ssWaitQueue[s2]) \in Nat
  BY <1>1, QueueFacts
<1>3. /\ ssOwner' \in [Sems -> Tasks \cup {NULL}]
      /\ ssNestCount' \in [Sems -> Int] /\ ssQueueCount' \in [Sems -> Int]
      /\ ssWaitQueue' = ssWaitQueue
  BY <1>1 DEF Acquire
<1>4. \A s2 \in Sems : ssQueueCount'[s2] + 1 = ssNestCount'[s2] + Size(ssWaitQueue[s2])
  BY <1>1, <1>2 DEF Acquire, Balanced
<1> QED
  BY <1>3, <1>4 DEF Balanced

LEMMA EnlistFacts ==
    ASSUME NEW X, TypeOK, QueueInv(X), Balanced, NEW s \in Sems, NEW x \in Request, Enlist(s, x),
           ~InQueue(x.node, s)
    PROVE  /\ ssQueueCount' \in [Sems -> Int]
           /\ ssWaitQueue' \in [Sems -> Seq(Request)]
           /\ \A s2 \in Sems : NodesOnce(ssWaitQueue'[s2])
           /\ \A s2 \in Sems : s2 # s => ssWaitQueue'[s2] = ssWaitQueue[s2]
           /\ Entries(ssWaitQueue'[s]) = Entries(ssWaitQueue[s]) \cup {x}
           /\ Balanced'
<1>1. /\ ssNestCount \in [Sems -> Int] /\ ssQueueCount \in [Sems -> Int]
      /\ ssWaitQueue \in [Sems -> Seq(Request)]
  BY DEF TypeOK
<1> DEFINE q == ssWaitQueue[s]
           r == Append(q, x)
<1>2. q \in Seq(Request)
  BY <1>1
<1>3. NodesOnce(q) /\ \A y \in Entries(q) : y.node # x.node
  BY DEF QueueInv, InQueue
<1>4. r \in Seq(Request) /\ Size(r) = Size(q) + 1 /\ Entries(r) = Entries(q) \cup {x} /\ NodesOnce(r)
  <2> HIDE DEF q
  <2> QED
    BY <1>2, <1>3, AppendRequestFacts
<1>5. ssWaitQueue' = [ssWaitQueue EXCEPT ![s] = r]
  BY DEF Enlist
<1> HIDE DEF r
<1>6. ssWaitQueue' \in [Sems -> Seq(Request)] /\ ssWaitQueue'[s] = r
  BY <1>1, <1>4, <1>5
<1>7. \A s2 \in Sems : s2 # s => ssWaitQueue'[s2] = ssWaitQueue[s2]
  BY <1>1, <1>5
<1>8. \A s2 \in Sems : NodesOnce(ssWaitQueue'[s2])
  BY <1>4, <1>6, <1>7 DEF QueueInv
<1>9. ssNestCount' = ssNestCount /\ ssQueueCount' = [ssQueueCount EXCEPT ![s] = @ + 1]
  BY DEF Enlist
<1>10. \A s2 \in Sems : Size(ssWaitQueue[s2]) \in Nat
  BY <1>1, QueueFacts
<1>11. \A s2 \in Sems : ssQueueCount'[s2] + 1 = ssNestCount'[s2] + Size(ssWaitQueue'[s2])
  BY <1>1, <1>4, <1>6, <1>7, <1>9, <1>10 DEF Balanced
<1> QED
  BY <1>1, <1>4, <1>6, <1>7, <1>8, <1>9, <1>11 DEF Balanced

(* What asks for semaphores otherwise is awake.                            *)
LEMMA AskersRun ==
    ASSUME NEW X, QueueInv(X), NEW t, NEW s, <<t, s>> \in X
    PROVE  t \in Tasks /\ s \in Sems /\ Running(t)
<1>1. PICK u \in Tasks, s2 \in Sems : <<t, s>> = <<u, s2>> /\ Running(u)
  BY DEF QueueInv
<1> QED
  BY <1>1

(* The head of a queue names the task that will own the semaphore.         *)
LEMMA NextOwnerFacts ==
    ASSUME NEW X, TypeOK, QueueInv(X), NEW s \in Sems, ~Empty(ssWaitQueue[s]), NEW ssm,
           \A m \in Msgs : Queued(m) => ssm[m] = ssmSemaphore[m]
    PROVE  LET q == ssWaitQueue[s]
           IN  /\ q[1] \in Entries(q)
               /\ NextOwner(q, ssm) = IF q[1].mode = "shared" THEN NULL
                                      ELSE IF q[1].node \in Tasks THEN q[1].node
                                      ELSE bid[q[1].node].task
               /\ NextOwner(q, ssm) \in Tasks \cup {NULL}
<1> DEFINE q == ssWaitQueue[s]
<1>1. q \in Seq(Request)
  BY DEF TypeOK
<1>2. q[1] \in Entries(q) /\ q[1] \in Request
  <2> HIDE DEF q
  <2>1. ~Empty(q)
    BY DEF q
  <2> QED
    BY <1>1, <2>1, QueueFacts
<1> DEFINE head == q[1]
<1>3. Claims(head, s, X) /\ head.node \in Tasks \cup Msgs /\ head.mode \in Modes
  BY <1>2 DEF QueueInv, Request
<1>4. NextOwner(q, ssm) = IF head.mode = "shared" THEN NULL
                          ELSE IF head.node \in Tasks THEN head.node ELSE ssm[head.node]
  BY DEF NextOwner
<1> HIDE DEF head
<1>5. ASSUME head.node \notin Tasks, head.mode # "shared"
      PROVE  ssm[head.node] = bid[head.node].task /\ ssm[head.node] \in Tasks
  <2>1. /\ head.node \in Msgs /\ Queued(head.node) /\ bid[head.node] # NULL
        /\ ssmSemaphore[head.node] = OwnerFor(bid[head.node].task, head.mode)
    BY <1>3, <1>5, AskersRun DEF Claims
  <2>2. bid[head.node].task \in Tasks
    BY <2>1 DEF TypeOK, Bid
  <2> QED
    BY <1>5, <2>1, <2>2 DEF OwnerFor
<1>6. NextOwner(q, ssm) = IF head.mode = "shared" THEN NULL
                          ELSE IF head.node \in Tasks THEN head.node
                          ELSE bid[head.node].task
  BY <1>4, <1>5
<1>7. NextOwner(q, ssm) \in Tasks \cup {NULL}
  BY <1>4, <1>5
<1> QED
  BY <1>2, <1>6, <1>7 DEF head

(* The nodes that a release of s serves.                                   *)
ServedBy(s) ==
    IF ssNestCount[s] = 1 /\ AnyQueued(s) THEN ServedNodes(ssWaitQueue[s]) ELSE {}

(* The nodes a release serves leave the queue, and with them only they do. *)
ServesOnly(nodes, s, ssm) ==
    /\ \A n \in nodes : InQueue(n, s)
    /\ \A x \in Entries(ssWaitQueue[s]) : x \in Entries(ssWaitQueue'[s]) <=> x.node \notin nodes
    /\ \A x \in Entries(ssWaitQueue'[s]) : x \in Entries(ssWaitQueue[s])
    /\ \A s2 \in Sems : s2 # s => ssWaitQueue'[s2] = ssWaitQueue[s2]
    /\ \A s2 \in Sems : NodesOnce(ssWaitQueue'[s2])
    /\ \A t \in Tasks : sigSingle'[t] <=> sigSingle[t] \/ t \in nodes
    /\ \A m \in Msgs : /\ ssmSemaphore'[m] = IF m \in nodes THEN s ELSE ssm[m]
                       /\ msgAt'[m] = IF m \in nodes THEN "port" ELSE msgAt[m]

LEMMA ReleaseFacts ==
    ASSUME NEW X, TypeOK, QueueInv(X), Balanced, NEW s \in Sems,
           NEW ssm \in [Msgs -> Tasks \cup Sems \cup {NULL}],
           \A m \in Msgs : Queued(m) => ssm[m] = ssmSemaphore[m],
           ReleaseSem(s, ssm)
    PROVE  /\ ssOwner' \in [Sems -> Tasks \cup {NULL}]
           /\ ssNestCount' \in [Sems -> Int]
           /\ ssQueueCount' \in [Sems -> Int]
           /\ ssWaitQueue' \in [Sems -> Seq(Request)]
           /\ sigSingle' \in [Tasks -> BOOLEAN]
           /\ ssmSemaphore' \in [Msgs -> Tasks \cup Sems \cup {NULL}]
           /\ msgAt' \in [Msgs -> {"program", "queue", "port"}]
           /\ ServesOnly(ServedBy(s), s, ssm)
           /\ Balanced'
<1> DEFINE q == ssWaitQueue[s]
           last == ssNestCount[s] = 1
           serve == last /\ AnyQueued(s)
           nodes == ServedBy(s)
           r == IF serve THEN Unserved(q) ELSE q
<1>1. /\ ssOwner \in [Sems -> Tasks \cup {NULL}]
      /\ ssNestCount \in [Sems -> Int] /\ ssQueueCount \in [Sems -> Int]
      /\ ssWaitQueue \in [Sems -> Seq(Request)] /\ q \in Seq(Request)
      /\ sigSingle \in [Tasks -> BOOLEAN]
      /\ msgAt \in [Msgs -> {"program", "queue", "port"}]
  BY DEF TypeOK
<1>2. /\ ssNestCount' = [ssNestCount EXCEPT ![s] = IF serve THEN NewLocks(q) ELSE @ - 1]
      /\ ssQueueCount' = [ssQueueCount EXCEPT ![s] = IF last /\ ~serve THEN -1 ELSE @ - 1]
      /\ ssOwner' = [ssOwner EXCEPT ![s] =
                        IF serve THEN NextOwner(q, ssm) ELSE IF last THEN NULL ELSE @]
      /\ ssWaitQueue' = [ssWaitQueue EXCEPT ![s] = r]
      /\ sigSingle' = [t \in Tasks |-> sigSingle[t] \/ t \in nodes]
      /\ ssmSemaphore' = [m \in Msgs |-> IF m \in nodes THEN s ELSE ssm[m]]
      /\ msgAt' = [m \in Msgs |-> IF m \in nodes THEN "port" ELSE msgAt[m]]
  BY DEF ReleaseSem, ServedBy
<1>3. Size(q) \in Nat /\ (Empty(q) <=> Size(q) = 0) /\ NodesOnce(q)
  <2>1. NodesOnce(q)
    BY DEF QueueInv
  <2> HIDE DEF q
  <2> QED
    BY <1>1, <2>1, QueueFacts
<1>4. AnyQueued(s) <=> ssQueueCount[s] - 1 >= 0 /\ ~Empty(q)
  BY DEF AnyQueued, Empty
<1>5. nodes = IF serve THEN ServedNodes(q) ELSE {}
  BY DEF ServedBy
<1> HIDE DEF q, nodes
<1>6. ASSUME serve
      PROVE  /\ r \in Seq(Request) /\ NewLocks(q) \in Nat /\ NewLocks(q) # 0
             /\ Size(r) = Size(q) - NewLocks(q)
             /\ NodesOnce(r)
             /\ \A x \in Entries(r) : x \in Entries(q)
             /\ \A n \in nodes : \E x \in Entries(q) : x.node = n
             /\ \A x \in Entries(q) : x \in Entries(r) <=> x.node \notin nodes
  BY <1>1, <1>3, <1>4, <1>6, <1>5, ServeFacts
<1>7. ASSUME ~serve
      PROVE  r = q /\ nodes = {}
  BY <1>7, <1>5
<1>8. ASSUME serve PROVE NextOwner(q, ssm) \in Tasks \cup {NULL}
  BY <1>4, <1>8, NextOwnerFacts DEF q
<1> HIDE DEF r
<1>9. /\ r \in Seq(Request) /\ NodesOnce(r)
      /\ \A x \in Entries(r) : x \in Entries(q)
      /\ \A n \in nodes : \E x \in Entries(q) : x.node = n
      /\ \A x \in Entries(q) : x \in Entries(r) <=> x.node \notin nodes
  BY <1>1, <1>3, <1>6, <1>7
<1>10. ssWaitQueue' \in [Sems -> Seq(Request)] /\ ssWaitQueue'[s] = r
  BY <1>1, <1>2, <1>9
<1>11. \A s2 \in Sems : s2 # s => ssWaitQueue'[s2] = ssWaitQueue[s2]
  BY <1>1, <1>2
<1>12. /\ ssOwner' \in [Sems -> Tasks \cup {NULL}]
       /\ ssNestCount' \in [Sems -> Int] /\ ssQueueCount' \in [Sems -> Int]
       /\ sigSingle' \in [Tasks -> BOOLEAN]
       /\ ssmSemaphore' \in [Msgs -> Tasks \cup Sems \cup {NULL}]
       /\ msgAt' \in [Msgs -> {"program", "queue", "port"}]
  BY <1>1, <1>2, <1>6, <1>8
<1>13. ServesOnly(nodes, s, ssm)
  <2>1. \A n \in nodes : InQueue(n, s)
    BY <1>9 DEF InQueue, q
  <2>2. \A s2 \in Sems : NodesOnce(ssWaitQueue'[s2])
    BY <1>9, <1>10, <1>11 DEF QueueInv
  <2>3. /\ \A t \in Tasks : sigSingle'[t] <=> sigSingle[t] \/ t \in nodes
        /\ \A m \in Msgs : /\ ssmSemaphore'[m] = IF m \in nodes THEN s ELSE ssm[m]
                           /\ msgAt'[m] = IF m \in nodes THEN "port" ELSE msgAt[m]
    BY <1>2
  <2> QED
    BY <1>9, <1>10, <1>11, <2>1, <2>2, <2>3 DEF ServesOnly, q
<1>14. \A s2 \in Sems : ssQueueCount'[s2] + 1 = ssNestCount'[s2] + Size(ssWaitQueue'[s2])
  <2>1. ASSUME NEW s2 \in Sems, s2 # s
        PROVE  ssQueueCount'[s2] + 1 = ssNestCount'[s2] + Size(ssWaitQueue'[s2])
    BY <1>1, <1>2, <1>11, <2>1 DEF Balanced
  <2>2. ssQueueCount[s] + 1 = ssNestCount[s] + Size(q)
    BY DEF Balanced, q
  <2>3. /\ ssNestCount'[s] = IF serve THEN NewLocks(q) ELSE ssNestCount[s] - 1
        /\ ssQueueCount'[s] = IF last /\ ~serve THEN -1 ELSE ssQueueCount[s] - 1
        /\ ssNestCount[s] \in Int /\ ssQueueCount[s] \in Int
    BY <1>1, <1>2
  <2>4. ssQueueCount'[s] + 1 = ssNestCount'[s] + Size(r)
    BY <1>3, <1>4, <1>6, <1>7, <2>2, <2>3
  <2> QED
    BY <1>10, <2>1, <2>4
<1> QED
  BY <1>10, <1>12, <1>13, <1>14 DEF Balanced, nodes

(* A step that leaves the queues alone, and the claims of all in them.     *)
LEMMA QueuesKept ==
    ASSUME NEW X, QueueInv(X), ssWaitQueue' = ssWaitQueue,
           \A t \in Tasks, s \in Sems : InQueue(t, s) => waitingFor'[t] = waitingFor[t],
           \A t \in Tasks : Running(t) => Running(t)',
           \A m \in Msgs : Queued(m) <=> Queued(m)',
           \A m \in Msgs : Queued(m) => bid'[m] = bid[m] /\ ssmSemaphore'[m] = ssmSemaphore[m]
    PROVE  QueueInv(X)'
<1>1. ASSUME NEW s \in Sems, NEW r \in Entries(ssWaitQueue[s]) PROVE Claims(r, s, X)'
  <2>1. Claims(r, s, X)
    BY DEF QueueInv
  <2>2. r.node \in Tasks => waitingFor'[r.node] = waitingFor[r.node]
    BY DEF InQueue
  <2> QED
    BY <2>1, <2>2 DEF Claims
<1>2. ASSUME NEW m \in Msgs, Queued(m)' PROVE bid'[m] # NULL /\ InQueue(m, bid[m].sem)'
  BY <1>2 DEF QueueInv, InQueue
<1>3. \A s \in Sems : NodesOnce(ssWaitQueue'[s])
  BY DEF QueueInv
<1>4. \A x \in X : \E t \in Tasks, s \in Sems : x = <<t, s>> /\ Running(t)'
  BY DEF QueueInv
<1> QED
  BY <1>1, <1>2, <1>3, <1>4 DEF QueueInv

LEMMA WakeKept ==
    ASSUME WakeInv, ssWaitQueue' = ssWaitQueue,
           \A t \in Tasks : ~Running(t)' =>
               waitingFor'[t] = waitingFor[t] /\ (sigSingle'[t] <=> sigSingle[t])
    PROVE  WakeInv'
<1>1. ASSUME NEW t \in Tasks, ~Running(t)'
      PROVE  sigSingle'[t] <=> ~InQueue(t, waitingFor[t].sem)'
  <2>1. waitingFor'[t] = waitingFor[t] /\ (sigSingle'[t] <=> sigSingle[t])
    BY <1>1
  <2> QED
    BY <1>1, <2>1 DEF WakeInv, Running, InQueue
<1> QED
  BY <1>1 DEF WakeInv

(* Any call that returns at once with a lock, or puts it into a message.   *)
LEMMA ObtainNowIInv ==
    ASSUME NEW X, IInv(X), NEW t \in Tasks, NEW s \in Sems, NEW mode \in Modes,
           Acquire(s, OwnerFor(t, mode)),
           obtained' = [obtained EXCEPT ![t][s][mode] = @ + 1],
           UNCHANGED <<sigSingle, waitingFor, bid, msgVars>>
    PROVE  IInv(X)'
<1>1. OwnerFor(t, mode) \in Tasks \cup {NULL}
  BY DEF OwnerFor
<1>2. /\ ssOwner' \in [Sems -> Tasks \cup {NULL}] /\ ssNestCount' \in [Sems -> Int]
      /\ ssQueueCount' \in [Sems -> Int] /\ ssWaitQueue' = ssWaitQueue /\ Balanced'
  BY <1>1, AcquireFacts DEF IInv
<1>3. TypeOK'
  BY <1>2 DEF IInv, TypeOK, msgVars
<1>4. QueueInv(X)'
  BY <1>2, QueuesKept DEF IInv, msgVars, Queued, Running
<1>5. WakeInv'
  BY <1>2, WakeKept DEF IInv, Running
<1> QED
  BY <1>2, <1>3, <1>4, <1>5 DEF IInv

LEMMA ProcureNowIInv ==
    ASSUME NEW X, IInv(X), NEW t \in Tasks, NEW m \in Msgs, NEW s \in Sems, NEW mode \in Modes,
           ProcureNow(t, m, s, mode)
    PROVE  IInv(X)'
<1>1. /\ Acquire(s, OwnerFor(t, mode)) /\ OwnerFor(t, mode) \in Tasks \cup {NULL}
      /\ ~Queued(m)
      /\ ssmSemaphore' = [ssmSemaphore EXCEPT ![m] = s]
      /\ msgAt' = [msgAt EXCEPT ![m] = "port"]
      /\ bid' = [bid EXCEPT ![m] = [task |-> t, sem |-> s, mode |-> mode]]
      /\ UNCHANGED <<sigSingle, waitingFor, obtained>>
  BY DEF ProcureNow, OwnerFor, Queued
<1>2. /\ ssOwner' \in [Sems -> Tasks \cup {NULL}] /\ ssNestCount' \in [Sems -> Int]
      /\ ssQueueCount' \in [Sems -> Int] /\ ssWaitQueue' = ssWaitQueue /\ Balanced'
  BY <1>1, AcquireFacts DEF IInv
<1>3. TypeOK'
  BY <1>1, <1>2 DEF IInv, TypeOK, Bid
<1>4. \A n \in Msgs : (Queued(n) <=> Queued(n)') /\
          (Queued(n) => bid'[n] = bid[n] /\ ssmSemaphore'[n] = ssmSemaphore[n])
  BY <1>1 DEF IInv, TypeOK, Queued
<1>5. QueueInv(X)'
  BY <1>1, <1>2, <1>4, QueuesKept DEF IInv, Running
<1>6. WakeInv'
  BY <1>1, <1>2, WakeKept DEF IInv, Running
<1> QED
  BY <1>2, <1>3, <1>5, <1>6 DEF IInv

(* Only a task that asks for a semaphore is in its queue, and only a       *)
(* message whose bid is open.                                              *)
LEMMA WhoIsQueued ==
    ASSUME NEW X, TypeOK, QueueInv(X), NEW s \in Sems, NEW n, InQueue(n, s)
    PROVE  /\ n \in Tasks \cup Msgs
           /\ n \in Tasks => \/ ~Running(n) /\ waitingFor[n].sem = s
                             \/ Running(n) /\ <<n, s>> \in X
           /\ n \in Msgs => Queued(n) /\ bid[n] # NULL /\ bid[n].sem = s
<1>1. PICK r \in Entries(ssWaitQueue[s]) : r.node = n
  BY DEF InQueue
<1>2. r \in Request
  <2>1. ssWaitQueue[s] \in Seq(Request)
    BY DEF TypeOK
  <2> QED
    BY <2>1, QueueFacts
<1>3. Claims(r, s, X) /\ Tasks \cap Msgs = {} /\ r.mode \in Modes /\ n \in Tasks \cup Msgs
  BY <1>1, <1>2, ConstantsAssumption DEF QueueInv, Request
<1>4. ASSUME n \in Tasks
      PROVE  \/ ~Running(n) /\ waitingFor[n].sem = s
             \/ Running(n) /\ <<n, s>> \in X
  <2>1. CASE waitingFor[n] = [sem |-> s, mode |-> r.mode]
    <3>1. waitingFor[n] \in Want
      BY <1>3, <2>1 DEF Want
    <3> QED
      BY <2>1, <3>1, ConstantsAssumption DEF Running
  <2>2. CASE <<n, s>> \in X
    BY <2>2, AskersRun
  <2> QED
    BY <1>1, <1>3, <1>4, <2>1, <2>2 DEF Claims
<1>5. ASSUME n \in Msgs PROVE Queued(n) /\ bid[n] # NULL /\ bid[n].sem = s
  <2>1. <<n, s>> \notin X
    BY <1>3, <1>5, AskersRun
  <2> QED
    BY <1>1, <1>3, <1>5, <2>1 DEF Claims
<1> QED
  BY <1>3, <1>4, <1>5

LEMMA ObtainSleepIInv ==
    ASSUME NEW X, IInv(X), NEW t \in Tasks, NEW s \in Sems, NEW mode \in Modes,
           ObtainSleep(t, s, mode), \A s2 : <<t, s2>> \notin X
    PROVE  IInv(X)'
<1> DEFINE x == [node |-> t, mode |-> mode]
<1>1. /\ Running(t) /\ Enlist(s, x) /\ x \in Request
      /\ sigSingle' = [sigSingle EXCEPT ![t] = FALSE]
      /\ waitingFor' = [waitingFor EXCEPT ![t] = [sem |-> s, mode |-> mode]]
      /\ UNCHANGED <<ssOwner, ssNestCount, obtained, bid, msgVars>>
  BY DEF ObtainSleep, Enlist, ClearSingle, Request
<1>2. \A s2 \in Sems : ~InQueue(t, s2)
  BY <1>1, WhoIsQueued DEF IInv
<1>3. x.node = t /\ x.mode = mode
  OBVIOUS
<1> HIDE DEF x
<1>4. /\ ssQueueCount' \in [Sems -> Int] /\ ssWaitQueue' \in [Sems -> Seq(Request)]
      /\ \A s2 \in Sems : NodesOnce(ssWaitQueue'[s2])
      /\ \A s2 \in Sems : s2 # s => ssWaitQueue'[s2] = ssWaitQueue[s2]
      /\ Entries(ssWaitQueue'[s]) = Entries(ssWaitQueue[s]) \cup {x}
      /\ Balanced'
  BY <1>1, <1>2, <1>3, EnlistFacts DEF IInv
<1>5. TypeOK'
  BY <1>1, <1>4 DEF IInv, TypeOK, Want, msgVars
<1>6. /\ waitingFor'[t] = [sem |-> s, mode |-> mode] /\ ~Running(t)' /\ ~sigSingle'[t]
      /\ \A u \in Tasks : u # t => waitingFor'[u] = waitingFor[u] /\ sigSingle'[u] = sigSingle[u]
  <2>1. [sem |-> s, mode |-> mode] \in Want
    BY DEF Want
  <2> QED
    BY <1>1, <2>1, ConstantsAssumption DEF IInv, TypeOK, Running
<1>7. \A n, s2 : s2 \in Sems /\ n # t => (InQueue(n, s2)' <=> InQueue(n, s2))
  BY <1>3, <1>4 DEF InQueue
<1>8. QueueInv(X)'
  <2>1. ASSUME NEW s2 \in Sems, NEW r \in Entries(ssWaitQueue'[s2]) PROVE Claims(r, s2, X)'
    <3>1. CASE r \in Entries(ssWaitQueue[s2])
      <4>1. Claims(r, s2, X) /\ r.node # t
        BY <1>2, <3>1 DEF IInv, QueueInv, InQueue
      <4> QED
        BY <1>1, <1>6, <4>1 DEF Claims, Queued, msgVars
    <3>2. CASE s2 = s /\ r = x
      BY <1>3, <1>6, <3>2 DEF Claims
    <3> QED
      BY <1>4, <2>1, <3>1, <3>2
  <2>2. ASSUME NEW m \in Msgs, Queued(m)' PROVE bid'[m] # NULL /\ InQueue(m, bid[m].sem)'
    <3>1. Queued(m) /\ bid'[m] = bid[m] /\ m # t
      BY <1>1, <2>2, ConstantsAssumption DEF Queued, msgVars
    <3>2. bid[m] # NULL /\ InQueue(m, bid[m].sem)
      BY <3>1 DEF IInv, QueueInv
    <3>3. bid[m].sem \in Sems
      BY <3>2 DEF IInv, TypeOK, Bid
    <3> QED
      BY <1>1, <1>7, <3>1, <3>2, <3>3
  <2>3. \A x1 \in X : \E u \in Tasks, s2 \in Sems : x1 = <<u, s2>> /\ Running(u)'
    <3>1. ASSUME NEW x1 \in X PROVE \E u \in Tasks, s2 \in Sems : x1 = <<u, s2>> /\ Running(u)'
      <4>1. PICK u \in Tasks, s2 \in Sems : x1 = <<u, s2>> /\ Running(u)
        BY DEF IInv, QueueInv
      <4>2. u # t
        BY <4>1
      <4> QED
        BY <1>6, <4>1, <4>2 DEF Running
    <3> QED
      BY <3>1
  <2> QED
    BY <1>4, <2>1, <2>2, <2>3 DEF QueueInv
<1>9. WakeInv'
  <2>1. ASSUME NEW u \in Tasks, ~Running(u)'
        PROVE  sigSingle'[u] <=> ~InQueue(u, waitingFor[u].sem)'
    <3>1. CASE u = t
      BY <1>3, <1>4, <1>6, <3>1 DEF InQueue
    <3>2. CASE u # t
      <4>1. ~Running(u) /\ waitingFor'[u] = waitingFor[u] /\ waitingFor[u].sem \in Sems
        BY <1>6, <2>1, <3>2 DEF Running, IInv, TypeOK, Want
      <4> QED
        BY <1>6, <1>7, <3>2, <4>1 DEF IInv, WakeInv
    <3> QED
      BY <3>1, <3>2
  <2> QED
    BY <2>1 DEF WakeInv
<1> QED
  BY <1>4, <1>5, <1>8, <1>9 DEF IInv

LEMMA ProcureQueueIInv ==
    ASSUME NEW X, IInv(X), NEW t \in Tasks, NEW m \in Msgs, NEW s \in Sems, NEW mode \in Modes,
           ProcureQueue(t, m, s, mode)
    PROVE  IInv(X)'
<1> DEFINE x == [node |-> m, mode |-> mode]
<1>1. /\ ~Queued(m) /\ Enlist(s, x) /\ x \in Request /\ x.node = m /\ x.mode = mode
      /\ ssmSemaphore' = [ssmSemaphore EXCEPT ![m] = OwnerFor(t, mode)]
      /\ msgAt' = [msgAt EXCEPT ![m] = "queue"]
      /\ bid' = [bid EXCEPT ![m] = [task |-> t, sem |-> s, mode |-> mode]]
      /\ OwnerFor(t, mode) \in Tasks \cup {NULL}
      /\ UNCHANGED <<ssOwner, ssNestCount, sigSingle, waitingFor, obtained>>
  BY DEF ProcureQueue, Enlist, Queued, Request, OwnerFor
<1>2. \A s2 \in Sems : ~InQueue(m, s2)
  BY <1>1, WhoIsQueued DEF IInv
<1> HIDE DEF x
<1>3. /\ ssQueueCount' \in [Sems -> Int] /\ ssWaitQueue' \in [Sems -> Seq(Request)]
      /\ \A s2 \in Sems : NodesOnce(ssWaitQueue'[s2])
      /\ \A s2 \in Sems : s2 # s => ssWaitQueue'[s2] = ssWaitQueue[s2]
      /\ Entries(ssWaitQueue'[s]) = Entries(ssWaitQueue[s]) \cup {x}
      /\ Balanced'
  BY <1>1, <1>2, EnlistFacts DEF IInv
<1>4. TypeOK'
  BY <1>1, <1>3 DEF IInv, TypeOK, Bid
<1>5. /\ bid'[m] = [task |-> t, sem |-> s, mode |-> mode] /\ bid'[m] # NULL /\ Queued(m)'
      /\ ssmSemaphore'[m] = OwnerFor(t, mode)
      /\ \A n \in Msgs : n # m => /\ bid'[n] = bid[n] /\ ssmSemaphore'[n] = ssmSemaphore[n]
                                  /\ Queued(n)' <=> Queued(n)
  <2>1. [task |-> t, sem |-> s, mode |-> mode] \in Bid
    BY DEF Bid
  <2> QED
    BY <1>1, <2>1, ConstantsAssumption DEF IInv, TypeOK, Queued
<1>6. \A n, s2 : s2 \in Sems /\ n # m => (InQueue(n, s2)' <=> InQueue(n, s2))
  BY <1>1, <1>3 DEF InQueue
<1>7. QueueInv(X)'
  <2>1. ASSUME NEW s2 \in Sems, NEW r \in Entries(ssWaitQueue'[s2]) PROVE Claims(r, s2, X)'
    <3>1. CASE r \in Entries(ssWaitQueue[s2])
      <4>1. Claims(r, s2, X) /\ r.node # m
        BY <1>2, <3>1 DEF IInv, QueueInv, InQueue
      <4> QED
        BY <1>1, <1>5, <4>1 DEF Claims
    <3>2. CASE s2 = s /\ r = x
      BY <1>1, <1>5, <3>2 DEF Claims
    <3> QED
      BY <1>3, <2>1, <3>1, <3>2
  <2>2. ASSUME NEW n \in Msgs, Queued(n)' PROVE bid'[n] # NULL /\ InQueue(n, bid[n].sem)'
    <3>1. CASE n = m
      BY <1>1, <1>3, <1>5, <3>1 DEF InQueue
    <3>2. CASE n # m
      <4>1. Queued(n) /\ bid'[n] = bid[n]
        BY <1>5, <2>2, <3>2
      <4>2. bid[n] # NULL /\ InQueue(n, bid[n].sem)
        BY <4>1 DEF IInv, QueueInv
      <4>3. bid[n].sem \in Sems
        BY <4>2 DEF IInv, TypeOK, Bid
      <4> QED
        BY <1>6, <3>2, <4>1, <4>2, <4>3
    <3> QED
      BY <3>1, <3>2
  <2>3. \A x1 \in X : \E u \in Tasks, s2 \in Sems : x1 = <<u, s2>> /\ Running(u)'
    BY <1>1 DEF IInv, QueueInv, Running
  <2> QED
    BY <1>3, <2>1, <2>2, <2>3 DEF QueueInv
<1>8. WakeInv'
  <2>1. ASSUME NEW u \in Tasks, ~Running(u)'
        PROVE  sigSingle'[u] <=> ~InQueue(u, waitingFor[u].sem)'
    <3>1. /\ ~Running(u) /\ waitingFor'[u] = waitingFor[u] /\ waitingFor[u].sem \in Sems
          /\ sigSingle'[u] = sigSingle[u] /\ u # m
      BY <1>1, <2>1, ConstantsAssumption DEF Running, IInv, TypeOK, Want
    <3> QED
      BY <1>6, <3>1 DEF IInv, WakeInv
  <2> QED
    BY <2>1 DEF WakeInv
<1> QED
  BY <1>3, <1>4, <1>7, <1>8 DEF IInv

(* The steps that touch no queue and no counter.                           *)
LEMMA ObtainAwakeIInv ==
    ASSUME NEW X, IInv(X), NEW t \in Tasks, ObtainAwake(t)
    PROVE  IInv(X)'
<1>1. /\ ~Running(t) /\ sigSingle[t]
      /\ sigSingle' = [sigSingle EXCEPT ![t] = FALSE]
      /\ obtained' = [obtained EXCEPT ![t][waitingFor[t].sem][waitingFor[t].mode] = @ + 1]
      /\ waitingFor' = [waitingFor EXCEPT ![t] = NULL]
      /\ UNCHANGED <<semVars, bid, msgVars>>
  BY DEF ObtainAwake
<1>2. TypeOK'
  <2>1. waitingFor[t] \in Want
    BY <1>1 DEF IInv, TypeOK, Running
  <2> QED
    BY <1>1, <2>1 DEF IInv, TypeOK, semVars, msgVars, Want
<1>3. \A u \in Tasks : u # t => waitingFor'[u] = waitingFor[u] /\ sigSingle'[u] = sigSingle[u]
  BY <1>1 DEF IInv, TypeOK
<1>4. \A s \in Sems : ~InQueue(t, s)
  BY <1>1, WhoIsQueued DEF IInv, WakeInv
<1>5. QueueInv(X)'
  BY <1>1, <1>3, <1>4, QueuesKept DEF IInv, semVars, msgVars, Queued, Running
<1>6. Balanced'
  BY <1>1 DEF IInv, Balanced, semVars
<1>7. WakeInv'
  <2>1. Running(t)'
    BY <1>1 DEF IInv, TypeOK, Running
  <2> QED
    BY <1>1, <1>3, <2>1, WakeKept DEF IInv, semVars
<1> QED
  BY <1>2, <1>5, <1>6, <1>7 DEF IInv

LEMMA StraySingleIInv ==
    ASSUME NEW X, IInv(X), NEW t \in Tasks, StraySingle(t)
    PROVE  IInv(X)'
<1>1. /\ Running(t) /\ sigSingle' = [sigSingle EXCEPT ![t] = TRUE]
      /\ UNCHANGED <<semVars, clientVars, msgVars>>
  BY DEF StraySingle
<1>2. TypeOK'
  BY <1>1 DEF IInv, TypeOK, semVars, clientVars, msgVars
<1>3. QueueInv(X)'
  BY <1>1, QueuesKept DEF IInv, semVars, clientVars, msgVars, Queued, Running
<1>4. Balanced'
  BY <1>1 DEF IInv, Balanced, semVars
<1>5. WakeInv'
  <2>1. \A u \in Tasks : ~Running(u)' =>
            waitingFor'[u] = waitingFor[u] /\ (sigSingle'[u] <=> sigSingle[u])
    BY <1>1 DEF IInv, TypeOK, Running, clientVars
  <2> QED
    BY <1>1, <2>1, WakeKept DEF IInv, semVars
<1> QED
  BY <1>2, <1>3, <1>4, <1>5 DEF IInv

LEMMA CollectReplyIInv ==
    ASSUME NEW X, IInv(X), NEW m \in Msgs, CollectReply(m)
    PROVE  IInv(X)'
<1>1. /\ msgAt[m] = "port" /\ msgAt' = [msgAt EXCEPT ![m] = "program"]
      /\ UNCHANGED <<semVars, sigSingle, clientVars, ssmSemaphore>>
  BY DEF CollectReply
<1>2. TypeOK'
  BY <1>1 DEF IInv, TypeOK, semVars, clientVars
<1>3. \A n \in Msgs : Queued(n) <=> Queued(n)'
  BY <1>1 DEF IInv, TypeOK, Queued
<1>4. QueueInv(X)'
  BY <1>1, <1>3, QueuesKept DEF IInv, semVars, clientVars, Running
<1>5. Balanced'
  BY <1>1 DEF IInv, Balanced, semVars
<1>6. WakeInv'
  BY <1>1, WakeKept DEF IInv, semVars, clientVars, Running
<1> QED
  BY <1>2, <1>4, <1>5, <1>6 DEF IInv

(* Being served is what takes a node out of a queue.                       *)
LEMMA ServedInQueue ==
    ASSUME NEW s \in Sems, NEW nodes, NEW ssm, ServesOnly(nodes, s, ssm),
           NEW n, NEW s2 \in Sems
    PROVE  InQueue(n, s2)' <=> InQueue(n, s2) /\ ~(s2 = s /\ n \in nodes)
<1>1. CASE s2 = s
  BY <1>1 DEF ServesOnly, InQueue
<1>2. CASE s2 # s
  BY <1>2 DEF ServesOnly, InQueue
<1> QED
  BY <1>1, <1>2

(* A message that is served, or a task that sleeps in ObtainSemaphore,     *)
(* asked for nothing else.                                                 *)
LEMMA ServedAskedThis ==
    ASSUME NEW X, TypeOK, QueueInv(X), NEW s \in Sems, NEW nodes, NEW ssm,
           ServesOnly(nodes, s, ssm), NEW n \in nodes
    PROVE  /\ n \in Msgs => bid[n].sem = s
           /\ n \in Tasks /\ ~Running(n) => waitingFor[n].sem = s
<1>1. InQueue(n, s)
  BY DEF ServesOnly
<1> QED
  BY <1>1, WhoIsQueued

(* Requests that leave a queue with their nodes told: a sleeping task by   *)
(* its signal, a message by leaving the queued state.                      *)
LEMMA ServedIInv ==
    ASSUME NEW X, TypeOK, QueueInv(X), WakeInv, NEW s \in Sems, NEW nodes, NEW ssm,
           ServesOnly(nodes, s, ssm),
           \A m \in Msgs : Queued(m) => ssm[m] = ssmSemaphore[m] /\ bid'[m] = bid[m],
           waitingFor' = waitingFor
    PROVE  QueueInv(X)' /\ WakeInv'
<1>1. ASSUME NEW n, NEW s2 \in Sems
      PROVE  InQueue(n, s2)' <=> InQueue(n, s2) /\ ~(s2 = s /\ n \in nodes)
  BY ServedInQueue
<1>2. ASSUME NEW m \in Msgs
      PROVE  /\ Queued(m)' <=> Queued(m) /\ m \notin nodes
             /\ Queued(m)' => ssmSemaphore'[m] = ssmSemaphore[m] /\ bid'[m] = bid[m]
  BY DEF ServesOnly, Queued
<1>3. ASSUME NEW s2 \in Sems, NEW r \in Entries(ssWaitQueue'[s2]) PROVE Claims(r, s2, X)'
  <2>1. r \in Entries(ssWaitQueue[s2])
    BY <1>3 DEF ServesOnly
  <2>2. Claims(r, s2, X)
    BY <2>1 DEF QueueInv
  <2>3. r.node \in Msgs => r.node \notin nodes
    <3>1. InQueue(r.node, s2)' /\ InQueue(r.node, s2)
      BY <1>3, <2>1 DEF InQueue
    <3>2. ~(s2 = s /\ r.node \in nodes)
      BY <1>1, <3>1
    <3>3. r.node \in Msgs => bid[r.node].sem = s2
      BY <3>1, WhoIsQueued
    <3>4. r.node \in Msgs /\ r.node \in nodes => bid[r.node].sem = s
      BY ServedAskedThis
    <3> QED
      BY <3>2, <3>3, <3>4
  <2>4. r.node \in Msgs /\ Queued(r.node) =>
            /\ Queued(r.node)' /\ bid'[r.node] = bid[r.node]
            /\ ssmSemaphore'[r.node] = ssmSemaphore[r.node]
    BY <1>2, <2>3
  <2> QED
    BY <2>2, <2>4 DEF Claims
<1>4. ASSUME NEW m \in Msgs, Queued(m)' PROVE bid'[m] # NULL /\ InQueue(m, bid[m].sem)'
  <2>1. Queued(m) /\ m \notin nodes /\ bid'[m] = bid[m]
    BY <1>2, <1>4
  <2>2. bid[m] # NULL /\ InQueue(m, bid[m].sem)
    BY <2>1 DEF QueueInv
  <2>3. bid[m].sem \in Sems
    BY <2>2 DEF TypeOK, Bid
  <2> QED
    BY <1>1, <2>1, <2>2, <2>3
<1>5. QueueInv(X)'
  <2>1. \A x \in X : \E t \in Tasks, s2 \in Sems : x = <<t, s2>> /\ Running(t)'
    BY DEF QueueInv, Running
  <2> QED
    BY <1>3, <1>4, <2>1 DEF QueueInv, ServesOnly
<1>6. ASSUME NEW t \in Tasks, ~Running(t)'
      PROVE  sigSingle'[t] <=> ~InQueue(t, waitingFor[t].sem)'
  <2>1. ~Running(t) /\ waitingFor'[t] = waitingFor[t] /\ waitingFor[t].sem \in Sems
    BY <1>6 DEF Running, TypeOK, Want
  <2>2. sigSingle'[t] <=> sigSingle[t] \/ t \in nodes
    BY DEF ServesOnly
  <2>3. sigSingle[t] <=> ~InQueue(t, waitingFor[t].sem)
    BY <2>1 DEF WakeInv
  <2>4. t \in nodes => waitingFor[t].sem = s
    BY <2>1, ServedAskedThis
  <2> QED
    BY <1>1, <2>1, <2>2, <2>3, <2>4
<1>7. WakeInv'
  BY <1>6 DEF WakeInv
<1> QED
  BY <1>5, <1>7

LEMMA ReleaseIInv ==
    ASSUME NEW X, IInv(X), NEW caller \in Tasks, NEW t \in Tasks, NEW s \in Sems, NEW mode \in Modes,
           Release(caller, t, s, mode)
    PROVE  IInv(X)'
<1>1. /\ obtained[t][s][mode] > 0 /\ ReleaseSem(s, ssmSemaphore)
      /\ obtained' = [obtained EXCEPT ![t][s][mode] = @ - 1]
      /\ UNCHANGED <<waitingFor, bid>>
  BY DEF Release
<1>2. /\ ssOwner' \in [Sems -> Tasks \cup {NULL}] /\ ssNestCount' \in [Sems -> Int]
      /\ ssQueueCount' \in [Sems -> Int] /\ ssWaitQueue' \in [Sems -> Seq(Request)]
      /\ sigSingle' \in [Tasks -> BOOLEAN]
      /\ ssmSemaphore' \in [Msgs -> Tasks \cup Sems \cup {NULL}]
      /\ msgAt' \in [Msgs -> {"program", "queue", "port"}]
      /\ ServesOnly(ServedBy(s), s, ssmSemaphore)
      /\ Balanced'
  <2>1. ssmSemaphore \in [Msgs -> Tasks \cup Sems \cup {NULL}]
    BY DEF IInv, TypeOK
  <2> QED
    BY <1>1, <2>1, ReleaseFacts DEF IInv
<1>3. obtained' \in [Tasks -> [Sems -> [Modes -> Nat]]]
  <2>1. /\ obtained \in [Tasks -> [Sems -> [Modes -> Nat]]]
        /\ obtained[t][s][mode] - 1 \in Nat
    BY <1>1 DEF IInv, TypeOK
  <2> QED
    BY <1>1, <2>1
<1>4. TypeOK'
  BY <1>1, <1>2, <1>3 DEF IInv, TypeOK
<1>5. QueueInv(X)' /\ WakeInv'
  BY <1>1, <1>2, ServedIInv DEF IInv
<1> QED
  BY <1>2, <1>4, <1>5 DEF IInv

LEMMA VacateGrantedIInv ==
    ASSUME NEW X, IInv(X), NEW m \in Msgs, VacateGranted(m)
    PROVE  IInv(X)'
<1> DEFINE s == bid[m].sem
           ssm == Forget(m)
<1>1. /\ bid[m] # NULL /\ ~Queued(m) /\ ReleaseSem(s, ssm)
      /\ bid' = [bid EXCEPT ![m] = NULL]
      /\ UNCHANGED <<waitingFor, obtained>>
  BY DEF VacateGranted
<1>2. /\ s \in Sems /\ ssm \in [Msgs -> Tasks \cup Sems \cup {NULL}]
      /\ \A n \in Msgs : Queued(n) => ssm[n] = ssmSemaphore[n]
      /\ \A n \in Msgs : Queued(n) => bid'[n] = bid[n]
  BY <1>1 DEF IInv, TypeOK, Forget, Bid
<1> HIDE DEF s, ssm
<1>3. /\ ssOwner' \in [Sems -> Tasks \cup {NULL}] /\ ssNestCount' \in [Sems -> Int]
      /\ ssQueueCount' \in [Sems -> Int] /\ ssWaitQueue' \in [Sems -> Seq(Request)]
      /\ sigSingle' \in [Tasks -> BOOLEAN]
      /\ ssmSemaphore' \in [Msgs -> Tasks \cup Sems \cup {NULL}]
      /\ msgAt' \in [Msgs -> {"program", "queue", "port"}]
      /\ ServesOnly(ServedBy(s), s, ssm)
      /\ Balanced'
  BY <1>1, <1>2, ReleaseFacts DEF IInv
<1>4. TypeOK'
  BY <1>1, <1>3 DEF IInv, TypeOK
<1>5. QueueInv(X)' /\ WakeInv'
  <2>1. \A n \in Msgs : Queued(n) => ssm[n] = ssmSemaphore[n] /\ bid'[n] = bid[n]
    BY <1>2
  <2>2. TypeOK /\ QueueInv(X) /\ WakeInv
    BY DEF IInv
  <2>3. s \in Sems /\ ServesOnly(ServedBy(s), s, ssm) /\ waitingFor' = waitingFor
    BY <1>1, <1>2, <1>3
  <2> QED
    BY <2>1, <2>2, <2>3, ServedIInv
<1> QED
  BY <1>3, <1>4, <1>5 DEF IInv

LEMMA VacateQueuedIInv ==
    ASSUME NEW X, IInv(X), NEW m \in Msgs, VacateQueued(m)
    PROVE  IInv(X)'
<1> DEFINE s == bid[m].sem
           ssm == Forget(m)
<1>1. /\ bid[m] # NULL /\ Queued(m)
      /\ ssmSemaphore' = ssm
      /\ msgAt' = [msgAt EXCEPT ![m] = "port"]
      /\ bid' = [bid EXCEPT ![m] = NULL]
      /\ UNCHANGED <<ssOwner, ssNestCount, sigSingle, waitingFor, obtained>>
  BY DEF VacateQueued
<1>2. PICK i \in DOMAIN ssWaitQueue[s] : ssWaitQueue[s][i].node = m /\ Withdraw(s, i)
  BY DEF VacateQueued
<1>3. /\ s \in Sems /\ ssm \in [Msgs -> Tasks \cup Sems \cup {NULL}]
      /\ ssm[m] = NULL /\ \A n \in Msgs : n # m => ssm[n] = ssmSemaphore[n]
      /\ m \notin Tasks /\ m # NULL
  BY <1>1, ConstantsAssumption DEF IInv, TypeOK, Forget, Bid
<1> HIDE DEF s, ssm
<1> DEFINE q == ssWaitQueue[s]
           r == RemoveAt(q, i)
<1>4. /\ ssNestCount \in [Sems -> Int] /\ ssQueueCount \in [Sems -> Int]
      /\ ssWaitQueue \in [Sems -> Seq(Request)] /\ q \in Seq(Request) /\ NodesOnce(q)
  BY <1>3 DEF IInv, TypeOK, QueueInv
<1>5. /\ r \in Seq(Request) /\ Size(r) = Size(q) - 1 /\ NodesOnce(r)
      /\ q[i] \in Entries(q)
      /\ \A x \in Entries(r) : x \in Entries(q)
      /\ \A x \in Entries(q) : x \in Entries(r) <=> x.node # m
  <2>1. i \in DOMAIN q /\ q[i].node = m
    BY <1>2
  <2> HIDE DEF q
  <2> QED
    BY <1>4, <2>1, RemoveAtFacts
<1>6. /\ ssWaitQueue' = [ssWaitQueue EXCEPT ![s] = r]
      /\ ssQueueCount' = [ssQueueCount EXCEPT ![s] = @ - 1]
  BY <1>2 DEF Withdraw
<1> HIDE DEF r
<1>7. /\ ssWaitQueue' \in [Sems -> Seq(Request)] /\ ssWaitQueue'[s] = r
      /\ \A s2 \in Sems : s2 # s => ssWaitQueue'[s2] = ssWaitQueue[s2]
      /\ ssQueueCount' \in [Sems -> Int]
  BY <1>3, <1>4, <1>5, <1>6
<1>8. TypeOK'
  BY <1>1, <1>3, <1>7 DEF IInv, TypeOK
<1>9. Balanced'
  <2>1. \A s2 \in Sems : Size(ssWaitQueue[s2]) \in Nat
    BY <1>4, QueueFacts
  <2>2. \A s2 \in Sems : ssQueueCount'[s2] + 1 = ssNestCount'[s2] + Size(ssWaitQueue'[s2])
    BY <1>1, <1>3, <1>4, <1>5, <1>6, <1>7, <2>1 DEF IInv, Balanced
  <2> QED
    BY <2>2 DEF Balanced
<1>10. ASSUME NEW n, NEW s2 \in Sems, n # m
       PROVE  InQueue(n, s2)' <=> InQueue(n, s2)
  BY <1>5, <1>7, <1>10 DEF InQueue
<1>11. ASSUME NEW s2 \in Sems, NEW x \in Entries(ssWaitQueue'[s2]) PROVE Claims(x, s2, X)'
  <2>1. x \in Entries(ssWaitQueue[s2])
    BY <1>5, <1>7, <1>11
  <2>2. Claims(x, s2, X)
    BY <2>1 DEF IInv, QueueInv
  <2>3. x.node # m
    <3>1. CASE s2 = s
      BY <1>5, <1>7, <1>11, <3>1
    <3>2. CASE s2 # s
      <4>1. x.node = m => InQueue(m, s2)
        BY <2>1 DEF InQueue
      <4> QED
        BY <3>2, <4>1, WhoIsQueued DEF IInv, s
    <3> QED
      BY <3>1, <3>2
  <2>4. x.node \in Msgs => /\ Queued(x.node)' <=> Queued(x.node)
                           /\ bid'[x.node] = bid[x.node]
                           /\ ssmSemaphore'[x.node] = ssmSemaphore[x.node]
    BY <1>1, <1>3, <2>3 DEF IInv, TypeOK, Queued
  <2> QED
    BY <1>1, <2>2, <2>4 DEF Claims
<1>12. ASSUME NEW n \in Msgs, Queued(n)' PROVE bid'[n] # NULL /\ InQueue(n, bid[n].sem)'
  <2>1. n # m /\ Queued(n) /\ bid'[n] = bid[n]
    BY <1>1, <1>12 DEF IInv, TypeOK, Queued
  <2>2. bid[n] # NULL /\ InQueue(n, bid[n].sem)
    BY <2>1 DEF IInv, QueueInv
  <2>3. bid[n].sem \in Sems
    BY <2>2 DEF IInv, TypeOK, Bid
  <2> QED
    BY <1>10, <2>1, <2>2, <2>3
<1>13. QueueInv(X)'
  <2>1. \A s2 \in Sems : NodesOnce(ssWaitQueue'[s2])
    BY <1>5, <1>7 DEF IInv, QueueInv
  <2>2. \A x \in X : \E t \in Tasks, s2 \in Sems : x = <<t, s2>> /\ Running(t)'
    BY <1>1 DEF IInv, QueueInv, Running
  <2> QED
    BY <1>11, <1>12, <2>1, <2>2 DEF QueueInv
<1>14. ASSUME NEW t \in Tasks, ~Running(t)'
       PROVE  sigSingle'[t] <=> ~InQueue(t, waitingFor[t].sem)'
  <2>1. /\ ~Running(t) /\ waitingFor'[t] = waitingFor[t] /\ waitingFor[t].sem \in Sems
        /\ sigSingle'[t] = sigSingle[t] /\ t # m
    BY <1>1, <1>3, <1>14 DEF IInv, TypeOK, Running, Want
  <2> QED
    BY <1>10, <2>1 DEF IInv, WakeInv
<1>15. WakeInv'
  BY <1>14 DEF WakeInv
<1> QED
  BY <1>8, <1>9, <1>13, <1>15 DEF IInv

-----------------------------------------------------------------------------
(* The theorems                                                            *)

LEMMA NextIInv == IInv({}) /\ [Next]_vars => IInv({})'
<1> SUFFICES ASSUME IInv({}), [Next]_vars PROVE IInv({})'
  OBVIOUS
<1>1. ASSUME NEW t \in Tasks, NEW s \in Sems, NEW mode \in Modes,
             ObtainNow(t, s, mode) \/ AttemptSucceeds(t, s, mode)
      PROVE  IInv({})'
  BY <1>1, ObtainNowIInv DEF ObtainNow, AttemptSucceeds
<1>2. ASSUME NEW t \in Tasks, NEW s \in Sems, NEW mode \in Modes, ObtainSleep(t, s, mode)
      PROVE  IInv({})'
  BY <1>2, ObtainSleepIInv
<1>3. CASE UNCHANGED vars
  <2>1. TypeOK' /\ Balanced'
    BY <1>3 DEF IInv, TypeOK, Balanced, vars, semVars, clientVars, msgVars
  <2>2. QueueInv({})'
    BY <1>3, QueuesKept DEF IInv, vars, semVars, clientVars, msgVars, Queued, Running
  <2>3. WakeInv'
    BY <1>3, WakeKept DEF IInv, vars, semVars, clientVars, msgVars, Running
  <2> QED
    BY <2>1, <2>2, <2>3 DEF IInv
<1>4. CASE ObtainStep
  BY <1>1, <1>2, <1>3, <1>4 DEF ObtainStep, AttemptFails
<1>5. CASE ReleaseStep
  BY <1>5, ReleaseIInv DEF ReleaseStep
<1>6. CASE ProcureStep
  BY <1>6, ProcureNowIInv, ProcureQueueIInv DEF ProcureStep
<1>7. CASE MessageStep
  BY <1>7, CollectReplyIInv, VacateQueuedIInv, VacateGrantedIInv DEF MessageStep
<1>8. CASE SignalStep
  BY <1>8, ObtainAwakeIInv, StraySingleIInv DEF SignalStep
<1> QED
  BY <1>3, <1>4, <1>5, <1>6, <1>7, <1>8 DEF Next

THEOREM SpecIInv == Spec => []IInv({})
<1> QED
  BY InitIInv, NextIInv, PTL DEF Spec

(* Every field keeps its type; in particular a semaphore is never owned by *)
(* what a message's ssm_Semaphore happens to hold.                         *)
THEOREM SpecTypeOK == Spec => []TypeOK
<1>1. IInv({}) => TypeOK
  BY DEF IInv
<1> QED
  BY <1>1, SpecIInv, PTL

(* ss_QueueCount is the locks held and the requests queued, less one.      *)
THEOREM SpecCountsAgree == Spec => []CountsAgree
<1>1. IInv({}) => CountsAgree
  BY DEF IInv, Balanced, Size, CountsAgree
<1> QED
  BY <1>1, SpecIInv, PTL

LEMMA WaitsIsInQueue ==
    ASSUME TypeOK, NEW s \in Sems, NEW n
    PROVE  Waits(n, ssWaitQueue[s]) <=> InQueue(n, s)
<1> DEFINE q == ssWaitQueue[s]
<1>1. q \in Seq(Request)
  BY DEF TypeOK
<1>2. Waits(n, q) <=> \E r \in Entries(q) : r.node = n
  <2> HIDE DEF q
  <2> QED
    BY <1>1, LenProperties DEF Waits, Entries
<1> QED
  BY <1>2 DEF InQueue

(* SIGF_SINGLE is set in a task asleep in ObtainSemaphore exactly when its *)
(* request has been served: it never wakes without the lock, and is always *)
(* woken with it.                                                          *)
THEOREM SpecAwakeMeansHanded == Spec => []AwakeMeansHanded
<1>1. IInv({}) => AwakeMeansHanded
  <2> SUFFICES ASSUME IInv({}), NEW t \in Tasks, ~Running(t)
               PROVE  sigSingle[t] <=> HandedTo(t, waitingFor[t].sem)
    BY DEF AwakeMeansHanded
  <2>1. waitingFor[t] # NULL /\ waitingFor[t].sem \in Sems
    BY DEF IInv, TypeOK, Running, Want
  <2>2. Waits(t, ssWaitQueue[waitingFor[t].sem]) <=> InQueue(t, waitingFor[t].sem)
    BY <2>1, WaitsIsInQueue DEF IInv
  <2> QED
    BY <2>1, <2>2 DEF IInv, WakeInv, HandedTo
<1> QED
  BY <1>1, SpecIInv, PTL
=============================================================================
