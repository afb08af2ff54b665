----------------------------- MODULE ListLemmas -----------------------------
(***************************************************************************)
(* What the operations on the lists of exec.library do to the members of a *)
(* list and to its order: Tail for REMHEAD, Append for AddTail(),          *)
(* RemoveFirst for Remove(), InsertAt for Enqueue() and addToWaitList().   *)
(***************************************************************************)
EXTENDS Integers, Sequences, SequencesExt, SequenceTheorems,
        WellFoundedInduction, TLAPS

Entries(list) == {list[i] : i \in 1 .. Len(list)}

Once(list) == \A i, j \in 1 .. Len(list) : list[i] = list[j] => i = j

Sorted(list, key) == \A i, j \in 1 .. Len(list) : i <= j => key[list[i]] <= key[list[j]]

(* A non-empty set of naturals has a least element.                        *)
LEMMA LeastOf ==
  ASSUME NEW T \in SUBSET Nat, T # {}
  PROVE  \E x \in T : \A y \in T : x <= y
<1> DEFINE R == {ss \in Nat \X Nat : ss[1] < ss[2]}
<1>1. IsWellFoundedOn(R, Nat)
  BY NatLessThanWellFounded DEF OpToRel
<1> HIDE DEF R
<1>2. PICK x \in T : \A y \in T : ~(<<y, x>> \in R)
  BY <1>1, WFMin
<1>3. ASSUME NEW y \in T PROVE x <= y
  <2>1. ~(<<y, x>> \in R)
    BY <1>2
  <2> QED
    BY <2>1 DEF R
<1> QED
  BY <1>3

LEMMA EntriesFacts ==
  ASSUME NEW S, NEW q \in Seq(S)
  PROVE  /\ Entries(q) \subseteq S
         /\ q = << >> <=> Entries(q) = {}
         /\ q # << >> => Head(q) = q[1] /\ 1 \in 1 .. Len(q) /\ Head(q) \in Entries(q)
         /\ DOMAIN q = 1 .. Len(q) /\ Len(q) \in Nat
<1>1. /\ Len(q) \in Nat /\ DOMAIN q = 1 .. Len(q)
      /\ \A i \in 1 .. Len(q) : q[i] \in S
  BY LenProperties, ElementOfSeq
<1>2. q # << >> => Len(q) # 0
  BY EmptySeq
<1>3. q = << >> => Len(q) = 0
  BY EmptySeq
<1>4. q # << >> => Head(q) = q[1]
  BY <1>1
<1> QED
  BY <1>1, <1>2, <1>3, <1>4 DEF Entries

LEMMA EmptyFacts == Entries(<< >>) = {} /\ Once(<< >>) /\ \A key : Sorted(<< >>, key)
<1>1. Len(<< >>) = 0
  BY EmptySeq
<1> QED
  BY <1>1 DEF Entries, Once, Sorted

(* A list without its place k.                                             *)
LEMMA DropAt ==
  ASSUME NEW S, NEW q \in Seq(S), NEW r \in Seq(S), NEW k \in 1 .. Len(q),
         Len(r) = Len(q) - 1, \A j \in 1 .. Len(r) : r[j] = IF j < k THEN q[j] ELSE q[j + 1]
  PROVE  /\ Entries(r) \subseteq Entries(q)
         /\ Once(q) => Once(r) /\ Entries(r) = Entries(q) \ {q[k]}
         /\ \A key : Sorted(q, key) => Sorted(r, key)
<1> DEFINE from(j) == IF j < k THEN j ELSE j + 1
<1>1. Len(q) \in Nat /\ Len(r) \in Nat /\ k \in Nat /\ Len(q) = Len(r) + 1
  BY LenProperties
<1>2. \A j \in 1 .. Len(r) : r[j] = q[from(j)] /\ from(j) \in 1 .. Len(q) /\ from(j) # k
  BY <1>1
<1>3. \A i, j \in 1 .. Len(r) : (from(i) = from(j) => i = j) /\ (i <= j => from(i) <= from(j))
  BY <1>1
<1>4. ASSUME NEW i \in 1 .. Len(q), i # k PROVE \E j \in 1 .. Len(r) : from(j) = i
  <2>1. CASE i < k
    BY <1>1, <2>1
  <2>2. CASE i > k
    <3>1. i - 1 \in 1 .. Len(r) /\ from(i - 1) = i
      BY <1>1, <2>2
    <3> QED
      BY <3>1
  <2> QED
    BY <1>1, <1>4, <2>1, <2>2
<1> HIDE DEF from
<1>5. Entries(r) \subseteq Entries(q)
  BY <1>2 DEF Entries
<1>6. ASSUME Once(q) PROVE Once(r) /\ Entries(r) = Entries(q) \ {q[k]}
  <2>1. Once(r)
    <3>1. ASSUME NEW i \in 1 .. Len(r), NEW j \in 1 .. Len(r), r[i] = r[j] PROVE i = j
      <4>1. from(i) \in 1 .. Len(q) /\ from(j) \in 1 .. Len(q) /\ q[from(i)] = q[from(j)]
        BY <1>2, <3>1
      <4>2. from(i) = from(j)
        BY <1>6, <4>1 DEF Once
      <4> QED
        BY <1>3, <4>2
    <3> QED
      BY <3>1 DEF Once
  <2>2. q[k] \notin Entries(r)
    BY <1>2, <1>6 DEF Once, Entries
  <2>3. ASSUME NEW i \in 1 .. Len(q), q[i] # q[k] PROVE q[i] \in Entries(r)
    <3>1. PICK j \in 1 .. Len(r) : from(j) = i
      BY <1>4, <2>3
    <3> QED
      BY <1>2, <3>1 DEF Entries
  <2> QED
    BY <1>5, <2>1, <2>2, <2>3 DEF Entries
<1>7. ASSUME NEW key, Sorted(q, key) PROVE Sorted(r, key)
  BY <1>2, <1>3, <1>7 DEF Sorted
<1> QED
  BY <1>5, <1>6, <1>7

(* A list with e at place k.                                               *)
LEMMA AddAt ==
  ASSUME NEW S, NEW q \in Seq(S), NEW r \in Seq(S), NEW e \in S, NEW k \in 1 .. Len(q) + 1,
         Len(r) = Len(q) + 1,
         \A j \in 1 .. Len(r) : r[j] = IF j < k THEN q[j] ELSE IF j = k THEN e ELSE q[j - 1]
  PROVE  /\ Entries(r) = Entries(q) \cup {e}
         /\ Once(q) /\ e \notin Entries(q) => Once(r)
<1> DEFINE to(j) == IF j < k THEN j ELSE j - 1
<1>1. Len(q) \in Nat /\ Len(r) \in Nat /\ k \in Nat /\ k \in 1 .. Len(r) /\ r[k] = e
  BY LenProperties
<1>2. \A j \in 1 .. Len(r) : j # k => r[j] = q[to(j)] /\ to(j) \in 1 .. Len(q)
  BY <1>1
<1>3. \A i, j \in 1 .. Len(r) : i # k /\ j # k =>
        (to(i) = to(j) => i = j) /\ (i <= j => to(i) <= to(j))
  BY <1>1
<1>4. \A j \in 1 .. Len(r) : (j < k => to(j) < k) /\ (j > k => ~(to(j) < k))
  BY <1>1
<1>5. ASSUME NEW i \in 1 .. Len(q) PROVE \E j \in 1 .. Len(r) : j # k /\ to(j) = i
  <2>1. CASE i < k
    BY <1>1, <2>1
  <2>2. CASE i >= k
    <3>1. i + 1 \in 1 .. Len(r) /\ to(i + 1) = i /\ i + 1 # k
      BY <1>1, <2>2
    <3> QED
      BY <3>1
  <2> QED
    BY <1>1, <2>1, <2>2
<1> HIDE DEF to
<1>6. Entries(r) = Entries(q) \cup {e}
  <2>1. Entries(r) \subseteq Entries(q) \cup {e}
    BY <1>1, <1>2 DEF Entries
  <2>2. ASSUME NEW i \in 1 .. Len(q) PROVE q[i] \in Entries(r)
    BY <1>2, <1>5 DEF Entries
  <2>3. e \in Entries(r)
    BY <1>1 DEF Entries
  <2> QED
    BY <2>1, <2>2, <2>3 DEF Entries
<1>7. ASSUME Once(q), e \notin Entries(q) PROVE Once(r)
  <2>1. \A j \in 1 .. Len(r) : j # k => r[j] # e
    BY <1>2, <1>7 DEF Entries
  <2> QED
    BY <1>1, <1>2, <1>3, <1>7, <2>1 DEF Once
<1> QED
  BY <1>6, <1>7

LEMMA TailFacts ==
  ASSUME NEW S, NEW q \in Seq(S), q # << >>
  PROVE  /\ Tail(q) \in Seq(S)
         /\ Entries(Tail(q)) \subseteq Entries(q)
         /\ Once(q) => Once(Tail(q)) /\ Entries(Tail(q)) = Entries(q) \ {Head(q)}
         /\ \A key : Sorted(q, key) => Sorted(Tail(q), key)
<1> DEFINE r == Tail(q)
<1>1. /\ r \in Seq(S) /\ Len(r) = Len(q) - 1
      /\ \A j \in 1 .. Len(r) : r[j] = q[j + 1]
  BY HeadTailProperties
<1>2. Head(q) = q[1] /\ 1 \in 1 .. Len(q)
  BY EntriesFacts
<1> HIDE DEF r
<1>3. \A j \in 1 .. Len(r) : r[j] = IF j < 1 THEN q[j] ELSE q[j + 1]
  BY <1>1
<1>4. /\ Entries(r) \subseteq Entries(q)
      /\ Once(q) => Once(r) /\ Entries(r) = Entries(q) \ {q[1]}
      /\ \A key : Sorted(q, key) => Sorted(r, key)
  BY <1>1, <1>2, <1>3, DropAt
<1> QED
  BY <1>1, <1>2, <1>4 DEF r

LEMMA AppendFacts ==
  ASSUME NEW S, NEW q \in Seq(S), NEW e \in S
  PROVE  /\ Append(q, e) \in Seq(S)
         /\ Append(q, e) # << >>
         /\ Entries(Append(q, e)) = Entries(q) \cup {e}
         /\ Once(q) /\ e \notin Entries(q) => Once(Append(q, e))
<1> DEFINE r == Append(q, e)
           k == Len(q) + 1
<1>1. /\ r \in Seq(S) /\ r # << >> /\ Len(r) = Len(q) + 1
      /\ \A j \in 1 .. Len(q) : r[j] = q[j]
      /\ r[k] = e /\ Len(q) \in Nat
  BY AppendProperties, LenProperties
<1> HIDE DEF r
<1>2. /\ k \in 1 .. Len(q) + 1 /\ Len(r) = Len(q) + 1
      /\ \A j \in 1 .. Len(r) : r[j] = IF j < k THEN q[j] ELSE IF j = k THEN e ELSE q[j - 1]
  BY <1>1
<1> HIDE DEF k
<1>3. /\ Entries(r) = Entries(q) \cup {e}
      /\ Once(q) /\ e \notin Entries(q) => Once(r)
  <2>1. r \in Seq(S)
    BY <1>1
  <2> QED
    BY <1>2, <2>1, AddAt
<1> QED
  BY <1>1, <1>3 DEF r

(* Unlink takes r out, if it is there.                                     *)
LEMMA RemoveFirstFacts ==
  ASSUME NEW S, NEW q \in Seq(S), NEW e
  PROVE  /\ RemoveFirst(q, e) \in Seq(S)
         /\ Entries(RemoveFirst(q, e)) \subseteq Entries(q)
         /\ Once(q) => Once(RemoveFirst(q, e)) /\ Entries(RemoveFirst(q, e)) = Entries(q) \ {e}
         /\ \A key : Sorted(q, key) => Sorted(RemoveFirst(q, e), key)
<1> DEFINE I == {i \in 1 .. Len(q) : q[i] = e}
<1>1. /\ Len(q) \in Nat /\ \A i \in 1 .. Len(q) : q[i] \in S
  BY LenProperties, ElementOfSeq
<1>2. CASE I = {}
  <2>1. RemoveFirst(q, e) = q
    BY <1>2 DEF RemoveFirst
  <2>2. e \notin Entries(q)
    BY <1>2 DEF Entries
  <2> QED
    BY <2>1, <2>2
<1>3. CASE I # {}
  <2> DEFINE k == Min(I)
             head == SubSeq(q, 1, k - 1)
             tail == SubSeq(q, k + 1, Len(q))
             r == head \o tail
  <2>1. \E x \in I : \A y \in I : x <= y
    <3>1. I \in SUBSET Nat
      BY <1>1
    <3> HIDE DEF I
    <3> QED
      BY <1>3, <3>1, LeastOf
  <2>2. k \in I
    <3> HIDE DEF I
    <3> QED
      BY <2>1 DEF Min
  <2>3. RemoveFirst(q, e) = r
    BY <1>3 DEF RemoveFirst, SelectInSeq, RemoveAt
  <2> HIDE DEF k
  <2>4. k \in 1 .. Len(q) /\ q[k] = e
    BY <2>2
  <2>5. /\ head \in Seq(S) /\ Len(head) = k - 1
        /\ \A j \in 1 .. (k - 1) : head[j] = q[j]
    <3>1. \A j \in 1 .. (k - 1) : q[j] \in S
      BY <1>1, <2>4
    <3> QED
      BY <1>1, <2>4, <3>1, SubSeqProperties
  <2>6. /\ tail \in Seq(S) /\ Len(tail) = Len(q) - k
        /\ \A j \in 1 .. (Len(q) - k) : tail[j] = q[k + j]
    <3>1. \A j \in (k + 1) .. Len(q) : q[j] \in S
      BY <1>1, <2>4
    <3> QED
      BY <1>1, <2>4, <3>1, SubSeqProperties
  <2> HIDE DEF head, tail
  <2>7. /\ r \in Seq(S) /\ Len(r) = Len(head) + Len(tail)
        /\ \A j \in 1 .. (Len(head) + Len(tail)) :
              r[j] = IF j <= Len(head) THEN head[j] ELSE tail[j - Len(head)]
    BY <2>5, <2>6, ConcatProperties
  <2> HIDE DEF r
  <2>8. Len(r) = Len(q) - 1 /\ r \in Seq(S)
    BY <1>1, <2>4, <2>5, <2>6, <2>7
  <2>9. ASSUME NEW j \in 1 .. Len(r) PROVE r[j] = IF j < k THEN q[j] ELSE q[j + 1]
    <3>1. j \in 1 .. (Len(head) + Len(tail))
      BY <2>7
    <3>2. CASE j < k
      BY <1>1, <2>4, <2>5, <2>7, <3>1, <3>2
    <3>3. CASE ~(j < k)
      <4>1. j - (k - 1) \in 1 .. (Len(q) - k) /\ k + (j - (k - 1)) = j + 1
        BY <1>1, <2>4, <2>8, <3>3
      <4>2. r[j] = tail[j - (k - 1)]
        BY <1>1, <2>4, <2>5, <2>7, <3>1, <3>3
      <4> QED
        BY <2>6, <3>3, <4>1, <4>2
    <3> QED
      BY <3>2, <3>3
  <2>10. /\ Entries(r) \subseteq Entries(q)
         /\ Once(q) => Once(r) /\ Entries(r) = Entries(q) \ {q[k]}
         /\ \A key : Sorted(q, key) => Sorted(r, key)
    BY <2>4, <2>8, <2>9, DropAt
  <2> QED
    BY <2>3, <2>4, <2>8, <2>10
<1> QED
  BY <1>2, <1>3

(* The first place of L among 1 .. n, or the place behind.                 *)
FirstPlace(n, L) == IF L = {} THEN n + 1 ELSE CHOOSE i \in L : \A j \in L : i <= j

LEMMA FirstFacts ==
  ASSUME NEW n \in Nat, NEW L \in SUBSET (1 .. n)
  PROVE  /\ FirstPlace(n, L) \in 1 .. n + 1
         /\ \A i \in 1 .. n : i < FirstPlace(n, L) => i \notin L
         /\ FirstPlace(n, L) \in 1 .. n => FirstPlace(n, L) \in L
<1> DEFINE k == FirstPlace(n, L)
<1>0. k = IF L = {} THEN n + 1 ELSE CHOOSE i \in L : \A j \in L : i <= j
  BY DEF FirstPlace
<1> SUFFICES /\ k \in 1 .. n + 1
             /\ \A i \in 1 .. n : i < k => i \notin L
             /\ k \in 1 .. n => k \in L
  OBVIOUS
<1> HIDE DEF k
<1>1. CASE L = {}
  BY <1>0, <1>1
<1>2. CASE L # {}
  <2>1. L \in SUBSET Nat
    OBVIOUS
  <2>2. \E x \in L : \A y \in L : x <= y
    BY <1>2, <2>1, LeastOf
  <2>3. k \in L /\ \A j \in L : k <= j
    BY <1>0, <1>2, <2>2
  <2>4. k \in 1 .. n
    BY <2>3
  <2>5. ASSUME NEW i \in L, i < k PROVE FALSE
    <3>1. k <= i /\ i \in Nat
      BY <2>1, <2>3
    <3> QED
      BY <2>4, <2>5, <3>1
  <2> QED
    BY <2>3, <2>4, <2>5
<1> QED
  BY <1>1, <1>2

(* InsertAt at a place that fits keeps the order.                          *)
LEMMA PutFacts ==
  ASSUME NEW S, NEW q \in Seq(S), NEW e \in S, NEW k \in 1 .. Len(q) + 1
  PROVE  /\ InsertAt(q, k, e) \in Seq(S) /\ InsertAt(q, k, e) # << >>
         /\ Entries(InsertAt(q, k, e)) = Entries(q) \cup {e}
         /\ Once(q) /\ e \notin Entries(q) => Once(InsertAt(q, k, e))
         /\ \A key \in [S -> Int] :
              /\ Sorted(q, key)
              /\ \A i \in 1 .. Len(q) : i < k => key[q[i]] <= key[e]
              /\ k \in 1 .. Len(q) => key[e] <= key[q[k]]
              => Sorted(InsertAt(q, k, e), key)
<1> DEFINE head == SubSeq(q, 1, k - 1)
           tail == SubSeq(q, k, Len(q))
           front == head \o <<e>>
           r == front \o tail
<1>1. /\ Len(q) \in Nat /\ DOMAIN q = 1 .. Len(q) /\ k \in Nat
      /\ \A i \in 1 .. Len(q) : q[i] \in S
  BY LenProperties, ElementOfSeq
<1>7. InsertAt(q, k, e) = r
  BY DEF InsertAt
<1>9. /\ head \in Seq(S) /\ Len(head) = k - 1
      /\ \A j \in 1 .. (k - 1) : head[j] = q[j]
  <2>1. \A j \in 1 .. (k - 1) : q[j] \in S
    BY <1>1
  <2> QED
    BY <1>1, <2>1, SubSeqProperties
<1>10. /\ tail \in Seq(S) /\ Len(tail) = Len(q) - (k - 1)
      /\ \A j \in 1 .. (Len(q) - (k - 1)) : tail[j] = q[k + j - 1]
  <2>1. \A j \in k .. Len(q) : q[j] \in S
    BY <1>1
  <2>2. k \in Int /\ Len(q) \in Int
    BY <1>1
  <2>3. /\ tail \in Seq(S)
        /\ Len(tail) = IF k <= Len(q) THEN Len(q) - k + 1 ELSE 0
        /\ \A j \in 1 .. Len(q) - k + 1 : tail[j] = q[k + j - 1]
    BY <2>1, <2>2, SubSeqProperties
  <2>4. Len(q) - (k - 1) = Len(q) - k + 1
    BY <2>2
  <2> HIDE DEF tail
  <2>5. Len(tail) = Len(q) - (k - 1)
    BY <1>1, <2>3
  <2> QED
    BY <2>3, <2>4, <2>5
<1> HIDE DEF head, tail
<1>11. /\ <<e>> \in Seq(S) /\ Len(<<e>>) = 1 /\ <<e>>[1] = e
  OBVIOUS
<1>12. /\ front \in Seq(S) /\ Len(front) = k
       /\ \A j \in 1 .. k : front[j] = IF j <= k - 1 THEN head[j] ELSE <<e>>[j - (k - 1)]
  <2>1. /\ front \in Seq(S) /\ Len(front) = Len(head) + Len(<<e>>)
        /\ \A j \in 1 .. (Len(head) + Len(<<e>>)) :
              front[j] = IF j <= Len(head) THEN head[j] ELSE <<e>>[j - Len(head)]
    BY <1>9, <1>11, ConcatProperties
  <2> QED
    BY <1>1, <1>9, <1>11, <2>1
<1>13. \A j \in 1 .. k : front[j] = IF j < k THEN q[j] ELSE e
  BY <1>1, <1>9, <1>11, <1>12
<1> HIDE DEF front
<1>14. /\ r \in Seq(S) /\ Len(r) = Len(front) + Len(tail)
       /\ \A j \in 1 .. (Len(front) + Len(tail)) :
             r[j] = IF j <= Len(front) THEN front[j] ELSE tail[j - Len(front)]
  BY <1>10, <1>12, ConcatProperties
<1> HIDE DEF r
<1>15. Len(r) = Len(q) + 1 /\ r \in Seq(S) /\ r # << >>
  BY <1>1, <1>10, <1>12, <1>14, EmptySeq
<1>16. ASSUME NEW j \in 1 .. Len(r)
       PROVE  r[j] = IF j < k THEN q[j] ELSE IF j = k THEN e ELSE q[j - 1]
  <2>1. j \in 1 .. (Len(front) + Len(tail))
    BY <1>14
  <2>2. CASE j <= k
    BY <1>1, <1>12, <1>13, <1>14, <2>1, <2>2
  <2>3. CASE ~(j <= k)
    <3>1. j - k \in 1 .. (Len(q) - (k - 1)) /\ k + (j - k) - 1 = j - 1
      BY <1>1, <1>15, <2>3
    <3>2. r[j] = tail[j - k]
      BY <1>12, <1>14, <2>1, <2>3
    <3> QED
      BY <1>1, <1>10, <2>3, <3>1, <3>2
  <2> QED
    BY <2>2, <2>3
<1>17. /\ Entries(r) = Entries(q) \cup {e}
       /\ Once(q) /\ e \notin Entries(q) => Once(r)
  BY <1>15, <1>16, AddAt
<1>18. ASSUME NEW key \in [S -> Int], Sorted(q, key),
              \A i \in 1 .. Len(q) : i < k => key[q[i]] <= key[e],
              k \in 1 .. Len(q) => key[e] <= key[q[k]],
              NEW i \in 1 .. Len(r), NEW j \in 1 .. Len(r), i <= j
       PROVE  key[r[i]] <= key[r[j]]
  <2> DEFINE to(m) == IF m < k THEN m ELSE m - 1
  <2>1. /\ \A m \in 1 .. Len(r) : m # k => r[m] = q[to(m)] /\ to(m) \in 1 .. Len(q)
        /\ r[k] = e /\ k \in 1 .. Len(r)
    BY <1>1, <1>15, <1>16
  <2>2. /\ i # k /\ j # k => to(i) <= to(j)
        /\ i < k => to(i) < k
        /\ j > k => ~(to(j) < k)
    BY <1>1, <1>15, <1>18
  <2> HIDE DEF to
  <2>3. CASE i # k /\ j # k
    <3>1. /\ r[i] = q[to(i)] /\ to(i) \in 1 .. Len(q)
          /\ r[j] = q[to(j)] /\ to(j) \in 1 .. Len(q)
      BY <2>1, <2>3
    <3>2. to(i) <= to(j)
      BY <2>2, <2>3
    <3> QED
      BY <1>18, <3>1, <3>2 DEF Sorted
  <2>4. CASE i = k /\ j # k
    <3>1. r[j] = q[to(j)] /\ to(j) \in 1 .. Len(q) /\ ~(to(j) < k)
      BY <1>1, <1>15, <1>18, <2>1, <2>2, <2>4
    <3>2. k \in 1 .. Len(q) /\ k <= to(j)
      BY <1>1, <3>1
    <3>3. key[q[k]] <= key[q[to(j)]] /\ key[e] <= key[q[k]]
      BY <1>18, <3>1, <3>2 DEF Sorted
    <3>4. key[e] \in Int /\ key[q[k]] \in Int /\ key[q[to(j)]] \in Int
      BY <1>1, <3>1, <3>2
    <3> QED
      BY <2>1, <2>4, <3>1, <3>3, <3>4
  <2>5. CASE i # k /\ j = k
    <3>1. r[i] = q[to(i)] /\ to(i) \in 1 .. Len(q) /\ to(i) < k
      BY <1>1, <1>15, <1>18, <2>1, <2>2, <2>5
    <3> QED
      BY <1>18, <2>1, <2>5, <3>1
  <2>6. CASE i = k /\ j = k
    BY <2>1, <2>6
  <2> QED
    BY <2>3, <2>4, <2>5, <2>6
<1> QED
  BY <1>7, <1>15, <1>17, <1>18 DEF Sorted

=============================================================================
