------------------------ MODULE SemaphoreLockProofs ------------------------
(***************************************************************************)
(* Mutual exclusion of SignalSemaphore and its implementation of           *)
(* ReadersWriterLock, for every set of tasks, semaphores and messages.     *)
(* The invariant of SignalSemaphoreProofs says who waits; the one added    *)
(* here counts the locks that were given, and says whose they are.         *)
(***************************************************************************)
EXTENDS SignalSemaphoreProofs, SemaphoreRefinement

(* The n-th lock of s in this mode that a call returned to who, or with    *)
(* n = 0 the one that a task is about to return with or that a message has,*)
(* or that was given to a task of X, which asks for it otherwise.          *)
IsLock(who, mode, n, s, X) ==
    \/ who \in Tasks /\ n >= 1 /\ n <= obtained[who][s][mode]
    \/ /\ who \in Tasks /\ n = 0 /\ waitingFor[who] # NULL
       /\ waitingFor[who].sem = s /\ waitingFor[who].mode = mode /\ ~InQueue(who, s)
    \/ /\ who \in Msgs /\ n = 0 /\ bid[who] # NULL /\ ~Queued(who)
       /\ bid[who].sem = s /\ bid[who].mode = mode
    \/ /\ who \in Tasks /\ n = 0 /\ mode = "exclusive"
       /\ <<who, s>> \in X /\ ~InQueue(who, s)

Clients == Tasks \cup Msgs

(* The locks that were given to the tasks of X.                            *)
GivenAll(s, X) ==
    {<<t, "exclusive", 0>> : t \in {u \in Tasks : <<u, s>> \in X /\ ~InQueue(u, s)}}

LocksOf(s, X) == Locks(s) \cup GivenAll(s, X)

LEMMA LocksOfNone == \A s : LocksOf(s, {}) = Locks(s)
  BY DEF LocksOf, GivenAll

LocksAreLocks(X) ==
    \A s \in Sems : \A y : y \in LocksOf(s, X) <=>
        \E who \in Clients, mode \in Modes, n \in Nat :
            y = <<who, mode, n>> /\ IsLock(who, mode, n, s, X)

LEMMA LockElements ==
    ASSUME NEW X PROVE TypeOK => LocksAreLocks(X)
<1> SUFFICES ASSUME TypeOK, NEW s \in Sems, NEW y
             PROVE  y \in LocksOf(s, X) <=>
                       \E who \in Clients, mode \in Modes, n \in Nat :
                           y = <<who, mode, n>> /\ IsLock(who, mode, n, s, X)
  BY DEF LocksAreLocks
<1>1. y \in Returned(s) <=> \E t \in Tasks, mode \in Modes, n \in Nat :
          y = <<t, mode, n>> /\ n >= 1 /\ n <= obtained[t][s][mode]
  <2>1. \A t : y \in ReturnedTo(t, s) <=>
            \E mode \in Modes : \E n \in 1..obtained[t][s][mode] : y = <<t, mode, n>>
    BY SMT DEF ReturnedTo
  <2>2. y \in Returned(s) <=> \E t \in Tasks : y \in ReturnedTo(t, s)
    BY Zenon DEF Returned
  <2>3. \A t \in Tasks, mode \in Modes : obtained[t][s][mode] \in Nat
    BY DEF TypeOK
  <2>4. \A t \in Tasks, mode \in Modes : \A n : n \in 1..obtained[t][s][mode] <=>
            n \in Nat /\ n >= 1 /\ n <= obtained[t][s][mode]
    BY <2>3
  <2> QED
    BY <2>1, <2>2, <2>4, Zenon
<1>2. y \in ToReturn(s) <=>
          \E t \in Tasks : HandedTo(t, s) /\ y = <<t, waitingFor[t].mode, 0>>
  BY Zenon DEF ToReturn
<1>3. y \in InMessages(s) <=>
          \E m \in Msgs : Granted(m) /\ bid[m].sem = s /\ y = <<m, bid[m].mode, 0>>
  BY Zenon DEF InMessages, GrantedOn
<1>4. \A t \in Tasks : HandedTo(t, s) <=>
          waitingFor[t] # NULL /\ waitingFor[t].sem = s /\ ~InQueue(t, s)
  BY WaitsIsInQueue, Zenon DEF HandedTo
<1>5. /\ \A t \in Tasks : waitingFor[t] # NULL => waitingFor[t].mode \in Modes
      /\ \A m \in Msgs : bid[m] # NULL => bid[m].mode \in Modes
      /\ "exclusive" \in Modes
  BY DEF TypeOK, Want, Bid, Modes
<1>8. y \in GivenAll(s, X) <=>
          \E t \in Tasks : <<t, s>> \in X /\ ~InQueue(t, s) /\ y = <<t, "exclusive", 0>>
  BY Zenon DEF GivenAll
<1>6. y \in LocksOf(s, X) => \E who \in Clients, mode \in Modes, n \in Nat :
                           y = <<who, mode, n>> /\ IsLock(who, mode, n, s, X)
  <2>1. CASE y \in Returned(s)
    BY <1>1, <2>1, Zenon DEF IsLock, Clients
  <2>2. CASE y \in ToReturn(s)
    <3>1. PICK t \in Tasks : HandedTo(t, s) /\ y = <<t, waitingFor[t].mode, 0>>
      BY <1>2, <2>2
    <3>2. IsLock(t, waitingFor[t].mode, 0, s, X) /\ waitingFor[t].mode \in Modes
      BY <1>4, <1>5, <3>1 DEF IsLock
    <3> QED
      BY <3>1, <3>2 DEF Clients
  <2>3. CASE y \in InMessages(s)
    <3>1. PICK m \in Msgs : Granted(m) /\ bid[m].sem = s /\ y = <<m, bid[m].mode, 0>>
      BY <1>3, <2>3
    <3>2. IsLock(m, bid[m].mode, 0, s, X) /\ bid[m].mode \in Modes
      BY <1>5, <3>1 DEF IsLock, Granted
    <3> QED
      BY <3>1, <3>2 DEF Clients
  <2>4. CASE y \in GivenAll(s, X)
    <3>1. PICK t \in Tasks : <<t, s>> \in X /\ ~InQueue(t, s) /\ y = <<t, "exclusive", 0>>
      BY <1>8, <2>4
    <3>2. IsLock(t, "exclusive", 0, s, X)
      BY <3>1 DEF IsLock
    <3> QED
      BY <1>5, <3>1, <3>2 DEF Clients
  <2> QED
    BY <2>1, <2>2, <2>3, <2>4 DEF Locks, LocksOf
<1>7. ASSUME NEW who \in Clients, NEW mode \in Modes, NEW n \in Nat,
             y = <<who, mode, n>>, IsLock(who, mode, n, s, X)
      PROVE  y \in LocksOf(s, X)
  <2>1. CASE who \in Tasks /\ n >= 1 /\ n <= obtained[who][s][mode]
    BY <1>1, <1>7, <2>1 DEF Locks, LocksOf
  <2>2. CASE /\ who \in Tasks /\ n = 0 /\ waitingFor[who] # NULL
             /\ waitingFor[who].sem = s /\ waitingFor[who].mode = mode /\ ~InQueue(who, s)
    BY <1>2, <1>4, <1>7, <2>2 DEF Locks, LocksOf
  <2>3. CASE /\ who \in Msgs /\ n = 0 /\ bid[who] # NULL /\ ~Queued(who)
             /\ bid[who].sem = s /\ bid[who].mode = mode
    BY <1>3, <1>7, <2>3 DEF Locks, LocksOf, Granted
  <2>4. CASE /\ who \in Tasks /\ n = 0 /\ mode = "exclusive"
             /\ <<who, s>> \in X /\ ~InQueue(who, s)
    BY <1>7, <1>8, <2>4 DEF LocksOf
  <2> QED
    BY <1>7, <2>1, <2>2, <2>3, <2>4 DEF IsLock
<1> QED
  BY <1>6, <1>7

LEMMA LockElementsNext ==
    ASSUME NEW X PROVE TypeOK' => LocksAreLocks(X)'
<1>1. TypeOK => LocksAreLocks(X)
  BY LockElements
<1> QED
  BY <1>1, PTL

LEMMA LocksSame ==
    ASSUME NEW X, NEW Y, TypeOK, TypeOK', NEW s \in Sems,
           \A who \in Clients, mode \in Modes, n \in Nat :
               IsLock(who, mode, n, s, Y)' <=> IsLock(who, mode, n, s, X)
    PROVE  LocksOf(s, Y)' = LocksOf(s, X)
<1>1. LocksAreLocks(X) /\ LocksAreLocks(Y)'
  BY LockElements, LockElementsNext
<1>2. \A y : y \in LocksOf(s, Y)' <=> y \in LocksOf(s, X)
  BY <1>1, Zenon DEF LocksAreLocks
<1> QED
  BY <1>2

LEMMA LocksGain ==
    ASSUME NEW X, NEW Y, TypeOK, TypeOK', NEW s \in Sems,
           NEW w \in Clients, NEW md \in Modes, NEW k \in Nat, ~IsLock(w, md, k, s, X),
           \A who \in Clients, mode \in Modes, n \in Nat :
               IsLock(who, mode, n, s, Y)' <=>
                   IsLock(who, mode, n, s, X) \/ (who = w /\ mode = md /\ n = k)
    PROVE  /\ LocksOf(s, Y)' = LocksOf(s, X) \cup {<<w, md, k>>}
           /\ <<w, md, k>> \notin LocksOf(s, X)
<1>1. LocksAreLocks(X) /\ LocksAreLocks(Y)'
  BY LockElements, LockElementsNext
<1>2. <<w, md, k>> \notin LocksOf(s, X)
  BY <1>1 DEF LocksAreLocks
<1>3. \A y : y \in LocksOf(s, Y)' <=> y \in LocksOf(s, X) \/ y = <<w, md, k>>
  BY <1>1 DEF LocksAreLocks
<1> QED
  BY <1>2, <1>3

LEMMA LocksLose ==
    ASSUME NEW X, TypeOK, NEW s \in Sems,
           NEW w \in Clients, NEW md \in Modes, NEW k \in Nat
    PROVE  \A y : y \in LocksOf(s, X) \ {<<w, md, k>>} <=>
               \E who \in Clients, mode \in Modes, n \in Nat :
                   /\ y = <<who, mode, n>> /\ IsLock(who, mode, n, s, X)
                   /\ ~(who = w /\ mode = md /\ n = k)
  BY LockElements DEF LocksAreLocks

(* A lock that is known by another number is still one lock.               *)
LEMMA LocksRename ==
    ASSUME NEW X, NEW Y, TypeOK, TypeOK', NEW s \in Sems,
           NEW t \in Clients, NEW mode \in Modes, NEW j \in Nat, NEW k \in Nat,
           IsLock(t, mode, j, s, X), ~IsLock(t, mode, k, s, X),
           \A who \in Clients, md \in Modes, n \in Nat :
               IsLock(who, md, n, s, Y)' <=>
                   \/ IsLock(who, md, n, s, X) /\ ~(who = t /\ md = mode /\ n = j)
                   \/ who = t /\ md = mode /\ n = k,
           IsFiniteSet(LocksOf(s, X))
    PROVE  /\ IsFiniteSet(LocksOf(s, Y)')
           /\ Cardinality(LocksOf(s, Y)') = Cardinality(LocksOf(s, X))
<1>1. LocksAreLocks(X) /\ LocksAreLocks(Y)'
  BY LockElements, LockElementsNext
<1>2. <<t, mode, j>> \in LocksOf(s, X)
  BY <1>1 DEF LocksAreLocks
<1>3. <<t, mode, k>> \notin LocksOf(s, X)
  BY <1>1 DEF LocksAreLocks
<1> DEFINE rest == LocksOf(s, X) \ {<<t, mode, j>>}
<1>4. \A y : y \in rest <=>
          \E who \in Clients, md \in Modes, n \in Nat :
              /\ y = <<who, md, n>> /\ IsLock(who, md, n, s, X)
              /\ ~(who = t /\ md = mode /\ n = j)
  BY LocksLose
<1>5. \A y : y \in LocksOf(s, Y)' <=>
          \E who \in Clients, md \in Modes, n \in Nat :
              y = <<who, md, n>> /\ IsLock(who, md, n, s, Y)'
  BY <1>1 DEF LocksAreLocks
<1>6. LocksOf(s, Y)' = rest \cup {<<t, mode, k>>}
  <2> HIDE DEF rest
  <2>1. ASSUME NEW y, y \in LocksOf(s, Y)'
        PROVE  y \in rest \/ y = <<t, mode, k>>
    <3>1. PICK who \in Clients, md \in Modes, n \in Nat :
              y = <<who, md, n>> /\ IsLock(who, md, n, s, Y)'
      BY <1>5, <2>1
    <3>2. \/ IsLock(who, md, n, s, X) /\ ~(who = t /\ md = mode /\ n = j)
          \/ who = t /\ md = mode /\ n = k
      BY <3>1
    <3> QED
      BY <1>4, <3>1, <3>2
  <2>2. ASSUME NEW y, y \in rest PROVE y \in LocksOf(s, Y)'
    <3>1. PICK who \in Clients, md \in Modes, n \in Nat :
              /\ y = <<who, md, n>> /\ IsLock(who, md, n, s, X)
              /\ ~(who = t /\ md = mode /\ n = j)
      BY <1>4, <2>2, Zenon
    <3> QED
      BY <1>5, <3>1
  <2>3. <<t, mode, k>> \in LocksOf(s, Y)'
    BY <1>5
  <2> QED
    BY <2>1, <2>2, <2>3
<1>7. /\ IsFiniteSet(rest) /\ Cardinality(rest) = Cardinality(LocksOf(s, X)) - 1
      /\ Cardinality(LocksOf(s, X)) \in Nat
  BY <1>2, FS_RemoveElement, FS_CardinalityType
<1>8. <<t, mode, k>> \notin rest
  BY <1>3
<1> HIDE DEF rest
<1>9. /\ IsFiniteSet(rest \cup {<<t, mode, k>>})
      /\ Cardinality(rest \cup {<<t, mode, k>>}) = Cardinality(rest) + 1
  BY <1>7, <1>8, FS_AddElement
<1> QED
  BY <1>6, <1>7, <1>9

-----------------------------------------------------------------------------
(* The invariant                                                           *)

(* The lock that who has is one that the owner of s allows.                *)
Allowed(who, mode, s) ==
    IF ssOwner[s] = NULL THEN mode = "shared" ELSE TaskOf(who) = ssOwner[s]

CountInv(X) ==
    \A s \in Sems : IsFiniteSet(LocksOf(s, X)) /\ ssNestCount[s] = Cardinality(LocksOf(s, X))

FreeInv == \A s \in Sems : ssNestCount[s] = 0 => Empty(ssWaitQueue[s]) /\ ssOwner[s] = NULL

OwnerInv(X) ==
    \A s \in Sems : \A who \in Clients, mode \in Modes, n \in Nat :
        IsLock(who, mode, n, s, X) => Allowed(who, mode, s)

(* SharedNeverQueuesBehindShared.                                          *)
SharedInv ==
    \A s \in Sems : ssNestCount[s] > 0 /\ ssOwner[s] = NULL =>
        \A r \in Entries(ssWaitQueue[s]) : r.mode # "shared"

LInv(X) == CountInv(X) /\ FreeInv /\ OwnerInv(X) /\ SharedInv

LEMMA InitLInv == Init => LInv({})
<1> SUFFICES ASSUME Init PROVE LInv({})
  OBVIOUS
<1>1. TypeOK
  BY InitIInv DEF IInv
<1>2. \A s \in Sems : ssWaitQueue[s] = << >> /\ ssNestCount[s] = 0 /\ ssOwner[s] = NULL
  BY DEF Init
<1>3. ASSUME NEW s \in Sems, NEW who \in Clients, NEW mode \in Modes, NEW n \in Nat
      PROVE  ~IsLock(who, mode, n, s, {})
  BY DEF Init, IsLock
<1>4. \A s \in Sems : LocksOf(s, {}) = {}
  BY <1>1, <1>3, LockElements DEF LocksAreLocks
<1>5. CountInv({})
  BY <1>2, <1>4, FS_EmptySet DEF CountInv
<1>6. FreeInv
  BY <1>2 DEF FreeInv, Empty
<1>7. OwnerInv({})
  BY <1>3 DEF OwnerInv
<1>8. SharedInv
  BY <1>2 DEF SharedInv
<1> QED
  BY <1>5, <1>6, <1>7, <1>8 DEF LInv

(* The counters tell a free semaphore from a held one.                     *)
LEMMA FreeFacts ==
    ASSUME NEW X, IInv(X), LInv(X), NEW s \in Sems
    PROVE  /\ ssNestCount[s] \in Nat
           /\ IsFree(s) <=> ssNestCount[s] = 0
           /\ ssNestCount[s] = 0 => \A who \in Clients, mode \in Modes, n \in Nat :
                                        ~IsLock(who, mode, n, s, X)
<1>1. IsFiniteSet(LocksOf(s, X)) /\ ssNestCount[s] = Cardinality(LocksOf(s, X))
  BY DEF LInv, CountInv
<1>2. ssNestCount[s] \in Nat
  BY <1>1, FS_CardinalityType
<1>3. ssWaitQueue[s] \in Seq(Request)
  BY DEF IInv, TypeOK
<1>4. Size(ssWaitQueue[s]) \in Nat /\ (Empty(ssWaitQueue[s]) <=> Size(ssWaitQueue[s]) = 0)
  BY <1>3, QueueFacts
<1>5. ssQueueCount[s] \in Int /\ ssQueueCount[s] + 1 = ssNestCount[s] + Size(ssWaitQueue[s])
  BY DEF IInv, TypeOK, Balanced
<1>6. ssNestCount[s] = 0 => Empty(ssWaitQueue[s])
  BY DEF LInv, FreeInv
<1>7. IsFree(s) <=> ssNestCount[s] = 0
  BY <1>2, <1>4, <1>5, <1>6 DEF IsFree
<1>8. ssNestCount[s] = 0 => LocksOf(s, X) = {}
  BY <1>1, FS_EmptySet
<1>9. TypeOK
  BY DEF IInv
<1> QED
  BY <1>2, <1>7, <1>8, <1>9, LockElements DEF LocksAreLocks

-----------------------------------------------------------------------------
(* What a step may do to the locks                                         *)

SameTasks(X) == \A s \in Sems : \A who \in Clients, mode \in Modes, n \in Nat :
    IsLock(who, mode, n, s, X)' => TaskOf(who)' = TaskOf(who)

KeepsLocks(X) ==
    \A s \in Sems : \A who \in Clients, mode \in Modes, n \in Nat :
        /\ IsLock(who, mode, n, s, X)' <=> IsLock(who, mode, n, s, X)
        /\ IsLock(who, mode, n, s, X) => TaskOf(who)' = TaskOf(who)

(* w gets one lock of s, which is named <<w, md, k>>.                      *)
GainsLock(w, md, k, s, X) ==
    /\ ~IsLock(w, md, k, s, X)
    /\ \A s2 \in Sems : \A who \in Clients, mode \in Modes, n \in Nat :
          /\ IsLock(who, mode, n, s2, X)' <=>
                 \/ IsLock(who, mode, n, s2, X)
                 \/ s2 = s /\ who = w /\ mode = md /\ n = k
          /\ IsLock(who, mode, n, s2, X) => TaskOf(who)' = TaskOf(who)

(* The lock <<w, md, k>> of s is given back and what the release serves    *)
(* gets one each.                                                          *)
PassesLock(w, md, k, s, X) ==
    /\ IsLock(w, md, k, s, X)
    /\ \A s2 \in Sems : \A who \in Clients, mode \in Modes, n \in Nat :
          IsLock(who, mode, n, s2, X)' <=>
              \/ IsLock(who, mode, n, s2, X) /\ ~(s2 = s /\ who = w /\ mode = md /\ n = k)
              \/ /\ s2 = s /\ who \in ServedBy(s) /\ n = 0
                 /\ \E r \in Entries(ssWaitQueue[s]) : r.node = who /\ r.mode = mode
    /\ SameTasks(X)

(* The lock <<w, md, j>> of s is <<w, md, k>> from now on.                 *)
RenamesLock(w, md, j, k, s, X) ==
    /\ IsLock(w, md, j, s, X) /\ ~IsLock(w, md, k, s, X)
    /\ \A s2 \in Sems : \A who \in Clients, mode \in Modes, n \in Nat :
          IsLock(who, mode, n, s2, X)' <=>
              \/ IsLock(who, mode, n, s2, X) /\ ~(s2 = s /\ who = w /\ mode = md /\ n = j)
              \/ s2 = s /\ who = w /\ mode = md /\ n = k
    /\ bid' = bid

(* A step that gives one lock of s to w, without touching any queue.       *)
LEMMA GainLInv ==
    ASSUME NEW X, IInv(X), IInv(X)', LInv(X), NEW s \in Sems, NEW t \in Tasks,
           NEW w \in Clients, NEW md \in Modes, NEW k \in Nat, GainsLock(w, md, k, s, X),
           TaskOf(w)' = t,
           Acquire(s, OwnerFor(t, md)), Available(t, s, md)
    PROVE  LInv(X)'
<1> /\ ~IsLock(w, md, k, s, X)
    /\ \A who \in Clients, mode \in Modes, n \in Nat :
           IsLock(who, mode, n, s, X)' <=>
               IsLock(who, mode, n, s, X) \/ (who = w /\ mode = md /\ n = k)
    /\ \A s2 \in Sems : s2 # s => \A who \in Clients, mode \in Modes, n \in Nat :
           IsLock(who, mode, n, s2, X)' <=> IsLock(who, mode, n, s2, X)
    /\ \A s2 \in Sems : \A who \in Clients, mode \in Modes, n \in Nat :
           IsLock(who, mode, n, s2, X) => TaskOf(who)' = TaskOf(who)
  BY DEF GainsLock
<1>1. TypeOK /\ TypeOK'
  BY DEF IInv
<1>2. /\ LocksOf(s, X)' = LocksOf(s, X) \cup {<<w, md, k>>} /\ <<w, md, k>> \notin LocksOf(s, X)
      /\ \A s2 \in Sems : s2 # s => LocksOf(s2, X)' = LocksOf(s2, X)
  BY <1>1, LocksGain, LocksSame
<1>3. /\ \A s2 \in Sems : ssNestCount'[s2] = IF s2 = s THEN ssNestCount[s] + 1 ELSE ssNestCount[s2]
      /\ \A s2 \in Sems : s2 # s => ssOwner'[s2] = ssOwner[s2]
      /\ ssOwner'[s] = IF IsFree(s) THEN OwnerFor(t, md) ELSE ssOwner[s]
      /\ ssWaitQueue' = ssWaitQueue
  BY <1>1 DEF Acquire, TypeOK
<1>4. \A s2 \in Sems : ssNestCount[s2] \in Nat
  BY FreeFacts
<1>5. IsFree(s) <=> ssNestCount[s] = 0
  BY FreeFacts
<1>6. CountInv(X)'
  <2>1. IsFiniteSet(LocksOf(s, X)) /\ ssNestCount[s] = Cardinality(LocksOf(s, X))
    BY DEF LInv, CountInv
  <2>2. IsFiniteSet(LocksOf(s, X)') /\ ssNestCount'[s] = Cardinality(LocksOf(s, X)')
    BY <1>2, <1>3, <2>1, FS_AddElement
  <2>3. \A s2 \in Sems : s2 # s => IsFiniteSet(LocksOf(s2, X)') /\ ssNestCount'[s2] = Cardinality(LocksOf(s2, X)')
    BY <1>2, <1>3 DEF LInv, CountInv
  <2> QED
    BY <2>2, <2>3 DEF CountInv
<1>7. FreeInv'
  BY <1>3, <1>4 DEF LInv, FreeInv
<1>8. OwnerInv(X)'
  <2> SUFFICES ASSUME NEW s2 \in Sems, NEW who \in Clients, NEW mode \in Modes, NEW n \in Nat,
                      IsLock(who, mode, n, s2, X)'
               PROVE  Allowed(who, mode, s2)'
    BY DEF OwnerInv
  <2>1. CASE IsLock(who, mode, n, s2, X)
    <3>1. Allowed(who, mode, s2) /\ TaskOf(who)' = TaskOf(who)
      BY <2>1 DEF LInv, OwnerInv
    <3>2. ssOwner'[s2] = ssOwner[s2]
      <4>1. CASE s2 = s /\ IsFree(s)
        BY <1>5, <2>1, <4>1, FreeFacts
      <4> QED
        BY <1>3, <4>1
    <3> QED
      BY <3>1, <3>2 DEF Allowed
  <2>2. CASE s2 = s /\ who = w /\ mode = md /\ n = k
    <3>1. t # NULL
      BY ConstantsAssumption
    <3>2. CASE IsFree(s)
      BY <1>3, <2>2, <3>1, <3>2 DEF Allowed, OwnerFor, Modes
    <3>3. CASE ~IsFree(s) /\ ssOwner[s] = t
      BY <1>3, <2>2, <3>1, <3>3 DEF Allowed
    <3>4. CASE ~IsFree(s) /\ ssOwner[s] = OwnerFor(t, md)
      BY <1>3, <2>2, <3>1, <3>4 DEF Allowed, OwnerFor, Modes
    <3> QED
      BY <3>2, <3>3, <3>4 DEF Available
  <2> QED
    BY <2>1, <2>2
<1>9. SharedInv'
  <2> SUFFICES ASSUME NEW s2 \in Sems, ssNestCount'[s2] > 0, ssOwner'[s2] = NULL
               PROVE  \A r \in Entries(ssWaitQueue'[s2]) : r.mode # "shared"
    BY DEF SharedInv
  <2>1. CASE s2 # s \/ ~IsFree(s)
    <3>1. ssOwner[s2] = NULL /\ ssNestCount[s2] > 0
      BY <1>3, <1>4, <1>5, <2>1
    <3> QED
      BY <1>3, <3>1 DEF LInv, SharedInv
  <2>2. CASE s2 = s /\ IsFree(s)
    <3>1. Entries(ssWaitQueue[s]) = {}
      BY <1>5, <2>2, EmptyQueueFacts DEF LInv, FreeInv, Empty
    <3> QED
      BY <1>3, <2>2, <3>1
  <2> QED
    BY <2>1, <2>2
<1> QED
  BY <1>6, <1>7, <1>8, <1>9 DEF LInv

(* A step that gives and takes no lock and makes no queue longer.          *)
LEMMA SameLInv ==
    ASSUME NEW X, IInv(X), IInv(X)', LInv(X), KeepsLocks(X),
           \A s \in Sems : /\ ssNestCount'[s] = ssNestCount[s]
                           /\ ssOwner'[s] = ssOwner[s]
                           /\ ssNestCount[s] = 0 => Empty(ssWaitQueue'[s]),
           \A s \in Sems : \A r \in Entries(ssWaitQueue'[s]) :
               r \in Entries(ssWaitQueue[s]) \/ r.mode # "shared" \/ ssOwner[s] # NULL
    PROVE  LInv(X)'
<1> \A s \in Sems : \A who \in Clients, mode \in Modes, n \in Nat :
       /\ IsLock(who, mode, n, s, X)' <=> IsLock(who, mode, n, s, X)
       /\ IsLock(who, mode, n, s, X) => TaskOf(who)' = TaskOf(who)
  BY DEF KeepsLocks
<1>1. TypeOK /\ TypeOK'
  BY DEF IInv
<1>2. \A s \in Sems : LocksOf(s, X)' = LocksOf(s, X)
  BY <1>1, LocksSame
<1>3. CountInv(X)'
  BY <1>2 DEF LInv, CountInv
<1>4. FreeInv'
  BY DEF LInv, FreeInv
<1>5. OwnerInv(X)'
  <2> SUFFICES ASSUME NEW s \in Sems, NEW who \in Clients, NEW mode \in Modes, NEW n \in Nat,
                      IsLock(who, mode, n, s, X)'
               PROVE  Allowed(who, mode, s)'
    BY DEF OwnerInv
  <2>1. Allowed(who, mode, s) /\ TaskOf(who)' = TaskOf(who)
    BY DEF LInv, OwnerInv
  <2> QED
    BY <2>1 DEF Allowed
<1>6. SharedInv'
  BY DEF LInv, SharedInv
<1> QED
  BY <1>3, <1>4, <1>5, <1>6 DEF LInv

LEMMA LastLock ==
    ASSUME NEW X, IInv(X), LInv(X), NEW s \in Sems,
           NEW w \in Clients, NEW md \in Modes, NEW k \in Nat, IsLock(w, md, k, s, X)
    PROVE  /\ <<w, md, k>> \in LocksOf(s, X)
           /\ ssNestCount[s] # 0
           /\ ssNestCount[s] = 1 <=> LocksOf(s, X) \ {<<w, md, k>>} = {}
<1> DEFINE lost == <<w, md, k>>
           rest == LocksOf(s, X) \ {lost}
<1>1. TypeOK
  BY DEF IInv
<1>2. IsFiniteSet(LocksOf(s, X)) /\ ssNestCount[s] = Cardinality(LocksOf(s, X)) /\ ssNestCount[s] \in Nat
  BY FreeFacts DEF LInv, CountInv
<1>3. lost \in LocksOf(s, X)
  BY <1>1, LockElements DEF LocksAreLocks
<1>4. /\ IsFiniteSet(rest) /\ Cardinality(rest) = Cardinality(LocksOf(s, X)) - 1
      /\ Cardinality(rest) \in Nat
  BY <1>2, <1>3, FS_RemoveElement, FS_CardinalityType
<1>5. Cardinality(LocksOf(s, X)) # 0
  BY <1>2, <1>3, FS_EmptySet
<1> HIDE DEF rest
<1>6. Cardinality(rest) = 0 <=> rest = {}
  BY <1>4, FS_EmptySet
<1> QED
  BY <1>2, <1>3, <1>4, <1>5, <1>6 DEF rest

(* A step that takes the lock <<w, md, k>> of s back, serving the nodes    *)
(* that ReleaseSem serves.                                                 *)
LEMMA ServeLInv ==
    ASSUME NEW X, IInv(X), IInv(X)', LInv(X), NEW s \in Sems,
           NEW w \in Clients, NEW md \in Modes, NEW k \in Nat, PassesLock(w, md, k, s, X),
           NEW ssm, \A m \in Msgs : Queued(m) => ssm[m] = ssmSemaphore[m],
           ReleaseSem(s, ssm), ServesOnly(ServedBy(s), s, ssm)
    PROVE  LInv(X)'
<1> /\ IsLock(w, md, k, s, X)
    /\ \A who \in Clients, mode \in Modes, n \in Nat :
           IsLock(who, mode, n, s, X)' <=>
               \/ IsLock(who, mode, n, s, X) /\ ~(who = w /\ mode = md /\ n = k)
               \/ /\ who \in ServedBy(s) /\ n = 0
                  /\ \E r \in Entries(ssWaitQueue[s]) : r.node = who /\ r.mode = mode
    /\ \A s2 \in Sems : s2 # s => \A who \in Clients, mode \in Modes, n \in Nat :
           IsLock(who, mode, n, s2, X)' <=> IsLock(who, mode, n, s2, X)
    /\ \A s2 \in Sems : \A who \in Clients, mode \in Modes, n \in Nat :
           IsLock(who, mode, n, s2, X)' => TaskOf(who)' = TaskOf(who)
  BY DEF PassesLock, SameTasks
<1> DEFINE q == ssWaitQueue[s]
           serve == ssNestCount[s] = 1 /\ AnyQueued(s)
           lost == <<w, md, k>>
<1>1. /\ TypeOK /\ TypeOK' /\ QueueInv(X) /\ q \in Seq(Request) /\ NodesOnce(q)
      /\ ssNestCount \in [Sems -> Int] /\ ssOwner \in [Sems -> Tasks \cup {NULL}]
  BY DEF IInv, TypeOK, QueueInv
<1>2. /\ \A s2 \in Sems : s2 # s => /\ ssNestCount'[s2] = ssNestCount[s2]
                                    /\ ssOwner'[s2] = ssOwner[s2]
                                    /\ ssWaitQueue'[s2] = ssWaitQueue[s2]
      /\ ssNestCount'[s] = IF serve THEN NewLocks(q) ELSE ssNestCount[s] - 1
      /\ ssOwner'[s] = IF serve THEN NextOwner(q, ssm)
                       ELSE IF ssNestCount[s] = 1 THEN NULL ELSE ssOwner[s]
  BY <1>1 DEF ReleaseSem, ServesOnly
<1>3. ssWaitQueue'[s] = IF serve THEN Unserved(q) ELSE q
  BY <1>1 DEF ReleaseSem, TypeOK
<1>4. ServedBy(s) = IF serve THEN ServedNodes(q) ELSE {}
  BY DEF ServedBy
<1>5. serve => ~Empty(q)
  BY DEF AnyQueued, Empty
<1>6. ssNestCount[s] \in Nat
  BY FreeFacts
<1>8. /\ IsFiniteSet(LocksOf(s, X) \ {lost}) /\ Cardinality(LocksOf(s, X) \ {lost}) = ssNestCount[s] - 1
      /\ ssNestCount[s] # 0
      /\ ssNestCount[s] = 1 => LocksOf(s, X) \ {lost} = {}
  <2>1. IsLock(w, md, k, s, X)
    BY DEF PassesLock
  <2>2. /\ <<w, md, k>> \in LocksOf(s, X)
        /\ ssNestCount[s] # 0
        /\ ssNestCount[s] = 1 <=> LocksOf(s, X) \ {<<w, md, k>>} = {}
    BY <2>1, LastLock, Zenon
  <2>3. IsFiniteSet(LocksOf(s, X)) /\ ssNestCount[s] = Cardinality(LocksOf(s, X))
    BY DEF LInv, CountInv
  <2>4. /\ IsFiniteSet(LocksOf(s, X) \ {lost})
        /\ Cardinality(LocksOf(s, X) \ {lost}) = Cardinality(LocksOf(s, X)) - 1
    BY <2>2, <2>3, FS_RemoveElement
  <2> QED
    BY <2>2, <2>3, <2>4
<1> HIDE DEF q
<1>9. IF serve THEN LocksOf(s, X)' = LocksServed(q) ELSE LocksOf(s, X)' = LocksOf(s, X) \ {lost}
  <2>1. \A y : y \in LocksOf(s, X) \ {lost} <=>
               \E who \in Clients, mode \in Modes, n \in Nat :
                   /\ y = <<who, mode, n>> /\ IsLock(who, mode, n, s, X)
                   /\ ~(who = w /\ mode = md /\ n = k)
    BY <1>1, LocksLose
  <2>2. \A y : y \in LocksOf(s, X)' <=>
               \E who \in Clients, mode \in Modes, n \in Nat :
                   y = <<who, mode, n>> /\ IsLock(who, mode, n, s, X)'
    BY <1>1, LockElementsNext DEF LocksAreLocks
  <2> HIDE DEF lost
  <2>3. CASE ~serve
    <3>1. ServedBy(s) = {}
      BY <1>4, <2>3
    <3>2. \A y : y \in LocksOf(s, X)' <=> y \in LocksOf(s, X) \ {lost}
      BY <2>1, <2>2, <3>1
    <3> QED
      BY <2>3, <3>2
  <2>4. CASE serve
    <3>1. \A who \in Clients, mode \in Modes, n \in Nat :
              ~(IsLock(who, mode, n, s, X) /\ ~(who = w /\ mode = md /\ n = k))
      <4>1. \A y : y \notin LocksOf(s, X) \ {lost}
        BY <1>8, <2>4
      <4>2. ASSUME NEW who \in Clients, NEW mode \in Modes, NEW n \in Nat,
                   IsLock(who, mode, n, s, X), ~(who = w /\ mode = md /\ n = k)
            PROVE  <<who, mode, n>> \in LocksOf(s, X) \ {lost}
        BY <2>1, <4>2
      <4> QED
        BY <4>1, <4>2, Zenon
    <3>2. \A y : y \in LocksServed(q) <=>
              \E r \in Entries(q) : r.node \in ServedNodes(q) /\ y = <<r.node, r.mode, 0>>
      BY DEF LocksServed, LockFor
    <3>3. \A r \in Entries(q) : r.node \in Clients /\ r.mode \in Modes
      <4>1. \A r \in Entries(q) : r \in Request
        BY <1>1, QueueFacts
      <4> QED
        BY <4>1 DEF Request, Clients
    <3>4. ASSUME NEW y \in LocksOf(s, X)' PROVE y \in LocksServed(q)
      <4>1. PICK who \in Clients, mode \in Modes, n \in Nat :
                y = <<who, mode, n>> /\ IsLock(who, mode, n, s, X)'
        BY <2>2
      <4>2. who \in ServedNodes(q) /\ n = 0 /\ \E r \in Entries(q) : r.node = who /\ r.mode = mode
        BY <1>4, <2>4, <3>1, <4>1 DEF q
      <4> QED
        BY <3>2, <4>1, <4>2
    <3>5. ASSUME NEW y \in LocksServed(q) PROVE y \in LocksOf(s, X)'
      <4>1. PICK r \in Entries(q) : r.node \in ServedNodes(q) /\ y = <<r.node, r.mode, 0>>
        BY <3>2
      <4>2. IsLock(r.node, r.mode, 0, s, X)'
        BY <1>4, <2>4, <3>3, <4>1 DEF q
      <4> QED
        BY <2>2, <3>3, <4>1, <4>2
    <3>6. LocksOf(s, X)' = LocksServed(q)
      BY <3>4, <3>5
    <3> QED
      BY <2>4, <3>6
  <2> QED
    BY <2>3, <2>4
<1>10. CountInv(X)'
  <2>1. IsFiniteSet(LocksOf(s, X)') /\ ssNestCount'[s] = Cardinality(LocksOf(s, X)')
    <3>1. CASE serve
      <4>1. IsFiniteSet(LocksServed(q)) /\ Cardinality(LocksServed(q)) = NewLocks(q)
        BY <1>1, <1>5, <3>1, LocksServedFacts DEF q
      <4> QED
        BY <1>2, <1>9, <3>1, <4>1
    <3>2. CASE ~serve
      BY <1>2, <1>8, <1>9, <3>2
    <3> QED
      BY <3>1, <3>2
  <2>2. ASSUME NEW s2 \in Sems, s2 # s
        PROVE  IsFiniteSet(LocksOf(s2, X)') /\ ssNestCount'[s2] = Cardinality(LocksOf(s2, X)')
    <3>1. LocksOf(s2, X)' = LocksOf(s2, X)
      BY <1>1, <2>2, LocksSame
    <3> QED
      BY <1>2, <2>2, <3>1 DEF LInv, CountInv
  <2> QED
    BY <2>1, <2>2 DEF CountInv
<1>11. FreeInv'
  <2>1. ASSUME ssNestCount'[s] = 0 PROVE Empty(ssWaitQueue'[s]) /\ ssOwner'[s] = NULL
    <3>1. ~serve /\ ssNestCount[s] = 1
      <4>1. serve => NewLocks(q) # 0
        BY <1>1, <1>5, ServeFacts DEF q
      <4> QED
        BY <1>2, <1>6, <2>1, <4>1
    <3>2. Empty(q)
      <4>1. Size(q) \in Nat /\ (Empty(q) <=> Size(q) = 0)
        BY <1>1, QueueFacts DEF q
      <4>2. ssQueueCount[s] \in Int /\ ssQueueCount[s] + 1 = ssNestCount[s] + Size(q)
        BY DEF IInv, TypeOK, Balanced, q
      <4>3. AnyQueued(s) <=> ssQueueCount[s] - 1 >= 0 /\ ~Empty(q)
        BY DEF AnyQueued, Empty, q
      <4> QED
        BY <3>1, <4>1, <4>2, <4>3
    <3> QED
      BY <1>2, <1>3, <3>1, <3>2
  <2> QED
    BY <1>2, <2>1 DEF LInv, FreeInv
<1>12. \A r \in Entries(q) : Claims(r, s, X) /\ r.node \in Clients /\ r.mode \in Modes
  <2>1. \A r \in Entries(q) : r \in Request
    BY <1>1, QueueFacts DEF q
  <2> QED
    BY <1>1, <2>1 DEF QueueInv, Request, Clients, q
<1>13. ASSUME serve
       PROVE  LET head == q[1]
              IN  /\ head \in Entries(q)
                  /\ head.mode = "shared" => ssOwner'[s] = NULL
                  /\ head.mode # "shared" => ssOwner'[s] = TaskOf(head.node) /\ ssOwner'[s] # NULL
  <2>1. /\ q[1] \in Entries(q)
        /\ NextOwner(q, ssm) = IF q[1].mode = "shared" THEN NULL
                               ELSE IF q[1].node \in Tasks THEN q[1].node
                               ELSE bid[q[1].node].task
    BY <1>1, <1>5, <1>13, NextOwnerFacts DEF q
  <2> DEFINE head == q[1]
  <2>2. head \in Entries(q) /\ Claims(head, s, X) /\ head.node \in Clients
    BY <1>12, <2>1
  <2>3. ssOwner'[s] = IF head.mode = "shared" THEN NULL ELSE TaskOf(head.node)
    BY <1>2, <1>13, <2>1 DEF TaskOf
  <2> HIDE DEF head
  <2>4. TaskOf(head.node) # NULL
    <3>1. CASE head.node \in Tasks
      BY <3>1, ConstantsAssumption DEF TaskOf
    <3>2. CASE head.node \notin Tasks
      <4>1. head.node \in Msgs /\ bid[head.node] # NULL
        BY <1>1, <2>2, <3>2, AskersRun DEF Claims
      <4>2. bid[head.node].task \in Tasks
        BY <1>1, <4>1 DEF TypeOK, Bid
      <4> QED
        BY <3>2, <4>2, ConstantsAssumption DEF TaskOf
    <3> QED
      BY <3>1, <3>2
  <2> QED
    BY <2>2, <2>3, <2>4 DEF head
<1>14. OwnerInv(X)'
  <2>1. ASSUME NEW who \in Clients, NEW mode \in Modes, NEW n \in Nat,
               IsLock(who, mode, n, s, X)'
        PROVE  Allowed(who, mode, s)'
    <3>1. TaskOf(who)' = TaskOf(who)
      BY <2>1
    <3>2. CASE serve
      <4>1. PICK r \in Entries(q) : r.node = who /\ r.mode = mode /\ who \in ServedNodes(q)
        <5>1. <<who, mode, n>> \in LocksOf(s, X)'
          BY <1>1, <2>1, LockElementsNext DEF LocksAreLocks
        <5>2. PICK r \in Entries(q) : r.node \in ServedNodes(q)
                                     /\ <<who, mode, n>> = <<r.node, r.mode, 0>>
          BY <1>9, <3>2, <5>1 DEF LocksServed, LockFor
        <5> QED
          BY <5>2
      <4>2. IF q[1].mode = "shared" THEN r.mode = "shared" ELSE r = q[1]
        BY <1>1, <1>5, <3>2, <4>1, ServedModes DEF q
      <4>3. q[1].mode = "shared" => ssOwner'[s] = NULL
        BY <1>13, <3>2
      <4>4. q[1].mode # "shared" => ssOwner'[s] = TaskOf(q[1].node) /\ ssOwner'[s] # NULL
        BY <1>13, <3>2
      <4>5. CASE q[1].mode = "shared"
        BY <4>1, <4>2, <4>3, <4>5 DEF Allowed
      <4>6. CASE q[1].mode # "shared"
        BY <3>1, <4>1, <4>2, <4>4, <4>6 DEF Allowed
      <4> QED
        BY <4>5, <4>6
    <3>3. CASE ~serve
      <4>1. IsLock(who, mode, n, s, X) /\ <<who, mode, n>> \in LocksOf(s, X)'
        <5>1. ServedBy(s) = {}
          BY <1>4, <3>3
        <5> QED
          BY <1>1, <2>1, <5>1, LockElementsNext DEF LocksAreLocks
      <4>2. ssNestCount[s] # 1
        BY <1>8, <1>9, <3>3, <4>1
      <4>3. ssOwner'[s] = ssOwner[s]
        BY <1>2, <3>3, <4>2
      <4> QED
        BY <3>1, <4>1, <4>3 DEF Allowed, LInv, OwnerInv
    <3> QED
      BY <3>2, <3>3
  <2>2. ASSUME NEW s2 \in Sems, s2 # s,
               NEW who \in Clients, NEW mode \in Modes, NEW n \in Nat,
               IsLock(who, mode, n, s2, X)'
        PROVE  Allowed(who, mode, s2)'
    <3>1. IsLock(who, mode, n, s2, X) /\ TaskOf(who)' = TaskOf(who) /\ ssOwner'[s2] = ssOwner[s2]
      BY <1>2, <2>2
    <3> QED
      BY <3>1 DEF Allowed, LInv, OwnerInv
  <2> QED
    BY <2>1, <2>2 DEF OwnerInv
<1>15. SharedInv'
  <2>1. ASSUME ssNestCount'[s] > 0, ssOwner'[s] = NULL, NEW r \in Entries(ssWaitQueue'[s])
        PROVE  r.mode # "shared"
    <3>1. CASE serve
      <4>1. q[1].mode = "shared"
        BY <1>13, <2>1, <3>1
      <4>2. r \in Entries(Unserved(q))
        BY <1>3, <2>1, <3>1
      <4> QED
        BY <1>1, <1>5, <3>1, <4>1, <4>2, ServeFacts DEF q
    <3>2. CASE ~serve
      <4>1. ssNestCount[s] > 0 /\ ssNestCount[s] # 1 /\ ssOwner[s] = NULL
        BY <1>2, <1>6, <2>1, <3>2
      <4>2. r \in Entries(ssWaitQueue[s])
        BY <1>3, <2>1, <3>2 DEF q
      <4> QED
        BY <4>1, <4>2 DEF LInv, SharedInv
    <3> QED
      BY <3>1, <3>2
  <2> QED
    BY <1>2, <2>1 DEF LInv, SharedInv
<1> QED
  BY <1>10, <1>11, <1>14, <1>15 DEF LInv

-----------------------------------------------------------------------------
(* The steps                                                               *)

LEMMA ObtainNowLocks ==
    ASSUME NEW X, IInv(X), NEW t \in Tasks, NEW s \in Sems, NEW mode \in Modes,
           Acquire(s, OwnerFor(t, mode)),
           obtained' = [obtained EXCEPT ![t][s][mode] = @ + 1],
           UNCHANGED <<sigSingle, waitingFor, bid, msgVars>>
    PROVE  \E k \in Nat : k = obtained[t][s][mode] + 1 /\ GainsLock(t, mode, k, s, X)
<1> DEFINE k == obtained[t][s][mode] + 1
<1>1. /\ k \in Nat /\ k # 0 /\ t \in Clients /\ t \notin Msgs
      /\ \A u \in Tasks, s2 \in Sems, md \in Modes :
            /\ obtained[u][s2][md] \in Nat
            /\ obtained'[u][s2][md] = IF u = t /\ s2 = s /\ md = mode THEN k
                                      ELSE obtained[u][s2][md]
  <2>1. obtained \in [Tasks -> [Sems -> [Modes -> Nat]]]
    BY DEF IInv, TypeOK
  <2>2. t \in Clients /\ t \notin Msgs
    BY ConstantsAssumption DEF Clients
  <2>3. \A u \in Tasks, s2 \in Sems, md \in Modes : obtained[u][s2][md] \in Nat
    BY <2>1
  <2>4. \A u \in Tasks, s2 \in Sems, md \in Modes :
            obtained'[u][s2][md] = IF u = t /\ s2 = s /\ md = mode THEN k
                                   ELSE obtained[u][s2][md]
    BY <2>1
  <2> QED
    BY <2>2, <2>3, <2>4
<1>2. k = obtained[t][s][mode] + 1
  OBVIOUS
<1> HIDE DEF k
<1>3. ssWaitQueue' = ssWaitQueue
  BY DEF Acquire
<1>4. ~IsLock(t, mode, k, s, X)
  BY <1>1, <1>2 DEF IsLock
<1>5. ASSUME NEW s2 \in Sems, NEW who \in Clients, NEW md \in Modes, NEW n \in Nat
      PROVE  IsLock(who, md, n, s2, X)' <=>
                 IsLock(who, md, n, s2, X) \/ (s2 = s /\ who = t /\ md = mode /\ n = k)
  <2>1. who \in Tasks => (n >= 1 /\ n <= obtained'[who][s2][md] <=>
            \/ n >= 1 /\ n <= obtained[who][s2][md]
            \/ s2 = s /\ who = t /\ md = mode /\ n = k)
    BY <1>1, <1>2
  <2>2. InQueue(who, s2)' <=> InQueue(who, s2)
    BY <1>3 DEF InQueue
  <2>3. waitingFor' = waitingFor /\ bid' = bid /\ msgAt' = msgAt
    BY DEF msgVars
  <2>4. Queued(who)' <=> Queued(who)
    BY <2>3 DEF Queued
  <2> QED
    BY <1>1, <2>1, <2>2, <2>3, <2>4 DEF IsLock
<1>6. \A who \in Clients : TaskOf(who)' = TaskOf(who)
  BY DEF TaskOf
<1> QED
  BY <1>1, <1>2, <1>4, <1>5, <1>6 DEF GainsLock

LEMMA ObtainNowLInv ==
    ASSUME NEW X, IInv(X), IInv(X)', LInv(X), NEW t \in Tasks, NEW s \in Sems, NEW mode \in Modes,
           Available(t, s, mode), Acquire(s, OwnerFor(t, mode)),
           obtained' = [obtained EXCEPT ![t][s][mode] = @ + 1],
           UNCHANGED <<sigSingle, waitingFor, bid, msgVars>>
    PROVE  LInv(X)'
<1>1. t \in Clients /\ TaskOf(t)' = t
  BY DEF TaskOf, Clients
<1>2. PICK k \in Nat : GainsLock(t, mode, k, s, X)
  BY ObtainNowLocks
<1> QED
  BY <1>1, <1>2, GainLInv

LEMMA ProcureNowLocks ==
    ASSUME NEW X, IInv(X), NEW t \in Tasks, NEW m \in Msgs, NEW s \in Sems,
           NEW mode \in Modes, ProcureNow(t, m, s, mode)
    PROVE  GainsLock(m, mode, 0, s, X) /\ TaskOf(m)' = t
<1>1. /\ bid[m] = NULL /\ ~Queued(m) /\ Available(t, s, mode) /\ Acquire(s, OwnerFor(t, mode))
      /\ msgAt' = [msgAt EXCEPT ![m] = "port"]
      /\ bid' = [bid EXCEPT ![m] = [task |-> t, sem |-> s, mode |-> mode]]
      /\ UNCHANGED <<sigSingle, waitingFor, obtained>>
      /\ ssWaitQueue' = ssWaitQueue
  BY DEF ProcureNow, Queued, Available, Acquire
<1>2. /\ bid'[m] = [task |-> t, sem |-> s, mode |-> mode] /\ bid'[m] # NULL /\ ~Queued(m)'
      /\ m \in Clients /\ m \notin Tasks
      /\ \A n \in Msgs : n # m => bid'[n] = bid[n] /\ (Queued(n)' <=> Queued(n))
  <2>1. [task |-> t, sem |-> s, mode |-> mode] \in Bid
    BY DEF Bid
  <2> QED
    BY <1>1, <2>1, ConstantsAssumption DEF IInv, TypeOK, Queued, Clients
<1>3. \A md \in Modes, n \in Nat, s2 \in Sems : ~IsLock(m, md, n, s2, X)
  BY <1>1, <1>2 DEF IsLock
<1>4. ASSUME NEW s2 \in Sems, NEW who \in Clients, NEW md \in Modes, NEW n \in Nat
      PROVE  IsLock(who, md, n, s2, X)' <=>
                 IsLock(who, md, n, s2, X) \/ (s2 = s /\ who = m /\ md = mode /\ n = 0)
  <2>1. InQueue(who, s2)' <=> InQueue(who, s2)
    BY <1>1 DEF InQueue
  <2>2. CASE who = m
    BY <1>2, <1>3, <2>2 DEF IsLock
  <2>3. CASE who # m
    BY <1>1, <1>2, <2>1, <2>3 DEF IsLock
  <2> QED
    BY <2>2, <2>3
<1>5. \A who \in Clients : who # m => TaskOf(who)' = TaskOf(who)
  BY <1>2 DEF TaskOf, Clients
<1>6. TaskOf(m)' = t
  BY <1>2 DEF TaskOf
<1>7. \A s2 \in Sems : \A who \in Clients, md \in Modes, n \in Nat :
          IsLock(who, md, n, s2, X) => TaskOf(who)' = TaskOf(who)
  BY <1>3, <1>5
<1> QED
  BY <1>2, <1>3, <1>4, <1>6, <1>7 DEF GainsLock

LEMMA ProcureNowLInv ==
    ASSUME NEW X, IInv(X), IInv(X)', LInv(X), NEW t \in Tasks, NEW m \in Msgs, NEW s \in Sems,
           NEW mode \in Modes, ProcureNow(t, m, s, mode)
    PROVE  LInv(X)'
<1>1. m \in Clients /\ Available(t, s, mode) /\ Acquire(s, OwnerFor(t, mode))
  BY DEF ProcureNow, Available, Clients
<1>2. GainsLock(m, mode, 0, s, X) /\ TaskOf(m)' = t
  BY ProcureNowLocks
<1> QED
  BY <1>1, <1>2, GainLInv

(* A task that must wait queues behind somebody; a shared request never    *)
(* behind a semaphore that is held shared.                                 *)
LEMMA EnlistLInv ==
    ASSUME NEW X, IInv(X), IInv(X)', LInv(X), NEW s \in Sems, NEW x \in Request,
           Enlist(s, x), ~IsFree(s), x.mode = "shared" => ssOwner[s] # NULL,
           ~InQueue(x.node, s), KeepsLocks(X)
    PROVE  LInv(X)'
<1>1. /\ \A s2 \in Sems : s2 # s => ssWaitQueue'[s2] = ssWaitQueue[s2]
      /\ Entries(ssWaitQueue'[s]) = Entries(ssWaitQueue[s]) \cup {x}
  BY EnlistFacts DEF IInv
<1>2. ssNestCount[s] # 0
  BY FreeFacts
<1>3. ssNestCount' = ssNestCount /\ ssOwner' = ssOwner
  BY DEF Enlist
<1>4. \A s2 \in Sems : ssNestCount[s2] = 0 => Empty(ssWaitQueue'[s2])
  BY <1>1, <1>2 DEF LInv, FreeInv
<1>5. \A s2 \in Sems : \A r \in Entries(ssWaitQueue'[s2]) :
          r \in Entries(ssWaitQueue[s2]) \/ r.mode # "shared" \/ ssOwner[s2] # NULL
  BY <1>1
<1> QED
  BY <1>3, <1>4, <1>5, SameLInv

LEMMA ObtainSleepLocks ==
    ASSUME NEW X, IInv(X), NEW t \in Tasks, NEW s \in Sems, NEW mode \in Modes,
           ObtainSleep(t, s, mode), \A s2 : <<t, s2>> \notin X
    PROVE  KeepsLocks(X) /\ ~InQueue(t, s)
<1> DEFINE x == [node |-> t, mode |-> mode]
<1>1. /\ Running(t) /\ Enlist(s, x) /\ x \in Request /\ x.node = t /\ x.mode = mode
      /\ ~IsFree(s) /\ ssOwner[s] # OwnerFor(t, mode)
      /\ waitingFor' = [waitingFor EXCEPT ![t] = [sem |-> s, mode |-> mode]]
      /\ UNCHANGED <<obtained, bid, msgAt>>
  BY DEF ObtainSleep, Request, Available, msgVars
<1> HIDE DEF x
<1>2. \A s2 \in Sems : ~InQueue(t, s2)
  BY <1>1, WhoIsQueued DEF IInv
<1>3. /\ \A s2 \in Sems : s2 # s => ssWaitQueue'[s2] = ssWaitQueue[s2]
      /\ Entries(ssWaitQueue'[s]) = Entries(ssWaitQueue[s]) \cup {x}
  BY <1>1, <1>2, EnlistFacts DEF IInv
<1>4. /\ InQueue(t, s)' /\ waitingFor[t] = NULL
      /\ waitingFor'[t].sem = s /\ t \notin Msgs
      /\ \A u \in Tasks : u # t => waitingFor'[u] = waitingFor[u]
  BY <1>1, <1>3, ConstantsAssumption DEF IInv, TypeOK, InQueue, Running
<1>5. ASSUME NEW s2 \in Sems, NEW who \in Clients, NEW md \in Modes, NEW n \in Nat
      PROVE  IsLock(who, md, n, s2, X)' <=> IsLock(who, md, n, s2, X)
  <2>1. CASE who = t
    BY <1>1, <1>4, <2>1 DEF IsLock
  <2>2. CASE who # t
    <3>1. InQueue(who, s2)' <=> InQueue(who, s2)
      BY <1>1, <1>3, <2>2 DEF InQueue
    <3>2. Queued(who)' <=> Queued(who)
      BY <1>1 DEF Queued
    <3> QED
      BY <1>1, <1>4, <2>2, <3>1, <3>2 DEF IsLock
  <2> QED
    BY <2>1, <2>2
<1>6. \A who \in Clients : TaskOf(who)' = TaskOf(who)
  BY <1>1 DEF TaskOf
<1> QED
  BY <1>2, <1>5, <1>6 DEF KeepsLocks

LEMMA ObtainSleepLInv ==
    ASSUME NEW X, IInv(X), IInv(X)', LInv(X), NEW t \in Tasks, NEW s \in Sems, NEW mode \in Modes,
           ObtainSleep(t, s, mode), \A s2 : <<t, s2>> \notin X
    PROVE  LInv(X)'
<1> DEFINE x == [node |-> t, mode |-> mode]
<1>1. /\ Enlist(s, x) /\ x \in Request /\ x.node = t /\ x.mode = mode
      /\ ~IsFree(s) /\ ssOwner[s] # OwnerFor(t, mode)
  BY DEF ObtainSleep, Request, Available
<1> HIDE DEF x
<1>2. KeepsLocks(X) /\ ~InQueue(t, s)
  BY ObtainSleepLocks
<1>3. x.mode = "shared" => ssOwner[s] # NULL
  BY <1>1 DEF OwnerFor
<1> QED
  BY <1>1, <1>2, <1>3, EnlistLInv

LEMMA ProcureQueueLocks ==
    ASSUME NEW X, IInv(X), NEW t \in Tasks, NEW m \in Msgs, NEW s \in Sems,
           NEW mode \in Modes, ProcureQueue(t, m, s, mode)
    PROVE  KeepsLocks(X) /\ ~InQueue(m, s)
<1> DEFINE x == [node |-> m, mode |-> mode]
<1>1. /\ ~Queued(m) /\ bid[m] = NULL
      /\ Enlist(s, x) /\ x \in Request /\ x.node = m /\ x.mode = mode
      /\ ~IsFree(s) /\ ssOwner[s] # OwnerFor(t, mode)
      /\ msgAt' = [msgAt EXCEPT ![m] = "queue"]
      /\ bid' = [bid EXCEPT ![m] = [task |-> t, sem |-> s, mode |-> mode]]
      /\ UNCHANGED <<waitingFor, obtained>>
  BY DEF ProcureQueue, Queued, Request
<1> HIDE DEF x
<1>2. \A s2 \in Sems : ~InQueue(m, s2)
  BY <1>1, WhoIsQueued DEF IInv
<1>3. /\ \A s2 \in Sems : s2 # s => ssWaitQueue'[s2] = ssWaitQueue[s2]
      /\ Entries(ssWaitQueue'[s]) = Entries(ssWaitQueue[s]) \cup {x}
  BY <1>1, <1>2, EnlistFacts DEF IInv
<1>4. /\ Queued(m)' /\ m \notin Tasks
      /\ \A n \in Msgs : n # m => bid'[n] = bid[n] /\ (Queued(n)' <=> Queued(n))
  BY <1>1, ConstantsAssumption DEF IInv, TypeOK, Queued
<1>5. ASSUME NEW s2 \in Sems, NEW who \in Clients, NEW md \in Modes, NEW n \in Nat
      PROVE  /\ IsLock(who, md, n, s2, X)' <=> IsLock(who, md, n, s2, X)
             /\ IsLock(who, md, n, s2, X) => TaskOf(who)' = TaskOf(who)
  <2>1. CASE who = m
    BY <1>1, <1>4, <2>1 DEF IsLock
  <2>2. CASE who # m
    <3>1. InQueue(who, s2)' <=> InQueue(who, s2)
      BY <1>1, <1>3, <2>2 DEF InQueue
    <3>2. IsLock(who, md, n, s2, X)' <=> IsLock(who, md, n, s2, X)
      BY <1>1, <1>4, <2>2, <3>1 DEF IsLock
    <3> QED
      BY <1>4, <2>2, <3>2 DEF TaskOf, Clients
  <2> QED
    BY <2>1, <2>2
<1> QED
  BY <1>2, <1>5 DEF KeepsLocks

LEMMA ProcureQueueLInv ==
    ASSUME NEW X, IInv(X), IInv(X)', LInv(X), NEW t \in Tasks, NEW m \in Msgs, NEW s \in Sems,
           NEW mode \in Modes, ProcureQueue(t, m, s, mode)
    PROVE  LInv(X)'
<1> DEFINE x == [node |-> m, mode |-> mode]
<1>1. /\ Enlist(s, x) /\ x \in Request /\ x.node = m /\ x.mode = mode
      /\ ~IsFree(s) /\ ssOwner[s] # OwnerFor(t, mode)
  BY DEF ProcureQueue, Request
<1> HIDE DEF x
<1>2. KeepsLocks(X) /\ ~InQueue(m, s)
  BY ProcureQueueLocks
<1>3. x.mode = "shared" => ssOwner[s] # NULL
  BY <1>1 DEF OwnerFor
<1> QED
  BY <1>1, <1>2, <1>3, EnlistLInv

(* The locks that tasks about to return and messages have, when nodes are  *)
(* served.                                                                 *)
LEMMA ServedLocks ==
    ASSUME NEW X, TypeOK, QueueInv(X), NEW s \in Sems, NEW nodes, NEW ssm, ServesOnly(nodes, s, ssm),
           waitingFor' = waitingFor,
           NEW s2 \in Sems, NEW who \in Clients, NEW mode \in Modes,
           who \in Msgs => bid'[who] = bid[who]
    PROVE  IsLock(who, mode, 0, s2, X)' <=>
               \/ IsLock(who, mode, 0, s2, X)
               \/ /\ s2 = s /\ who \in nodes
                  /\ \E r \in Entries(ssWaitQueue[s]) : r.node = who /\ r.mode = mode
<1>1. InQueue(who, s2)' <=> InQueue(who, s2) /\ ~(s2 = s /\ who \in nodes)
  BY ServedInQueue
<1>2. \A m \in Msgs : Queued(m)' <=> Queued(m) /\ m \notin nodes
  BY DEF ServesOnly, Queued
<1>3. Tasks \cap Msgs = {}
  BY ConstantsAssumption
<1>4. ASSUME who \in nodes
      PROVE  /\ InQueue(who, s)
             /\ who \in Tasks => \/ waitingFor[who] # NULL /\ waitingFor[who].sem = s
                                 \/ waitingFor[who] = NULL /\ <<who, s>> \in X
             /\ who \in Msgs => bid[who] # NULL /\ bid[who].sem = s /\ Queued(who)
  <2>1. InQueue(who, s)
    BY <1>4 DEF ServesOnly
  <2>2. /\ who \in Tasks => \/ ~Running(who) /\ waitingFor[who].sem = s
                            \/ Running(who) /\ <<who, s>> \in X
        /\ who \in Msgs => Queued(who) /\ bid[who] # NULL /\ bid[who].sem = s
    BY <2>1, WhoIsQueued
  <2>3. Running(who) <=> waitingFor[who] = NULL
    BY DEF Running
  <2> QED
    BY <2>1, <2>2, <2>3
<1>5. ASSUME NEW r \in Entries(ssWaitQueue[s]), r.node = who
      PROVE  /\ who \in Tasks => IF waitingFor[who] # NULL THEN waitingFor[who].mode = r.mode
                                 ELSE r.mode = "exclusive"
             /\ who \in Msgs => bid[who].mode = r.mode
  <2>1. Claims(r, s, X)
    BY DEF QueueInv
  <2>2. <<who, s>> \in X => who \in Tasks /\ waitingFor[who] = NULL
    BY AskersRun DEF Running
  <2>3. waitingFor[who] = [sem |-> s, mode |-> r.mode] /\ who \in Tasks => waitingFor[who] # NULL
    <3>1. r.mode \in Modes
      <4>1. ssWaitQueue[s] \in Seq(Request)
        BY DEF TypeOK
      <4>2. r \in Request
        BY <4>1, QueueFacts
      <4> QED
        BY <4>2 DEF Request
    <3>2. [sem |-> s, mode |-> r.mode] \in Want
      BY <3>1 DEF Want
    <3> QED
      BY <3>2, ConstantsAssumption
  <2> QED
    BY <1>3, <1>5, <2>1, <2>2, <2>3 DEF Claims
<1>8. \A s3 : <<who, s3>> \in X => waitingFor[who] = NULL
  BY AskersRun DEF Running
<1>6. CASE who \in Tasks
  <2>1. IsLock(who, mode, 0, s2, X) <=>
            IF waitingFor[who] # NULL
            THEN waitingFor[who].sem = s2 /\ waitingFor[who].mode = mode /\ ~InQueue(who, s2)
            ELSE mode = "exclusive" /\ <<who, s2>> \in X /\ ~InQueue(who, s2)
    BY <1>3, <1>6, <1>8 DEF IsLock
  <2>2. IsLock(who, mode, 0, s2, X)' <=>
            IF waitingFor[who] # NULL
            THEN waitingFor[who].sem = s2 /\ waitingFor[who].mode = mode /\ ~InQueue(who, s2)'
            ELSE mode = "exclusive" /\ <<who, s2>> \in X /\ ~InQueue(who, s2)'
    BY <1>3, <1>6, <1>8 DEF IsLock
  <2>3. CASE s2 = s /\ who \in nodes
    <3>1. PICK r \in Entries(ssWaitQueue[s]) : r.node = who
      BY <1>4, <2>3 DEF InQueue
    <3>2. \A x \in Entries(ssWaitQueue[s]) : x.node = who =>
              IF waitingFor[who] # NULL THEN x.mode = waitingFor[who].mode
              ELSE x.mode = "exclusive"
      BY <1>5, <1>6
    <3>3. InQueue(who, s2) /\ ~InQueue(who, s2)'
      BY <1>1, <1>4, <2>3
    <3>4. IF waitingFor[who] # NULL THEN waitingFor[who].sem = s ELSE <<who, s>> \in X
      BY <1>4, <1>6, <2>3
    <3> QED
      BY <2>1, <2>2, <2>3, <3>1, <3>2, <3>3, <3>4
  <2>4. CASE ~(s2 = s /\ who \in nodes)
    BY <1>1, <2>1, <2>2, <2>4
  <2> QED
    BY <2>3, <2>4
<1>7. CASE who \in Msgs
  <2>1. IsLock(who, mode, 0, s2, X) <=>
            bid[who] # NULL /\ ~Queued(who) /\ bid[who].sem = s2 /\ bid[who].mode = mode
    BY <1>3, <1>7 DEF IsLock
  <2>2. IsLock(who, mode, 0, s2, X)' <=>
            bid[who] # NULL /\ ~Queued(who)' /\ bid[who].sem = s2 /\ bid[who].mode = mode
    BY <1>3, <1>7 DEF IsLock
  <2> QED
    BY <1>2, <1>4, <1>5, <1>7, <2>1, <2>2 DEF InQueue
<1> QED
  BY <1>6, <1>7 DEF Clients

LEMMA ReleaseLocks ==
    ASSUME NEW X, IInv(X), NEW caller \in Tasks, NEW t \in Tasks, NEW s \in Sems,
           NEW mode \in Modes, Release(caller, t, s, mode)
    PROVE  /\ obtained[t][s][mode] \in Nat
           /\ PassesLock(t, mode, obtained[t][s][mode], s, X)
           /\ ServesOnly(ServedBy(s), s, ssmSemaphore)
<1> DEFINE k == obtained[t][s][mode]
<1>1. /\ k > 0 /\ ReleaseSem(s, ssmSemaphore)
      /\ obtained' = [obtained EXCEPT ![t][s][mode] = @ - 1]
      /\ waitingFor' = waitingFor /\ bid' = bid
  BY DEF Release
<1>2. /\ k \in Nat /\ t \in Clients /\ Tasks \cap Msgs = {}
      /\ obtained \in [Tasks -> [Sems -> [Modes -> Nat]]]
      /\ ssmSemaphore \in [Msgs -> Tasks \cup Sems \cup {NULL}]
  BY ConstantsAssumption DEF IInv, TypeOK, Clients
<1>3. \A u \in Tasks, s2 \in Sems, md \in Modes :
          /\ obtained[u][s2][md] \in Nat
          /\ obtained'[u][s2][md] = IF u = t /\ s2 = s /\ md = mode THEN k - 1
                                    ELSE obtained[u][s2][md]
  BY <1>1, <1>2
<1>4. k = obtained[t][s][mode]
  OBVIOUS
<1> HIDE DEF k
<1>5. IsLock(t, mode, k, s, X)
  BY <1>1, <1>2, <1>4 DEF IsLock
<1>6. ServesOnly(ServedBy(s), s, ssmSemaphore)
  BY <1>1, <1>2, ReleaseFacts DEF IInv
<1>7. ASSUME NEW s2 \in Sems, NEW who \in Clients, NEW md \in Modes, NEW n \in Nat
      PROVE  IsLock(who, md, n, s2, X)' <=>
                 \/ IsLock(who, md, n, s2, X) /\ ~(s2 = s /\ who = t /\ md = mode /\ n = k)
                 \/ /\ s2 = s /\ who \in ServedBy(s) /\ n = 0
                    /\ \E r \in Entries(ssWaitQueue[s]) : r.node = who /\ r.mode = md
  <2>1. CASE n = 0
    BY <1>1, <1>2, <1>6, <2>1, ServedLocks DEF IInv
  <2>2. CASE n # 0
    <3>1. IsLock(who, md, n, s2, X) <=> who \in Tasks /\ n <= obtained[who][s2][md]
      BY <2>2 DEF IsLock
    <3>2. IsLock(who, md, n, s2, X)' <=> who \in Tasks /\ n <= obtained'[who][s2][md]
      BY <2>2 DEF IsLock
    <3>3. ASSUME who \in Tasks
          PROVE  n <= obtained'[who][s2][md] <=>
              n <= obtained[who][s2][md] /\ ~(s2 = s /\ who = t /\ md = mode /\ n = k)
      <4>1. CASE s2 = s /\ who = t /\ md = mode
        <5>1. obtained'[who][s2][md] = k - 1 /\ obtained[who][s2][md] = k
          BY <1>3, <1>4, <4>1
        <5>2. k \in Nat
          BY <1>2
        <5>3. n <= k - 1 <=> n <= k /\ ~(n = k)
          BY <5>2
        <5> QED
          BY <4>1, <5>1, <5>3, Zenon
      <4>2. CASE ~(s2 = s /\ who = t /\ md = mode)
        <5>1. obtained'[who][s2][md] = obtained[who][s2][md]
          BY <1>3, <3>3, <4>2
        <5> QED
          BY <4>2, <5>1
      <4> QED
        BY <4>1, <4>2
    <3> QED
      BY <2>2, <3>1, <3>2, <3>3
  <2> QED
    BY <2>1, <2>2
<1>8. SameTasks(X)
  <2>1. \A who : TaskOf(who)' = TaskOf(who)
    BY <1>1 DEF TaskOf
  <2> QED
    BY <2>1 DEF SameTasks
<1>9. PassesLock(t, mode, k, s, X)
  BY <1>2, <1>5, <1>7, <1>8 DEF PassesLock
<1> QED
  BY <1>2, <1>4, <1>6, <1>9

LEMMA ReleaseLInv ==
    ASSUME NEW X, IInv(X), IInv(X)', LInv(X), NEW caller \in Tasks, NEW t \in Tasks, NEW s \in Sems,
           NEW mode \in Modes, Release(caller, t, s, mode)
    PROVE  LInv(X)'
<1>1. t \in Clients /\ ReleaseSem(s, ssmSemaphore)
  BY DEF Release, Clients
<1>2. /\ obtained[t][s][mode] \in Nat /\ PassesLock(t, mode, obtained[t][s][mode], s, X)
      /\ ServesOnly(ServedBy(s), s, ssmSemaphore)
  BY ReleaseLocks
<1> QED
  BY <1>1, <1>2, ServeLInv

LEMMA VacateGrantedLocks ==
    ASSUME NEW X, IInv(X), NEW m \in Msgs, VacateGranted(m)
    PROVE  /\ bid[m].sem \in Sems /\ bid[m].mode \in Modes
           /\ PassesLock(m, bid[m].mode, 0, bid[m].sem, X)
           /\ ServesOnly(ServedBy(bid[m].sem), bid[m].sem, Forget(m))
           /\ \A n \in Msgs : Queued(n) => Forget(m)[n] = ssmSemaphore[n]
<1> DEFINE s == bid[m].sem
           mode == bid[m].mode
           ssm == Forget(m)
<1>1. /\ bid[m] # NULL /\ ~Queued(m) /\ ReleaseSem(s, ssm)
      /\ bid' = [bid EXCEPT ![m] = NULL]
      /\ waitingFor' = waitingFor /\ obtained' = obtained
  BY DEF VacateGranted
<1>2. /\ s \in Sems /\ mode \in Modes /\ ssm \in [Msgs -> Tasks \cup Sems \cup {NULL}]
      /\ \A n \in Msgs : Queued(n) => ssm[n] = ssmSemaphore[n]
      /\ bid'[m] = NULL /\ \A n \in Msgs : n # m => bid'[n] = bid[n]
      /\ m \in Clients /\ Tasks \cap Msgs = {}
  BY <1>1, ConstantsAssumption DEF IInv, TypeOK, Forget, Bid, Clients
<1>3. IsLock(m, mode, 0, s, X)
  BY <1>1 DEF IsLock
<1>4. \A md, n, s2 : IsLock(m, md, n, s2, X) => md = mode /\ n = 0 /\ s2 = s
  BY <1>2 DEF IsLock
<1> HIDE DEF s, mode, ssm
<1>5. ServesOnly(ServedBy(s), s, ssm)
  BY <1>1, <1>2, ReleaseFacts DEF IInv
<1>6. m \notin ServedBy(s)
  <2>1. m \in ServedBy(s) => InQueue(m, s)
    BY <1>5 DEF ServesOnly
  <2> QED
    BY <1>1, <1>2, <2>1, WhoIsQueued DEF IInv
<1>7. ASSUME NEW s2 \in Sems, NEW who \in Clients, NEW md \in Modes, NEW n \in Nat
      PROVE  IsLock(who, md, n, s2, X)' <=>
                 \/ IsLock(who, md, n, s2, X) /\ ~(s2 = s /\ who = m /\ md = mode /\ n = 0)
                 \/ /\ s2 = s /\ who \in ServedBy(s) /\ n = 0
                    /\ \E r \in Entries(ssWaitQueue[s]) : r.node = who /\ r.mode = md
  <2>1. CASE who = m
    <3>1. ~IsLock(m, md, n, s2, X)'
      BY <1>2 DEF IsLock
    <3> QED
      BY <1>4, <1>6, <2>1, <3>1
  <2>2. CASE who # m /\ n = 0
    BY <1>1, <1>2, <1>5, <2>2, ServedLocks DEF IInv
  <2>3. CASE who # m /\ n # 0
    <3>1. IsLock(who, md, n, s2, X)' <=> IsLock(who, md, n, s2, X)
      BY <1>1, <2>3 DEF IsLock
    <3> QED
      BY <2>3, <3>1
  <2> QED
    BY <2>1, <2>2, <2>3
<1>8. \A s2 \in Sems : \A who \in Clients, md \in Modes, n \in Nat :
          IsLock(who, md, n, s2, X)' => TaskOf(who)' = TaskOf(who)
  <2>1. \A s2, md, n : ~IsLock(m, md, n, s2, X)'
    BY <1>2 DEF IsLock
  <2>2. \A who \in Clients : who # m => TaskOf(who)' = TaskOf(who)
    BY <1>2 DEF TaskOf, Clients
  <2> QED
    BY <2>1, <2>2
<1>9. /\ s \in Sems /\ mode \in Modes /\ PassesLock(m, mode, 0, s, X)
      /\ ServesOnly(ServedBy(s), s, ssm)
      /\ \A n \in Msgs : Queued(n) => ssm[n] = ssmSemaphore[n]
  BY <1>2, <1>3, <1>5, <1>7, <1>8 DEF PassesLock, SameTasks
<1> QED
  BY <1>9 DEF s, mode, ssm

LEMMA VacateGrantedLInv ==
    ASSUME NEW X, IInv(X), IInv(X)', LInv(X), NEW m \in Msgs, VacateGranted(m)
    PROVE  LInv(X)'
<1>1. m \in Clients /\ ReleaseSem(bid[m].sem, Forget(m))
  BY DEF VacateGranted, Clients
<1>2. /\ bid[m].sem \in Sems /\ bid[m].mode \in Modes
      /\ PassesLock(m, bid[m].mode, 0, bid[m].sem, X)
      /\ ServesOnly(ServedBy(bid[m].sem), bid[m].sem, Forget(m))
      /\ \A n \in Msgs : Queued(n) => Forget(m)[n] = ssmSemaphore[n]
  BY VacateGrantedLocks
<1> QED
  BY <1>1, <1>2, ServeLInv

(* The steps that leave every lock with whoever has it.                    *)
LEMMA VacateQueuedLocks ==
    ASSUME NEW X, IInv(X), NEW m \in Msgs, VacateQueued(m)
    PROVE  LET s == bid[m].sem
           IN  /\ s \in Sems /\ InQueue(m, s) /\ KeepsLocks(X)
               /\ \A s2 \in Sems : s2 # s => ssWaitQueue'[s2] = ssWaitQueue[s2]
               /\ \A x \in Entries(ssWaitQueue'[s]) : x \in Entries(ssWaitQueue[s])
               /\ \A x \in Entries(ssWaitQueue[s]) :
                     x \in Entries(ssWaitQueue'[s]) <=> x.node # m
<1> DEFINE s == bid[m].sem
<1>1. /\ bid[m] # NULL /\ Queued(m)
      /\ msgAt' = [msgAt EXCEPT ![m] = "port"]
      /\ bid' = [bid EXCEPT ![m] = NULL]
      /\ UNCHANGED <<ssOwner, ssNestCount, waitingFor, obtained>>
      /\ \E i \in DOMAIN ssWaitQueue[s] : ssWaitQueue[s][i].node = m /\ Withdraw(s, i)
  BY DEF VacateQueued
<1>2. PICK i \in DOMAIN ssWaitQueue[s] : ssWaitQueue[s][i].node = m /\ Withdraw(s, i)
  BY <1>1
<1>3. s \in Sems /\ InQueue(m, s)
  BY <1>1 DEF IInv, TypeOK, Bid, QueueInv
<1> HIDE DEF s
<1> DEFINE q == ssWaitQueue[s]
           r == RemoveAt(q, i)
<1>4. ssWaitQueue \in [Sems -> Seq(Request)] /\ q \in Seq(Request) /\ NodesOnce(q)
  BY <1>3 DEF IInv, TypeOK, QueueInv
<1>5. \A x \in Entries(q) : x \in Entries(r) <=> x.node # m
  <2>1. i \in DOMAIN q /\ q[i].node = m
    BY <1>2
  <2> HIDE DEF q
  <2> QED
    BY <1>4, <2>1, RemoveAtFacts
<1>6. \A x \in Entries(r) : x \in Entries(q)
  <2>1. i \in DOMAIN q /\ q[i].node = m
    BY <1>2
  <2> HIDE DEF q
  <2> QED
    BY <1>4, <2>1, RemoveAtFacts
<1>7. ssWaitQueue' = [ssWaitQueue EXCEPT ![s] = r]
  BY <1>2 DEF Withdraw
<1> HIDE DEF r
<1>8. ssWaitQueue'[s] = r /\ \A s2 \in Sems : s2 # s => ssWaitQueue'[s2] = ssWaitQueue[s2]
  BY <1>3, <1>4, <1>7
<1>10. /\ Queued(m) /\ m \notin Tasks /\ bid'[m] = NULL
       /\ \A n \in Msgs : n # m => bid'[n] = bid[n] /\ (Queued(n)' <=> Queued(n))
  BY <1>1, ConstantsAssumption DEF IInv, TypeOK, Queued
<1>11. ASSUME NEW s2 \in Sems, NEW n, n # m
       PROVE  InQueue(n, s2)' <=> InQueue(n, s2)
  <2>1. CASE s2 = s
    BY <1>5, <1>6, <1>8, <1>11, <2>1 DEF InQueue
  <2>2. CASE s2 # s
    BY <1>8, <2>2 DEF InQueue
  <2> QED
    BY <2>1, <2>2
<1>12. ASSUME NEW s2 \in Sems, NEW who \in Clients, NEW md \in Modes, NEW n \in Nat
       PROVE  /\ IsLock(who, md, n, s2, X)' <=> IsLock(who, md, n, s2, X)
              /\ IsLock(who, md, n, s2, X) => TaskOf(who)' = TaskOf(who)
  <2>1. CASE who = m
    BY <1>10, <2>1 DEF IsLock
  <2>2. CASE who # m
    <3>1. InQueue(who, s2)' <=> InQueue(who, s2)
      BY <1>11, <2>2
    <3>2. IsLock(who, md, n, s2, X)' <=> IsLock(who, md, n, s2, X)
      BY <1>1, <1>10, <2>2, <3>1 DEF IsLock
    <3> QED
      BY <1>10, <2>2, <3>2 DEF TaskOf, Clients
  <2> QED
    BY <2>1, <2>2
<1> QED
  BY <1>3, <1>5, <1>6, <1>8, <1>12 DEF s, KeepsLocks

LEMMA VacateQueuedLInv ==
    ASSUME NEW X, IInv(X), IInv(X)', LInv(X), NEW m \in Msgs, VacateQueued(m)
    PROVE  LInv(X)'
<1> DEFINE s == bid[m].sem
<1>1. /\ s \in Sems /\ InQueue(m, s) /\ KeepsLocks(X)
      /\ \A s2 \in Sems : s2 # s => ssWaitQueue'[s2] = ssWaitQueue[s2]
      /\ \A x \in Entries(ssWaitQueue'[s]) : x \in Entries(ssWaitQueue[s])
  BY VacateQueuedLocks
<1>2. UNCHANGED <<ssOwner, ssNestCount>>
  BY DEF VacateQueued
<1> HIDE DEF s
<1>3. ssNestCount[s] # 0
  <2>1. ~Empty(ssWaitQueue[s])
    BY <1>1, EmptyQueueFacts DEF InQueue, Empty
  <2> QED
    BY <1>1, <2>1 DEF LInv, FreeInv
<1>4. \A s2 \in Sems : ssNestCount[s2] = 0 => Empty(ssWaitQueue'[s2])
  BY <1>1, <1>3 DEF LInv, FreeInv
<1> QED
  BY <1>1, <1>2, <1>4, SameLInv

LEMMA IdleLocks ==
    ASSUME NEW X, UNCHANGED <<semVars, clientVars>>,
           \A m \in Msgs : Queued(m)' <=> Queued(m)
    PROVE  KeepsLocks(X)
<1>1. /\ UNCHANGED <<ssOwner, ssNestCount, ssWaitQueue, waitingFor, obtained, bid>>
  BY DEF semVars, clientVars
<1>2. ASSUME NEW s \in Sems, NEW who \in Clients, NEW md \in Modes, NEW n \in Nat
      PROVE  /\ IsLock(who, md, n, s, X)' <=> IsLock(who, md, n, s, X)
             /\ TaskOf(who)' = TaskOf(who)
  <2>1. InQueue(who, s)' <=> InQueue(who, s)
    BY <1>1 DEF InQueue
  <2> QED
    BY <1>1, <2>1 DEF IsLock, TaskOf
<1> QED
  BY <1>2 DEF KeepsLocks

LEMMA IdleLInv ==
    ASSUME NEW X, IInv(X), IInv(X)', LInv(X), UNCHANGED <<semVars, clientVars>>,
           \A m \in Msgs : Queued(m)' <=> Queued(m)
    PROVE  LInv(X)'
<1>1. UNCHANGED <<ssOwner, ssNestCount, ssWaitQueue>> /\ KeepsLocks(X)
  BY IdleLocks DEF semVars
<1>2. \A s \in Sems : ssNestCount[s] = 0 => Empty(ssWaitQueue'[s])
  BY <1>1 DEF LInv, FreeInv
<1> QED
  BY <1>1, <1>2, SameLInv

(* A task that returns numbers the lock that it was handed.                *)
LEMMA ObtainAwakeLocks ==
    ASSUME NEW X, IInv(X), NEW t \in Tasks, ObtainAwake(t)
    PROVE  \E s \in Sems, mode \in Modes, k \in Nat :
               /\ waitingFor[t] = [sem |-> s, mode |-> mode]
               /\ k = obtained[t][s][mode] + 1 /\ RenamesLock(t, mode, 0, k, s, X)
<1>0. waitingFor[t] \in Want /\ t \in Clients /\ t \notin Msgs
  BY ConstantsAssumption DEF ObtainAwake, IInv, TypeOK, Running, Clients
<1> PICK s \in Sems, mode \in Modes : waitingFor[t] = [sem |-> s, mode |-> mode]
  BY <1>0 DEF Want
<1>1. /\ ~Running(t) /\ sigSingle[t]
      /\ obtained' = [obtained EXCEPT ![t][s][mode] = @ + 1]
      /\ waitingFor' = [waitingFor EXCEPT ![t] = NULL]
      /\ UNCHANGED <<semVars, bid, msgVars>>
  BY DEF ObtainAwake
<1>2. s \in Sems /\ mode \in Modes /\ t \in Clients /\ t \notin Msgs
  BY <1>0
<1>3. /\ ssNestCount' = ssNestCount /\ ssOwner' = ssOwner /\ ssWaitQueue' = ssWaitQueue
      /\ bid' = bid /\ msgAt' = msgAt
  BY <1>1 DEF semVars, msgVars
<1>4. ~InQueue(t, s)
  BY <1>1, <1>2 DEF IInv, WakeInv
<1>5. /\ waitingFor'[t] = NULL /\ \A u \in Tasks : u # t => waitingFor'[u] = waitingFor[u]
      /\ \A s2 : <<t, s2>> \notin X
  BY <1>1, AskersRun DEF IInv, TypeOK
<1>6. /\ waitingFor[t] # NULL
      /\ \A u \in Tasks, s2 \in Sems, md \in Modes : obtained[u][s2][md] \in Nat
  BY <1>1 DEF Running, IInv, TypeOK
<1>7. s = waitingFor[t].sem /\ mode = waitingFor[t].mode
  OBVIOUS
<1> PICK k \in Nat : k = obtained[t][s][mode] + 1
  BY <1>2, <1>6
<1>8. k \in Nat /\ k # 0 /\ k >= 1
  BY <1>2, <1>6
<1>9. \A u \in Tasks, s2 \in Sems, md \in Modes :
          obtained'[u][s2][md] = IF u = t /\ s2 = s /\ md = mode THEN k
                                 ELSE obtained[u][s2][md]
  <2>1. obtained \in [Tasks -> [Sems -> [Modes -> Nat]]]
    BY DEF IInv, TypeOK
  <2> QED
    BY <1>1, <1>2, <2>1
<1>10. k = obtained[t][s][mode] + 1
  OBVIOUS
<1>11. IsLock(t, mode, 0, s, X) /\ ~IsLock(t, mode, k, s, X)
  <2>1. IsLock(t, mode, 0, s, X)
    BY <1>2, <1>4, <1>6, <1>7 DEF IsLock
  <2>2. ~(k <= obtained[t][s][mode])
    BY <1>2, <1>6, <1>10
  <2> QED
    BY <1>2, <1>8, <2>1, <2>2 DEF IsLock
<1>12. ASSUME NEW s2 \in Sems, NEW who \in Clients, NEW md \in Modes, NEW n \in Nat
       PROVE  IsLock(who, md, n, s2, X)' <=>
                  \/ IsLock(who, md, n, s2, X) /\ ~(s2 = s /\ who = t /\ md = mode /\ n = 0)
                  \/ s2 = s /\ who = t /\ md = mode /\ n = k
  <2>1. InQueue(who, s2)' <=> InQueue(who, s2)
    BY <1>3 DEF InQueue
  <2>2. Queued(who)' <=> Queued(who)
    BY <1>3 DEF Queued
  <2>3. CASE who # t
    <3>1. who \in Tasks => obtained'[who][s2][md] = obtained[who][s2][md]
                           /\ waitingFor'[who] = waitingFor[who]
      BY <1>5, <1>9, <2>3
    <3> QED
      BY <1>3, <2>1, <2>2, <2>3, <3>1 DEF IsLock
  <2>4. CASE who = t /\ n = 0
    <3>1. ~IsLock(who, md, n, s2, X)'
      BY <1>2, <1>5, <2>4 DEF IsLock
    <3>2. IsLock(who, md, n, s2, X) => s2 = s /\ md = mode
      <4>1. <<t, s2>> \notin X /\ t \notin Msgs
        BY <1>2, <1>5
      <4> QED
        BY <1>7, <2>4, <4>1 DEF IsLock
    <3> QED
      BY <1>8, <2>4, <3>1, <3>2
  <2>5. CASE who = t /\ n # 0
    <3>1. IsLock(who, md, n, s2, X) <=> n <= obtained[t][s2][md]
      BY <1>2, <2>5 DEF IsLock
    <3>2. IsLock(who, md, n, s2, X)' <=> n <= obtained'[t][s2][md]
      BY <1>2, <2>5 DEF IsLock
    <3>3. n <= obtained'[t][s2][md] <=>
              n <= obtained[t][s2][md] \/ (s2 = s /\ md = mode /\ n = k)
      <4>1. CASE s2 = s /\ md = mode
        <5>1. obtained'[t][s2][md] = k
          BY <1>9, <4>1
        <5>2. n <= k <=> n <= obtained[t][s][mode] \/ n = k
          BY <1>2, <1>6, <1>10
        <5> QED
          BY <4>1, <5>1, <5>2, Zenon
      <4>2. CASE ~(s2 = s /\ md = mode)
        BY <1>9, <4>2
      <4> QED
        BY <4>1, <4>2
    <3> QED
      BY <2>5, <3>1, <3>2, <3>3
  <2> QED
    BY <2>3, <2>4, <2>5
<1> QED
  BY <1>2, <1>3, <1>8, <1>11, <1>12 DEF RenamesLock

LEMMA ObtainAwakeLInv ==
    ASSUME NEW X, IInv(X), IInv(X)', LInv(X), NEW t \in Tasks, ObtainAwake(t)
    PROVE  LInv(X)'
<1> PICK s \in Sems, mode \in Modes, k \in Nat : RenamesLock(t, mode, 0, k, s, X)
  BY ObtainAwakeLocks
<1>2. s \in Sems /\ mode \in Modes /\ t \in Clients
  BY DEF Clients
<1>3. /\ ssNestCount' = ssNestCount /\ ssOwner' = ssOwner /\ ssWaitQueue' = ssWaitQueue
      /\ bid' = bid
  BY DEF ObtainAwake, semVars
<1>8. k \in Nat
  OBVIOUS
<1>11. IsLock(t, mode, 0, s, X) /\ ~IsLock(t, mode, k, s, X)
  BY DEF RenamesLock
<1>12. \A s2 \in Sems : \A who \in Clients, md \in Modes, n \in Nat :
          IsLock(who, md, n, s2, X)' <=>
                  \/ IsLock(who, md, n, s2, X) /\ ~(s2 = s /\ who = t /\ md = mode /\ n = 0)
                  \/ s2 = s /\ who = t /\ md = mode /\ n = k
  BY DEF RenamesLock
<1>13. TypeOK /\ TypeOK'
  BY DEF IInv
<1>14. \A s2 \in Sems : s2 # s => LocksOf(s2, X)' = LocksOf(s2, X)
  BY <1>12, <1>13, LocksSame
<1>15. CountInv(X)'
  <2>1. \A s2 \in Sems : IsFiniteSet(LocksOf(s2, X)) /\ ssNestCount[s2] = Cardinality(LocksOf(s2, X))
    BY DEF LInv, CountInv
  <2>2. \A who \in Clients, md \in Modes, n \in Nat :
            IsLock(who, md, n, s, X)' <=>
                \/ IsLock(who, md, n, s, X) /\ ~(who = t /\ md = mode /\ n = 0)
                \/ who = t /\ md = mode /\ n = k
    BY <1>2, <1>12
  <2>3. /\ IsFiniteSet(LocksOf(s, X)')
        /\ Cardinality(LocksOf(s, X)') = Cardinality(LocksOf(s, X))
    BY <1>2, <1>8, <1>11, <1>13, <2>1, <2>2, LocksRename
  <2> QED
    BY <1>3, <1>14, <2>1, <2>3 DEF CountInv
<1>16. OwnerInv(X)'
  <2> SUFFICES ASSUME NEW s2 \in Sems, NEW who \in Clients, NEW md \in Modes, NEW n \in Nat,
                      IsLock(who, md, n, s2, X)'
               PROVE  Allowed(who, md, s2)'
    BY DEF OwnerInv
  <2>1. CASE IsLock(who, md, n, s2, X)
    BY <1>3, <2>1 DEF LInv, OwnerInv, Allowed, TaskOf
  <2>2. CASE s2 = s /\ who = t /\ md = mode /\ n = k
    <3>1. Allowed(t, mode, s)
      BY <1>2, <1>11 DEF LInv, OwnerInv
    <3> QED
      BY <1>3, <2>2, <3>1 DEF Allowed, TaskOf
  <2> QED
    BY <1>12, <2>1, <2>2
<1>17. FreeInv' /\ SharedInv'
  BY <1>3 DEF LInv, FreeInv, SharedInv
<1> QED
  BY <1>15, <1>16, <1>17 DEF LInv

-----------------------------------------------------------------------------
LEMMA NextLInv == IInv({}) /\ IInv({})' /\ LInv({}) /\ [Next]_vars => LInv({})'
<1> SUFFICES ASSUME IInv({}), IInv({})', LInv({}), [Next]_vars PROVE LInv({})'
  OBVIOUS
<1>1. ASSUME NEW t \in Tasks, NEW s \in Sems, NEW mode \in Modes,
             ObtainNow(t, s, mode) \/ AttemptSucceeds(t, s, mode)
      PROVE  LInv({})'
  BY <1>1, ObtainNowLInv DEF ObtainNow, AttemptSucceeds
<1>2. ASSUME NEW t \in Tasks, NEW s \in Sems, NEW mode \in Modes, ObtainSleep(t, s, mode)
      PROVE  LInv({})'
  BY <1>2, ObtainSleepLInv
<1>3. CASE UNCHANGED vars
  BY <1>3, IdleLInv DEF vars, msgVars, Queued
<1>4. CASE ObtainStep
  BY <1>1, <1>2, <1>3, <1>4 DEF ObtainStep, AttemptFails
<1>5. CASE ReleaseStep
  BY <1>5, ReleaseLInv DEF ReleaseStep
<1>6. CASE ProcureStep
  BY <1>6, ProcureNowLInv, ProcureQueueLInv DEF ProcureStep
<1>7. CASE MessageStep
  <2>1. ASSUME NEW m \in Msgs, CollectReply(m) PROVE LInv({})'
    <3>1. \A n \in Msgs : Queued(n)' <=> Queued(n)
      BY <2>1 DEF CollectReply, IInv, TypeOK, Queued
    <3> QED
      BY <2>1, <3>1, IdleLInv DEF CollectReply
  <2> QED
    BY <1>7, <2>1, VacateQueuedLInv, VacateGrantedLInv DEF MessageStep
<1>8. CASE SignalStep
  <2>1. ASSUME NEW t \in Tasks, StraySingle(t) PROVE LInv({})'
    BY <2>1, IdleLInv DEF StraySingle, msgVars, Queued
  <2> QED
    BY <1>8, <2>1, ObtainAwakeLInv DEF SignalStep
<1> QED
  BY <1>3, <1>4, <1>5, <1>6, <1>7, <1>8 DEF Next

THEOREM SpecLInv == Spec => []LInv({})
<1>1. Init => LInv({})
  BY InitLInv
<1>2. IInv({}) /\ IInv({})' /\ LInv({}) /\ [Next]_vars => LInv({})'
  BY NextLInv
<1> QED
  BY <1>1, <1>2, SpecIInv, PTL DEF Spec

(* The owner field allows one exclusive lock, or shared ones.               *)
LEMMA LockedAlone ==
    ASSUME NEW X, IInv(X), LInv(X), NEW s \in Sems,
           NEW lock \in LocksOf(s, X), NEW other \in LocksOf(s, X), lock[2] = "exclusive"
    PROVE  HolderOf(other) = HolderOf(lock)
<1>1. LocksAreLocks(X)
  BY LockElements DEF IInv
<1>2. ASSUME NEW y \in LocksOf(s, X)
      PROVE  IF ssOwner[s] = NULL THEN y[2] = "shared" ELSE HolderOf(y) = ssOwner[s]
  <2>1. PICK who \in Clients, mode \in Modes, n \in Nat :
            y = <<who, mode, n>> /\ IsLock(who, mode, n, s, X)
    BY <1>1 DEF LocksAreLocks
  <2>2. Allowed(who, mode, s)
    BY <2>1 DEF LInv, OwnerInv
  <2> QED
    BY <2>1, <2>2 DEF Allowed, TaskOf, HolderOf
<1> QED
  BY <1>2

LEMMA LocksExclude == IInv({}) /\ LInv({}) => MutualExclusion
<1> SUFFICES ASSUME IInv({}), LInv({}), NEW s \in Sems, NEW lock \in Locks(s), NEW other \in Locks(s),
                    lock[2] = "exclusive"
             PROVE  HolderOf(other) = HolderOf(lock)
  BY DEF MutualExclusion
<1> QED
  BY LocksOfNone, LockedAlone

(* Whoever has an exclusive lock is alone with it, whatever mixture of     *)
(* ObtainSemaphore, AttemptSemaphore, Procure, ReleaseSemaphore and Vacate *)
(* led there.                                                              *)
THEOREM SpecMutualExclusion == Spec => []MutualExclusion
  BY LocksExclude, SpecIInv, SpecLInv, PTL

(* ss_NestCount is the number of locks given and not yet released.         *)
THEOREM SpecNestCountIsLocks == Spec => []NestCountIsLocks
<1>1. LInv({}) => NestCountIsLocks
  BY LocksOfNone DEF LInv, CountInv, NestCountIsLocks
<1> QED
  BY <1>1, SpecLInv, PTL

(* A semaphore that nobody holds has nobody queued and no owner.           *)
THEOREM SpecNoForgottenWaiter == Spec => []NoForgottenWaiter
<1>1. LInv({}) => NoForgottenWaiter
  BY DEF LInv, FreeInv, NoForgottenWaiter, Empty
<1> QED
  BY <1>1, SpecLInv, PTL

(* While readers hold a semaphore no reader waits for it.                  *)
THEOREM SpecSharedNeverQueues == Spec => []SharedNeverQueuesBehindShared
<1>1. IInv({}) /\ LInv({}) => SharedNeverQueuesBehindShared
  <2> SUFFICES ASSUME IInv({}), LInv({}), NEW s \in Sems, ssNestCount[s] > 0, ssOwner[s] = NULL
               PROVE  SharedAt(ssWaitQueue[s]) = {}
    BY DEF SharedNeverQueuesBehindShared
  <2> DEFINE q == ssWaitQueue[s]
  <2>1. q \in Seq(Request) /\ \A r \in Entries(q) : r.mode # "shared"
    BY DEF IInv, TypeOK, LInv, SharedInv
  <2>2. SharedAt(q) = {}
    <3> HIDE DEF q
    <3> QED
      BY <2>1, LenProperties DEF SharedAt, Entries
  <2> QED
    BY <2>2
<1> QED
  BY <1>1, SpecIInv, SpecLInv, PTL
(* Every message a release replies has a bid on the semaphore it releases. *)
LEMMA RepliedFacts ==
    ASSUME IInv({}), NEW s \in Sems, NEW ssm \in [Msgs -> Tasks \cup Sems \cup {NULL}],
           \A m \in Msgs : Queued(m) => ssm[m] = ssmSemaphore[m],
           ReleaseSem(s, ssm), NEW m \in Msgs
    PROVE  \/ /\ Queued(m) /\ bid[m] # NULL /\ bid[m].sem = s
              /\ msgAt'[m] = "port" /\ ssmSemaphore'[m] = s
           \/ msgAt'[m] = msgAt[m] /\ ssmSemaphore'[m] = ssm[m]
<1>1. ServesOnly(ServedBy(s), s, ssm)
  BY ReleaseFacts DEF IInv
<1>2. CASE m \in ServedBy(s)
  <2>1. PICK r \in Entries(ssWaitQueue[s]) : r.node = m
    BY <1>1, <1>2 DEF ServesOnly, InQueue
  <2>2. Claims(r, s, {}) /\ m \notin Tasks
    BY <2>1, ConstantsAssumption DEF IInv, QueueInv
  <2> QED
    BY <1>1, <1>2, <2>1, <2>2 DEF ServesOnly, Claims
<1>3. CASE m \notin ServedBy(s)
  BY <1>1, <1>3 DEF ServesOnly
<1> QED
  BY <1>2, <1>3

LEMMA NextReply == IInv({}) /\ ReplyTellsOutcome /\ [Next]_vars => ReplyTellsOutcome'
<1> SUFFICES ASSUME IInv({}), ReplyTellsOutcome, [Next]_vars, NEW m \in Msgs, msgAt'[m] # "queue"
             PROVE  ssmSemaphore'[m] = IF bid'[m] # NULL THEN bid'[m].sem ELSE NULL
  BY DEF ReplyTellsOutcome
<1>1. /\ ssmSemaphore \in [Msgs -> Tasks \cup Sems \cup {NULL}]
      /\ msgAt \in [Msgs -> {"program", "queue", "port"}]
      /\ bid \in [Msgs -> Bid \cup {NULL}]
  BY DEF IInv, TypeOK
<1>2. msgAt[m] # "queue" => ssmSemaphore[m] = IF bid[m] # NULL THEN bid[m].sem ELSE NULL
  BY DEF ReplyTellsOutcome
<1>3. CASE ObtainStep \/ SignalStep \/ UNCHANGED vars
  <2>1. UNCHANGED <<ssmSemaphore, msgAt, bid>>
    <3>1. CASE UNCHANGED vars
      BY <3>1 DEF vars, clientVars, msgVars
    <3>2. CASE SignalStep
      BY <3>2 DEF SignalStep, ObtainAwake, StraySingle, clientVars, msgVars
    <3>3. CASE ObtainStep
      <4>1. PICK t \in Tasks, s \in Sems, mode \in Modes :
              ObtainNow(t, s, mode) \/ ObtainSleep(t, s, mode) \/ AttemptSucceeds(t, s, mode)
              \/ AttemptFails(t, s, mode)
        BY <3>3 DEF ObtainStep
      <4> QED
        BY <4>1 DEF ObtainNow, ObtainSleep, AttemptSucceeds, AttemptFails, vars, clientVars, msgVars
    <3> QED
      BY <1>3, <3>1, <3>2, <3>3
  <2> QED
    BY <1>2, <2>1
<1>4. CASE ReleaseStep
  <2>1. PICK s \in Sems : ReleaseSem(s, ssmSemaphore) /\ UNCHANGED bid
    BY <1>4 DEF ReleaseStep, Release
  <2>2. \/ /\ Queued(m) /\ bid[m] # NULL /\ bid[m].sem = s
           /\ msgAt'[m] = "port" /\ ssmSemaphore'[m] = s
        \/ msgAt'[m] = msgAt[m] /\ ssmSemaphore'[m] = ssmSemaphore[m]
    BY <1>1, <2>1, RepliedFacts
  <2> QED
    BY <1>2, <2>1, <2>2
<1>5. CASE ProcureStep
  <2>1. PICK t \in Tasks, p \in Msgs, s \in Sems, mode \in Modes :
          ProcureNow(t, p, s, mode) \/ ProcureQueue(t, p, s, mode)
    BY <1>5 DEF ProcureStep
  <2>2. [task |-> t, sem |-> s, mode |-> mode] # NULL
    BY ConstantsAssumption DEF Bid
  <2> QED
    BY <1>1, <1>2, <2>1, <2>2 DEF ProcureNow, ProcureQueue
<1>6. CASE \E p \in Msgs : CollectReply(p)
  BY <1>1, <1>2, <1>6 DEF CollectReply, clientVars
<1>7. CASE \E p \in Msgs : VacateQueued(p)
  <2>1. PICK p \in Msgs : VacateQueued(p)
    BY <1>7
  <2>2. /\ ssmSemaphore' = [ssmSemaphore EXCEPT ![p] = NULL]
        /\ msgAt' = [msgAt EXCEPT ![p] = "port"] /\ bid' = [bid EXCEPT ![p] = NULL]
    BY <2>1 DEF VacateQueued, Forget
  <2> QED
    BY <1>1, <1>2, <2>2
<1>8. CASE \E p \in Msgs : VacateGranted(p)
  <2>1. PICK p \in Msgs : VacateGranted(p)
    BY <1>8
  <2> DEFINE s == bid[p].sem
             ssm == [ssmSemaphore EXCEPT ![p] = NULL]
  <2>2. /\ bid[p] # NULL /\ ~Queued(p) /\ ReleaseSem(s, ssm)
        /\ bid' = [bid EXCEPT ![p] = NULL]
    BY <2>1 DEF VacateGranted, Forget
  <2>3. s \in Sems /\ ssm \in [Msgs -> Tasks \cup Sems \cup {NULL}]
        /\ \A q \in Msgs : ssm[q] = IF q = p THEN NULL ELSE ssmSemaphore[q]
    BY <1>1, <2>2 DEF Bid
  <2> HIDE DEF s, ssm
  <2>4. \/ /\ Queued(m) /\ bid[m] # NULL /\ bid[m].sem = s
           /\ msgAt'[m] = "port" /\ ssmSemaphore'[m] = s
        \/ msgAt'[m] = msgAt[m] /\ ssmSemaphore'[m] = ssm[m]
    <3>1. \A q \in Msgs : Queued(q) => ssm[q] = ssmSemaphore[q]
      BY <2>2, <2>3
    <3> QED
      BY <2>2, <2>3, <3>1, RepliedFacts
  <2>5. CASE m = p
    BY <1>1, <2>2, <2>3, <2>4, <2>5
  <2>6. CASE m # p
    BY <1>1, <1>2, <2>2, <2>3, <2>4, <2>6
  <2> QED
    BY <2>5, <2>6
<1> QED
  BY <1>3, <1>4, <1>5, <1>6, <1>7, <1>8 DEF Next, MessageStep

(* What ssm_Semaphore says when the message is back is what happened to    *)
(* the bid, also when Vacate overtook the reply.                           *)
THEOREM SpecReplyTellsOutcome == Spec => []ReplyTellsOutcome
<1>1. Init => ReplyTellsOutcome
  BY DEF Init, ReplyTellsOutcome
<1>2. IInv({}) /\ ReplyTellsOutcome /\ [Next]_vars => ReplyTellsOutcome'
  BY NextReply
<1> QED
  BY <1>1, <1>2, SpecIInv, PTL DEF Spec

-----------------------------------------------------------------------------
(* SignalSemaphore implements ReadersWriterLock: each call is one step of  *)
(* the abstract lock, or changes nothing of it.  A lock becomes the token  *)
(* of SemaphoreRefinement that stands for it.                              *)

(* No task holds a semaphore more often than MaxNest, so that every lock   *)
(* has a token.                                                            *)
NestInv ==
    \A t \in Tasks, s \in Sems :
        /\ Holds(t, s) <= MaxNest
        /\ ~Running(t) /\ waitingFor[t].sem = s => Holds(t, s) < MaxNest

LEMMA InitNest == Init => NestInv
  BY ConstantsAssumption DEF Init, NestInv, Holds, Modes, Running

LEMMA HoldsFacts ==
    ASSUME TypeOK, NEW t \in Tasks, NEW s \in Sems
    PROVE  /\ Holds(t, s) \in Nat
           /\ obtained[t][s]["exclusive"] \in Nat /\ obtained[t][s]["shared"] \in Nat
  BY DEF TypeOK, Holds, Modes

(* A call returns with one more lock.                                      *)
LEMMA OneMoreNest ==
    ASSUME TypeOK, NestInv, NEW t \in Tasks, NEW s \in Sems, NEW mode \in Modes,
           Holds(t, s) < MaxNest, Running(t)',
           \A u \in Tasks : u # t => waitingFor'[u] = waitingFor[u],
           obtained' = [obtained EXCEPT ![t][s][mode] = @ + 1]
    PROVE  NestInv'
<1> SUFFICES ASSUME NEW u \in Tasks, NEW s2 \in Sems
             PROVE  /\ Holds(u, s2)' <= MaxNest
                    /\ ~Running(u)' /\ waitingFor'[u].sem = s2 => Holds(u, s2)' < MaxNest
  BY DEF NestInv
<1>1. obtained \in [Tasks -> [Sems -> [Modes -> Nat]]] /\ MaxNest \in Nat
  BY ConstantsAssumption DEF TypeOK
<1>2. Holds(u, s2) \in Nat /\ Holds(t, s) \in Nat
  BY HoldsFacts
<1>3. CASE u = t /\ s2 = s
  <2>1. Holds(t, s)' = Holds(t, s) + 1
    <3>1. CASE mode = "exclusive"
      BY <1>1, <3>1, HoldsFacts DEF Holds, Modes
    <3>2. CASE mode = "shared"
      BY <1>1, <3>2, HoldsFacts DEF Holds, Modes
    <3> QED
      BY <3>1, <3>2 DEF Modes
  <2> QED
    BY <1>1, <1>2, <1>3, <2>1
<1>4. CASE ~(u = t /\ s2 = s)
  <2>1. Holds(u, s2)' = Holds(u, s2)
    BY <1>1, <1>4 DEF Holds, Modes
  <2>2. ~Running(u)' => ~Running(u) /\ waitingFor'[u] = waitingFor[u]
    BY DEF Running
  <2> QED
    BY <2>1, <2>2 DEF NestInv
<1> QED
  BY <1>3, <1>4

(* The locks that programs know of stay or become fewer.                   *)
LEMMA NoMoreNest ==
    ASSUME TypeOK, TypeOK', NestInv,
           \A u \in Tasks, s \in Sems : Holds(u, s)' <= Holds(u, s),
           \A u \in Tasks : waitingFor'[u] = waitingFor[u]
                            \/ Holds(u, waitingFor'[u].sem) < MaxNest
    PROVE  NestInv'
<1> SUFFICES ASSUME NEW u \in Tasks, NEW s \in Sems
             PROVE  /\ Holds(u, s)' <= MaxNest
                    /\ ~Running(u)' /\ waitingFor'[u].sem = s => Holds(u, s)' < MaxNest
  BY DEF NestInv
<1>1. MaxNest \in Nat /\ Holds(u, s) \in Nat /\ Holds(u, s) <= MaxNest
  BY ConstantsAssumption, HoldsFacts DEF NestInv
<1>2. Holds(u, s)' \in Nat
  <2>1. TypeOK' => Holds(u, s)' \in Nat
    BY DEF TypeOK, Holds, Modes
  <2> QED
    BY <2>1
<1>3. ~Running(u)' /\ waitingFor'[u].sem = s => Holds(u, s) < MaxNest
  BY DEF NestInv, Running
<1> QED
  BY <1>1, <1>2, <1>3

LEMMA NextNest == IInv({}) /\ IInv({})' /\ NestInv /\ [Next]_vars => NestInv'
<1> SUFFICES ASSUME IInv({}), IInv({})', NestInv, [Next]_vars PROVE NestInv'
  OBVIOUS
<1>1. TypeOK /\ TypeOK' /\ obtained \in [Tasks -> [Sems -> [Modes -> Nat]]]
      /\ waitingFor \in [Tasks -> Want \cup {NULL}]
  BY DEF IInv, TypeOK
<1>2. \A u \in Tasks, s \in Sems : Holds(u, s) \in Nat
  BY <1>1, HoldsFacts
<1>3. CASE UNCHANGED <<waitingFor, obtained>>
  <2>1. \A u \in Tasks, s \in Sems : Holds(u, s)' <= Holds(u, s)
    BY <1>2, <1>3 DEF Holds
  <2> QED
    BY <1>1, <1>3, <2>1, NoMoreNest
<1>4. ASSUME NEW t \in Tasks, NEW s \in Sems, NEW mode \in Modes,
             ObtainNow(t, s, mode) \/ AttemptSucceeds(t, s, mode)
      PROVE  NestInv'
  <2>1. /\ Holds(t, s) < MaxNest /\ Running(t)' /\ waitingFor' = waitingFor
        /\ obtained' = [obtained EXCEPT ![t][s][mode] = @ + 1]
    BY <1>4 DEF ObtainNow, AttemptSucceeds, Running
  <2> QED
    BY <1>1, <2>1, OneMoreNest
<1>5. ASSUME NEW t \in Tasks, NEW s \in Sems, NEW mode \in Modes, ObtainSleep(t, s, mode)
      PROVE  NestInv'
  <2>1. /\ Holds(t, s) < MaxNest /\ obtained' = obtained
        /\ waitingFor' = [waitingFor EXCEPT ![t] = [sem |-> s, mode |-> mode]]
    BY <1>5 DEF ObtainSleep
  <2>2. \A u \in Tasks, s2 \in Sems : Holds(u, s2)' <= Holds(u, s2)
    BY <1>2, <2>1 DEF Holds
  <2>3. \A u \in Tasks : waitingFor'[u] = waitingFor[u] \/ Holds(u, waitingFor'[u].sem) < MaxNest
    BY <1>1, <2>1
  <2> QED
    BY <1>1, <2>2, <2>3, NoMoreNest
<1>6. ASSUME NEW t \in Tasks, ObtainAwake(t) PROVE NestInv'
  <2>1. PICK s \in Sems, mode \in Modes : waitingFor[t] = [sem |-> s, mode |-> mode]
    BY <1>1, <1>6 DEF ObtainAwake, Running, Want
  <2>2. /\ waitingFor' = [waitingFor EXCEPT ![t] = NULL] /\ ~Running(t)
        /\ obtained' = [obtained EXCEPT ![t][s][mode] = @ + 1]
    BY <1>6, <2>1 DEF ObtainAwake
  <2>3. Holds(t, s) < MaxNest
    BY <2>1, <2>2 DEF NestInv
  <2>4. Running(t)' /\ \A u \in Tasks : u # t => waitingFor'[u] = waitingFor[u]
    BY <1>1, <2>2 DEF Running
  <2> QED
    BY <1>1, <2>2, <2>3, <2>4, OneMoreNest
<1>7. ASSUME NEW caller \in Tasks, NEW t \in Tasks, NEW s \in Sems, NEW mode \in Modes,
             Release(caller, t, s, mode)
      PROVE  NestInv'
  <2>1. /\ obtained[t][s][mode] > 0 /\ waitingFor' = waitingFor
        /\ obtained' = [obtained EXCEPT ![t][s][mode] = @ - 1]
    BY <1>7 DEF Release
  <2>2. ASSUME NEW u \in Tasks, NEW s2 \in Sems, NEW md \in Modes
        PROVE  obtained'[u][s2][md] \in Int /\ obtained'[u][s2][md] <= obtained[u][s2][md]
    BY <1>1, <2>1
  <2>3. \A u \in Tasks, s2 \in Sems : Holds(u, s2)' <= Holds(u, s2)
    BY <1>1, <2>2, HoldsFacts DEF Holds, Modes
  <2> QED
    BY <1>1, <2>1, <2>3, NoMoreNest
<1>8. CASE ObtainStep
  BY <1>3, <1>4, <1>5, <1>8 DEF ObtainStep, AttemptFails, vars, clientVars
<1>9. CASE SignalStep
  BY <1>3, <1>6, <1>9 DEF SignalStep, StraySingle, clientVars
<1>10. CASE ProcureStep
  BY <1>3, <1>10 DEF ProcureStep, ProcureNow, ProcureQueue
<1>11. CASE MessageStep
  BY <1>3, <1>11 DEF MessageStep, CollectReply, VacateQueued, VacateGranted, clientVars
<1>12. CASE UNCHANGED vars
  BY <1>3, <1>12 DEF vars, clientVars
<1> QED
  BY <1>7, <1>8, <1>9, <1>10, <1>11, <1>12 DEF Next, ReleaseStep
-----------------------------------------------------------------------------
(* Locks and tokens                                                        *)

LEMMA TokenNames ==
    ASSUME NEW w1, NEW m1, NEW n1, NEW w2, NEW m2, NEW n2,
           TokenOf(w1, m1, n1) = TokenOf(w2, m2, n2)
    PROVE  w1 = w2 /\ m1 = m2 /\ n1 = n2
<1>1. TokenOf(w1, m1, n1).id = <<w1, n1>> /\ TokenOf(w2, m2, n2).id = <<w2, n2>>
      /\ TokenOf(w1, m1, n1).mode = m1 /\ TokenOf(w2, m2, n2).mode = m2
  BY DEF TokenOf
<1> QED
  BY <1>1

HeldAreLocks ==
    \A s \in Sems : \A x : x \in heldTokens[s] <=>
        \E who \in Clients, mode \in Modes, n \in Nat :
            IsLock(who, mode, n, s, {}) /\ x = TokenOf(who, mode, n)

AskedAreQueued ==
    \A s \in Sems : \A x : x \in askedTokens[s] <=>
        \E r \in Entries(ssWaitQueue[s]) : x = TokenOf(r.node, r.mode, 0)

LEMMA HeldElements == TypeOK => HeldAreLocks
<1> SUFFICES ASSUME TypeOK, NEW s \in Sems, NEW x
             PROVE  x \in heldTokens[s] <=>
                       \E who \in Clients, mode \in Modes, n \in Nat :
                           IsLock(who, mode, n, s, {}) /\ x = TokenOf(who, mode, n)
  BY DEF HeldAreLocks
<1>1. x \in heldTokens[s] <=> \E y \in Locks(s) : x = TokenOf(y[1], y[2], y[3])
  BY DEF heldTokens
<1>2. \A y : y \in Locks(s) <=>
          \E who \in Clients, mode \in Modes, n \in Nat :
              y = <<who, mode, n>> /\ IsLock(who, mode, n, s, {})
  BY LockElements, LocksOfNone DEF LocksAreLocks
<1>3. ASSUME NEW y \in Locks(s), x = TokenOf(y[1], y[2], y[3])
      PROVE  \E who \in Clients, mode \in Modes, n \in Nat :
                 IsLock(who, mode, n, s, {}) /\ x = TokenOf(who, mode, n)
  <2>1. PICK who \in Clients, mode \in Modes, n \in Nat :
            y = <<who, mode, n>> /\ IsLock(who, mode, n, s, {})
    BY <1>2, Zenon
  <2>2. y[1] = who /\ y[2] = mode /\ y[3] = n
    BY <2>1
  <2> QED
    BY <1>3, <2>1, <2>2, Zenon
<1>4. ASSUME NEW who \in Clients, NEW mode \in Modes, NEW n \in Nat,
             IsLock(who, mode, n, s, {}), x = TokenOf(who, mode, n)
      PROVE  \E y \in Locks(s) : x = TokenOf(y[1], y[2], y[3])
  <2> DEFINE y == <<who, mode, n>>
  <2>1. y[1] = who /\ y[2] = mode /\ y[3] = n
    OBVIOUS
  <2>2. y \in Locks(s)
    BY <1>2, <1>4
  <2> HIDE DEF y
  <2> QED
    BY <1>4, <2>1, <2>2
<1> QED
  BY <1>1, <1>3, <1>4, Zenon

LEMMA HeldElementsNext == TypeOK' => HeldAreLocks'
  BY HeldElements, PTL

LEMMA AskedElements == TypeOK => AskedAreQueued
<1> SUFFICES ASSUME TypeOK, NEW s \in Sems, NEW x
             PROVE  x \in askedTokens[s] <=>
                       \E r \in Entries(ssWaitQueue[s]) : x = TokenOf(r.node, r.mode, 0)
  BY DEF AskedAreQueued
<1> DEFINE q == ssWaitQueue[s]
<1>1. q \in Seq(Request)
  BY DEF TypeOK
<1>2. askedTokens[s] = {TokenOf(r.node, r.mode, 0) : r \in RequestsIn(q)}
  BY DEF askedTokens
<1> HIDE DEF q
<1>3. RequestsIn(q) = Entries(q)
  BY <1>1, LenProperties DEF RequestsIn, Entries
<1> QED
  BY <1>2, <1>3 DEF q

LEMMA AskedElementsNext == TypeOK' => AskedAreQueued'
  BY AskedElements, PTL

(* Every lock and every request has a token of the abstract lock.          *)
LEMMA LocksHaveTokens ==
    ASSUME IInv({}), NestInv, NEW s \in Sems, NEW who \in Clients, NEW mode \in Modes,
           NEW n \in Nat, IsLock(who, mode, n, s, {})
    PROVE  TokenOf(who, mode, n) \in RW!Token
<1>1. MaxNest \in Nat /\ Tasks \cap Msgs = {} /\ TypeOK
  BY ConstantsAssumption DEF IInv
<1>2. n \in 0..MaxNest
  <2>1. CASE n = 0
    BY <1>1, <2>1
  <2>2. CASE n # 0
    <3>1. who \in Tasks /\ n <= obtained[who][s][mode]
      BY <2>2 DEF IsLock
    <3>2. Holds(who, s) <= MaxNest /\ Holds(who, s) \in Nat
          /\ obtained[who][s]["exclusive"] \in Nat /\ obtained[who][s]["shared"] \in Nat
      BY <1>1, <3>1, HoldsFacts DEF NestInv
    <3>3. obtained[who][s][mode] <= Holds(who, s) /\ obtained[who][s][mode] \in Nat
      BY <3>2 DEF Holds, Modes
    <3> QED
      BY <1>1, <3>1, <3>2, <3>3
  <2> QED
    BY <2>1, <2>2
<1>3. TaskOf(who) \in Tasks
  <2>1. CASE who \in Tasks
    BY <2>1 DEF TaskOf
  <2>2. CASE who \notin Tasks
    <3>1. who \in Msgs /\ bid[who] # NULL
      BY <2>2 DEF IsLock, Clients
    <3> QED
      BY <1>1, <2>2, <3>1 DEF TaskOf, TypeOK, Bid
  <2> QED
    BY <2>1, <2>2
<1> QED
  BY <1>2, <1>3 DEF TokenOf, RW!Token, RW!Modes, Modes, Clients

LEMMA RequestsHaveTokens ==
    ASSUME IInv({}), NEW s \in Sems, NEW r \in Entries(ssWaitQueue[s])
    PROVE  /\ TokenOf(r.node, r.mode, 0) \in RW!Token
           /\ r.node \in Clients /\ r.mode \in Modes
           /\ r.node \in Msgs => bid[r.node] # NULL
<1>1. /\ MaxNest \in Nat /\ Tasks \cap Msgs = {} /\ Claims(r, s, {})
      /\ bid \in [Msgs -> Bid \cup {NULL}]
  BY ConstantsAssumption DEF IInv, TypeOK, QueueInv
<1>2. r \in Request
  <2>1. ssWaitQueue[s] \in Seq(Request)
    BY DEF IInv, TypeOK
  <2> QED
    BY <2>1, QueueFacts
<1>3. r.node \in Tasks \cup Msgs /\ r.mode \in Modes
  BY <1>2 DEF Request
<1>4. TaskOf(r.node) \in Tasks /\ (r.node \in Msgs => bid[r.node] # NULL)
  BY <1>1, <1>3 DEF TaskOf, Claims, Bid
<1> QED
  BY <1>1, <1>3, <1>4 DEF TokenOf, RW!Token, RW!Modes, Modes, Clients

(* What the locks of LInv allow is what the abstract lock allows.          *)
LocksCompatible == \A s \in Sems : RW!Compatible(heldTokens[s])

LEMMA AllowedCompatible == IInv({}) /\ LInv({}) => LocksCompatible
<1> SUFFICES ASSUME IInv({}), LInv({}), NEW s \in Sems, NEW x \in heldTokens[s],
                    NEW y \in heldTokens[s], x.mode = "exclusive"
             PROVE  y.task = x.task
  BY DEF LocksCompatible, RW!Compatible
<1>1. HeldAreLocks
  BY HeldElements DEF IInv
<1>2. ASSUME NEW z \in heldTokens[s]
      PROVE  IF ssOwner[s] = NULL THEN z.mode = "shared" ELSE z.task = ssOwner[s]
  <2>1. PICK who \in Clients, mode \in Modes, n \in Nat :
            IsLock(who, mode, n, s, {}) /\ z = TokenOf(who, mode, n)
    BY <1>1, <1>2 DEF HeldAreLocks
  <2>2. Allowed(who, mode, s)
    BY <2>1 DEF LInv, OwnerInv
  <2>3. z.mode = mode /\ z.task = TaskOf(who)
    BY <2>1 DEF TokenOf
  <2> QED
    BY <2>2, <2>3 DEF Allowed
<1> QED
  BY <1>2

LEMMA AllowedCompatibleNext == IInv({})' /\ LInv({})' => LocksCompatible'
  BY AllowedCompatible, PTL
-----------------------------------------------------------------------------
(* What a step does to the tokens                                          *)

(* Two ways to say that only the tokens of s change.                       *)
LEMMA OnlyHeldAt ==
    ASSUME NEW s \in Sems, NEW S, heldTokens'[s] = S,
           \A s2 \in Sems : s2 # s => heldTokens'[s2] = heldTokens[s2]
    PROVE  heldTokens' = [heldTokens EXCEPT ![s] = S]
<1>1. heldTokens' = [s2 \in Sems |-> heldTokens'[s2]]
      /\ heldTokens = [s2 \in Sems |-> heldTokens[s2]]
  BY DEF heldTokens
<1> HIDE DEF heldTokens
<1> QED
  BY <1>1

LEMMA OnlyAskedAt ==
    ASSUME NEW s \in Sems, NEW S, askedTokens'[s] = S,
           \A s2 \in Sems : s2 # s => askedTokens'[s2] = askedTokens[s2]
    PROVE  askedTokens' = [askedTokens EXCEPT ![s] = S]
<1>1. askedTokens' = [s2 \in Sems |-> askedTokens'[s2]]
      /\ askedTokens = [s2 \in Sems |-> askedTokens[s2]]
  BY DEF askedTokens
<1> QED
  BY <1>1

LEMMA SameToken ==
    ASSUME NEW who, NEW mode, NEW n, TaskOf(who)' = TaskOf(who)
    PROVE  TokenOf(who, mode, n)' = TokenOf(who, mode, n)
  BY DEF TokenOf
(* The tokens of s2 after a step, when its locks are the same.             *)
LEMMA HeldSameAt ==
    ASSUME TypeOK, TypeOK', NEW s \in Sems,
           \A who \in Clients, mode \in Modes, n \in Nat :
               /\ IsLock(who, mode, n, s, {})' <=> IsLock(who, mode, n, s, {})
               /\ IsLock(who, mode, n, s, {}) => TaskOf(who)' = TaskOf(who)
    PROVE  heldTokens'[s] = heldTokens[s]
<1>1. HeldAreLocks /\ HeldAreLocks'
  BY HeldElements, HeldElementsNext
<1>2. \A who \in Clients, mode \in Modes, n \in Nat :
          IsLock(who, mode, n, s, {}) => TokenOf(who, mode, n)' = TokenOf(who, mode, n)
  BY SameToken
<1>3. ASSUME NEW x PROVE x \in heldTokens'[s] <=> x \in heldTokens[s]
  <2>1. x \in heldTokens[s] <=> \E who \in Clients, mode \in Modes, n \in Nat :
            IsLock(who, mode, n, s, {}) /\ x = TokenOf(who, mode, n)
    BY <1>1 DEF HeldAreLocks
  <2>2. x \in heldTokens'[s] <=> \E who \in Clients, mode \in Modes, n \in Nat :
            IsLock(who, mode, n, s, {})' /\ x = TokenOf(who, mode, n)'
    BY <1>1 DEF HeldAreLocks
  <2> QED
    BY <1>2, <2>1, <2>2, Zenon
<1> QED
  BY <1>3, Zenon DEF heldTokens

LEMMA HeldKept ==
    ASSUME TypeOK, TypeOK', KeepsLocks({})
    PROVE  heldTokens' = heldTokens
<1>1. \A s \in Sems : heldTokens'[s] = heldTokens[s]
  BY HeldSameAt DEF KeepsLocks
<1>2. heldTokens' = [s \in Sems |-> heldTokens'[s]]
      /\ heldTokens = [s \in Sems |-> heldTokens[s]]
  BY DEF heldTokens
<1> QED
  BY <1>1, <1>2

LEMMA HeldGains ==
    ASSUME TypeOK, TypeOK', NEW s \in Sems, NEW w \in Clients, NEW md \in Modes,
           NEW k \in Nat, GainsLock(w, md, k, s, {})
    PROVE  /\ heldTokens' = [heldTokens EXCEPT ![s] = @ \cup {TokenOf(w, md, k)'}]
           /\ TokenOf(w, md, k)' \notin heldTokens[s]
<1> DEFINE new == TokenOf(w, md, k)'
<1>1. HeldAreLocks /\ HeldAreLocks'
  BY HeldElements, HeldElementsNext
<1>2. \A s2 \in Sems, who \in Clients, mode \in Modes, n \in Nat :
          /\ IsLock(who, mode, n, s2, {})' <=>
                 \/ IsLock(who, mode, n, s2, {})
                 \/ s2 = s /\ who = w /\ mode = md /\ n = k
          /\ IsLock(who, mode, n, s2, {}) => TaskOf(who)' = TaskOf(who)
  BY DEF GainsLock
<1>3. \A who \in Clients, mode \in Modes, n \in Nat :
          IsLock(who, mode, n, s, {}) => TokenOf(who, mode, n)' = TokenOf(who, mode, n)
  BY <1>2, SameToken
<1>4. \A s2 \in Sems : s2 # s => heldTokens'[s2] = heldTokens[s2]
  BY <1>2, HeldSameAt
<1>5. heldTokens'[s] = heldTokens[s] \cup {new}
  <2>1. ASSUME NEW x PROVE x \in heldTokens'[s] <=> x \in heldTokens[s] \/ x = new
    <3>1. x \in heldTokens[s] <=> \E who \in Clients, mode \in Modes, n \in Nat :
              IsLock(who, mode, n, s, {}) /\ x = TokenOf(who, mode, n)
      BY <1>1 DEF HeldAreLocks
    <3>2. x \in heldTokens'[s] <=> \E who \in Clients, mode \in Modes, n \in Nat :
              IsLock(who, mode, n, s, {})' /\ x = TokenOf(who, mode, n)'
      BY <1>1 DEF HeldAreLocks
    <3>3. \A who \in Clients, mode \in Modes, n \in Nat :
              IsLock(who, mode, n, s, {})' <=>
                  IsLock(who, mode, n, s, {}) \/ (who = w /\ mode = md /\ n = k)
      BY <1>2
    <3>4. ASSUME NEW who \in Clients, NEW mode \in Modes, NEW n \in Nat,
                 IsLock(who, mode, n, s, {})', x = TokenOf(who, mode, n)'
          PROVE  x \in heldTokens[s] \/ x = new
      <4>1. CASE IsLock(who, mode, n, s, {})
        BY <1>3, <3>1, <3>4, <4>1
      <4>2. CASE who = w /\ mode = md /\ n = k
        BY <3>4, <4>2
      <4> QED
        BY <3>3, <3>4, <4>1, <4>2
    <3>5. x = new => x \in heldTokens'[s]
      BY <3>2, <3>3
    <3>6. x \in heldTokens[s] => x \in heldTokens'[s]
      BY <1>3, <3>1, <3>2, <3>3, Zenon
    <3> QED
      BY <3>2, <3>4, <3>5, <3>6, Zenon
  <2> HIDE DEF new
  <2> QED
    BY <2>1
<1>6. new \notin heldTokens[s]
  <2> SUFFICES ASSUME new \in heldTokens[s] PROVE FALSE
    OBVIOUS
  <2>1. PICK who \in Clients, mode \in Modes, n \in Nat :
            IsLock(who, mode, n, s, {}) /\ new = TokenOf(who, mode, n)
    BY <1>1 DEF HeldAreLocks
  <2>2. new.id = <<w, k>> /\ new.mode = md
    BY DEF TokenOf
  <2>3. TokenOf(who, mode, n).id = <<who, n>> /\ TokenOf(who, mode, n).mode = mode
    BY DEF TokenOf
  <2> HIDE DEF new
  <2>4. who = w /\ mode = md /\ n = k
    BY <2>1, <2>2, <2>3
  <2> QED
    BY <2>1, <2>4 DEF GainsLock
<1> HIDE DEF new
<1>7. heldTokens' = [heldTokens EXCEPT ![s] = heldTokens[s] \cup {new}]
  BY <1>4, <1>5, OnlyHeldAt
<1> QED
  BY <1>6, <1>7 DEF new

(* The tokens of the requests of s from these nodes, and of those that a   *)
(* release of s serves.                                                    *)
TokensOf(s, nodes) ==
    {TokenOf(r.node, r.mode, 0) : r \in {e \in Entries(ssWaitQueue[s]) : e.node \in nodes}}

ServedTokens(s) == TokensOf(s, ServedBy(s))

LEMMA HeldPasses ==
    ASSUME TypeOK, TypeOK', NEW s \in Sems, NEW w \in Clients, NEW md \in Modes,
           NEW k \in Nat, PassesLock(w, md, k, s, {}),
           \A r \in Entries(ssWaitQueue[s]) : r.node \in Clients /\ r.mode \in Modes
    PROVE  /\ heldTokens' =
                 [heldTokens EXCEPT ![s] = (@ \ {TokenOf(w, md, k)}) \cup ServedTokens(s)]
           /\ TokenOf(w, md, k) \in heldTokens[s]
<1> DEFINE x0 == TokenOf(w, md, k)
<1>1. HeldAreLocks /\ HeldAreLocks'
  BY HeldElements, HeldElementsNext
<1>2. \A s2 \in Sems, who \in Clients, mode \in Modes, n \in Nat :
          IsLock(who, mode, n, s2, {})' <=>
              \/ IsLock(who, mode, n, s2, {}) /\ ~(s2 = s /\ who = w /\ mode = md /\ n = k)
              \/ /\ s2 = s /\ who \in ServedBy(s) /\ n = 0
                 /\ \E r \in Entries(ssWaitQueue[s]) : r.node = who /\ r.mode = mode
  BY DEF PassesLock
<1>3. \A s2 \in Sems, who \in Clients, mode \in Modes, n \in Nat :
          IsLock(who, mode, n, s2, {})' => /\ TaskOf(who)' = TaskOf(who)
                                       /\ TokenOf(who, mode, n)' = TokenOf(who, mode, n)
  BY SameToken DEF PassesLock, SameTasks
<1>4. ASSUME NEW s2 \in Sems, s2 # s PROVE heldTokens'[s2] = heldTokens[s2]
  <2>1. \A who \in Clients, mode \in Modes, n \in Nat :
            /\ IsLock(who, mode, n, s2, {})' <=> IsLock(who, mode, n, s2, {})
            /\ IsLock(who, mode, n, s2, {}) => TaskOf(who)' = TaskOf(who)
    BY <1>2, <1>3, <1>4
  <2> QED
    BY <2>1, HeldSameAt
<1>5. \A x : x \in heldTokens[s] <=> \E who \in Clients, mode \in Modes, n \in Nat :
          IsLock(who, mode, n, s, {}) /\ x = TokenOf(who, mode, n)
  BY <1>1 DEF HeldAreLocks
<1>6. \A x : x \in heldTokens'[s] <=> \E who \in Clients, mode \in Modes, n \in Nat :
          IsLock(who, mode, n, s, {})' /\ x = TokenOf(who, mode, n)
  <2>1. \A x : x \in heldTokens'[s] <=> \E who \in Clients, mode \in Modes, n \in Nat :
            IsLock(who, mode, n, s, {})' /\ x = TokenOf(who, mode, n)'
    BY <1>1 DEF HeldAreLocks
  <2> QED
    BY <1>3, <2>1
<1>7. x0 \in heldTokens[s]
  BY <1>5 DEF PassesLock
<1>8. \A x : x \in ServedTokens(s) <=>
          \E r \in Entries(ssWaitQueue[s]) : r.node \in ServedBy(s) /\ x = TokenOf(r.node, r.mode, 0)
  BY DEF ServedTokens, TokensOf
<1>9. \A who, mode, n : TokenOf(who, mode, n) = x0 <=> who = w /\ mode = md /\ n = k
  BY TokenNames
<1> HIDE DEF x0
<1>10. ASSUME NEW x, x \in heldTokens'[s]
       PROVE  x \in (heldTokens[s] \ {x0}) \cup ServedTokens(s)
  <2>1. PICK who \in Clients, mode \in Modes, n \in Nat :
            IsLock(who, mode, n, s, {})' /\ x = TokenOf(who, mode, n)
    BY <1>6, <1>10
  <2>2. CASE IsLock(who, mode, n, s, {}) /\ ~(who = w /\ mode = md /\ n = k)
    BY <1>5, <1>9, <2>1, <2>2
  <2>3. CASE /\ who \in ServedBy(s) /\ n = 0
             /\ \E r \in Entries(ssWaitQueue[s]) : r.node = who /\ r.mode = mode
    BY <1>8, <2>1, <2>3
  <2> QED
    BY <1>2, <2>1, <2>2, <2>3
<1>11. ASSUME NEW x, x \in heldTokens[s], x # x0 PROVE x \in heldTokens'[s]
  <2>1. PICK who \in Clients, mode \in Modes, n \in Nat :
            IsLock(who, mode, n, s, {}) /\ x = TokenOf(who, mode, n)
    BY <1>5, <1>11
  <2>2. ~(who = w /\ mode = md /\ n = k)
    BY <1>9, <1>11, <2>1
  <2> QED
    BY <1>2, <1>6, <2>1, <2>2
<1>12. ASSUME NEW x, x \in ServedTokens(s) PROVE x \in heldTokens'[s]
  <2>1. PICK r \in Entries(ssWaitQueue[s]) :
            r.node \in ServedBy(s) /\ x = TokenOf(r.node, r.mode, 0)
    BY <1>8, <1>12
  <2>2. r.node \in Clients /\ r.mode \in Modes
    OBVIOUS
  <2>3. IsLock(r.node, r.mode, 0, s, {})'
    BY <1>2, <2>1, <2>2
  <2> QED
    BY <1>6, <2>1, <2>2, <2>3
<1>13. heldTokens'[s] = (heldTokens[s] \ {x0}) \cup ServedTokens(s)
  BY <1>10, <1>11, <1>12
<1>14. heldTokens' = [heldTokens EXCEPT ![s] = (heldTokens[s] \ {x0}) \cup ServedTokens(s)]
  BY <1>4, <1>13, OnlyHeldAt
<1> QED
  BY <1>7, <1>14 DEF x0

LEMMA HeldRenames ==
    ASSUME TypeOK, TypeOK', NEW s \in Sems, NEW w \in Clients, NEW md \in Modes,
           NEW j \in Nat, NEW k \in Nat, RenamesLock(w, md, j, k, s, {})
    PROVE  /\ heldTokens' = [heldTokens EXCEPT
                 ![s] = (@ \ {TokenOf(w, md, j)}) \cup {TokenOf(w, md, k)}]
           /\ TokenOf(w, md, j) \in heldTokens[s] /\ TokenOf(w, md, k) \notin heldTokens[s]
<1> DEFINE x0 == TokenOf(w, md, j)
           x1 == TokenOf(w, md, k)
<1>1. HeldAreLocks /\ HeldAreLocks'
  BY HeldElements, HeldElementsNext
<1>2. \A s2 \in Sems, who \in Clients, mode \in Modes, n \in Nat :
          IsLock(who, mode, n, s2, {})' <=>
              \/ IsLock(who, mode, n, s2, {}) /\ ~(s2 = s /\ who = w /\ mode = md /\ n = j)
              \/ s2 = s /\ who = w /\ mode = md /\ n = k
  BY DEF RenamesLock
<1>3. \A who, mode, n : /\ TaskOf(who)' = TaskOf(who)
                        /\ TokenOf(who, mode, n)' = TokenOf(who, mode, n)
  BY DEF RenamesLock, TokenOf, TaskOf
<1>4. \A s2 \in Sems : s2 # s => heldTokens'[s2] = heldTokens[s2]
  BY <1>2, <1>3, HeldSameAt
<1>5. \A x : x \in heldTokens[s] <=> \E who \in Clients, mode \in Modes, n \in Nat :
          IsLock(who, mode, n, s, {}) /\ x = TokenOf(who, mode, n)
  BY <1>1 DEF HeldAreLocks
<1>6. \A x : x \in heldTokens'[s] <=> \E who \in Clients, mode \in Modes, n \in Nat :
          IsLock(who, mode, n, s, {})' /\ x = TokenOf(who, mode, n)
  <2>1. \A x : x \in heldTokens'[s] <=> \E who \in Clients, mode \in Modes, n \in Nat :
            IsLock(who, mode, n, s, {})' /\ x = TokenOf(who, mode, n)'
    BY <1>1 DEF HeldAreLocks
  <2> QED
    BY <1>3, <2>1
<1>7. /\ \A who, mode, n : TokenOf(who, mode, n) = x0 <=> who = w /\ mode = md /\ n = j
      /\ \A who, mode, n : TokenOf(who, mode, n) = x1 <=> who = w /\ mode = md /\ n = k
  BY TokenNames
<1>8. x0 \in heldTokens[s]
  BY <1>5 DEF RenamesLock
<1> HIDE DEF x0
<1>9. x1 \notin heldTokens[s]
  <2> SUFFICES ASSUME x1 \in heldTokens[s] PROVE FALSE
    OBVIOUS
  <2>1. PICK who \in Clients, mode \in Modes, n \in Nat :
            IsLock(who, mode, n, s, {}) /\ x1 = TokenOf(who, mode, n)
    BY <1>5
  <2>2. who = w /\ mode = md /\ n = k
    BY <1>7, <2>1
  <2> QED
    BY <2>1, <2>2 DEF RenamesLock
<1>10. x1 = TokenOf(w, md, k)
  OBVIOUS
<1> HIDE DEF x1
<1>11. ASSUME NEW x, x \in heldTokens'[s] PROVE x \in (heldTokens[s] \ {x0}) \cup {x1}
  <2>1. PICK who \in Clients, mode \in Modes, n \in Nat :
            IsLock(who, mode, n, s, {})' /\ x = TokenOf(who, mode, n)
    BY <1>6, <1>11
  <2> QED
    BY <1>2, <1>5, <1>7, <2>1
<1>12. ASSUME NEW x, x \in heldTokens[s], x # x0 PROVE x \in heldTokens'[s]
  <2>1. PICK who \in Clients, mode \in Modes, n \in Nat :
            IsLock(who, mode, n, s, {}) /\ x = TokenOf(who, mode, n)
    BY <1>5, <1>12
  <2>2. ~(who = w /\ mode = md /\ n = j)
    BY <1>7, <1>12, <2>1
  <2> QED
    BY <1>2, <1>6, <2>1, <2>2
<1>13. x1 \in heldTokens'[s]
  BY <1>2, <1>6, <1>10
<1>14. heldTokens'[s] = (heldTokens[s] \ {x0}) \cup {x1}
  BY <1>11, <1>12, <1>13
<1>15. heldTokens' = [heldTokens EXCEPT ![s] = (heldTokens[s] \ {x0}) \cup {x1}]
  BY <1>4, <1>14, OnlyHeldAt
<1> QED
  BY <1>8, <1>9, <1>15 DEF x0, x1
LEMMA AskedSameAt ==
    ASSUME TypeOK, TypeOK', NEW s \in Sems,
           Entries(ssWaitQueue'[s]) = Entries(ssWaitQueue[s]),
           \A r \in Entries(ssWaitQueue[s]) : TaskOf(r.node)' = TaskOf(r.node)
    PROVE  askedTokens'[s] = askedTokens[s]
<1>1. AskedAreQueued /\ AskedAreQueued'
  BY AskedElements, AskedElementsNext
<1>2. \A r \in Entries(ssWaitQueue[s]) : TokenOf(r.node, r.mode, 0)' = TokenOf(r.node, r.mode, 0)
  BY DEF TokenOf
<1>3. \A x : x \in askedTokens[s] <=>
          \E r \in Entries(ssWaitQueue[s]) : x = TokenOf(r.node, r.mode, 0)
  BY <1>1 DEF AskedAreQueued
<1>4. \A x : x \in askedTokens'[s] <=>
          \E r \in Entries(ssWaitQueue[s]) : x = TokenOf(r.node, r.mode, 0)'
  BY <1>1 DEF AskedAreQueued
<1>5. \A x : x \in askedTokens'[s] <=> x \in askedTokens[s]
  BY <1>2, <1>3, <1>4
<1> QED
  BY <1>5, Zenon DEF askedTokens

LEMMA AskedKept ==
    ASSUME TypeOK, TypeOK',
           \A s \in Sems : /\ Entries(ssWaitQueue'[s]) = Entries(ssWaitQueue[s])
                           /\ \A r \in Entries(ssWaitQueue[s]) : TaskOf(r.node)' = TaskOf(r.node)
    PROVE  askedTokens' = askedTokens
<1>1. \A s \in Sems : askedTokens'[s] = askedTokens[s]
  BY AskedSameAt
<1>2. askedTokens' = [s \in Sems |-> askedTokens'[s]]
      /\ askedTokens = [s \in Sems |-> askedTokens[s]]
  BY DEF askedTokens
<1> QED
  BY <1>1, <1>2

LEMMA AskedGains ==
    ASSUME TypeOK, TypeOK', NEW s \in Sems, NEW r0, ~InQueue(r0.node, s),
           Entries(ssWaitQueue'[s]) = Entries(ssWaitQueue[s]) \cup {r0},
           \A s2 \in Sems : s2 # s => ssWaitQueue'[s2] = ssWaitQueue[s2],
           \A s2 \in Sems : \A r \in Entries(ssWaitQueue[s2]) : TaskOf(r.node)' = TaskOf(r.node)
    PROVE  /\ askedTokens' = [askedTokens EXCEPT ![s] = @ \cup {TokenOf(r0.node, r0.mode, 0)'}]
           /\ TokenOf(r0.node, r0.mode, 0)' \notin askedTokens[s]
<1> DEFINE new == TokenOf(r0.node, r0.mode, 0)'
<1>1. AskedAreQueued /\ AskedAreQueued'
  BY AskedElements, AskedElementsNext
<1>2. \A r \in Entries(ssWaitQueue[s]) : TokenOf(r.node, r.mode, 0)' = TokenOf(r.node, r.mode, 0)
  BY DEF TokenOf
<1>3. \A x : x \in askedTokens[s] <=>
          \E r \in Entries(ssWaitQueue[s]) : x = TokenOf(r.node, r.mode, 0)
  BY <1>1 DEF AskedAreQueued
<1>4. \A x : x \in askedTokens'[s] <=>
          \E r \in Entries(ssWaitQueue'[s]) : x = TokenOf(r.node, r.mode, 0)'
  BY <1>1 DEF AskedAreQueued
<1>5. \A s2 \in Sems : s2 # s => askedTokens'[s2] = askedTokens[s2]
  BY AskedSameAt
<1>6. new \notin askedTokens[s]
  <2> SUFFICES ASSUME new \in askedTokens[s] PROVE FALSE
    OBVIOUS
  <2>1. PICK r \in Entries(ssWaitQueue[s]) : new = TokenOf(r.node, r.mode, 0)
    BY <1>3
  <2>2. new.id = <<r0.node, 0>> /\ TokenOf(r.node, r.mode, 0).id = <<r.node, 0>>
    BY DEF TokenOf
  <2> HIDE DEF new
  <2>3. r.node = r0.node
    BY <2>1, <2>2
  <2> QED
    BY <2>3 DEF InQueue
<1>7. new \in askedTokens'[s]
  BY <1>4
<1>8. ASSUME NEW x, x \in askedTokens'[s] PROVE x \in askedTokens[s] \cup {new}
  <2>1. PICK r \in Entries(ssWaitQueue'[s]) : x = TokenOf(r.node, r.mode, 0)'
    BY <1>4, <1>8
  <2>2. CASE r \in Entries(ssWaitQueue[s])
    BY <1>2, <1>3, <2>1, <2>2
  <2>3. CASE r = r0
    BY <2>1, <2>3
  <2> QED
    BY <2>2, <2>3
<1>9. \A x : x \in askedTokens[s] => x \in askedTokens'[s]
  BY <1>2, <1>3, <1>4
<1> HIDE DEF new
<1>10. askedTokens'[s] = askedTokens[s] \cup {new}
  BY <1>7, <1>8, <1>9
<1>11. askedTokens' = [askedTokens EXCEPT ![s] = askedTokens[s] \cup {new}]
  BY <1>5, <1>10, OnlyAskedAt
<1> QED
  BY <1>6, <1>11 DEF new

LEMMA AskedLoses ==
    ASSUME TypeOK, TypeOK', NEW s \in Sems, NEW nodes,
           \A r \in Entries(ssWaitQueue[s]) : r \in Entries(ssWaitQueue'[s]) <=> r.node \notin nodes,
           \A r \in Entries(ssWaitQueue'[s]) : r \in Entries(ssWaitQueue[s]),
           \A s2 \in Sems : s2 # s => ssWaitQueue'[s2] = ssWaitQueue[s2],
           \A s2 \in Sems : \A r \in Entries(ssWaitQueue'[s2]) : TaskOf(r.node)' = TaskOf(r.node)
    PROVE  askedTokens' = [askedTokens EXCEPT ![s] = @ \ TokensOf(s, nodes)]
<1>1. AskedAreQueued /\ AskedAreQueued'
  BY AskedElements, AskedElementsNext
<1>2. \A r \in Entries(ssWaitQueue'[s]) : TokenOf(r.node, r.mode, 0)' = TokenOf(r.node, r.mode, 0)
  BY DEF TokenOf
<1>3. \A x : x \in askedTokens[s] <=>
          \E r \in Entries(ssWaitQueue[s]) : x = TokenOf(r.node, r.mode, 0)
  BY <1>1 DEF AskedAreQueued
<1>4. \A x : x \in askedTokens'[s] <=>
          \E r \in Entries(ssWaitQueue'[s]) : x = TokenOf(r.node, r.mode, 0)
  <2>1. \A x : x \in askedTokens'[s] <=>
            \E r \in Entries(ssWaitQueue'[s]) : x = TokenOf(r.node, r.mode, 0)'
    BY <1>1 DEF AskedAreQueued
  <2> QED
    BY <1>2, <2>1
<1>5. \A s2 \in Sems : s2 # s => askedTokens'[s2] = askedTokens[s2]
  BY AskedSameAt
<1>6. \A x : x \in TokensOf(s, nodes) <=>
          \E r \in Entries(ssWaitQueue[s]) : r.node \in nodes /\ x = TokenOf(r.node, r.mode, 0)
  BY DEF TokensOf
<1>7. ASSUME NEW x PROVE x \in askedTokens'[s] <=> x \in askedTokens[s] /\ x \notin TokensOf(s, nodes)
  <2>1. ASSUME x \in askedTokens'[s]
        PROVE  x \in askedTokens[s] /\ x \notin TokensOf(s, nodes)
    <3>1. PICK r \in Entries(ssWaitQueue'[s]) : x = TokenOf(r.node, r.mode, 0)
      BY <1>4, <2>1
    <3>2. r \in Entries(ssWaitQueue[s]) /\ r.node \notin nodes
      OBVIOUS
    <3>3. ASSUME x \in TokensOf(s, nodes) PROVE FALSE
      <4>1. PICK e \in Entries(ssWaitQueue[s]) : e.node \in nodes /\ x = TokenOf(e.node, e.mode, 0)
        BY <1>6, <3>3
      <4>2. e.node = r.node
        BY <3>1, <4>1, TokenNames
      <4> QED
        BY <3>2, <4>1, <4>2
    <3> QED
      BY <1>3, <3>1, <3>2, <3>3
  <2>2. ASSUME x \in askedTokens[s], x \notin TokensOf(s, nodes)
        PROVE  x \in askedTokens'[s]
    <3>1. PICK r \in Entries(ssWaitQueue[s]) : x = TokenOf(r.node, r.mode, 0)
      BY <1>3, <2>2
    <3>2. r.node \notin nodes
      BY <1>6, <2>2, <3>1
    <3> QED
      BY <1>4, <3>1, <3>2
  <2> QED
    BY <2>1, <2>2
<1>8. askedTokens'[s] = askedTokens[s] \ TokensOf(s, nodes)
  BY <1>7
<1>9. askedTokens' = [askedTokens EXCEPT ![s] = askedTokens[s] \ TokensOf(s, nodes)]
  BY <1>5, <1>8, OnlyAskedAt
<1> QED
  BY <1>9
-----------------------------------------------------------------------------
(* Whose turn it is                                                        *)

(* The release that leaves tokens of s behind serves nobody.               *)
LEMMA OnlyLastServes ==
    ASSUME IInv({}), LInv({}), NEW s \in Sems,
           NEW w \in Clients, NEW md \in Modes, NEW k \in Nat, IsLock(w, md, k, s, {}),
           heldTokens[s] # {TokenOf(w, md, k)}
    PROVE  ServedTokens(s) = {}
<1>1. HeldAreLocks /\ TypeOK
  BY HeldElements DEF IInv
<1>2. ssNestCount[s] # 1
  <2> SUFFICES ASSUME ssNestCount[s] = 1 PROVE heldTokens[s] = {TokenOf(w, md, k)}
    OBVIOUS
  <2>1. LocksOf(s, {}) \ {<<w, md, k>>} = {}
    BY LastLock, Zenon
  <2>2. ASSUME NEW who \in Clients, NEW mode \in Modes, NEW n \in Nat, IsLock(who, mode, n, s, {})
        PROVE  who = w /\ mode = md /\ n = k
    <3>1. <<who, mode, n>> \in LocksOf(s, {})
      BY <1>1, <2>2, LockElements DEF LocksAreLocks
    <3>2. <<who, mode, n>> = <<w, md, k>>
      BY <2>1, <3>1
    <3> QED
      BY <3>2
  <2>3. \A x : x \in heldTokens[s] <=> \E who \in Clients, mode \in Modes, n \in Nat :
            IsLock(who, mode, n, s, {}) /\ x = TokenOf(who, mode, n)
    BY <1>1 DEF HeldAreLocks
  <2>4. \A x : x \in heldTokens[s] <=> x = TokenOf(w, md, k)
    BY <2>2, <2>3
  <2> QED
    BY <2>4
<1>3. ServedBy(s) = {}
  BY <1>2 DEF ServedBy
<1> QED
  BY <1>3 DEF ServedTokens, TokensOf

(* The last release serves one writer, or all the readers, that asked.     *)
LEMMA ServesATurn ==
    ASSUME IInv({}), LInv({}), NEW s \in Sems,
           NEW w \in Clients, NEW md \in Modes, NEW k \in Nat, IsLock(w, md, k, s, {}),
           heldTokens[s] = {TokenOf(w, md, k)}
    PROVE  ServedTokens(s) \in RW!Turns(askedTokens[s])
<1> DEFINE q == ssWaitQueue[s]
<1>1. /\ HeldAreLocks /\ AskedAreQueued /\ TypeOK
      /\ q \in Seq(Request) /\ NodesOnce(q)
      /\ ssNestCount[s] \in Int /\ ssQueueCount[s] \in Int
      /\ ssQueueCount[s] + 1 = ssNestCount[s] + Size(q)
  BY HeldElements, AskedElements DEF IInv, TypeOK, QueueInv, Balanced
<1>2. ssNestCount[s] = 1
  <2>1. ASSUME NEW y \in LocksOf(s, {}) PROVE y = <<w, md, k>>
    <3>1. PICK who \in Clients, mode \in Modes, n \in Nat :
              y = <<who, mode, n>> /\ IsLock(who, mode, n, s, {})
      BY <1>1, LockElements DEF LocksAreLocks
    <3>2. TokenOf(who, mode, n) \in heldTokens[s]
      BY <1>1, <3>1 DEF HeldAreLocks
    <3>3. who = w /\ mode = md /\ n = k
      BY <3>2, TokenNames
    <3> QED
      BY <3>1, <3>3
  <2>2. LocksOf(s, {}) \ {<<w, md, k>>} = {}
    BY <2>1
  <2> QED
    BY <2>2, LastLock, Zenon
<1>3. \A x : x \in askedTokens[s] <=> \E r \in Entries(q) : x = TokenOf(r.node, r.mode, 0)
  BY <1>1 DEF AskedAreQueued
<1>4. \A x : x \in ServedTokens(s) <=>
          \E r \in Entries(q) : r.node \in ServedBy(s) /\ x = TokenOf(r.node, r.mode, 0)
  BY DEF ServedTokens, TokensOf
<1>5. \A r : TokenOf(r.node, r.mode, 0).mode = r.mode
  BY DEF TokenOf
<1>6. AnyQueued(s) <=> ssQueueCount[s] - 1 >= 0 /\ ~Empty(q)
  BY DEF AnyQueued, Empty
<1>7. ServedBy(s) = IF AnyQueued(s) THEN ServedNodes(q) ELSE {}
  BY <1>2 DEF ServedBy
<1> HIDE DEF q
<1>8. CASE Empty(q)
  <2>1. Entries(q) = {}
    BY <1>8, EmptyQueueFacts DEF Empty
  <2>2. askedTokens[s] = {} /\ ServedTokens(s) = {}
    BY <1>3, <1>4, <2>1
  <2> QED
    BY <2>2 DEF RW!Turns
<1>9. CASE ~Empty(q)
  <2>1. Size(q) \in Nat /\ Size(q) # 0 /\ q[1] \in Entries(q)
    BY <1>1, <1>9, QueueFacts
  <2>2. ServedBy(s) = ServedNodes(q)
    BY <1>1, <1>2, <1>6, <1>7, <1>9, <2>1
  <2>3. DOMAIN q = 1 .. Len(q) /\ Len(q) \in Nat /\ Len(q) # 0
    BY <1>1, <2>1, LenProperties DEF Size
  <2>4. q[1].node \in ServedNodes(q)
    <3>1. 1 \in Served(q)
      BY <2>3 DEF Served, SharedAt
    <3> QED
      BY <3>1 DEF ServedNodes
  <2> DEFINE head == TokenOf(q[1].node, q[1].mode, 0)
  <2>5. head \in askedTokens[s] /\ head \in ServedTokens(s) /\ head.mode = q[1].mode
    BY <1>3, <1>4, <1>5, <2>1, <2>2, <2>4
  <2>6. \A r \in Entries(q) : r.node \in ServedNodes(q) =>
            IF q[1].mode = "shared" THEN r.mode = "shared" ELSE r = q[1]
    BY <1>1, <1>9, ServedModes
  <2>7. CASE q[1].mode = "shared"
    <3>1. ASSUME NEW r \in Entries(q), r.mode = "shared" PROVE r.node \in ServedNodes(q)
      <4>1. PICK i \in 1 .. Len(q) : r = q[i]
        BY DEF Entries
      <4>2. i \in Served(q)
        BY <2>3, <2>7, <3>1, <4>1 DEF Served, SharedAt
      <4> QED
        BY <4>1, <4>2 DEF ServedNodes
    <3>2. \A x : x \in ServedTokens(s) <=> x \in askedTokens[s] /\ x.mode = "shared"
      BY <1>3, <1>4, <1>5, <2>2, <2>6, <2>7, <3>1
    <3>3. ServedTokens(s) = RW!Shared(askedTokens[s])
      BY <3>2 DEF RW!Shared
    <3>4. ServedTokens(s) # {} /\ askedTokens[s] # {}
      BY <2>5
    <3> QED
      BY <3>3, <3>4 DEF RW!Turns
  <2>8. CASE q[1].mode # "shared"
    <3>1. \A x : x \in ServedTokens(s) <=> x = head
      BY <1>4, <2>1, <2>2, <2>4, <2>6, <2>8
    <3> HIDE DEF head
    <3>2. ServedTokens(s) = {head} /\ head \in askedTokens[s] \ RW!Shared(askedTokens[s])
      BY <2>5, <2>8, <3>1 DEF RW!Shared
    <3> QED
      BY <3>2 DEF RW!Turns
  <2> QED
    BY <2>7, <2>8
<1> QED
  BY <1>8, <1>9

-----------------------------------------------------------------------------
(* The steps                                                               *)

(* What is known of the states before and after a step.                    *)
Known == IInv({}) /\ LInv({}) /\ NestInv

LEMMA KnownFacts ==
    ASSUME Known
    PROVE  /\ TypeOK /\ HeldAreLocks /\ LocksCompatible
           /\ heldTokens = [s \in Sems |-> heldTokens[s]]
           /\ askedTokens = [s \in Sems |-> askedTokens[s]]
<1>1. TypeOK /\ HeldAreLocks /\ LocksCompatible
  BY HeldElements, AllowedCompatible DEF Known, IInv
<1> QED
  BY <1>1 DEF heldTokens, askedTokens

LEMMA KnownFactsNext == Known' => TypeOK' /\ HeldAreLocks' /\ LocksCompatible'
  BY HeldElementsNext, AllowedCompatibleNext DEF Known, IInv

AllHaveTokens ==
    /\ \A s \in Sems, who \in Clients, mode \in Modes, n \in Nat :
          IsLock(who, mode, n, s, {}) => TokenOf(who, mode, n) \in RW!Token
    /\ \A s \in Sems : \A r \in Entries(ssWaitQueue[s]) :
          TokenOf(r.node, r.mode, 0) \in RW!Token

LEMMA KnownTokens == Known => AllHaveTokens
  BY LocksHaveTokens, RequestsHaveTokens DEF Known, AllHaveTokens

LEMMA KnownTokensNext == Known' => AllHaveTokens'
  BY KnownTokens, PTL

LEMMA NewTokens ==
    ASSUME Known'
    PROVE  /\ \A s \in Sems, who \in Clients, mode \in Modes, n \in Nat :
                 IsLock(who, mode, n, s, {})' => TokenOf(who, mode, n)' \in RW!Token
           /\ \A s \in Sems : \A r \in Entries(ssWaitQueue'[s]) :
                 TokenOf(r.node, r.mode, 0)' \in RW!Token
<1>1. RW!Token' = RW!Token
  BY DEF RW!Token, RW!Modes
<1> QED
  BY <1>1, KnownTokensNext DEF AllHaveTokens
(* The nodes of queued requests whose bid the step does not touch.         *)
LEMMA QueuedKeepTask ==
    ASSUME IInv({}), NEW s \in Sems, NEW r \in Entries(ssWaitQueue[s]),
           \A m \in Msgs : bid[m] # NULL /\ m = r.node => bid'[m] = bid[m]
    PROVE  TaskOf(r.node)' = TaskOf(r.node)
<1>1. r.node \in Clients /\ (r.node \in Msgs => bid[r.node] # NULL)
  BY RequestsHaveTokens
<1> QED
  BY <1>1 DEF TaskOf, Clients

(* ObtainSemaphore, AttemptSemaphore and Procure that get the lock.        *)
LEMMA GetStep ==
    ASSUME Known, Known', NEW s \in Sems, NEW w \in Clients, NEW md \in Modes, NEW k \in Nat,
           GainsLock(w, md, k, s, {}), ssWaitQueue' = ssWaitQueue,
           \A m \in Msgs : bid[m] # NULL => bid'[m] = bid[m]
    PROVE  RW!Next
<1> DEFINE x == TokenOf(w, md, k)'
<1>1. /\ heldTokens' = [heldTokens EXCEPT ![s] = @ \cup {x}] /\ x \notin heldTokens[s]
      /\ TypeOK /\ TypeOK' /\ LocksCompatible'
      /\ heldTokens = [s2 \in Sems |-> heldTokens[s2]]
  BY KnownFacts, KnownFactsNext, HeldGains
<1>2. x \in RW!Token
  <2>1. IsLock(w, md, k, s, {})'
    BY DEF GainsLock
  <2> QED
    BY <2>1, NewTokens
<1>3. askedTokens' = askedTokens
  <2>1. \A s2 \in Sems : \A r \in Entries(ssWaitQueue[s2]) : TaskOf(r.node)' = TaskOf(r.node)
    BY QueuedKeepTask DEF Known
  <2> QED
    BY <1>1, <2>1, AskedKept
<1>4. RW!Compatible(heldTokens'[s])
  BY <1>1 DEF LocksCompatible, RW!Compatible
<1> HIDE DEF x
<1>5. heldTokens'[s] = heldTokens[s] \cup {x}
  BY <1>1
<1>6. RW!Get(s, x)
  BY <1>1, <1>3, <1>4, <1>5 DEF RW!Get
<1> QED
  BY <1>2, <1>6 DEF RW!Next

(* ObtainSemaphore that sleeps, and Procure that queues.                   *)
LEMMA AskStep ==
    ASSUME Known, Known', NEW s \in Sems, NEW r0 \in Request, Enlist(s, r0), ~IsFree(s),
           ~InQueue(r0.node, s), KeepsLocks({}),
           \A m \in Msgs : bid[m] # NULL => bid'[m] = bid[m]
    PROVE  RW!Next
<1> DEFINE x == TokenOf(r0.node, r0.mode, 0)'
<1>1. TypeOK /\ TypeOK' /\ HeldAreLocks
      /\ askedTokens = [s2 \in Sems |-> askedTokens[s2]]
  BY KnownFacts, KnownFactsNext
<1>2. heldTokens' = heldTokens
  BY <1>1, HeldKept
<1>3. /\ \A s2 \in Sems : s2 # s => ssWaitQueue'[s2] = ssWaitQueue[s2]
      /\ Entries(ssWaitQueue'[s]) = Entries(ssWaitQueue[s]) \cup {r0}
  BY EnlistFacts DEF Known, IInv
<1>4. \A s2 \in Sems : \A r \in Entries(ssWaitQueue[s2]) : TaskOf(r.node)' = TaskOf(r.node)
  BY QueuedKeepTask DEF Known
<1>5. /\ askedTokens' = [askedTokens EXCEPT ![s] = @ \cup {x}] /\ x \notin askedTokens[s]
  BY <1>1, <1>3, <1>4, AskedGains
<1>6. x \in RW!Token
  BY <1>3, NewTokens
<1>7. heldTokens[s] # {}
  <2>1. /\ ssNestCount[s] # 0 /\ ssNestCount[s] = Cardinality(LocksOf(s, {}))
    BY FreeFacts DEF Known, LInv, CountInv
  <2>2. LocksOf(s, {}) # {}
    BY <2>1, FS_EmptySet
  <2>3. PICK who \in Clients, mode \in Modes, n \in Nat : IsLock(who, mode, n, s, {})
    BY <1>1, <2>2, LockElements DEF LocksAreLocks
  <2>4. TokenOf(who, mode, n) \in heldTokens[s]
    BY <1>1, <2>3 DEF HeldAreLocks
  <2> QED
    BY <2>4
<1> HIDE DEF x
<1>8. RW!Ask(s, x)
  BY <1>2, <1>5, <1>7 DEF RW!Ask
<1> QED
  BY <1>6, <1>8 DEF RW!Next

(* ReleaseSemaphore, and Vacate of a bid that was granted.                 *)
LEMMA GiveBackStep ==
    ASSUME Known, Known', NEW s \in Sems, NEW w \in Clients, NEW md \in Modes, NEW k \in Nat,
           PassesLock(w, md, k, s, {}), NEW ssm, ServesOnly(ServedBy(s), s, ssm),
           \A m \in Msgs : bid[m] # NULL /\ Queued(m) => bid'[m] = bid[m]
    PROVE  RW!Next
<1> DEFINE x == TokenOf(w, md, k)
           next == ServedTokens(s)
<1>1. /\ TypeOK /\ TypeOK' /\ IInv({}) /\ LInv({})
      /\ \A r \in Entries(ssWaitQueue[s]) : r.node \in Clients /\ r.mode \in Modes
      /\ IsLock(w, md, k, s, {})
  BY KnownFacts, KnownFactsNext, RequestsHaveTokens DEF Known, PassesLock
<1>2. /\ heldTokens' = [heldTokens EXCEPT ![s] = (@ \ {x}) \cup next] /\ x \in heldTokens[s]
  BY <1>1, HeldPasses
<1>3. ASSUME NEW s2 \in Sems, NEW r \in Entries(ssWaitQueue[s2])
      PROVE  TaskOf(r.node)' = TaskOf(r.node)
  <2>1. InQueue(r.node, s2)
    BY DEF InQueue
  <2>2. r.node \in Msgs => Queued(r.node)
    BY <1>1, <2>1, WhoIsQueued DEF IInv
  <2> QED
    BY <1>1, <2>2, QueuedKeepTask
<1>4. askedTokens' = [askedTokens EXCEPT ![s] = @ \ next]
  <2>1. /\ \A r \in Entries(ssWaitQueue[s]) :
              r \in Entries(ssWaitQueue'[s]) <=> r.node \notin ServedBy(s)
        /\ \A r \in Entries(ssWaitQueue'[s]) : r \in Entries(ssWaitQueue[s])
        /\ \A s2 \in Sems : s2 # s => ssWaitQueue'[s2] = ssWaitQueue[s2]
    BY DEF ServesOnly
  <2>2. \A s2 \in Sems : \A r \in Entries(ssWaitQueue'[s2]) : TaskOf(r.node)' = TaskOf(r.node)
    BY <1>3, <2>1
  <2> QED
    BY <1>1, <2>1, <2>2, AskedLoses DEF ServedTokens
<1>5. x \in RW!Token
  BY <1>1, LocksHaveTokens DEF Known
<1>6. next \in IF heldTokens[s] = {x} THEN RW!Turns(askedTokens[s]) ELSE {{}}
  BY <1>1, OnlyLastServes, ServesATurn
<1> HIDE DEF x, next
<1>7. RW!GiveBack(s, x)
  BY <1>2, <1>4, <1>6 DEF RW!GiveBack
<1> QED
  BY <1>5, <1>7 DEF RW!Next

(* Vacate of a bid that is still queued.                                   *)
LEMMA WithdrawStep ==
    ASSUME Known, Known', NEW m \in Msgs, VacateQueued(m)
    PROVE  RW!Next
<1> DEFINE s == bid[m].sem
           x == TokenOf(m, bid[m].mode, 0)
<1>1. TypeOK /\ TypeOK' /\ IInv({}) /\ AskedAreQueued
  BY KnownFacts, KnownFactsNext, AskedElements DEF Known
<1>2. /\ s \in Sems /\ InQueue(m, s) /\ KeepsLocks({})
      /\ \A s2 \in Sems : s2 # s => ssWaitQueue'[s2] = ssWaitQueue[s2]
      /\ \A r \in Entries(ssWaitQueue'[s]) : r \in Entries(ssWaitQueue[s])
      /\ \A r \in Entries(ssWaitQueue[s]) : r \in Entries(ssWaitQueue'[s]) <=> r.node # m
  BY <1>1, VacateQueuedLocks
<1>3. \A n \in Msgs : n # m => bid'[n] = bid[n]
  BY <1>1 DEF VacateQueued, TypeOK
<1>4. \A r \in Entries(ssWaitQueue[s]) : r.node = m => r.mode = bid[m].mode
  <2>1. \A r \in Entries(ssWaitQueue[s]) : Claims(r, s, {})
    BY <1>1, <1>2 DEF IInv, QueueInv
  <2> QED
    BY <2>1, ConstantsAssumption DEF Claims
<1>5. PICK e \in Entries(ssWaitQueue[s]) : e.node = m
  BY <1>2 DEF InQueue
<1>6. x = TokenOf(e.node, e.mode, 0)
  BY <1>4, <1>5
<1>7. TokensOf(s, {m}) = {x}
  BY <1>4, <1>5, <1>6 DEF TokensOf
<1>8. x \in askedTokens[s] /\ x \in RW!Token
  BY <1>1, <1>2, <1>6, RequestsHaveTokens DEF AskedAreQueued
<1>9. heldTokens' = heldTokens
  BY <1>1, <1>2, HeldKept
<1> HIDE DEF s, x
<1>10. \A s2 \in Sems : \A r \in Entries(ssWaitQueue'[s2]) : TaskOf(r.node)' = TaskOf(r.node)
  <2> SUFFICES ASSUME NEW s2 \in Sems, NEW r \in Entries(ssWaitQueue'[s2])
               PROVE  TaskOf(r.node)' = TaskOf(r.node)
    OBVIOUS
  <2>1. r \in Entries(ssWaitQueue[s2])
    BY <1>2
  <2>2. r.node # m
    <3>1. CASE s2 = s
      BY <1>2, <2>1, <3>1
    <3>2. CASE s2 # s
      <4>1. InQueue(r.node, s2)
        BY <2>1 DEF InQueue
      <4>2. r.node = m => bid[m].sem = s2
        BY <1>1, <4>1, WhoIsQueued DEF IInv
      <4> QED
        BY <3>2, <4>2 DEF s
    <3> QED
      BY <3>1, <3>2
  <2> QED
    BY <1>1, <1>3, <2>1, <2>2, QueuedKeepTask
<1>11. askedTokens' = [askedTokens EXCEPT ![s] = @ \ {x}]
  BY <1>1, <1>2, <1>7, <1>10, AskedLoses
<1>12. RW!Withdraw(s, x)
  BY <1>8, <1>9, <1>11 DEF RW!Withdraw
<1> QED
  BY <1>2, <1>8, <1>12 DEF RW!Next

(* A task returns from Wait() with the lock that it was given before.      *)
LEMMA ReturnStep ==
    ASSUME Known, Known', NEW t \in Tasks, ObtainAwake(t)
    PROVE  RW!Next
<1>1. TypeOK /\ TypeOK' /\ IInv({}) /\ t \in Clients
  BY KnownFacts, KnownFactsNext DEF Known, Clients
<1>2. PICK s \in Sems, mode \in Modes, k \in Nat : RenamesLock(t, mode, 0, k, s, {})
  BY <1>1, ObtainAwakeLocks
<1> DEFINE x == TokenOf(t, mode, 0)
           y == TokenOf(t, mode, k)
<1>3. /\ heldTokens' = [heldTokens EXCEPT ![s] = (@ \ {x}) \cup {y}]
      /\ x \in heldTokens[s] /\ y \notin heldTokens[s]
  BY <1>1, <1>2, HeldRenames
<1>4. askedTokens' = askedTokens
  <2>1. ssWaitQueue' = ssWaitQueue /\ bid' = bid
    BY DEF ObtainAwake, semVars
  <2>2. \A who : TaskOf(who)' = TaskOf(who)
    BY <2>1 DEF TaskOf
  <2> QED
    BY <1>1, <2>1, <2>2, AskedKept
<1>5. x \in RW!Token
  BY <1>1, <1>2, LocksHaveTokens DEF Known, RenamesLock
<1>6. y \in RW!Token
  <2>1. IsLock(t, mode, k, s, {})'
    BY <1>1, <1>2 DEF RenamesLock
  <2>2. TokenOf(t, mode, k)' \in RW!Token
    BY <1>1, <2>1, NewTokens
  <2>3. TokenOf(t, mode, k)' = TokenOf(t, mode, k)
    BY DEF TokenOf, TaskOf
  <2> QED
    BY <2>2, <2>3
<1>7. /\ x.task = y.task /\ x.mode = y.mode
      /\ <<t, k>> \in (Tasks \cup Msgs) \X (0..MaxNest) /\ y = [x EXCEPT !.id = <<t, k>>]
  BY <1>6 DEF TokenOf, RW!Token
<1> HIDE DEF x, y
<1>8. RW!Return(s, x, y)
  BY <1>3, <1>4, <1>7 DEF RW!Return
<1> QED
  BY <1>5, <1>7, <1>8 DEF RW!Next

(* What changes no lock and no queue.                                      *)
LEMMA IdleStep ==
    ASSUME Known, Known', UNCHANGED <<semVars, clientVars>>,
           \A m \in Msgs : Queued(m)' <=> Queued(m)
    PROVE  UNCHANGED RW!lockVars
<1>1. TypeOK /\ TypeOK' /\ KeepsLocks({})
  BY KnownFacts, KnownFactsNext, IdleLocks
<1>2. ssWaitQueue' = ssWaitQueue /\ bid' = bid
  BY DEF semVars, clientVars
<1>3. \A who : TaskOf(who)' = TaskOf(who)
  BY <1>2 DEF TaskOf
<1>4. heldTokens' = heldTokens /\ askedTokens' = askedTokens
  BY <1>1, <1>2, <1>3, HeldKept, AskedKept
<1> QED
  BY <1>4 DEF RW!lockVars
LEMMA StepImplements == Known /\ Known' /\ [Next]_vars => [RW!Next]_(RW!lockVars)
<1> SUFFICES ASSUME Known, Known', [Next]_vars
             PROVE  RW!Next \/ UNCHANGED RW!lockVars
  OBVIOUS
<1>1. IInv({}) /\ LInv({}) /\ TypeOK
  BY DEF Known, IInv
<1>2. CASE UNCHANGED vars
  BY <1>2, IdleStep DEF vars, msgVars, Queued
<1>3. CASE ObtainStep
  <2>1. PICK t \in Tasks, s \in Sems, mode \in Modes :
            \/ ObtainNow(t, s, mode) \/ ObtainSleep(t, s, mode)
            \/ AttemptSucceeds(t, s, mode) \/ AttemptFails(t, s, mode)
    BY <1>3 DEF ObtainStep
  <2>2. CASE ObtainNow(t, s, mode) \/ AttemptSucceeds(t, s, mode)
    <3>1. /\ Acquire(s, OwnerFor(t, mode))
          /\ obtained' = [obtained EXCEPT ![t][s][mode] = @ + 1]
          /\ UNCHANGED <<sigSingle, waitingFor, bid, msgVars>>
      BY <2>2 DEF ObtainNow, AttemptSucceeds
    <3>2. PICK k \in Nat : GainsLock(t, mode, k, s, {})
      BY <1>1, <3>1, ObtainNowLocks
    <3>3. t \in Clients /\ ssWaitQueue' = ssWaitQueue
      BY <3>1 DEF Clients, Acquire
    <3> QED
      BY <3>1, <3>2, <3>3, GetStep
  <2>3. CASE ObtainSleep(t, s, mode)
    <3> DEFINE r0 == [node |-> t, mode |-> mode]
    <3>1. /\ r0 \in Request /\ r0.node = t /\ Enlist(s, r0) /\ ~IsFree(s) /\ bid' = bid
      BY <2>3 DEF ObtainSleep, Available, Request
    <3>2. KeepsLocks({}) /\ ~InQueue(t, s)
      BY <1>1, <2>3, ObtainSleepLocks
    <3> HIDE DEF r0
    <3> QED
      BY <3>1, <3>2, AskStep
  <2>4. CASE AttemptFails(t, s, mode)
    BY <1>2, <2>4 DEF AttemptFails
  <2> QED
    BY <2>1, <2>2, <2>3, <2>4
<1>4. CASE ReleaseStep
  <2>1. PICK caller \in Tasks, t \in Tasks, s \in Sems, mode \in Modes :
            Release(caller, t, s, mode)
    BY <1>4 DEF ReleaseStep
  <2>2. /\ obtained[t][s][mode] \in Nat /\ PassesLock(t, mode, obtained[t][s][mode], s, {})
        /\ ServesOnly(ServedBy(s), s, ssmSemaphore)
    BY <1>1, <2>1, ReleaseLocks
  <2>3. bid' = bid /\ t \in Clients
    BY <2>1 DEF Release, Clients
  <2> QED
    BY <2>2, <2>3, GiveBackStep
<1>5. CASE ProcureStep
  <2>1. PICK t \in Tasks, m \in Msgs, s \in Sems, mode \in Modes :
            ProcureNow(t, m, s, mode) \/ ProcureQueue(t, m, s, mode)
    BY <1>5 DEF ProcureStep
  <2>2. m \in Clients /\ \A n \in Msgs : bid[n] # NULL => bid'[n] = bid[n]
    BY <1>1, <2>1 DEF ProcureNow, ProcureQueue, TypeOK, Clients
  <2>3. CASE ProcureNow(t, m, s, mode)
    <3>1. ssWaitQueue' = ssWaitQueue
      BY <2>3 DEF ProcureNow, Acquire
    <3>2. GainsLock(m, mode, 0, s, {})
      BY <1>1, <2>3, ProcureNowLocks
    <3> QED
      BY <2>2, <3>1, <3>2, GetStep
  <2>4. CASE ProcureQueue(t, m, s, mode)
    <3> DEFINE r0 == [node |-> m, mode |-> mode]
    <3>1. r0 \in Request /\ r0.node = m /\ Enlist(s, r0) /\ ~IsFree(s)
      BY <2>4 DEF ProcureQueue, Request
    <3>2. KeepsLocks({}) /\ ~InQueue(m, s)
      BY <1>1, <2>4, ProcureQueueLocks
    <3> HIDE DEF r0
    <3> QED
      BY <2>2, <3>1, <3>2, AskStep
  <2> QED
    BY <2>1, <2>3, <2>4
<1>6. ASSUME NEW m \in Msgs, CollectReply(m) PROVE UNCHANGED RW!lockVars
  <2>1. \A n \in Msgs : Queued(n)' <=> Queued(n)
    BY <1>1, <1>6 DEF CollectReply, TypeOK, Queued
  <2> QED
    BY <1>6, <2>1, IdleStep DEF CollectReply
<1>7. ASSUME NEW m \in Msgs, VacateGranted(m) PROVE RW!Next
  <2>1. /\ bid[m].sem \in Sems /\ bid[m].mode \in Modes
        /\ PassesLock(m, bid[m].mode, 0, bid[m].sem, {})
        /\ ServesOnly(ServedBy(bid[m].sem), bid[m].sem, Forget(m))
    BY <1>1, <1>7, VacateGrantedLocks
  <2>2. m \in Clients /\ ~Queued(m) /\ \A n \in Msgs : n # m => bid'[n] = bid[n]
    BY <1>1, <1>7 DEF VacateGranted, TypeOK, Clients
  <2> QED
    BY <2>1, <2>2, GiveBackStep
<1>8. CASE MessageStep
  BY <1>6, <1>7, <1>8, WithdrawStep DEF MessageStep
<1>9. CASE SignalStep
  <2>1. ASSUME NEW t \in Tasks, StraySingle(t) PROVE UNCHANGED RW!lockVars
    BY <2>1, IdleStep DEF StraySingle, msgVars, Queued
  <2> QED
    BY <1>9, <2>1, ReturnStep DEF SignalStep
<1> QED
  BY <1>2, <1>3, <1>4, <1>5, <1>8, <1>9 DEF Next

LEMMA InitImplements == Init => RW!Init
<1> SUFFICES ASSUME Init PROVE RW!Init
  OBVIOUS
<1>1. TypeOK
  BY InitIInv DEF IInv
<1>2. HeldAreLocks /\ AskedAreQueued
  BY <1>1, HeldElements, AskedElements
<1>3. ASSUME NEW s \in Sems, NEW who \in Clients, NEW mode \in Modes, NEW n \in Nat
      PROVE  ~IsLock(who, mode, n, s, {})
  BY DEF Init, IsLock
<1>4. \A s \in Sems : Entries(ssWaitQueue[s]) = {}
  BY EmptyQueueFacts DEF Init
<1>5. \A s \in Sems : heldTokens[s] = {}
  BY <1>2, <1>3 DEF HeldAreLocks
<1>6. \A s \in Sems : askedTokens[s] = {}
  BY <1>2, <1>4 DEF AskedAreQueued
<1>7. /\ heldTokens = [s \in Sems |-> heldTokens[s]]
      /\ askedTokens = [s \in Sems |-> askedTokens[s]]
  BY DEF heldTokens, askedTokens
<1>8. heldTokens = [s \in Sems |-> {}]
  BY <1>5, <1>7
<1>9. askedTokens = [s \in Sems |-> {}]
  BY <1>6, <1>7
<1> QED
  BY <1>8, <1>9 DEF RW!Init

(* The semaphore calls implement the readers-writer lock: exclusion, and   *)
(* no lock becomes free while anybody waits for it but it goes to one      *)
(* writer or to all the readers in the same step, for any number of tasks, *)
(* semaphores and messages.                                                *)
THEOREM SpecImplementsLock == Spec => ImplementsLock
<1>1. Init => NestInv
  BY InitNest
<1>2. IInv({}) /\ IInv({})' /\ NestInv /\ [Next]_vars => NestInv'
  BY NextNest
<1>3. Spec => []Known
  BY <1>1, <1>2, SpecIInv, SpecLInv, PTL DEF Spec, Known
<1>4. Init => RW!Init
  BY InitImplements
<1>5. Known /\ Known' /\ [Next]_vars => [RW!Next]_(RW!lockVars)
  BY StepImplements
<1> QED
  BY <1>3, <1>4, <1>5, PTL DEF Spec, ImplementsLock, RW!Spec
=============================================================================

