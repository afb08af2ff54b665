------------------------ MODULE SemaphoreListProofs ------------------------
(***************************************************************************)
(* Theorems about SemaphoreList, for any tasks, semaphores and messages    *)
(* and any list.                                                           *)
(*                                                                         *)
(* The invariants of SignalSemaphoreProofs and SemaphoreLockProofs hold    *)
(* with the pairs of the sleeping call and the semaphores of its list as   *)
(* the requests that are not ObtainSemaphore's (Asked).  Added is what the *)
(* call knows while it sleeps: where it has been in the list, and that a   *)
(* semaphore given to it behind its back has left the signal.              *)
(***************************************************************************)
EXTENDS SemaphoreList, SemaphoreLockProofs

Asked == IF lister = NULL THEN {} ELSE {<<lister, s>> : s \in Listed}

(* Task l sleeps in the call and has come to place p of the list.          *)
SleepsAt(l, p) ==
    /\ l \in Tasks /\ Running(l)
    /\ p \in 1..Len(List)
    /\ \A i \in 1..(p - 1) : ~InQueue(l, List[i])
    /\ ~InQueue(l, List[p]) => sigSingle[l]
    /\ \A s \in Listed : InQueue(l, s) => ssOwner[s] # l
    /\ \A m \in Msgs : Queued(m) /\ bid[m].sem \in Listed => bid[m].task # l

(* The variables are named by bound ones, which a step does not change.    *)
ListerInv == \A l, p : l = lister /\ p = at /\ l # NULL => SleepsAt(l, p)

SemsInv == \A x : x = Asked => IInv(x) /\ LInv(x)

ListIInv == ListTypeOK /\ SemsInv /\ ListerInv

-----------------------------------------------------------------------------
(* The list and the loop over it                                           *)

LEMMA ListFacts ==
    /\ Len(List) \in Nat /\ DOMAIN List = 1..Len(List)
    /\ \A i \in 1..Len(List) : List[i] \in Sems /\ List[i] \in Listed
    /\ Listed \subseteq Sems /\ IsFiniteSet(Listed)
    /\ \A s \in Listed : \E i \in 1..Len(List) : s = List[i]
<1>1. List \in Seq(Sems)
  BY ListAssumption
<1>2. /\ Len(List) \in Nat /\ DOMAIN List = 1..Len(List)
      /\ \A i \in 1..Len(List) : List[i] \in Sems
  BY <1>1, LenProperties, ElementOfSeq
<1>3. /\ \A i \in 1..Len(List) : List[i] \in Listed
      /\ \A s \in Listed : \E i \in 1..Len(List) : s = List[i]
  BY <1>2 DEF Listed
<1>4. IsFiniteSet(Listed)
  <2>1. List \in [1..Len(List) -> Listed]
    BY <1>1, <1>2, <1>3
  <2>2. List \in Surjection(1..Len(List), Listed)
    BY <1>3, <2>1 DEF Surjection
  <2>3. IsFiniteSet(1..Len(List))
    BY <1>2, FS_Interval
  <2> QED
    BY <2>2, <2>3, FS_Surjection
<1> QED
  BY <1>2, <1>3, <1>4

LEMMA NextFacts ==
    ASSUME NEW t, NEW i \in 1..(Len(List) + 1), NEW owner
    PROVE  LET j == NextToWaitFor(t, i, owner)
           IN  /\ j \in i..(Len(List) + 1)
               /\ \A k \in i..(j - 1) : owner[List[k]] = t
               /\ j <= Len(List) => owner[List[j]] # t
<1> DEFINE n == Len(List)
           T == {j \in i..(n + 1) : j <= n => owner[List[j]] # t}
<1>1. n \in Nat
  BY ListFacts
<1> HIDE DEF n
<1>2. T \subseteq Nat /\ n + 1 \in T
  BY <1>1 DEF n
<1>3. PICK j \in T : \A y \in T : j <= y
  BY <1>2, LeastOf
<1>4. j \in i..(n + 1) /\ (j <= n => owner[List[j]] # t)
  BY <1>3
<1>5. ASSUME NEW k \in i..(j - 1) PROVE owner[List[k]] = t
  <2>1. k \in i..(n + 1) /\ k <= n /\ ~(j <= k)
    BY <1>1, <1>4 DEF n
  <2>2. k \notin T
    BY <1>3, <2>1
  <2> QED
    BY <2>1, <2>2
<1> QED
  BY <1>4, <1>5 DEF NextToWaitFor, n

-----------------------------------------------------------------------------
(* The steps of the others                                                 *)

LEMMA IdleIInv ==
    ASSUME NEW X, IInv(X), LInv(X), UNCHANGED vars
    PROVE  IInv(X)' /\ LInv(X)'
<1>1. TypeOK' /\ Balanced'
  BY DEF IInv, TypeOK, Balanced, vars, semVars, clientVars, msgVars
<1>2. QueueInv(X)'
  BY QueuesKept DEF IInv, vars, semVars, clientVars, msgVars, Queued, Running
<1>3. WakeInv'
  BY WakeKept DEF IInv, vars, semVars, clientVars, msgVars, Running
<1>4. IInv(X)'
  BY <1>1, <1>2, <1>3 DEF IInv
<1> QED
  BY <1>4, IdleLInv DEF vars, msgVars, Queued

LEMMA OthersKeepSems ==
    ASSUME NEW X, IInv(X), LInv(X), OthersStep,
           \A t \in Tasks : t # lister => \A s : <<t, s>> \notin X
    PROVE  IInv(X)' /\ LInv(X)'
<1>1. ASSUME NEW t \in Tasks, NEW s \in Sems, NEW mode \in Modes,
             ObtainNow(t, s, mode) \/ AttemptSucceeds(t, s, mode)
      PROVE  IInv(X)' /\ LInv(X)'
  <2>1. IInv(X)'
    BY <1>1, ObtainNowIInv DEF ObtainNow, AttemptSucceeds
  <2> QED
    BY <1>1, <2>1, ObtainNowLInv DEF ObtainNow, AttemptSucceeds
<1>2. ASSUME NEW t \in Tasks, t # lister, NEW s \in Sems, NEW mode \in Modes,
             ObtainSleep(t, s, mode)
      PROVE  IInv(X)' /\ LInv(X)'
  <2>1. \A s2 : <<t, s2>> \notin X
    BY <1>2
  <2>2. IInv(X)'
    BY <1>2, <2>1, ObtainSleepIInv
  <2> QED
    BY <1>2, <2>1, <2>2, ObtainSleepLInv
<1>3. ASSUME NEW t \in Tasks, NEW s \in Sems, NEW mode \in Modes, AttemptFails(t, s, mode)
      PROVE  IInv(X)' /\ LInv(X)'
  BY <1>3, IdleIInv DEF AttemptFails
<1>4. ASSUME NEW t \in Tasks, NEW m \in Msgs, NEW s \in Sems, NEW mode \in Modes,
             ProcureNow(t, m, s, mode)
      PROVE  IInv(X)' /\ LInv(X)'
  <2>1. IInv(X)'
    BY <1>4, ProcureNowIInv
  <2> QED
    BY <1>4, <2>1, ProcureNowLInv
<1>5. ASSUME NEW t \in Tasks, NEW m \in Msgs, NEW s \in Sems, NEW mode \in Modes,
             ProcureQueue(t, m, s, mode)
      PROVE  IInv(X)' /\ LInv(X)'
  <2>1. IInv(X)'
    BY <1>5, ProcureQueueIInv
  <2> QED
    BY <1>5, <2>1, ProcureQueueLInv
<1>6. ASSUME NEW caller \in Tasks, NEW t \in Tasks, NEW s \in Sems, NEW mode \in Modes,
             Release(caller, t, s, mode)
      PROVE  IInv(X)' /\ LInv(X)'
  <2>1. IInv(X)'
    BY <1>6, ReleaseIInv
  <2> QED
    BY <1>6, <2>1, ReleaseLInv
<1>7. ASSUME NEW m \in Msgs, CollectReply(m) PROVE IInv(X)' /\ LInv(X)'
  <2>1. IInv(X)'
    BY <1>7, CollectReplyIInv
  <2>2. \A n \in Msgs : Queued(n)' <=> Queued(n)
    BY <1>7 DEF CollectReply, IInv, TypeOK, Queued
  <2> QED
    BY <1>7, <2>1, <2>2, IdleLInv DEF CollectReply
<1>8. ASSUME NEW m \in Msgs, VacateQueued(m) PROVE IInv(X)' /\ LInv(X)'
  <2>1. IInv(X)'
    BY <1>8, VacateQueuedIInv
  <2> QED
    BY <1>8, <2>1, VacateQueuedLInv
<1>9. ASSUME NEW m \in Msgs, VacateGranted(m) PROVE IInv(X)' /\ LInv(X)'
  <2>1. IInv(X)'
    BY <1>9, VacateGrantedIInv
  <2> QED
    BY <1>9, <2>1, VacateGrantedLInv
<1>10. ASSUME NEW t \in Tasks, ObtainAwake(t) PROVE IInv(X)' /\ LInv(X)'
  <2>1. IInv(X)'
    BY <1>10, ObtainAwakeIInv
  <2> QED
    BY <1>10, <2>1, ObtainAwakeLInv
<1>11. ASSUME NEW t \in Tasks, StraySingle(t) PROVE IInv(X)' /\ LInv(X)'
  <2>1. IInv(X)'
    BY <1>11, StraySingleIInv
  <2> QED
    BY <1>11, <2>1, IdleLInv DEF StraySingle, msgVars, Queued
<1> QED
  BY <1>1, <1>2, <1>3, <1>4, <1>5, <1>6, <1>7, <1>8, <1>9, <1>10, <1>11
  DEF OthersStep, SignalStep

(* What l, asleep in the call, can see of a step of another.               *)
KeepsLister(l) ==
    /\ waitingFor'[l] = waitingFor[l]
    /\ \A s \in Sems : InQueue(l, s)' => InQueue(l, s)
    /\ \A s \in Sems : InQueue(l, s) => InQueue(l, s)' \/ sigSingle'[l]
    /\ sigSingle[l] => sigSingle'[l]
    /\ \A s \in Listed : InQueue(l, s)' /\ ssOwner[s] # l => ssOwner'[s] # l
    /\ \A m \in Msgs : Queued(m)' => bid'[m].task # l \/ (Queued(m) /\ bid'[m] = bid[m])

LEMMA SameQueues ==
    ASSUME NEW l, ssWaitQueue' = ssWaitQueue
    PROVE  \A s \in Sems : InQueue(l, s)' <=> InQueue(l, s)
  BY DEF InQueue

LEMMA AcquireKeepsLister ==
    ASSUME TypeOK, NEW l \in Tasks, NEW t \in Tasks, t # l, NEW s \in Sems, NEW mode \in Modes,
           Acquire(s, OwnerFor(t, mode)), UNCHANGED <<sigSingle, waitingFor>>,
           \A m \in Msgs : Queued(m)' => Queued(m) /\ bid'[m] = bid[m]
    PROVE  KeepsLister(l)
<1>1. ssWaitQueue' = ssWaitQueue
  BY DEF Acquire
<1>2. OwnerFor(t, mode) # l
  BY ConstantsAssumption DEF OwnerFor
<1>3. \A s2 \in Sems : ssOwner[s2] # l => ssOwner'[s2] # l
  BY <1>2 DEF Acquire, TypeOK
<1> QED
  BY <1>1, <1>3, SameQueues, ListFacts DEF KeepsLister

LEMMA EnlistKeepsLister ==
    ASSUME NEW l \in Tasks, NEW s \in Sems, NEW x \in Request, x.node # l, TypeOK,
           Enlist(s, x), sigSingle'[l] = sigSingle[l], waitingFor'[l] = waitingFor[l],
           \A m \in Msgs : Queued(m)' => bid'[m].task # l \/ (Queued(m) /\ bid'[m] = bid[m])
    PROVE  KeepsLister(l)
<1>1. ssOwner' = ssOwner /\ ssWaitQueue' = [ssWaitQueue EXCEPT ![s] = Append(@, x)]
  BY DEF Enlist
<1>2. ssWaitQueue[s] \in Seq(Request) /\ ssWaitQueue \in [Sems -> Seq(Request)]
  BY DEF TypeOK
<1>3. Entries(Append(ssWaitQueue[s], x)) = Entries(ssWaitQueue[s]) \cup {x}
  BY <1>2, AppendFacts
<1>4. \A s2 \in Sems : InQueue(l, s2)' <=> InQueue(l, s2)
  <2>1. ssWaitQueue'[s] = Append(ssWaitQueue[s], x)
    BY <1>1, <1>2
  <2>2. \A s2 \in Sems : s2 # s => ssWaitQueue'[s2] = ssWaitQueue[s2]
    BY <1>1, <1>2
  <2> QED
    BY <1>3, <2>1, <2>2 DEF InQueue
<1> QED
  BY <1>1, <1>4 DEF KeepsLister

LEMMA ServeKeepsLister ==
    ASSUME NEW X, IInv(X), NEW l \in Tasks, NEW s \in Sems, NEW ssm,
           \A m \in Msgs : Queued(m) => ssm[m] = ssmSemaphore[m] /\ bid'[m] = bid[m],
           ReleaseSem(s, ssm), ServesOnly(ServedBy(s), s, ssm), waitingFor' = waitingFor,
           \A m \in Msgs : Queued(m) /\ bid[m].sem \in Listed => bid[m].task # l
    PROVE  KeepsLister(l)
<1> DEFINE q == ssWaitQueue[s]
<1>1. \A s2 \in Sems : InQueue(l, s2)' <=> InQueue(l, s2) /\ ~(s2 = s /\ l \in ServedBy(s))
  BY ServedInQueue
<1>2. sigSingle'[l] <=> sigSingle[l] \/ l \in ServedBy(s)
  BY DEF ServesOnly
<1>3. \A m \in Msgs : Queued(m)' => Queued(m) /\ bid'[m] = bid[m]
  BY DEF ServesOnly, Queued
<1>4. TypeOK /\ QueueInv(X)
  BY DEF IInv
<1>5. ASSUME ssNestCount[s] = 1, AnyQueued(s), NextOwner(q, ssm) = l, s \in Listed
      PROVE  l \in ServedBy(s)
  <2>1. ~Empty(q)
    BY <1>5 DEF AnyQueued, Empty
  <2>2. /\ q[1] \in Entries(q)
        /\ NextOwner(q, ssm) = IF q[1].mode = "shared" THEN NULL
                               ELSE IF q[1].node \in Tasks THEN q[1].node
                               ELSE bid[q[1].node].task
    BY <1>4, <2>1, NextOwnerFacts
  <2>3. q[1].node \in ServedNodes(q)
    BY <1>5, <2>2, ConstantsAssumption DEF ServedNodes, Served
  <2>4. q[1].node \in ServedBy(s) /\ InQueue(q[1].node, s)
    BY <1>5, <2>2, <2>3 DEF ServedBy, InQueue
  <2>5. CASE q[1].node \in Tasks
    BY <1>5, <2>2, <2>4, <2>5, ConstantsAssumption
  <2>6. CASE q[1].node \notin Tasks
    <3>1. q[1].node \in Msgs /\ Queued(q[1].node) /\ bid[q[1].node].sem = s
      BY <1>4, <2>4, <2>6, WhoIsQueued
    <3>2. bid[q[1].node].task = l
      BY <1>5, <2>2, <2>6, ConstantsAssumption
    <3> QED
      BY <1>5, <3>1, <3>2
  <2> QED
    BY <2>5, <2>6
<1>6. ASSUME NEW s2 \in Listed, InQueue(l, s2)', ssOwner[s2] # l PROVE ssOwner'[s2] # l
  <2>1. s2 \in Sems /\ l # NULL
    BY ListFacts, ConstantsAssumption
  <2>2. ssOwner' = [ssOwner EXCEPT ![s] =
                      IF ssNestCount[s] = 1 /\ AnyQueued(s) THEN NextOwner(q, ssm)
                      ELSE IF ssNestCount[s] = 1 THEN NULL ELSE @]
    BY DEF ReleaseSem
  <2>3. ssOwner \in [Sems -> Tasks \cup {NULL}]
    BY <1>4 DEF TypeOK
  <2>4. CASE s2 # s
    BY <1>6, <2>1, <2>2, <2>3, <2>4
  <2>5. CASE s2 = s
    <3>1. l \notin ServedBy(s)
      BY <1>1, <1>6, <2>1, <2>5
    <3>2. ~(ssNestCount[s] = 1 /\ AnyQueued(s) /\ NextOwner(q, ssm) = l)
      BY <1>5, <2>5, <3>1
    <3> HIDE DEF q
    <3> QED
      BY <1>6, <2>1, <2>2, <2>3, <2>5, <3>2
  <2> QED
    BY <2>4, <2>5
<1> QED
  BY <1>1, <1>2, <1>3, <1>6 DEF KeepsLister

LEMMA QuietKeepsLister ==
    ASSUME NEW l \in Tasks, UNCHANGED semVars, waitingFor'[l] = waitingFor[l],
           sigSingle[l] => sigSingle'[l],
           \A m \in Msgs : Queued(m)' => Queued(m) /\ bid'[m] = bid[m]
    PROVE  KeepsLister(l)
<1>1. \A s \in Sems : InQueue(l, s)' <=> InQueue(l, s)
  BY SameQueues DEF semVars
<1> QED
  BY <1>1 DEF KeepsLister, semVars

LEMMA OthersKeepLister ==
    ASSUME NEW X, IInv(X), OthersStep, NEW l, l = lister, NEW p, SleepsAt(l, p)
    PROVE  KeepsLister(l)
<1>1. /\ Running(l) /\ l \in Tasks /\ l \notin Msgs /\ l # NULL
      /\ \A m \in Msgs : Queued(m) /\ bid[m].sem \in Listed => bid[m].task # l
  BY ConstantsAssumption DEF SleepsAt
<1>2. TypeOK /\ waitingFor \in [Tasks -> Want \cup {NULL}] /\ sigSingle \in [Tasks -> BOOLEAN]
  BY DEF IInv, TypeOK
<1>3. ASSUME NEW t \in Tasks, t # l, NEW s \in Sems, NEW mode \in Modes,
             ObtainNow(t, s, mode) \/ AttemptSucceeds(t, s, mode)
      PROVE  KeepsLister(l)
  <2>1. /\ Acquire(s, OwnerFor(t, mode)) /\ UNCHANGED <<sigSingle, waitingFor>>
        /\ \A m \in Msgs : Queued(m)' => Queued(m) /\ bid'[m] = bid[m]
    BY <1>3 DEF ObtainNow, AttemptSucceeds, msgVars, Queued
  <2> QED
    BY <1>1, <1>2, <1>3, <2>1, AcquireKeepsLister
<1>4. ASSUME NEW t \in Tasks, t # l, NEW s \in Sems, NEW mode \in Modes, ObtainSleep(t, s, mode)
      PROVE  KeepsLister(l)
  <2> DEFINE x == [node |-> t, mode |-> mode]
  <2>1. Enlist(s, x) /\ x \in Request /\ x.node # l
    BY <1>4 DEF ObtainSleep, Request
  <2>2. sigSingle'[l] = sigSingle[l] /\ waitingFor'[l] = waitingFor[l]
    BY <1>1, <1>2, <1>4 DEF ObtainSleep, ClearSingle
  <2>3. \A m \in Msgs : Queued(m)' => Queued(m) /\ bid'[m] = bid[m]
    BY <1>4 DEF ObtainSleep, msgVars, Queued
  <2> QED
    BY <1>1, <1>2, <2>1, <2>2, <2>3, EnlistKeepsLister
<1>5. ASSUME NEW t \in Tasks, t # l, NEW m \in Msgs, NEW s \in Sems, NEW mode \in Modes,
             ProcureNow(t, m, s, mode)
      PROVE  KeepsLister(l)
  <2>1. Acquire(s, OwnerFor(t, mode)) /\ UNCHANGED <<sigSingle, waitingFor>>
    BY <1>5 DEF ProcureNow
  <2>2. \A n \in Msgs : Queued(n)' => Queued(n) /\ bid'[n] = bid[n]
    BY <1>2, <1>5 DEF ProcureNow, Queued, TypeOK
  <2> QED
    BY <1>1, <1>2, <1>5, <2>1, <2>2, AcquireKeepsLister
<1>6. ASSUME NEW t \in Tasks, t # l, NEW m \in Msgs, NEW s \in Sems, NEW mode \in Modes,
             ProcureQueue(t, m, s, mode)
      PROVE  KeepsLister(l)
  <2> DEFINE x == [node |-> m, mode |-> mode]
  <2>1. Enlist(s, x) /\ x \in Request /\ x.node # l
    BY <1>1, <1>6 DEF ProcureQueue, Request
  <2>2. sigSingle'[l] = sigSingle[l] /\ waitingFor'[l] = waitingFor[l]
    BY <1>6 DEF ProcureQueue
  <2>3. \A n \in Msgs : Queued(n)' => bid'[n].task # l \/ (Queued(n) /\ bid'[n] = bid[n])
    <3>1. bid'[m] = [task |-> t, sem |-> s, mode |-> mode]
      BY <1>2, <1>6 DEF ProcureQueue, TypeOK
    <3>2. bid'[m].task # l
      BY <1>6, <3>1
    <3>3. \A n \in Msgs : n # m => bid'[n] = bid[n] /\ (Queued(n)' <=> Queued(n))
      BY <1>2, <1>6 DEF ProcureQueue, Queued, TypeOK
    <3> QED
      BY <3>2, <3>3
  <2> QED
    BY <1>1, <1>2, <2>1, <2>2, <2>3, EnlistKeepsLister
<1>7. ASSUME NEW caller \in Tasks, NEW t \in Tasks, NEW s \in Sems, NEW mode \in Modes,
             Release(caller, t, s, mode)
      PROVE  KeepsLister(l)
  <2>1. ReleaseSem(s, ssmSemaphore) /\ waitingFor' = waitingFor /\ bid' = bid
    BY <1>7 DEF Release
  <2>2. ServesOnly(ServedBy(s), s, ssmSemaphore)
    BY <1>7, ReleaseLocks
  <2> QED
    BY <1>1, <2>1, <2>2, ServeKeepsLister
<1>8. ASSUME NEW m \in Msgs, VacateGranted(m) PROVE KeepsLister(l)
  <2>1. /\ bid[m].sem \in Sems
        /\ ServesOnly(ServedBy(bid[m].sem), bid[m].sem, Forget(m))
        /\ \A n \in Msgs : Queued(n) => Forget(m)[n] = ssmSemaphore[n]
    BY <1>8, VacateGrantedLocks
  <2>2. /\ ReleaseSem(bid[m].sem, Forget(m)) /\ waitingFor' = waitingFor /\ ~Queued(m)
        /\ bid' = [bid EXCEPT ![m] = NULL]
    BY <1>8 DEF VacateGranted
  <2>3. \A n \in Msgs : Queued(n) => bid'[n] = bid[n]
    BY <1>2, <2>2 DEF TypeOK
  <2> QED
    BY <1>1, <2>1, <2>2, <2>3, ServeKeepsLister
<1>9. ASSUME NEW m \in Msgs, VacateQueued(m) PROVE KeepsLister(l)
  <2> PICK s \in Sems : s = bid[m].sem
    BY <1>9, VacateQueuedLocks
  <2>1. /\ s \in Sems
        /\ \A s2 \in Sems : s2 # s => ssWaitQueue'[s2] = ssWaitQueue[s2]
        /\ \A x \in Entries(ssWaitQueue'[s]) : x \in Entries(ssWaitQueue[s])
        /\ \A x \in Entries(ssWaitQueue[s]) : x \in Entries(ssWaitQueue'[s]) <=> x.node # m
    BY <1>9, VacateQueuedLocks
  <2>2. \A s2 \in Sems : InQueue(l, s2)' <=> InQueue(l, s2)
    <3>1. l # m
      BY <1>1
    <3>2. InQueue(l, s)' <=> InQueue(l, s)
      <4>1. ASSUME NEW x1 \in Entries(ssWaitQueue'[s]), x1.node = l
            PROVE  x1 \in Entries(ssWaitQueue[s])
        BY <2>1
      <4>2. ASSUME NEW x1 \in Entries(ssWaitQueue[s]), x1.node = l
            PROVE  x1 \in Entries(ssWaitQueue'[s])
        BY <2>1, <3>1, <4>2
      <4> QED
        BY <4>1, <4>2 DEF InQueue
    <3> QED
      BY <2>1, <3>2 DEF InQueue
  <2>3. /\ UNCHANGED <<ssOwner, sigSingle, waitingFor>>
        /\ \A n \in Msgs : Queued(n)' => Queued(n) /\ bid'[n] = bid[n]
    BY <1>2, <1>9 DEF VacateQueued, Queued, TypeOK
  <2> QED
    BY <2>2, <2>3 DEF KeepsLister
<1>10. ASSUME NEW m \in Msgs, CollectReply(m) PROVE KeepsLister(l)
  <2>1. \A n \in Msgs : Queued(n)' => Queued(n)
    BY <1>2, <1>10 DEF CollectReply, Queued, TypeOK
  <2> QED
    BY <1>1, <1>10, <2>1, QuietKeepsLister DEF CollectReply, clientVars
<1>11. ASSUME NEW t \in Tasks, ObtainAwake(t) PROVE KeepsLister(l)
  <2>1. t # l
    BY <1>1, <1>11 DEF ObtainAwake
  <2>2. waitingFor'[l] = waitingFor[l] /\ (sigSingle[l] => sigSingle'[l])
    BY <1>1, <1>2, <1>11, <2>1 DEF ObtainAwake
  <2>3. UNCHANGED semVars /\ \A m \in Msgs : Queued(m)' => Queued(m) /\ bid'[m] = bid[m]
    BY <1>11 DEF ObtainAwake, msgVars, Queued
  <2> QED
    BY <1>1, <2>2, <2>3, QuietKeepsLister
<1>12. ASSUME NEW t \in Tasks, StraySingle(t) PROVE KeepsLister(l)
  <2>1. waitingFor'[l] = waitingFor[l] /\ (sigSingle[l] => sigSingle'[l])
    BY <1>1, <1>2, <1>12 DEF StraySingle, clientVars
  <2>2. UNCHANGED semVars /\ \A m \in Msgs : Queued(m)' => Queued(m) /\ bid'[m] = bid[m]
    BY <1>12 DEF StraySingle, msgVars, clientVars, Queued
  <2> QED
    BY <1>1, <2>1, <2>2, QuietKeepsLister
<1>13. ASSUME NEW t \in Tasks, NEW s \in Sems, NEW mode \in Modes, AttemptFails(t, s, mode)
       PROVE  KeepsLister(l)
  <2>1. waitingFor' = waitingFor /\ sigSingle' = sigSingle /\ UNCHANGED semVars
    BY <1>13 DEF AttemptFails, vars, clientVars
  <2>2. \A m \in Msgs : Queued(m)' => Queued(m) /\ bid'[m] = bid[m]
    BY <1>13 DEF AttemptFails, vars, msgVars, clientVars, Queued
  <2> QED
    BY <1>1, <2>1, <2>2, QuietKeepsLister
<1> QED
  BY <1>3, <1>4, <1>5, <1>6, <1>7, <1>8, <1>9, <1>10, <1>11, <1>12, <1>13
  DEF OthersStep, SignalStep

LEMMA KeptAsleep ==
    ASSUME NEW l, NEW p, SleepsAt(l, p), KeepsLister(l)
    PROVE  SleepsAt(l, p)'
<1>1. /\ l \in Tasks /\ Running(l) /\ p \in 1..Len(List)
      /\ \A i \in 1..(p - 1) : ~InQueue(l, List[i])
      /\ ~InQueue(l, List[p]) => sigSingle[l]
      /\ \A s \in Listed : InQueue(l, s) => ssOwner[s] # l
      /\ \A m \in Msgs : Queued(m) /\ bid[m].sem \in Listed => bid[m].task # l
  BY DEF SleepsAt
<1>2. List[p] \in Sems /\ \A i \in 1..(p - 1) : List[i] \in Sems
  BY <1>1, ListFacts
<1>3. Running(l)' /\ \A i \in 1..(p - 1) : ~InQueue(l, List[i])'
  BY <1>1, <1>2 DEF KeepsLister, Running
<1>4. ~InQueue(l, List[p])' => sigSingle'[l]
  BY <1>1, <1>2 DEF KeepsLister
<1>5. \A s \in Listed : InQueue(l, s)' => ssOwner'[s] # l
  <2>1. Listed \subseteq Sems
    BY ListFacts
  <2> QED
    BY <1>1, <2>1 DEF KeepsLister
<1>6. \A m \in Msgs : Queued(m)' /\ bid'[m].sem \in Listed => bid'[m].task # l
  BY <1>1 DEF KeepsLister
<1> QED
  BY <1>1, <1>3, <1>4, <1>5, <1>6 DEF SleepsAt

LEMMA OthersInv ==
    ASSUME ListIInv, OthersStep
    PROVE  ListIInv'
<1>1. UNCHANGED <<lister, at, failedObtain>>
  BY DEF OthersStep, listVars
<1>2. Asked' = Asked
  BY <1>1 DEF Asked
<1>3. ASSUME NEW x, x = Asked PROVE IInv(x)' /\ LInv(x)'
  <2>1. IInv(x) /\ LInv(x)
    BY <1>3 DEF ListIInv, SemsInv
  <2>2. \A t \in Tasks : t # lister => \A s : <<t, s>> \notin x
    BY <1>3 DEF Asked
  <2> QED
    BY <2>1, <2>2, OthersKeepSems
<1>4. SemsInv'
  BY <1>2, <1>3 DEF SemsInv
<1>5. TypeOK'
  <2> PICK x : x = Asked
    OBVIOUS
  <2> QED
    BY <1>3 DEF IInv
<1>6. ListTypeOK'
  BY <1>1, <1>5 DEF ListIInv, ListTypeOK
<1>7. ASSUME NEW l, NEW p, l = lister, p = at, l # NULL PROVE SleepsAt(l, p)'
  <2>1. SleepsAt(l, p)
    BY <1>7 DEF ListIInv, ListerInv
  <2> PICK x : x = Asked
    OBVIOUS
  <2>2. IInv(x)
    BY DEF ListIInv, SemsInv
  <2>3. KeepsLister(l)
    BY <1>7, <2>1, <2>2, OthersKeepLister
  <2> QED
    BY <2>1, <2>3, KeptAsleep
<1>8. ListerInv'
  BY <1>1, <1>7 DEF ListerInv
<1> QED
  BY <1>4, <1>6, <1>8 DEF ListIInv

LEMMA StutterInv ==
    ASSUME ListIInv, UNCHANGED allVars
    PROVE  ListIInv'
<1>1. UNCHANGED vars /\ UNCHANGED <<lister, at, failedObtain>>
  BY DEF allVars, listVars
<1>2. Asked' = Asked
  BY <1>1 DEF Asked
<1>3. SemsInv'
  BY <1>1, <1>2, IdleIInv DEF ListIInv, SemsInv
<1>4. ListTypeOK'
  BY <1>1 DEF ListIInv, ListTypeOK, TypeOK, vars, semVars, clientVars, msgVars
<1>5. ASSUME NEW l, NEW p, l = lister, p = at, l # NULL PROVE SleepsAt(l, p)'
  <2>1. SleepsAt(l, p)
    BY <1>5 DEF ListIInv, ListerInv
  <2>2. /\ waitingFor' = waitingFor /\ sigSingle' = sigSingle /\ UNCHANGED semVars
        /\ \A m \in Msgs : Queued(m)' => Queued(m) /\ bid'[m] = bid[m]
    BY <1>1 DEF vars, msgVars, clientVars, Queued
  <2>3. l \in Tasks
    BY <2>1 DEF SleepsAt
  <2>4. KeepsLister(l)
    BY <2>2, <2>3, QuietKeepsLister
  <2> QED
    BY <2>1, <2>4, KeptAsleep
<1>6. ListerInv'
  BY <1>1, <1>5 DEF ListerInv
<1> QED
  BY <1>3, <1>4, <1>6 DEF ListIInv

-----------------------------------------------------------------------------
(* The steps of the call                                                   *)

LEMMA GivenIsOwned ==
    ASSUME NEW X, LInv(X), NEW l \in Tasks, NEW s \in Sems, <<l, s>> \in X, ~InQueue(l, s)
    PROVE  ssOwner[s] = l /\ IsLock(l, "exclusive", 0, s, X)
<1>1. IsLock(l, "exclusive", 0, s, X)
  BY DEF IsLock
<1>2. l \in Clients /\ "exclusive" \in Modes /\ 0 \in Nat
  BY DEF Clients, Modes
<1>3. Allowed(l, "exclusive", s)
  BY <1>1, <1>2 DEF LInv, OwnerInv
<1> QED
  BY <1>1, <1>3 DEF Allowed, TaskOf

(* What the sleeping call has not been given it is queued for.             *)
LEMMA AsleepFacts ==
    ASSUME ListIInv, NEW l, NEW p, l = lister, p = at, l # NULL
    PROVE  /\ l \in Tasks /\ SleepsAt(l, p)
           /\ \A s \in Listed : InQueue(l, s) <=> ssOwner[s] # l
           /\ \A i \in 1..(p - 1) : ssOwner[List[i]] = l
<1>1. SleepsAt(l, p) /\ l \in Tasks
  BY DEF ListIInv, ListerInv, SleepsAt
<1> PICK x : x = Asked
  OBVIOUS
<1>2. LInv(x) /\ \A s \in Listed : <<l, s>> \in x
  BY DEF ListIInv, SemsInv, Asked
<1>3. Listed \subseteq Sems
  BY ListFacts
<1>4. \A s \in Listed : ~InQueue(l, s) => ssOwner[s] = l
  BY <1>1, <1>2, <1>3, GivenIsOwned
<1>5. \A s \in Listed : InQueue(l, s) => ssOwner[s] # l
  BY <1>1 DEF SleepsAt
<1>6. \A i \in 1..(p - 1) : List[i] \in Listed /\ ~InQueue(l, List[i])
  BY <1>1, ListFacts DEF SleepsAt
<1> QED
  BY <1>1, <1>4, <1>5, <1>6

LEMMA AwakeAgainInv ==
    ASSUME ListIInv, NEW l \in Tasks, ListAwake(l), NextToWaitFor(l, at, ssOwner) <= Len(List)
    PROVE  ListIInv'
<1> PICK p : p = at
  OBVIOUS
<1> PICK j : j = NextToWaitFor(l, p, ssOwner)
  OBVIOUS
<1>1. /\ l = lister /\ l # NULL
      /\ sigSingle' = [sigSingle EXCEPT ![l] = FALSE]
      /\ UNCHANGED <<semVars, waitingFor, bid, msgVars>>
  BY ConstantsAssumption DEF ListAwake
<1>2. /\ SleepsAt(l, p)
      /\ \A s \in Listed : InQueue(l, s) <=> ssOwner[s] # l
      /\ \A i \in 1..(p - 1) : ssOwner[List[i]] = l
  BY <1>1, AsleepFacts
<1>3. p \in 1..Len(List) /\ Len(List) \in Nat /\ j <= Len(List)
  BY <1>2, ListFacts DEF SleepsAt
<1>4. /\ j \in p..(Len(List) + 1)
      /\ \A k \in p..(j - 1) : ssOwner[List[k]] = l
      /\ ssOwner[List[j]] # l
  <2>1. p \in 1..(Len(List) + 1)
    BY <1>3
  <2> DEFINE k == NextToWaitFor(l, p, ssOwner)
  <2>2. /\ k \in p..(Len(List) + 1)
        /\ \A i \in p..(k - 1) : ssOwner[List[i]] = l
        /\ k <= Len(List) => ssOwner[List[k]] # l
    BY <2>1, NextFacts
  <2> HIDE DEF k
  <2>3. k = j
    BY DEF k
  <2> QED
    BY <1>3, <2>2, <2>3
<1>5. lister' = l /\ at' = j /\ failedObtain' = failedObtain - (j - p) /\ obtained' = obtained
  BY <1>3, <1>4 DEF ListAwake, WaitLoop
<1>6. Asked' = Asked
  BY <1>1, <1>5 DEF Asked
<1>7. TypeOK /\ TypeOK'
  <2>1. TypeOK
    BY DEF ListIInv, ListTypeOK
  <2> QED
    BY <1>1, <1>5, <2>1 DEF TypeOK, semVars, msgVars
<1>8. ASSUME NEW x, x = Asked PROVE IInv(x)' /\ LInv(x)'
  <2>1. IInv(x) /\ LInv(x)
    BY <1>8 DEF ListIInv, SemsInv
  <2>2. QueueInv(x)'
    <3>1. /\ ssWaitQueue' = ssWaitQueue /\ waitingFor' = waitingFor /\ bid' = bid
          /\ ssmSemaphore' = ssmSemaphore
          /\ \A m \in Msgs : Queued(m)' <=> Queued(m)
          /\ \A t \in Tasks : Running(t)' <=> Running(t)
      BY <1>1 DEF semVars, msgVars, Queued, Running
    <3> QED
      BY <2>1, <3>1, QueuesKept DEF IInv
  <2>3. WakeInv'
    <3>1. WakeInv /\ Running(l)
      BY <1>2, <2>1 DEF IInv, SleepsAt
    <3>2. ssWaitQueue' = ssWaitQueue /\ waitingFor' = waitingFor
      BY <1>1 DEF semVars
    <3>3. \A t \in Tasks : t # l => sigSingle'[t] = sigSingle[t]
      BY <1>1, <1>7 DEF TypeOK
    <3> QED
      BY <3>1, <3>2, <3>3, WakeKept DEF Running
  <2>4. Balanced'
    BY <1>1, <2>1 DEF IInv, Balanced, semVars
  <2>5. IInv(x)'
    BY <1>7, <2>2, <2>3, <2>4 DEF IInv
  <2>6. UNCHANGED <<semVars, clientVars>> /\ \A m \in Msgs : Queued(m)' <=> Queued(m)
    BY <1>1, <1>5 DEF clientVars, msgVars, Queued
  <2> QED
    BY <2>1, <2>5, <2>6, IdleLInv
<1>9. SemsInv'
  BY <1>6, <1>8 DEF SemsInv
<1>10. ListTypeOK'
  <2>1. j \in DOMAIN List /\ failedObtain \in Int /\ j - p \in Int
    BY <1>3, <1>4, ListFacts DEF ListIInv, ListTypeOK
  <2> QED
    BY <1>5, <1>7, <2>1 DEF ListTypeOK
<1>11. SleepsAt(l, j)'
  <2>1. /\ Running(l)' /\ j \in 1..Len(List)
        /\ \A m \in Msgs : Queued(m)' /\ bid'[m].sem \in Listed => bid'[m].task # l
    BY <1>1, <1>2, <1>3, <1>4 DEF SleepsAt, Running, Queued, msgVars
  <2>2. \A s \in Listed : InQueue(l, s)' <=> ssOwner'[s] # l
    BY <1>1, <1>2 DEF semVars, InQueue
  <2>3. ssOwner' = ssOwner
    BY <1>1 DEF semVars
  <2>4. \A i \in 1..(j - 1) : List[i] \in Listed /\ ssOwner[List[i]] = l
    <3> TAKE i \in 1..(j - 1)
    <3>1. i \in 1..Len(List) /\ (i \in 1..(p - 1) \/ i \in p..(j - 1))
      BY <1>3, <1>4
    <3> QED
      BY <1>2, <1>4, <3>1, ListFacts
  <2>5. List[j] \in Listed
    BY <2>1, ListFacts
  <2>6. InQueue(l, List[j])' /\ \A i \in 1..(j - 1) : ~InQueue(l, List[i])'
    BY <1>4, <2>2, <2>3, <2>4, <2>5
  <2> QED
    BY <2>1, <2>2, <2>6 DEF SleepsAt
<1>12. ListerInv'
  BY <1>5, <1>11 DEF ListerInv
<1> QED
  BY <1>9, <1>10, <1>12 DEF ListIInv

LEMMA ReturnFacts ==
    ASSUME TypeOK, NEW t \in Tasks, NEW failed, ReturnWithList(t, failed)
    PROVE  /\ lister' = NULL /\ at' = 1 /\ failedObtain' = failed
           /\ obtained' \in [Tasks -> [Sems -> [Modes -> Nat]]]
           /\ \A u \in Tasks, s \in Sems, md \in Modes :
                 obtained'[u][s][md] =
                     IF u = t /\ s \in Listed /\ md = "exclusive" THEN obtained[u][s][md] + 1
                     ELSE obtained[u][s][md]
<1> DEFINE new == [s \in Sems |-> [mode \in Modes |->
                     IF s \in Listed /\ mode = "exclusive" THEN obtained[t][s][mode] + 1
                     ELSE obtained[t][s][mode]]]
<1>1. obtained \in [Tasks -> [Sems -> [Modes -> Nat]]]
  BY DEF TypeOK
<1>2. obtained' = [obtained EXCEPT ![t] = new]
  BY DEF ReturnWithList
<1>3. /\ new \in [Sems -> [Modes -> Nat]]
      /\ \A s \in Sems, md \in Modes :
            new[s][md] = IF s \in Listed /\ md = "exclusive" THEN obtained[t][s][md] + 1
                         ELSE obtained[t][s][md]
  <2>1. \A s \in Sems, md \in Modes : obtained[t][s][md] \in Nat
    BY <1>1
  <2> QED
    BY <2>1
<1> HIDE DEF new
<1>4. obtained'[t] = new /\ \A u \in Tasks : u # t => obtained'[u] = obtained[u]
  BY <1>1, <1>2
<1>5. obtained' \in [Tasks -> [Sems -> [Modes -> Nat]]]
  BY <1>1, <1>2, <1>3
<1> QED
  BY <1>3, <1>4, <1>5 DEF ReturnWithList

(* The returning call numbers the locks that it was given one by one.      *)
LEMMA AwakeReturnsLocks ==
    ASSUME NEW X, IInv(X), NEW l \in Tasks, Running(l), X = {<<l, s>> : s \in Listed},
           \A s \in Listed : ~InQueue(l, s),
           NEW failed, ReturnWithList(l, failed),
           UNCHANGED <<semVars, waitingFor, bid, msgVars>>,
           NEW s \in Sems, NEW who \in Clients, NEW md \in Modes, NEW n \in Nat
    PROVE  IsLock(who, md, n, s, {})' <=>
               \/ /\ IsLock(who, md, n, s, X)
                  /\ ~(s \in Listed /\ who = l /\ md = "exclusive" /\ n = 0)
               \/ /\ s \in Listed /\ who = l /\ md = "exclusive"
                  /\ n = obtained[l][s]["exclusive"] + 1
<1>1. /\ TypeOK /\ l \notin Msgs
      /\ \A u \in Tasks, s2 \in Sems, m2 \in Modes : obtained[u][s2][m2] \in Nat
      /\ \A u, s2 : <<u, s2>> \in X <=> u = l /\ s2 \in Listed
  BY ConstantsAssumption DEF IInv, TypeOK
<1>2. \A u \in Tasks, s2 \in Sems, m2 \in Modes :
          obtained'[u][s2][m2] =
              IF u = l /\ s2 \in Listed /\ m2 = "exclusive" THEN obtained[u][s2][m2] + 1
              ELSE obtained[u][s2][m2]
  BY <1>1, ReturnFacts
<1>3. /\ InQueue(who, s)' <=> InQueue(who, s)
      /\ Queued(who)' <=> Queued(who)
      /\ waitingFor' = waitingFor /\ bid' = bid
  BY DEF semVars, msgVars, InQueue, Queued
<1>4. CASE who # l
  <2>1. who \in Tasks => obtained'[who][s][md] = obtained[who][s][md]
    BY <1>2, <1>4
  <2>2. <<who, s>> \notin X
    BY <1>1, <1>4
  <2> QED
    BY <1>3, <1>4, <2>1, <2>2 DEF IsLock
<1>5. CASE who = l /\ n = 0
  <2>1. ~IsLock(who, md, n, s, {})'
    BY <1>1, <1>3, <1>5 DEF IsLock, Running
  <2>2. IsLock(who, md, n, s, X) <=> md = "exclusive" /\ s \in Listed
    BY <1>1, <1>5 DEF IsLock, Running
  <2>3. "exclusive" \in Modes /\ obtained[l][s]["exclusive"] \in Nat
    BY <1>1 DEF Modes
  <2>4. n # obtained[l][s]["exclusive"] + 1
    BY <1>5, <2>3
  <2> QED
    BY <1>5, <2>1, <2>2, <2>4
<1>6. CASE who = l /\ n # 0
  <2>1. IsLock(who, md, n, s, X) <=> n <= obtained[l][s][md]
    BY <1>1, <1>6 DEF IsLock
  <2>2. IsLock(who, md, n, s, {})' <=> n <= obtained'[l][s][md]
    BY <1>1, <1>6 DEF IsLock
  <2>3. obtained[l][s][md] \in Nat
    BY <1>1
  <2>4. CASE s \in Listed /\ md = "exclusive"
    <3>1. obtained'[l][s][md] = obtained[l][s][md] + 1
      BY <1>2, <2>4
    <3> DEFINE k == obtained[l][s][md]
    <3> HIDE DEF k
    <3>2. k \in Nat /\ obtained'[l][s][md] = k + 1
      BY <2>3, <3>1 DEF k
    <3>3. n <= k + 1 <=> n <= k \/ n = k + 1
      BY <3>2
    <3> QED
      BY <1>6, <2>1, <2>2, <2>4, <3>2, <3>3 DEF k
  <2>5. CASE ~(s \in Listed /\ md = "exclusive")
    BY <1>2, <1>6, <2>1, <2>2, <2>5
  <2> QED
    BY <2>4, <2>5
<1> QED
  BY <1>4, <1>5, <1>6

LEMMA AwakeReturnsSems ==
    ASSUME NEW X, IInv(X), LInv(X), NEW l \in Tasks, Running(l), X = {<<l, s>> : s \in Listed},
           \A s \in Listed : ~InQueue(l, s),
           NEW failed, ReturnWithList(l, failed),
           sigSingle' = [sigSingle EXCEPT ![l] = FALSE],
           UNCHANGED <<semVars, waitingFor, bid, msgVars>>
    PROVE  IInv({})' /\ LInv({})'
<1>1. /\ TypeOK /\ QueueInv(X) /\ Balanced /\ WakeInv /\ l \notin Msgs
      /\ obtained' \in [Tasks -> [Sems -> [Modes -> Nat]]]
      /\ UNCHANGED <<ssOwner, ssNestCount, ssQueueCount, ssWaitQueue, waitingFor, bid,
                     ssmSemaphore, msgAt>>
  BY ReturnFacts, ConstantsAssumption DEF IInv, semVars, msgVars
<1>2. /\ \A m \in Msgs : Queued(m)' <=> Queued(m)
      /\ \A t \in Tasks : Running(t)' <=> Running(t)
      /\ \A n : \A s \in Sems : InQueue(n, s)' <=> InQueue(n, s)
  BY <1>1 DEF Queued, Running, InQueue
<1>3. TypeOK'
  BY <1>1 DEF TypeOK
<1>4. QueueInv({})'
  <2>1. ASSUME NEW s \in Sems, NEW r \in Entries(ssWaitQueue'[s]) PROVE Claims(r, s, {})'
    <3>1. r \in Entries(ssWaitQueue[s]) /\ Claims(r, s, X)
      BY <1>1 DEF QueueInv
    <3>2. <<r.node, s>> \notin X
      <4>1. InQueue(r.node, s)
        BY <3>1 DEF InQueue
      <4> QED
        BY <4>1
    <3> QED
      BY <1>1, <3>1, <3>2 DEF Claims, Queued
  <2>2. ASSUME NEW m \in Msgs, Queued(m)' PROVE bid'[m] # NULL /\ InQueue(m, bid[m].sem)'
    <3>1. Queued(m) /\ bid[m] # NULL /\ InQueue(m, bid[m].sem)
      BY <1>1, <1>2, <2>2 DEF QueueInv
    <3> QED
      BY <1>1, <3>1 DEF InQueue
  <2>3. \A s \in Sems : NodesOnce(ssWaitQueue'[s])
    BY <1>1 DEF QueueInv
  <2> QED
    BY <2>1, <2>2, <2>3 DEF QueueInv
<1>5. WakeInv'
  <2>1. \A t \in Tasks : t # l => sigSingle'[t] = sigSingle[t]
    BY <1>1 DEF TypeOK
  <2> QED
    BY <1>1, <2>1, WakeKept DEF Running
<1>6. Balanced'
  BY <1>1 DEF Balanced
<1>7. IInv({})'
  BY <1>3, <1>4, <1>5, <1>6 DEF IInv
<1>8. l \in Clients /\ "exclusive" \in Modes /\ 0 \in Nat
  BY DEF Clients, Modes
<1>9. ASSUME NEW s \in Sems, NEW who \in Clients, NEW md \in Modes, NEW n \in Nat
      PROVE  IsLock(who, md, n, s, {})' <=>
                 \/ /\ IsLock(who, md, n, s, X)
                    /\ ~(s \in Listed /\ who = l /\ md = "exclusive" /\ n = 0)
                 \/ /\ s \in Listed /\ who = l /\ md = "exclusive"
                    /\ n = obtained[l][s]["exclusive"] + 1
  BY AwakeReturnsLocks
<1>10. ASSUME NEW s \in Listed
       PROVE  /\ s \in Sems /\ IsLock(l, "exclusive", 0, s, X)
              /\ obtained[l][s]["exclusive"] + 1 \in Nat
              /\ ~IsLock(l, "exclusive", obtained[l][s]["exclusive"] + 1, s, X)
  <2>1. s \in Sems /\ <<l, s>> \in X
    BY ListFacts
  <2>2. IsLock(l, "exclusive", 0, s, X)
    BY <2>1, GivenIsOwned
  <2>3. obtained[l][s]["exclusive"] \in Nat
    BY <1>1, <1>8, <2>1 DEF TypeOK
  <2> PICK k \in Nat : k = obtained[l][s]["exclusive"] + 1
    BY <2>3
  <2>4. k # 0 /\ ~(k <= obtained[l][s]["exclusive"])
    BY <2>3
  <2>5. ~IsLock(l, "exclusive", k, s, X)
    BY <1>1, <2>4 DEF IsLock
  <2> QED
    BY <2>1, <2>2, <2>5
<1>11. CountInv({})'
  <2> SUFFICES ASSUME NEW s \in Sems
               PROVE  /\ IsFiniteSet(LocksOf(s, {})')
                      /\ ssNestCount'[s] = Cardinality(LocksOf(s, {})')
    BY DEF CountInv
  <2>1. IsFiniteSet(LocksOf(s, X)) /\ ssNestCount[s] = Cardinality(LocksOf(s, X))
    BY DEF LInv, CountInv
  <2>2. CASE s \in Listed
    <3> PICK k \in Nat : k = obtained[l][s]["exclusive"] + 1
      BY <1>10, <2>2
    <3>1. /\ IsLock(l, "exclusive", 0, s, X) /\ ~IsLock(l, "exclusive", k, s, X)
          /\ \A who \in Clients, md \in Modes, n \in Nat :
                IsLock(who, md, n, s, {})' <=>
                    \/ IsLock(who, md, n, s, X) /\ ~(who = l /\ md = "exclusive" /\ n = 0)
                    \/ who = l /\ md = "exclusive" /\ n = k
      BY <1>9, <1>10, <2>2
    <3>2. /\ IsFiniteSet(LocksOf(s, {})')
          /\ Cardinality(LocksOf(s, {})') = Cardinality(LocksOf(s, X))
      <4>1. TypeOK /\ TypeOK' /\ IsFiniteSet(LocksOf(s, X)) /\ l \in Clients /\ k \in Nat
        BY <1>1, <1>3, <1>8, <2>1
      <4> PICK none, excl, zero : none = {} /\ excl = "exclusive" /\ zero = 0
        OBVIOUS
      <4>2. /\ excl \in Modes /\ zero \in Nat
            /\ IsLock(l, excl, zero, s, X) /\ ~IsLock(l, excl, k, s, X)
            /\ \A who \in Clients, md \in Modes, n \in Nat :
                  IsLock(who, md, n, s, none)' <=>
                      \/ IsLock(who, md, n, s, X) /\ ~(who = l /\ md = excl /\ n = zero)
                      \/ who = l /\ md = excl /\ n = k
        BY <1>8, <3>1
      <4>3. /\ IsFiniteSet(LocksOf(s, none)')
            /\ Cardinality(LocksOf(s, none)') = Cardinality(LocksOf(s, X))
        BY ONLY <4>1, <4>2, LocksRename
      <4> QED
        BY <4>3
    <3> QED
      BY <1>1, <2>1, <3>2
  <2>3. CASE s \notin Listed
    <3>1. \A who \in Clients, md \in Modes, n \in Nat :
              IsLock(who, md, n, s, {})' <=> IsLock(who, md, n, s, X)
      BY <1>9, <2>3
    <3>2. LocksOf(s, {})' = LocksOf(s, X)
      BY <1>1, <1>3, <3>1, LocksSame
    <3> QED
      BY <1>1, <2>1, <3>2
  <2> QED
    BY <2>2, <2>3
<1>12. OwnerInv({})'
  <2> SUFFICES ASSUME NEW s \in Sems, NEW who \in Clients, NEW md \in Modes, NEW n \in Nat,
                      IsLock(who, md, n, s, {})'
               PROVE  Allowed(who, md, s)'
    BY DEF OwnerInv
  <2>1. Allowed(who, md, s)' <=> Allowed(who, md, s)
    BY <1>1 DEF Allowed, TaskOf
  <2>2. \/ IsLock(who, md, n, s, X)
        \/ s \in Listed /\ who = l /\ md = "exclusive"
    BY <1>9
  <2>3. s \in Listed => IsLock(l, "exclusive", 0, s, X)
    BY <1>10
  <2>4. Allowed(who, md, s)
    BY <1>8, <2>2, <2>3 DEF LInv, OwnerInv
  <2> QED
    BY <2>1, <2>4
<1>13. FreeInv' /\ SharedInv'
  BY <1>1 DEF LInv, FreeInv, SharedInv
<1> QED
  BY <1>7, <1>11, <1>12, <1>13 DEF LInv

LEMMA AwakeReturnsInv ==
    ASSUME ListIInv, NEW l \in Tasks, ListAwake(l), NextToWaitFor(l, at, ssOwner) > Len(List)
    PROVE  ListIInv'
<1> PICK p : p = at
  OBVIOUS
<1> DEFINE j == NextToWaitFor(l, p, ssOwner)
<1>1. /\ l = lister /\ l # NULL
      /\ sigSingle' = [sigSingle EXCEPT ![l] = FALSE]
      /\ UNCHANGED <<semVars, waitingFor, bid, msgVars>>
      /\ WaitLoop(l, p, failedObtain, ssOwner)
  BY ConstantsAssumption DEF ListAwake
<1>2. /\ SleepsAt(l, p)
      /\ \A s \in Listed : InQueue(l, s) <=> ssOwner[s] # l
      /\ \A i \in 1..(p - 1) : ssOwner[List[i]] = l
  BY <1>1, AsleepFacts
<1>3. p \in 1..Len(List) /\ Len(List) \in Nat /\ Running(l)
  BY <1>2, ListFacts DEF SleepsAt
<1>4. /\ j \in p..(Len(List) + 1)
      /\ \A k \in p..(j - 1) : ssOwner[List[k]] = l
  <2>1. p \in 1..(Len(List) + 1)
    BY <1>3
  <2> QED
    BY <2>1, NextFacts
<1>5. j > Len(List)
  OBVIOUS
<1>6. ReturnWithList(l, failedObtain - (j - p))
  BY <1>1, <1>5 DEF WaitLoop
<1> HIDE DEF j
<1> PICK failed : failed = failedObtain - (j - p)
  OBVIOUS
<1>7. \A s \in Listed : ~InQueue(l, s)
  <2> TAKE s \in Listed
  <2> PICK i \in 1..Len(List) : s = List[i]
    BY ListFacts
  <2>1. i \in 1..(p - 1) \/ i \in p..(j - 1)
    BY <1>3, <1>4, <1>5
  <2> QED
    BY <1>2, <1>4, <2>1
<1>8. /\ lister' = NULL /\ at' = 1 /\ failedObtain' = failed /\ failed \in Int
  <2>1. TypeOK /\ failedObtain \in Int
    BY DEF ListIInv, ListTypeOK
  <2>2. failed \in Int
    BY <1>3, <1>4, <2>1
  <2> QED
    BY <1>6, <2>1, <2>2, ReturnFacts
<1>9. Asked' = {}
  BY <1>8 DEF Asked
<1> PICK x : x = Asked
  OBVIOUS
<1>10. x = {<<l, s>> : s \in Listed} /\ IInv(x) /\ LInv(x)
  BY <1>1 DEF Asked, ListIInv, SemsInv
<1>11. IInv({})' /\ LInv({})'
  BY <1>1, <1>3, <1>6, <1>7, <1>10, AwakeReturnsSems
<1>12. SemsInv'
  BY <1>9, <1>11 DEF SemsInv
<1>13. ListTypeOK'
  BY <1>8, <1>11 DEF ListTypeOK, IInv
<1>14. ListerInv'
  BY <1>8 DEF ListerInv
<1> QED
  BY <1>12, <1>13, <1>14 DEF ListIInv

(* t gets one lock of each semaphore of taken, numbered by num, and queues *)
(* for others; before the call X was asked for otherwise, after it Y.      *)
LEMMA GainAllLInv ==
    ASSUME NEW X, NEW Y, IInv(X), IInv(Y)', LInv(X), NEW t \in Tasks,
           NEW taken \in SUBSET Sems, NEW num \in [taken -> Nat],
           \A s \in taken : TakenAtOnce(t, s) /\ ~IsLock(t, "exclusive", num[s], s, X),
           \A s \in Sems : \A who \in Clients, md \in Modes, n \in Nat :
               IsLock(who, md, n, s, Y)' <=>
                   \/ IsLock(who, md, n, s, X)
                   \/ s \in taken /\ who = t /\ md = "exclusive" /\ n = num[s],
           \A who \in Clients : TaskOf(who)' = TaskOf(who),
           \A s \in Sems : /\ ssNestCount'[s] = IF s \in taken THEN ssNestCount[s] + 1
                                                ELSE ssNestCount[s]
                           /\ ssOwner'[s] = IF s \in taken THEN t ELSE ssOwner[s]
                           /\ IsFree(s) => ssWaitQueue'[s] = ssWaitQueue[s]
                           /\ \A r \in Entries(ssWaitQueue'[s]) :
                                 r \in Entries(ssWaitQueue[s]) \/ r.mode = "exclusive"
    PROVE  LInv(Y)'
<1>1. /\ TypeOK /\ TypeOK' /\ t \in Clients /\ "exclusive" \in Modes /\ t # NULL
      /\ \A s \in Sems : ssNestCount[s] \in Nat /\ (IsFree(s) <=> ssNestCount[s] = 0)
  BY FreeFacts, ConstantsAssumption DEF IInv, Clients, Modes
<1>2. CountInv(Y)'
  <2> SUFFICES ASSUME NEW s \in Sems
               PROVE  /\ IsFiniteSet(LocksOf(s, Y)')
                      /\ ssNestCount'[s] = Cardinality(LocksOf(s, Y)')
    BY DEF CountInv
  <2>1. IsFiniteSet(LocksOf(s, X)) /\ ssNestCount[s] = Cardinality(LocksOf(s, X))
    BY DEF LInv, CountInv
  <2>2. CASE s \in taken
    <3> PICK k \in Nat : k = num[s]
      BY <2>2
    <3> PICK excl : excl = "exclusive"
      OBVIOUS
    <3>1. /\ excl \in Modes /\ ~IsLock(t, excl, k, s, X)
          /\ \A who \in Clients, md \in Modes, n \in Nat :
                IsLock(who, md, n, s, Y)' <=>
                    IsLock(who, md, n, s, X) \/ (who = t /\ md = excl /\ n = k)
      BY <1>1, <2>2
    <3>2. /\ LocksOf(s, Y)' = LocksOf(s, X) \cup {<<t, excl, k>>}
          /\ <<t, excl, k>> \notin LocksOf(s, X)
      BY ONLY <1>1, <3>1, LocksGain
    <3>3. ssNestCount'[s] = ssNestCount[s] + 1
      BY <2>2
    <3>4. /\ IsFiniteSet(LocksOf(s, X) \cup {<<t, excl, k>>})
          /\ Cardinality(LocksOf(s, X) \cup {<<t, excl, k>>}) = Cardinality(LocksOf(s, X)) + 1
      BY ONLY <2>1, <3>2, FS_AddElement
    <3> QED
      BY <2>1, <3>2, <3>3, <3>4
  <2>3. CASE s \notin taken
    <3>1. \A who \in Clients, md \in Modes, n \in Nat :
              IsLock(who, md, n, s, Y)' <=> IsLock(who, md, n, s, X)
      BY <2>3
    <3>2. LocksOf(s, Y)' = LocksOf(s, X)
      BY ONLY <1>1, <3>1, LocksSame
    <3> QED
      BY <2>1, <2>3, <3>2
  <2> QED
    BY <2>2, <2>3
<1>3. FreeInv'
  <2> SUFFICES ASSUME NEW s \in Sems, ssNestCount'[s] = 0
               PROVE  Empty(ssWaitQueue'[s]) /\ ssOwner'[s] = NULL
    BY DEF FreeInv
  <2>1. s \notin taken /\ ssNestCount[s] = 0
    BY <1>1
  <2> QED
    BY <1>1, <2>1 DEF LInv, FreeInv
<1>4. OwnerInv(Y)'
  <2> SUFFICES ASSUME NEW s \in Sems, NEW who \in Clients, NEW md \in Modes, NEW n \in Nat,
                      IsLock(who, md, n, s, Y)'
               PROVE  Allowed(who, md, s)'
    BY DEF OwnerInv
  <2>1. TaskOf(who)' = TaskOf(who)
    OBVIOUS
  <2>2. CASE IsLock(who, md, n, s, X)
    <3>1. Allowed(who, md, s) /\ ssNestCount[s] # 0
      BY <2>2, FreeFacts DEF LInv, OwnerInv
    <3>2. s \in taken => ssOwner[s] = t
      BY <1>1, <3>1 DEF TakenAtOnce
    <3>3. ssOwner'[s] = ssOwner[s]
      BY <3>2
    <3> QED
      BY <2>1, <3>1, <3>3 DEF Allowed
  <2>3. CASE s \in taken /\ who = t
    BY <1>1, <2>1, <2>3 DEF Allowed, TaskOf
  <2> QED
    BY <2>2, <2>3
<1>5. SharedInv'
  <2> SUFFICES ASSUME NEW s \in Sems, ssNestCount'[s] > 0, ssOwner'[s] = NULL,
                      NEW r \in Entries(ssWaitQueue'[s])
               PROVE  r.mode # "shared"
    BY DEF SharedInv
  <2>1. s \notin taken /\ ssNestCount[s] > 0 /\ ssOwner[s] = NULL
    BY <1>1
  <2> QED
    BY <2>1 DEF LInv, SharedInv
<1> QED
  BY <1>2, <1>3, <1>4, <1>5 DEF LInv

(* The semaphores that the call has to queue for.                          *)
ToQueue(t) == {s \in Listed : ~TakenAtOnce(t, s)}

(* What the call does to the semaphores, one at a time.                    *)
LEMMA ObtainListFacts ==
    ASSUME IInv({}), NEW t \in Tasks, ObtainList(t), NEW queue, queue = ToQueue(t)
    PROVE  /\ Running(t) /\ lister = NULL /\ queue \subseteq Listed
           /\ \A s \in Listed : MaySleep(t, s, "exclusive")
           /\ UNCHANGED <<sigSingle, waitingFor, bid, ssmSemaphore, msgAt>>
           /\ ssOwner' \in [Sems -> Tasks \cup {NULL}] /\ ssNestCount' \in [Sems -> Int]
           /\ ssQueueCount' \in [Sems -> Int] /\ ssWaitQueue' \in [Sems -> Seq(Request)]
           /\ \A s \in Sems :
                 /\ ssQueueCount'[s] = IF s \in Listed THEN ssQueueCount[s] + 1
                                       ELSE ssQueueCount[s]
                 /\ ssNestCount'[s] = IF s \in Listed \ queue THEN ssNestCount[s] + 1
                                      ELSE ssNestCount[s]
                 /\ ssOwner'[s] = IF s \in Listed \ queue THEN t ELSE ssOwner[s]
                 /\ ssWaitQueue'[s] =
                        IF s \in queue
                        THEN Append(ssWaitQueue[s], [node |-> t, mode |-> "exclusive"])
                        ELSE ssWaitQueue[s]
<1>1. /\ ssOwner \in [Sems -> Tasks \cup {NULL}] /\ ssNestCount \in [Sems -> Int]
      /\ ssQueueCount \in [Sems -> Int] /\ ssWaitQueue \in [Sems -> Seq(Request)]
  BY DEF IInv, TypeOK
<1>2. [node |-> t, mode |-> "exclusive"] \in Request
  BY DEF Request, Modes
<1>3. queue = {s \in Listed : ~TakenAtOnce(t, s)}
  BY DEF ToQueue
<1>4. /\ Running(t) /\ lister = NULL
      /\ \A s \in Listed : MaySleep(t, s, "exclusive")
      /\ UNCHANGED <<sigSingle, waitingFor, bid, msgVars>>
      /\ ssQueueCount' = [s \in Sems |-> IF s \in Listed THEN ssQueueCount[s] + 1
                                         ELSE ssQueueCount[s]]
      /\ ssNestCount' = [s \in Sems |-> IF s \in Listed THEN ssNestCount[s] + Nested(t, s)
                                        ELSE ssNestCount[s]]
      /\ ssOwner' = [s \in Sems |-> IF s \in Listed \ queue THEN t ELSE ssOwner[s]]
      /\ ssWaitQueue' = [s \in Sems |->
           IF s \in queue THEN Append(ssWaitQueue[s], [node |-> t, mode |-> "exclusive"])
           ELSE ssWaitQueue[s]]
  BY <1>3 DEF ObtainList
<1>5. \A s \in Listed : Nested(t, s) = IF s \in queue THEN 0 ELSE 1
  BY <1>3 DEF Nested
<1>6. \A s \in Sems : Append(ssWaitQueue[s], [node |-> t, mode |-> "exclusive"]) \in Seq(Request)
  BY <1>1, <1>2, AppendFacts
<1>7. ssWaitQueue' \in [Sems -> Seq(Request)]
  BY <1>1, <1>4, <1>6
<1>8. \A s \in Sems : ssNestCount'[s] = IF s \in Listed \ queue THEN ssNestCount[s] + 1
                                        ELSE ssNestCount[s]
  <2>1. \A s \in Sems : ssNestCount[s] \in Int
    BY <1>1
  <2> QED
    BY <1>3, <1>4, <1>5, <2>1
<1>9. ssNestCount' \in [Sems -> Int]
  <2>1. ssNestCount' = [s \in Sems |-> ssNestCount'[s]]
    BY <1>4
  <2>2. \A s \in Sems : ssNestCount'[s] \in Int
    BY <1>1, <1>8
  <2> QED
    BY <2>1, <2>2
<1> QED
  BY <1>1, <1>3, <1>4, <1>7, <1>8, <1>9 DEF msgVars

(* Y has the pairs of t and what it queues for, and of t with the others   *)
(* of the list at most.                                                    *)
AsksFor(t, queue, Y) ==
    /\ \A s \in queue : <<t, s>> \in Y
    /\ \A y \in Y : \E s \in Listed : y = <<t, s>>

LEMMA ObtainListIInv ==
    ASSUME IInv({}), NEW t \in Tasks, ObtainList(t), NEW queue, queue = ToQueue(t),
           obtained' \in [Tasks -> [Sems -> [Modes -> Nat]]],
           NEW Y, AsksFor(t, queue, Y)
    PROVE  /\ IInv(Y)'
           /\ \A n : \A s \in Sems : InQueue(n, s)' <=> InQueue(n, s) \/ (n = t /\ s \in queue)
           /\ \A s \in Sems : ~InQueue(t, s)
<1> USE DEF AsksFor
<1> DEFINE x == [node |-> t, mode |-> "exclusive"]
<1>1. /\ Running(t) /\ queue \subseteq Listed /\ Listed \subseteq Sems
      /\ UNCHANGED <<sigSingle, waitingFor, bid, ssmSemaphore, msgAt>>
      /\ ssOwner' \in [Sems -> Tasks \cup {NULL}] /\ ssNestCount' \in [Sems -> Int]
      /\ ssQueueCount' \in [Sems -> Int] /\ ssWaitQueue' \in [Sems -> Seq(Request)]
      /\ \A s \in Sems :
            /\ ssQueueCount'[s] = IF s \in Listed THEN ssQueueCount[s] + 1 ELSE ssQueueCount[s]
            /\ ssNestCount'[s] = IF s \in Listed \ queue THEN ssNestCount[s] + 1
                                 ELSE ssNestCount[s]
            /\ ssWaitQueue'[s] = IF s \in queue THEN Append(ssWaitQueue[s], x)
                                 ELSE ssWaitQueue[s]
  BY ObtainListFacts, ListFacts
<1>2. x \in Request /\ x.node = t /\ x.mode = "exclusive"
  BY DEF Request, Modes
<1> HIDE DEF x
<1>3. TypeOK /\ QueueInv({}) /\ Balanced /\ WakeInv /\ Tasks \cap Msgs = {}
  BY ConstantsAssumption DEF IInv
<1>4. ASSUME NEW s \in Sems PROVE ~InQueue(t, s)
  <2> PICK none : none = {}
    OBVIOUS
  <2>1. QueueInv(none)
    BY <1>3
  <2>2. InQueue(t, s) => ~Running(t) \/ <<t, s>> \in none
    BY <1>3, <2>1, WhoIsQueued
  <2> QED
    BY <1>1, <2>2
<1>5. \A s \in Sems : /\ ssWaitQueue[s] \in Seq(Request) /\ NodesOnce(ssWaitQueue[s])
                      /\ ssQueueCount[s] \in Int /\ ssNestCount[s] \in Int
                      /\ ssQueueCount[s] + 1 = ssNestCount[s] + Size(ssWaitQueue[s])
  BY <1>3 DEF TypeOK, QueueInv, Balanced
<1>6. \A s \in Sems : Entries(ssWaitQueue'[s]) =
          Entries(ssWaitQueue[s]) \cup (IF s \in queue THEN {x} ELSE {})
  <2>1. ASSUME NEW s \in Sems
        PROVE  Entries(Append(ssWaitQueue[s], x)) = Entries(ssWaitQueue[s]) \cup {x}
    BY <1>2, <1>5, AppendFacts
  <2> QED
    BY <1>1, <2>1
<1>7. \A n : \A s \in Sems : InQueue(n, s)' <=> InQueue(n, s) \/ (n = t /\ s \in queue)
  BY <1>2, <1>6 DEF InQueue
<1>8. TypeOK'
  BY <1>1, <1>3 DEF TypeOK
<1>9. ASSUME NEW s \in Sems
      PROVE  /\ NodesOnce(ssWaitQueue'[s])
             /\ Size(ssWaitQueue'[s]) = IF s \in queue THEN Size(ssWaitQueue[s]) + 1
                                        ELSE Size(ssWaitQueue[s])
  <2>1. \A y \in Entries(ssWaitQueue[s]) : y.node # x.node
    BY <1>2, <1>4 DEF InQueue
  <2>2. /\ NodesOnce(Append(ssWaitQueue[s], x))
        /\ Size(Append(ssWaitQueue[s], x)) = Size(ssWaitQueue[s]) + 1
    BY <1>2, <1>5, <2>1, AppendRequestFacts
  <2> QED
    BY <1>1, <1>5, <2>2
<1>10. Balanced'
  <2>1. \A s \in Sems : Size(ssWaitQueue[s]) \in Nat
    BY <1>5, QueueFacts
  <2>2. ASSUME NEW s \in Sems
        PROVE  ssQueueCount'[s] + 1 = ssNestCount'[s] + Size(ssWaitQueue'[s])
    <3>1. /\ ssQueueCount[s] \in Int /\ ssNestCount[s] \in Int /\ Size(ssWaitQueue[s]) \in Nat
          /\ ssQueueCount[s] + 1 = ssNestCount[s] + Size(ssWaitQueue[s])
      BY <1>5, <2>1
    <3>2. /\ ssQueueCount'[s] = IF s \in Listed THEN ssQueueCount[s] + 1 ELSE ssQueueCount[s]
          /\ ssNestCount'[s] = IF s \in Listed \ queue THEN ssNestCount[s] + 1
                               ELSE ssNestCount[s]
          /\ Size(ssWaitQueue'[s]) = IF s \in queue THEN Size(ssWaitQueue[s]) + 1
                                     ELSE Size(ssWaitQueue[s])
          /\ s \in queue => s \in Listed
      BY <1>1, <1>9
    <3>3. CASE s \in queue
      <4>1. /\ ssQueueCount'[s] = ssQueueCount[s] + 1 /\ ssNestCount'[s] = ssNestCount[s]
            /\ Size(ssWaitQueue'[s]) = Size(ssWaitQueue[s]) + 1
        BY ONLY <3>2, <3>3
      <4> QED
        BY ONLY <3>1, <4>1
    <3>4. CASE s \in Listed \ queue
      <4>1. /\ ssQueueCount'[s] = ssQueueCount[s] + 1 /\ ssNestCount'[s] = ssNestCount[s] + 1
            /\ Size(ssWaitQueue'[s]) = Size(ssWaitQueue[s])
        BY ONLY <3>2, <3>4
      <4> QED
        BY ONLY <3>1, <4>1
    <3>5. CASE s \notin Listed
      <4>1. /\ ssQueueCount'[s] = ssQueueCount[s] /\ ssNestCount'[s] = ssNestCount[s]
            /\ Size(ssWaitQueue'[s]) = Size(ssWaitQueue[s])
        BY ONLY <3>2, <3>5
      <4> QED
        BY ONLY <3>1, <4>1
    <3> QED
      BY <3>3, <3>4, <3>5
  <2> QED
    BY <2>2 DEF Balanced
<1>11. WakeInv'
  <2> SUFFICES ASSUME NEW u \in Tasks, ~Running(u)'
               PROVE  sigSingle'[u] <=> ~InQueue(u, waitingFor[u].sem)'
    BY DEF WakeInv
  <2>1. ~Running(u) /\ u # t /\ waitingFor' = waitingFor /\ sigSingle' = sigSingle
    BY <1>1 DEF Running
  <2>2. waitingFor[u].sem \in Sems
    BY <1>3, <2>1 DEF TypeOK, Running, Want
  <2> PICK s \in Sems : s = waitingFor[u].sem
    BY <2>2
  <2>3. InQueue(u, s)' <=> InQueue(u, s)
    BY <1>7, <2>1
  <2>4. sigSingle[u] <=> ~InQueue(u, s)
    BY <1>3, <2>1 DEF WakeInv
  <2> QED
    BY <2>1, <2>3, <2>4 DEF InQueue
<1>12. QueueInv(Y)'
  <2>1. ASSUME NEW s \in Sems, NEW r \in Entries(ssWaitQueue'[s]) PROVE Claims(r, s, Y)'
    <3>1. CASE r \in Entries(ssWaitQueue[s])
      <4>1. Claims(r, s, {})
        BY <1>3, <3>1 DEF QueueInv
      <4> QED
        BY <1>1, <4>1 DEF Claims, Queued
    <3>2. CASE s \in queue /\ r = x
      BY <1>2, <3>2 DEF Claims
    <3> QED
      BY <1>6, <2>1, <3>1, <3>2
  <2>2. ASSUME NEW m \in Msgs, Queued(m)' PROVE bid'[m] # NULL /\ InQueue(m, bid[m].sem)'
    <3>1. Queued(m) /\ bid[m] # NULL /\ InQueue(m, bid[m].sem)
      BY <1>1, <1>3, <2>2 DEF QueueInv, Queued
    <3>2. bid[m].sem \in Sems
      BY <1>3, <3>1 DEF TypeOK, Bid
    <3> PICK s \in Sems : s = bid[m].sem
      BY <3>2
    <3>3. InQueue(m, s)'
      BY <1>7, <3>1
    <3> QED
      BY <1>1, <3>1, <3>3 DEF InQueue
  <2>3. \A y \in Y : \E u \in Tasks, s \in Sems : y = <<u, s>> /\ Running(u)'
    BY <1>1 DEF Running
  <2> QED
    BY <1>9, <2>1, <2>2, <2>3 DEF QueueInv
<1> QED
  BY <1>4, <1>7, <1>8, <1>10, <1>11, <1>12 DEF IInv

LEMMA ObtainListGains ==
    ASSUME IInv({}), LInv({}), NEW t \in Tasks, ObtainList(t), NEW queue, queue = ToQueue(t),
           NEW Y, IInv(Y)', NEW num \in [Listed \ queue -> Nat],
           \A s \in Listed \ queue : ~IsLock(t, "exclusive", num[s], s, {}),
           \A s \in Sems : \A who \in Clients, md \in Modes, n \in Nat :
               IsLock(who, md, n, s, Y)' <=>
                   \/ IsLock(who, md, n, s, {})
                   \/ s \in Listed \ queue /\ who = t /\ md = "exclusive" /\ n = num[s]
    PROVE  LInv(Y)'
<1> DEFINE x == [node |-> t, mode |-> "exclusive"]
<1> PICK taken : taken = Listed \ queue
  OBVIOUS
<1> PICK none : none = {}
  OBVIOUS
<1>1. /\ taken \in SUBSET Sems /\ num \in [taken -> Nat] /\ IInv(none) /\ LInv(none)
      /\ \A s \in taken : ~IsLock(t, "exclusive", num[s], s, none)
      /\ \A s \in Sems : \A who \in Clients, md \in Modes, n \in Nat :
            IsLock(who, md, n, s, Y)' <=>
                \/ IsLock(who, md, n, s, none)
                \/ s \in taken /\ who = t /\ md = "exclusive" /\ n = num[s]
  BY ListFacts
<1>2. /\ bid' = bid
      /\ \A s \in Sems :
            /\ ssNestCount'[s] = IF s \in taken THEN ssNestCount[s] + 1 ELSE ssNestCount[s]
            /\ ssOwner'[s] = IF s \in taken THEN t ELSE ssOwner[s]
            /\ ssWaitQueue'[s] = IF s \in queue THEN Append(ssWaitQueue[s], x)
                                 ELSE ssWaitQueue[s]
  BY ObtainListFacts
<1>3. x \in Request /\ x.mode = "exclusive"
  BY DEF Request, Modes
<1> HIDE DEF x
<1>4. \A s \in taken : TakenAtOnce(t, s)
  BY DEF ToQueue
<1>5. \A s \in queue : ~IsFree(s)
  BY DEF ToQueue, TakenAtOnce
<1>6. \A who : TaskOf(who)' = TaskOf(who)
  BY <1>2 DEF TaskOf
<1>7. ASSUME NEW s \in Sems, NEW r \in Entries(ssWaitQueue'[s])
      PROVE  r \in Entries(ssWaitQueue[s]) \/ r.mode = "exclusive"
  <2>1. ssWaitQueue[s] \in Seq(Request)
    BY DEF IInv, TypeOK
  <2>2. Entries(Append(ssWaitQueue[s], x)) = Entries(ssWaitQueue[s]) \cup {x}
    BY <1>3, <2>1, AppendFacts
  <2> QED
    BY <1>2, <1>3, <2>2
<1>8. \A s \in Sems : /\ ssNestCount'[s] = IF s \in taken THEN ssNestCount[s] + 1
                                           ELSE ssNestCount[s]
                      /\ ssOwner'[s] = IF s \in taken THEN t ELSE ssOwner[s]
                      /\ IsFree(s) => ssWaitQueue'[s] = ssWaitQueue[s]
                      /\ \A r \in Entries(ssWaitQueue'[s]) :
                            r \in Entries(ssWaitQueue[s]) \/ r.mode = "exclusive"
  BY <1>2, <1>5, <1>7
<1> QED
  BY <1>1, <1>4, <1>6, <1>8, GainAllLInv

(* Everything was to be had: the call returns with one more lock of each.  *)
LEMMA ObtainListReturns ==
    ASSUME ListIInv, NEW t \in Tasks, ObtainList(t), ToQueue(t) = {}, ReturnWithList(t, 0)
    PROVE  ListIInv'
<1> PICK none : none = {}
  OBVIOUS
<1> PICK queue : queue = ToQueue(t)
  OBVIOUS
<1>1. lister = NULL /\ Asked = {}
  BY DEF ObtainList, Asked
<1>2. IInv({}) /\ LInv({}) /\ TypeOK
  BY <1>1 DEF ListIInv, SemsInv, ListTypeOK
<1>3. /\ lister' = NULL /\ at' = 1 /\ failedObtain' = 0
      /\ obtained' \in [Tasks -> [Sems -> [Modes -> Nat]]]
      /\ \A u \in Tasks, s \in Sems, md \in Modes :
            obtained'[u][s][md] =
                IF u = t /\ s \in Listed /\ md = "exclusive" THEN obtained[u][s][md] + 1
                ELSE obtained[u][s][md]
  BY <1>2, ReturnFacts
<1>4. Asked' = {}
  BY <1>3 DEF Asked
<1>5. /\ IInv(none)'
      /\ \A n : \A s \in Sems : InQueue(n, s)' <=> InQueue(n, s)
  <2>1. AsksFor(t, queue, none)
    BY DEF AsksFor
  <2> QED
    BY <1>2, <1>3, <2>1, ObtainListIInv
<1>6. /\ waitingFor' = waitingFor /\ bid' = bid
      /\ Running(t) /\ t \notin Msgs /\ Listed \subseteq Sems /\ "exclusive" \in Modes
      /\ \A m : Queued(m)' <=> Queued(m)
      /\ \A u \in Tasks, s \in Sems, md \in Modes : obtained[u][s][md] \in Nat
  <2>1. /\ waitingFor' = waitingFor /\ bid' = bid /\ msgAt' = msgAt /\ ssmSemaphore' = ssmSemaphore
        /\ Running(t)
    BY <1>2, ObtainListFacts
  <2>2. \A m : Queued(m)' <=> Queued(m)
    BY <2>1 DEF Queued
  <2>3. Listed \subseteq Sems /\ "exclusive" \in Modes
    BY ListFacts DEF Modes
  <2>4. t \notin Msgs
    BY ConstantsAssumption
  <2>5. obtained \in [Tasks -> [Sems -> [Modes -> Nat]]]
    BY <1>2 DEF TypeOK
  <2> QED
    BY <2>1, <2>2, <2>3, <2>4, <2>5
<1> DEFINE num == [s \in Listed \ queue |-> obtained[t][s]["exclusive"] + 1]
<1>7. /\ num \in [Listed \ queue -> Nat]
      /\ \A s \in Listed : num[s] = obtained[t][s]["exclusive"] + 1
  BY <1>6
<1> HIDE DEF num
<1> PICK ord : ord = num
  OBVIOUS
<1>8. ASSUME NEW s \in Listed PROVE ~IsLock(t, "exclusive", ord[s], s, {})
  <2>1. s \in Sems /\ obtained[t][s]["exclusive"] \in Nat
    BY <1>6
  <2>2. ord[s] = obtained[t][s]["exclusive"] + 1
    BY <1>7
  <2>3. ord[s] # 0 /\ ~(ord[s] <= obtained[t][s]["exclusive"])
    BY <2>1, <2>2
  <2> QED
    BY <1>6, <2>3 DEF IsLock
<1>9. ASSUME NEW s \in Sems, NEW who \in Clients, NEW md \in Modes, NEW n \in Nat
      PROVE  IsLock(who, md, n, s, none)' <=>
                 \/ IsLock(who, md, n, s, {})
                 \/ s \in Listed \ queue /\ who = t /\ md = "exclusive" /\ n = ord[s]
  <2>1. CASE who = t /\ s \in Listed /\ md = "exclusive"
    <3> DEFINE k == obtained[t][s]["exclusive"]
    <3>1. /\ obtained'[t][s][md] = k + 1 /\ obtained[t][s][md] = k /\ k \in Nat
          /\ ord[s] = k + 1
      BY <1>3, <1>6, <1>7, <2>1
    <3> HIDE DEF k
    <3>2. n <= k + 1 <=> n <= k \/ n = k + 1
      BY <3>1
    <3>3. IsLock(who, md, n, s, {}) <=> n >= 1 /\ n <= k
      BY <1>6, <2>1, <3>1 DEF IsLock, Running
    <3>4. IsLock(who, md, n, s, none)' <=> n >= 1 /\ n <= k + 1
      BY <1>6, <2>1, <3>1 DEF IsLock, Running
    <3> QED
      BY <2>1, <3>1, <3>2, <3>3, <3>4
  <2>2. CASE ~(who = t /\ s \in Listed /\ md = "exclusive")
    <3>1. who \in Tasks => obtained'[who][s][md] = obtained[who][s][md]
      BY <1>3, <2>2
    <3>2. InQueue(who, s)' <=> InQueue(who, s)
      BY <1>5
    <3>3. IsLock(who, md, n, s, none)' <=> IsLock(who, md, n, s, {})
      BY <1>6, <3>1, <3>2 DEF IsLock
    <3> QED
      BY <2>2, <3>3
  <2> QED
    BY <2>1, <2>2
<1>10. LInv(none)'
  BY <1>2, <1>5, <1>7, <1>8, <1>9, ObtainListGains
<1>11. SemsInv'
  BY <1>4, <1>5, <1>10 DEF SemsInv
<1>12. ListTypeOK'
  BY <1>3, <1>5 DEF ListTypeOK, IInv
<1>13. ListerInv'
  BY <1>3 DEF ListerInv
<1> QED
  BY <1>11, <1>12, <1>13 DEF ListIInv

(* Something has to be queued for: the call sleeps at the first of it.     *)
LEMMA ObtainListSleeps ==
    ASSUME ListIInv, NEW t \in Tasks, ObtainList(t), NEW queue, queue = ToQueue(t), queue # {},
           NEW failed \in Nat,
           WaitLoop(t, 1, failed, [s \in Sems |-> IF s \in Listed \ queue THEN t ELSE ssOwner[s]])
    PROVE  ListIInv'
<1> DEFINE owner == [s \in Sems |-> IF s \in Listed \ queue THEN t ELSE ssOwner[s]]
<1> PICK own : own = owner
  OBVIOUS
<1> PICK none : none = {}
  OBVIOUS
<1> PICK j : j = NextToWaitFor(t, 1, own)
  OBVIOUS
<1> PICK Y : Y = {<<t, s>> : s \in Listed}
  OBVIOUS
<1>1. lister = NULL /\ Asked = {}
  BY DEF ObtainList, Asked
<1>2. IInv({}) /\ LInv({}) /\ TypeOK
  BY <1>1 DEF ListIInv, SemsInv, ListTypeOK
<1>3. /\ Len(List) \in Nat /\ Listed \subseteq Sems
      /\ \A i \in 1..Len(List) : List[i] \in Sems /\ List[i] \in Listed
      /\ \A s \in Listed : \E i \in 1..Len(List) : s = List[i]
  BY ListFacts
<1>4. /\ Running(t) /\ queue \subseteq Listed
      /\ waitingFor' = waitingFor /\ bid' = bid /\ msgAt' = msgAt /\ ssmSemaphore' = ssmSemaphore
      /\ \A s \in Listed : MaySleep(t, s, "exclusive")
      /\ \A s \in Sems : ssOwner'[s] = IF s \in Listed \ queue THEN t ELSE ssOwner[s]
  BY <1>2, ObtainListFacts
<1>5. \A s \in Sems : own[s] = ssOwner'[s]
  BY <1>4
<1>6. \A s \in queue : own[s] # t
  <2>1. \A s \in queue : ssOwner[s] # t
    BY DEF ToQueue, TakenAtOnce
  <2> QED
    BY <1>3, <1>4, <2>1
<1>7. /\ j \in 1..(Len(List) + 1)
      /\ \A k \in 1..(j - 1) : own[List[k]] = t
      /\ j <= Len(List) => own[List[j]] # t
  <2>1. 1 \in 1..(Len(List) + 1)
    BY <1>3
  <2> DEFINE k == NextToWaitFor(t, 1, own)
  <2>2. /\ k \in 1..(Len(List) + 1)
        /\ \A i \in 1..(k - 1) : own[List[i]] = t
        /\ k <= Len(List) => own[List[k]] # t
    BY <2>1, NextFacts
  <2> HIDE DEF k
  <2>3. k = j
    BY DEF k
  <2> QED
    BY <2>2, <2>3
<1>8. j \in 1..Len(List)
  <2> SUFFICES ASSUME j = Len(List) + 1 PROVE FALSE
    BY <1>3, <1>7
  <2>1. PICK s \in queue : TRUE
    OBVIOUS
  <2>2. PICK i \in 1..Len(List) : s = List[i]
    BY <1>3, <1>4
  <2>3. i \in 1..(j - 1)
    BY <1>3
  <2> QED
    BY <1>6, <1>7, <2>2, <2>3
<1>9. WaitLoop(t, 1, failed, own)
  OBVIOUS
<1>10. lister' = t /\ at' = j /\ failedObtain' = failed - (j - 1) /\ UNCHANGED obtained
  <2>1. ~(j > Len(List))
    BY <1>3, <1>8
  <2> QED
    BY <1>9, <2>1 DEF WaitLoop
<1> HIDE DEF owner
<1>11. t # NULL /\ Asked' = Y
  BY <1>10, ConstantsAssumption DEF Asked
<1>12. obtained' \in [Tasks -> [Sems -> [Modes -> Nat]]]
  BY <1>2, <1>10 DEF TypeOK
<1>13. AsksFor(t, queue, Y)
  BY <1>4 DEF AsksFor
<1>14. /\ IInv(Y)'
       /\ \A n : \A s \in Sems : InQueue(n, s)' <=> InQueue(n, s) \/ (n = t /\ s \in queue)
       /\ \A s \in Sems : ~InQueue(t, s)
  <2>1. t \in Tasks /\ ObtainList(t) /\ queue = ToQueue(t) /\ IInv({})
    BY <1>2
  <2> QED
    BY ONLY <2>1, <1>12, <1>13, ObtainListIInv
<1>15. \A m : Queued(m)' <=> Queued(m)
  BY <1>4 DEF Queued
<1> DEFINE num == [s \in Listed \ queue |-> 0]
<1>16. num \in [Listed \ queue -> Nat] /\ \A s \in Listed \ queue : num[s] = 0
  OBVIOUS
<1> HIDE DEF num
<1> PICK ord : ord = num
  OBVIOUS
<1>17. \A s \in Listed \ queue : ~IsLock(t, "exclusive", ord[s], s, none)
  <2>1. t \notin Msgs
    BY ConstantsAssumption
  <2>2. \A s \in Listed \ queue : ord[s] = 0
    BY <1>16
  <2> QED
    BY <1>4, <2>1, <2>2 DEF IsLock, Running
<1>18. ASSUME NEW s \in Sems, NEW who \in Clients, NEW md \in Modes, NEW n \in Nat
       PROVE  IsLock(who, md, n, s, Y)' <=>
                  \/ IsLock(who, md, n, s, none)
                  \/ s \in Listed \ queue /\ who = t /\ md = "exclusive" /\ n = ord[s]
  <2>1. InQueue(who, s)' <=> InQueue(who, s) \/ (who = t /\ s \in queue)
    BY <1>14
  <2>2. <<who, s>> \in Y <=> who = t /\ s \in Listed
    OBVIOUS
  <2>3. t \notin Msgs /\ waitingFor[t] = NULL
    BY <1>4, ConstantsAssumption DEF Running
  <2>4. who # t => (InQueue(who, s)' <=> InQueue(who, s))
    BY <2>1
  <2>5. CASE who # t
    <3>1. IsLock(who, md, n, s, Y)' <=> IsLock(who, md, n, s, none)
      BY <1>4, <1>10, <1>15, <2>2, <2>4, <2>5 DEF IsLock
    <3> QED
      BY <2>5, <3>1
  <2>6. CASE who = t
    <3>1. IsLock(who, md, n, s, none) <=> n >= 1 /\ n <= obtained[who][s][md]
      BY <2>3, <2>6 DEF IsLock
    <3>2. IsLock(who, md, n, s, Y)' <=>
              \/ n >= 1 /\ n <= obtained[who][s][md]
              \/ n = 0 /\ md = "exclusive" /\ s \in Listed /\ ~InQueue(who, s)'
      BY <1>4, <1>10, <2>2, <2>3, <2>6 DEF IsLock
    <3>3. InQueue(who, s)' <=> s \in queue
      BY <1>14, <2>1, <2>6
    <3>4. s \in Listed \ queue => ord[s] = 0
      BY <1>16
    <3> QED
      BY <2>6, <3>1, <3>2, <3>3, <3>4
  <2> QED
    BY <2>5, <2>6
<1>19. LInv(Y)'
  <2>1. ord \in [Listed \ queue -> Nat]
    BY <1>16
  <2> QED
    BY <1>2, <1>14, <1>17, <1>18, <2>1, ObtainListGains
<1>20. SemsInv'
  BY <1>11, <1>14, <1>19 DEF SemsInv
<1>21. ListTypeOK'
  <2>1. failedObtain' \in Int
    BY <1>8, <1>10
  <2>2. TypeOK'
    BY <1>14 DEF IInv
  <2> QED
    BY <1>8, <1>10, <2>1, <2>2, ListFacts DEF ListTypeOK
<1>22. SleepsAt(t, j)'
  <2>1. \A s \in Listed : InQueue(t, s)' <=> s \in queue
    BY <1>3, <1>14
  <2>2. \A i \in 1..(j - 1) : List[i] \in Listed /\ List[i] \notin queue
    BY <1>3, <1>6, <1>7, <1>8
  <2>3. List[j] \in Listed /\ List[j] \in queue
    <3>1. List[j] \in Listed /\ List[j] \in Sems /\ own[List[j]] # t
      BY <1>3, <1>7, <1>8
    <3> QED
      BY <1>4, <1>5, <3>1
  <2>4. \A s \in Listed : s \in queue => ssOwner'[s] # t
    BY <1>3, <1>5, <1>6
  <2>5. ASSUME NEW m \in Msgs, Queued(m)', bid'[m].sem \in Listed PROVE bid'[m].task # t
    <3>1. Queued(m) /\ bid[m] # NULL /\ bid[m].sem \in Listed
      BY <1>2, <1>4, <1>15, <2>5 DEF IInv, QueueInv
    <3>2. MaySleep(t, bid[m].sem, "exclusive")
      BY <1>4, <3>1
    <3>3. m \notin BidsOf(t, bid[m].sem)
      BY <3>1, <3>2 DEF MaySleep
    <3>4. bid[m].task # t
      BY <3>1, <3>3 DEF BidsOf
    <3> QED
      BY <1>4, <3>4
  <2>6. Running(t)'
    BY <1>4 DEF Running
  <2>7. \A i \in 1..(j - 1) : ~InQueue(t, List[i])'
    BY <2>1, <2>2
  <2>8. InQueue(t, List[j])'
    BY <2>1, <2>3
  <2> QED
    BY <1>8, <2>4, <2>1, <2>5, <2>6, <2>7, <2>8 DEF SleepsAt
<1>23. ListerInv'
  BY <1>10, <1>22 DEF ListerInv
<1> QED
  BY <1>20, <1>21, <1>23 DEF ListIInv

LEMMA ObtainListInv ==
    ASSUME ListIInv, NEW t \in Tasks, ObtainList(t)
    PROVE  ListIInv'
<1> PICK queue : queue = ToQueue(t)
  OBVIOUS
<1> PICK owner : owner = [s \in Sems |-> IF s \in Listed \ queue THEN t ELSE ssOwner[s]]
  OBVIOUS
<1> PICK failed : failed = Cardinality(queue)
  OBVIOUS
<1>1. IF failed > 0 THEN WaitLoop(t, 1, failed, owner) ELSE ReturnWithList(t, 0)
  <2>1. queue = {s \in Listed : ~TakenAtOnce(t, s)}
    BY DEF ToQueue
  <2> QED
    BY <2>1 DEF ObtainList
<1>2. IsFiniteSet(queue)
  <2>1. queue \subseteq Listed /\ IsFiniteSet(Listed)
    BY ListFacts DEF ToQueue
  <2> QED
    BY <2>1, FS_Subset
<1>3. failed \in Nat /\ (failed = 0 <=> queue = {})
  BY <1>2, FS_CardinalityType, FS_EmptySet
<1>4. CASE queue = {}
  <2>1. ReturnWithList(t, 0)
    BY <1>1, <1>3, <1>4
  <2> QED
    BY <1>4, <2>1, ObtainListReturns
<1>5. CASE queue # {}
  <2>1. WaitLoop(t, 1, failed, owner)
    BY <1>1, <1>3, <1>5
  <2> QED
    BY <1>3, <1>5, <2>1, ObtainListSleeps
<1> QED
  BY <1>4, <1>5

-----------------------------------------------------------------------------
(* The results                                                             *)

LEMMA InitListIInv == ListInit => ListIInv
<1> SUFFICES ASSUME ListInit PROVE ListIInv
  OBVIOUS
<1>1. Init /\ lister = NULL /\ at = 1 /\ failedObtain = 0
  BY DEF ListInit
<1>2. IInv({}) /\ LInv({}) /\ Asked = {}
  BY <1>1, InitIInv, InitLInv DEF Asked
<1>3. ListTypeOK
  BY <1>1, <1>2 DEF ListTypeOK, IInv
<1>4. SemsInv
  BY <1>2 DEF SemsInv
<1>5. ListerInv
  BY <1>1 DEF ListerInv
<1> QED
  BY <1>3, <1>4, <1>5 DEF ListIInv

LEMMA NextListIInv == ListIInv /\ [ListNext]_allVars => ListIInv'
<1> SUFFICES ASSUME ListIInv, [ListNext]_allVars PROVE ListIInv'
  OBVIOUS
<1>1. CASE OthersStep
  BY <1>1, OthersInv
<1>2. ASSUME NEW t \in Tasks, ObtainList(t) PROVE ListIInv'
  BY <1>2, ObtainListInv
<1>3. ASSUME NEW t \in Tasks, ListAwake(t) PROVE ListIInv'
  <2>1. CASE NextToWaitFor(t, at, ssOwner) <= Len(List)
    BY <1>3, <2>1, AwakeAgainInv
  <2>2. CASE ~(NextToWaitFor(t, at, ssOwner) <= Len(List))
    <3>1. PICK p : p = at
      OBVIOUS
    <3>2. lister = t /\ t # NULL
      BY <1>3, ConstantsAssumption DEF ListAwake
    <3>3. p \in 1..Len(List) /\ Len(List) \in Nat
      BY <3>1, <3>2, AsleepFacts, ListFacts DEF SleepsAt
    <3>4. p \in 1..(Len(List) + 1)
      BY <3>3
    <3>5. NextToWaitFor(t, p, ssOwner) \in p..(Len(List) + 1)
      BY <3>4, NextFacts
    <3>6. NextToWaitFor(t, at, ssOwner) > Len(List)
      BY <2>2, <3>1, <3>3, <3>5
    <3> QED
      BY <1>3, <3>6, AwakeReturnsInv
  <2> QED
    BY <2>1, <2>2
<1>4. CASE UNCHANGED allVars
  BY <1>4, StutterInv
<1> QED
  BY <1>1, <1>2, <1>3, <1>4 DEF ListNext, ListStep

LEMMA ListSpecIInv == ListSpec => []ListIInv
<1>1. ListInit => ListIInv
  BY InitListIInv
<1>2. ListIInv /\ [ListNext]_allVars => ListIInv'
  BY NextListIInv
<1> QED
  BY <1>1, <1>2, PTL DEF ListSpec

(* The counters, queues, bids and messages keep their types, and the place *)
(* at which ObtainSemaphoreList sleeps is one of its list.                 *)
THEOREM ListSpecTypeOK == ListSpec => []ListTypeOK
<1>1. ListIInv => ListTypeOK
  BY DEF ListIInv
<1> QED
  BY <1>1, ListSpecIInv, PTL

LEMMA ListLocksExclude == ListIInv => ListMutualExclusion
<1> SUFFICES ASSUME ListIInv PROVE ListMutualExclusion
  OBVIOUS
<1> PICK x : x = Asked
  OBVIOUS
<1>1. IInv(x) /\ LInv(x) /\ TypeOK
  BY DEF ListIInv, SemsInv, ListTypeOK
<1>2. ASSUME NEW s \in Sems PROVE GivenToLister(s) \subseteq GivenAll(s, x)
  <2> SUFFICES ASSUME lister # NULL, s \in Listed, ~Waits(lister, ssWaitQueue[s])
               PROVE  <<lister, "exclusive", 0>> \in GivenAll(s, x)
    BY DEF GivenToLister
  <2> PICK l : l = lister
    OBVIOUS
  <2>1. l \in Tasks /\ <<l, s>> \in x
    BY DEF ListIInv, ListTypeOK, Asked
  <2>2. ~InQueue(l, s)
    BY <1>1, WaitsIsInQueue
  <2> QED
    BY <2>1, <2>2 DEF GivenAll
<1>3. \A s \in Sems : LocksAll(s) \subseteq LocksOf(s, x)
  BY <1>2 DEF LocksAll, LocksOf
<1>4. ASSUME NEW s \in Sems, NEW lock \in LocksAll(s), NEW other \in LocksAll(s),
             lock[2] = "exclusive"
      PROVE  HolderOf(other) = HolderOf(lock)
  <2>1. lock \in LocksOf(s, x) /\ other \in LocksOf(s, x)
    BY <1>3
  <2> QED
    BY <1>1, <1>4, <2>1, LockedAlone
<1> QED
  BY <1>4 DEF ListMutualExclusion

(* An exclusive lock is alone, whether a call took it, was handed it, or   *)
(* has been given it while ObtainSemaphoreList sleeps for the rest of the  *)
(* list.                                                                   *)
THEOREM ListSpecMutualExclusion == ListSpec => []ListMutualExclusion
  BY ListLocksExclude, ListSpecIInv, PTL

LEMMA SleepsForSignal == ListIInv => NoMissedSignal
<1> SUFFICES ASSUME ListIInv, lister # NULL
             PROVE  /\ \A i \in 1..(at - 1) : ssOwner[List[i]] = lister
                    /\ ~Waits(lister, ssWaitQueue[List[at]]) => sigSingle[lister]
  BY DEF NoMissedSignal
<1> PICK l : l = lister
  OBVIOUS
<1> PICK p : p = at
  OBVIOUS
<1>1. SleepsAt(l, p) /\ \A i \in 1..(p - 1) : ssOwner[List[i]] = l
  BY AsleepFacts
<1>2. p \in 1..Len(List) /\ (~InQueue(l, List[p]) => sigSingle[l])
  BY <1>1 DEF SleepsAt
<1>3. List[p] \in Sems /\ TypeOK
  BY <1>2, ListFacts DEF ListIInv, ListTypeOK
<1>4. Waits(l, ssWaitQueue[List[p]]) <=> InQueue(l, List[p])
  BY <1>3, WaitsIsInQueue
<1> QED
  BY <1>1, <1>2, <1>4

(* ObtainSemaphoreList does not sleep through its last signal: what it has *)
(* passed in the list stays its own, and when it owns what it sleeps at,   *)
(* SIGF_SINGLE is set.                                                     *)
THEOREM ListSpecNoMissedSignal == ListSpec => []NoMissedSignal
  BY SleepsForSignal, ListSpecIInv, PTL
=============================================================================
