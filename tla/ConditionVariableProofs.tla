---------------------- MODULE ConditionVariableProofs ----------------------
(***************************************************************************)
(* Theorems about ConditionVariable, for any threads, if the wakers are    *)
(* patient (the run condvar_exclusion shows what happens otherwise).       *)
(*                                                                         *)
(* A step of a thread is one of the steps of SignalSemaphore, or it only   *)
(* touches SIGF_SINGLE of threads that are not asleep for a semaphore.     *)
(* The invariants of the semaphores are therefore kept; CvInv adds where a *)
(* thread can be when it is woken.                                         *)
(***************************************************************************)
EXTENDS ConditionVariable, SemaphoreLockProofs

InWait == {"enlisted", "unlocked", "waiting", "relocking", "leaving"}

(* The threads use the mutex only, and only exclusively.                   *)
PlainMutex ==
    \A t \in Tasks :
        /\ obtained[t][Mutex]["shared"] = 0
        /\ ~Running(t) => waitingFor[t] = [sem |-> Mutex, mode |-> "exclusive"]

(* Where a thread is says whether it runs, and what it has.                *)
PlaceOK(t) ==
    /\ cvAt[t] \in InWait \ {"relocking"} => Running(t)
    /\ cvAt[t] = "enlisted" => obtained[t][Mutex]["exclusive"] = 1
    /\ cvAt[t] = "unlocked" => forbid = t

(* A thread is woken only after Forbid() is over, and from then on its     *)
(* signal stands for the wake-up.                                          *)
WokenOK(t) ==
    /\ t \in due => cvAt[t] \in {"waiting", "relocking", "leaving"}
    /\ cvAt[t] = "waiting" => (sigSingle[t] <=> t \in due)
    /\ cvAt[t] \in {"relocking", "leaving"} => t \in due

WaitersOK == Once(Waiters) /\ \A t \in Entries(Waiters) : cvAt[t] # "out"

CvInv ==
    /\ CvTypeOK /\ PlainMutex /\ WaitersOK
    /\ \A t \in Tasks : PlaceOK(t) /\ WokenOK(t)

CvIInv == IInv({}) /\ LInv({}) /\ CvInv
-----------------------------------------------------------------------------
(* The semaphores                                                          *)

LEMMA CvTypes ==
    ASSUME CvIInv
    PROVE  /\ Mutex \in Sems /\ NULL \notin Tasks
           /\ obtained \in [Tasks -> [Sems -> [Modes -> Nat]]]
           /\ waitingFor \in [Tasks -> Want \cup {NULL}]
           /\ sigSingle \in [Tasks -> BOOLEAN]
           /\ cvAt \in [Tasks -> {"out"} \cup InWait]
           /\ Waiters \in Seq(Tasks) /\ due \subseteq Tasks /\ forbid \in Tasks \cup {NULL}
           /\ "exclusive" \in Modes /\ "shared" \in Modes
  BY ConstantsAssumption, ConditionAssumption
  DEF CvIInv, CvInv, CvTypeOK, TypeOK, InWait, Modes

(* The semaphore calls keep the invariants of the semaphores.              *)
LEMMA SemaphoreStep == IInv({}) /\ LInv({}) /\ [Next]_vars => IInv({})' /\ LInv({})'
  BY NextIInv, NextLInv

(* So does a change of SIGF_SINGLE in threads that run.                    *)
LEMMA SignalsOnly ==
    ASSUME IInv({}), LInv({}), UNCHANGED <<semVars, clientVars, msgVars>>,
           sigSingle' \in [Tasks -> BOOLEAN],
           \A t \in Tasks : ~Running(t) => (sigSingle'[t] <=> sigSingle[t])
    PROVE  IInv({})' /\ LInv({})'
<1>1. TypeOK'
  BY DEF IInv, TypeOK, semVars, clientVars, msgVars
<1>2. QueueInv({})'
  <2>1. /\ ssWaitQueue' = ssWaitQueue /\ waitingFor' = waitingFor /\ bid' = bid
        /\ ssmSemaphore' = ssmSemaphore
        /\ \A m \in Msgs : Queued(m)' <=> Queued(m)
        /\ \A t \in Tasks : Running(t)' <=> Running(t)
    BY DEF semVars, clientVars, msgVars, Queued, Running
  <2> QED
    BY <2>1, QueuesKept DEF IInv
<1>3. Balanced'
  BY DEF IInv, Balanced, semVars
<1>4. WakeInv'
  <2>1. \A u \in Tasks : ~Running(u)' =>
            waitingFor'[u] = waitingFor[u] /\ (sigSingle'[u] <=> sigSingle[u])
    BY DEF Running, clientVars
  <2> QED
    BY <2>1, WakeKept DEF IInv, semVars
<1>5. IInv({})'
  BY <1>1, <1>2, <1>3, <1>4 DEF IInv
<1>6. \A m \in Msgs : Queued(m)' <=> Queued(m)
  BY DEF msgVars, Queued
<1> QED
  BY <1>5, <1>6, IdleLInv

(* Two threads do not have the mutex.                                      *)
LEMMA OneHasMutex ==
    ASSUME CvIInv, NEW t \in Tasks, NEW u \in Tasks,
           obtained[t][Mutex]["exclusive"] > 0, obtained[u][Mutex]["exclusive"] > 0
    PROVE  t = u
<1>1. Mutex \in Sems /\ "exclusive" \in Modes /\ t \in Clients /\ u \in Clients
  BY CvTypes DEF Clients
<1>2. obtained[t][Mutex]["exclusive"] \in Nat /\ obtained[u][Mutex]["exclusive"] \in Nat
  BY CvTypes
<1>3. IsLock(t, "exclusive", 1, Mutex, {}) /\ IsLock(u, "exclusive", 1, Mutex, {})
  BY <1>1, <1>2 DEF IsLock
<1>4. Allowed(t, "exclusive", Mutex) /\ Allowed(u, "exclusive", Mutex)
  BY <1>1, <1>3 DEF CvIInv, LInv, OwnerInv
<1> QED
  BY <1>4 DEF Allowed, TaskOf

LEMMA HolderIsExclusive ==
    ASSUME CvIInv, NEW t \in Tasks
    PROVE  /\ Holds(t, Mutex) = obtained[t][Mutex]["exclusive"]
           /\ obtained[t][Mutex]["exclusive"] \in Nat
<1>1. obtained[t][Mutex]["exclusive"] \in Nat /\ obtained[t][Mutex]["shared"] = 0
  BY CvTypes DEF CvIInv, CvInv, PlainMutex
<1> QED
  BY <1>1 DEF Holds

-----------------------------------------------------------------------------
(* What a step of a thread leaves alone in the others.                     *)
Alone(t) ==
    \A u \in Tasks \ {t} : /\ obtained'[u] = obtained[u] /\ waitingFor'[u] = waitingFor[u]
                           /\ Running(u) => (sigSingle'[u] <=> sigSingle[u])

SemKept == IInv({})' /\ LInv({})' /\ PlainMutex'

LEMMA ObtainNowCv ==
    ASSUME CvIInv, NEW t \in Tasks, ObtainNow(t, Mutex, "exclusive")
    PROVE  SemKept /\ Alone(t) /\ Running(t) /\ Running(t)' /\ sigSingle' = sigSingle
<1>1. IInv({})' /\ LInv({})'
  BY SemaphoreStep, CvTypes DEF CvIInv, Next, ObtainStep
<1>2. /\ Running(t) /\ sigSingle' = sigSingle /\ waitingFor' = waitingFor
      /\ obtained' = [obtained EXCEPT ![t][Mutex]["exclusive"] = @ + 1]
  BY DEF ObtainNow
<1>3. \A u \in Tasks : /\ obtained'[u][Mutex]["shared"] = obtained[u][Mutex]["shared"]
                       /\ u # t => obtained'[u] = obtained[u]
  BY <1>2, CvTypes
<1>4. PlainMutex'
  BY <1>2, <1>3 DEF CvIInv, CvInv, PlainMutex, Running
<1> QED
  BY <1>1, <1>2, <1>3, <1>4 DEF SemKept, Alone, Running

LEMMA ObtainSleepCv ==
    ASSUME CvIInv, NEW t \in Tasks, ObtainSleep(t, Mutex, "exclusive")
    PROVE  SemKept /\ Alone(t) /\ Running(t)
<1>1. IInv({})' /\ LInv({})'
  BY SemaphoreStep, CvTypes DEF CvIInv, Next, ObtainStep
<1>2. /\ Running(t) /\ sigSingle' = [sigSingle EXCEPT ![t] = FALSE]
      /\ waitingFor' = [waitingFor EXCEPT ![t] = [sem |-> Mutex, mode |-> "exclusive"]]
      /\ obtained' = obtained
  BY DEF ObtainSleep, ClearSingle
<1>3. \A u \in Tasks :
         waitingFor'[u] = IF u = t THEN [sem |-> Mutex, mode |-> "exclusive"] ELSE waitingFor[u]
  BY <1>2, CvTypes
<1>4. PlainMutex'
  BY <1>2, <1>3 DEF CvIInv, CvInv, PlainMutex, Running
<1> QED
  BY <1>1, <1>2, <1>3, <1>4, CvTypes DEF SemKept, Alone

LEMMA ObtainAwakeCv ==
    ASSUME CvIInv, NEW t \in Tasks, ObtainAwake(t)
    PROVE  SemKept /\ Alone(t) /\ ~Running(t) /\ Running(t)'
<1>1. IInv({})' /\ LInv({})'
  BY SemaphoreStep DEF CvIInv, Next, SignalStep
<1>2. /\ ~Running(t) /\ sigSingle' = [sigSingle EXCEPT ![t] = FALSE]
      /\ waitingFor' = [waitingFor EXCEPT ![t] = NULL]
      /\ obtained' = [obtained EXCEPT ![t][waitingFor[t].sem][waitingFor[t].mode] = @ + 1]
  BY DEF ObtainAwake
<1>3. waitingFor[t].sem = Mutex /\ waitingFor[t].mode = "exclusive"
  BY <1>2 DEF CvIInv, CvInv, PlainMutex
<1>4. obtained' = [obtained EXCEPT ![t][Mutex]["exclusive"] = @ + 1]
  BY <1>2, <1>3
<1>5. \A u \in Tasks : /\ obtained'[u][Mutex]["shared"] = obtained[u][Mutex]["shared"]
                       /\ u # t => obtained'[u] = obtained[u]
                       /\ waitingFor'[u] = IF u = t THEN NULL ELSE waitingFor[u]
  <2>1. \A u \in Tasks : /\ obtained'[u][Mutex]["shared"] = obtained[u][Mutex]["shared"]
                         /\ u # t => obtained'[u] = obtained[u]
    BY <1>4, CvTypes
  <2>2. waitingFor' = [waitingFor EXCEPT ![t] = NULL]
    BY <1>2
  <2>3. \A u \in Tasks : waitingFor'[u] = IF u = t THEN NULL ELSE waitingFor[u]
    BY <2>2, CvTypes
  <2> QED
    BY <2>1, <2>3
<1>6. PlainMutex'
  BY <1>5 DEF CvIInv, CvInv, PlainMutex, Running
<1> QED
  BY <1>1, <1>2, <1>5, <1>6, CvTypes DEF SemKept, Alone, Running

(* A release signals only threads asleep for the mutex.                    *)
LEMMA ReleaseCv ==
    ASSUME CvIInv, NEW t \in Tasks, Release(t, t, Mutex, "exclusive")
    PROVE  /\ SemKept /\ Alone(t) /\ Running(t) /\ Running(t)'
           /\ sigSingle'[t] <=> sigSingle[t]
<1>1. IInv({})' /\ LInv({})'
  BY SemaphoreStep, CvTypes DEF CvIInv, Next, ReleaseStep
<1>2. /\ Running(t) /\ waitingFor' = waitingFor /\ ReleaseSem(Mutex, ssmSemaphore)
      /\ obtained' = [obtained EXCEPT ![t][Mutex]["exclusive"] = @ - 1]
  BY DEF Release
<1>3. \A u \in Tasks : /\ obtained'[u][Mutex]["shared"] = obtained[u][Mutex]["shared"]
                       /\ u # t => obtained'[u] = obtained[u]
  BY <1>2, CvTypes
<1>4. PlainMutex'
  BY <1>2, <1>3 DEF CvIInv, CvInv, PlainMutex, Running
<1>5. ASSUME NEW u \in Tasks, Running(u) PROVE sigSingle'[u] <=> sigSingle[u]
  <2>1. ServesOnly(ServedBy(Mutex), Mutex, ssmSemaphore)
    <3>1. ssmSemaphore \in [Msgs -> Tasks \cup Sems \cup {NULL}]
      BY DEF CvIInv, IInv, TypeOK
    <3> QED
      BY <1>2, <3>1, CvTypes, ReleaseFacts DEF CvIInv, IInv
  <2>2. u \in ServedBy(Mutex) => InQueue(u, Mutex)
    BY <2>1 DEF ServesOnly
  <2>3. ~InQueue(u, Mutex)
    <3>1. TypeOK /\ QueueInv({}) /\ Mutex \in Sems
      BY CvTypes DEF CvIInv, IInv
    <3>2. InQueue(u, Mutex) => \/ ~Running(u) /\ waitingFor[u].sem = Mutex
                               \/ Running(u) /\ <<u, Mutex>> \in {}
      <4> DEFINE none == {}
      <4>1. QueueInv(none)
        BY <3>1
      <4> HIDE DEF none
      <4>2. InQueue(u, Mutex) => \/ ~Running(u) /\ waitingFor[u].sem = Mutex
                                 \/ Running(u) /\ <<u, Mutex>> \in none
        BY <3>1, <4>1, WhoIsQueued
      <4> QED
        BY <4>2 DEF none
    <3> QED
      BY <1>5, <3>2
  <2> QED
    BY <2>1, <2>2, <2>3 DEF ServesOnly
<1> QED
  BY <1>1, <1>2, <1>3, <1>4, <1>5 DEF SemKept, Alone, Running

LEMMA QuietCv ==
    ASSUME CvIInv, UNCHANGED <<semVars, clientVars, msgVars>>,
           sigSingle' \in [Tasks -> BOOLEAN],
           \A t \in Tasks : ~Running(t) => (sigSingle'[t] <=> sigSingle[t])
    PROVE  SemKept
<1>1. IInv({})' /\ LInv({})'
  BY SignalsOnly DEF CvIInv
<1> QED
  BY <1>1 DEF SemKept, CvIInv, CvInv, PlainMutex, clientVars, Running
-----------------------------------------------------------------------------
(* The steps of a thread                                                   *)

(* Nobody else is between Forbid() and Permit() when t runs.               *)
LEMMA NoOtherUnlocked ==
    ASSUME CvIInv, NEW t \in Tasks, MayRun(t), NEW u \in Tasks, u # t
    PROVE  cvAt[u] # "unlocked"
  BY CvTypes DEF MayRun, CvIInv, CvInv, PlaceOK

(* The place of one thread does not depend on what another one does.       *)
LEMMA ThreadStep ==
    ASSUME CvIInv, NEW t \in Tasks, MayRun(t), SemKept, Alone(t), CvTypeOK',
           \A u \in Tasks \ {t} : cvAt'[u] = cvAt[u] /\ (u \in due' <=> u \in due),
           PlaceOK(t)', WokenOK(t)', WaitersOK'
    PROVE  CvIInv'
<1>1. ASSUME NEW u \in Tasks, u # t
      PROVE  PlaceOK(u)' /\ WokenOK(u)'
  <2>1. /\ obtained'[u] = obtained[u] /\ waitingFor'[u] = waitingFor[u]
        /\ Running(u) => (sigSingle'[u] <=> sigSingle[u])
        /\ cvAt'[u] = cvAt[u] /\ (u \in due' <=> u \in due)
    BY <1>1 DEF Alone
  <2>2. PlaceOK(u) /\ WokenOK(u) /\ cvAt[u] # "unlocked"
    BY <1>1, NoOtherUnlocked DEF CvIInv, CvInv
  <2>3. PlaceOK(u)'
    BY <2>1, <2>2 DEF PlaceOK, Running
  <2>4. cvAt[u] = "waiting" => Running(u)
    BY <2>2 DEF PlaceOK, InWait
  <2>5. WokenOK(u)'
    BY <2>1, <2>2, <2>4 DEF WokenOK
  <2> QED
    BY <2>3, <2>5
<1>2. \A u \in Tasks : PlaceOK(u)' /\ WokenOK(u)'
  BY <1>1
<1> QED
  BY <1>2 DEF CvIInv, CvInv, SemKept

LEMMA MovedTypes ==
    ASSUME CvIInv, NEW t \in Tasks, NEW from, NEW to \in {"out"} \cup InWait, Goes(t, from, to),
           IInv({})', Waiters' \in Seq(Tasks), due' \subseteq Tasks, forbid' \in Tasks \cup {NULL}
    PROVE  /\ CvTypeOK' /\ cvAt[t] = from /\ cvAt'[t] = to
           /\ \A u \in Tasks \ {t} : cvAt'[u] = cvAt[u]
  BY CvTypes DEF Goes, CvTypeOK, InWait, IInv

(* A thread in the list stays there until it is out of _condvar_wait.      *)
LEMMA SameWaiters ==
    ASSUME CvIInv, NEW t \in Tasks, Waiters' = Waiters, cvAt'[t] # "out",
           \A u \in Tasks \ {t} : cvAt'[u] = cvAt[u]
    PROVE  WaitersOK'
<1>1. Waiters \in Seq(Tasks)
  BY CvTypes
<1>2. Entries(Waiters) \subseteq Tasks
  BY <1>1, EntriesFacts
<1> QED
  BY <1>2 DEF CvIInv, CvInv, WaitersOK

LEMMA EnlistedStep ==
    ASSUME CvIInv, NEW t \in Tasks, Enlisted(t)
    PROVE  CvIInv'
<1>1. /\ MayRun(t) /\ Running(t) /\ cvAt[t] = "out" /\ Holds(t, Mutex) = 1
      /\ Goes(t, "out", "enlisted") /\ Waiters' = Append(Waiters, t)
      /\ UNCHANGED <<vars, forbid, due>>
  BY DEF Enlisted, HasMutex
<1>2. UNCHANGED <<semVars, clientVars, msgVars, sigSingle>>
  BY <1>1 DEF vars
<1>3. SemKept /\ Alone(t)
  BY <1>2, QuietCv, CvTypes DEF Alone, clientVars
<1>4. /\ Append(Waiters, t) \in Seq(Tasks)
      /\ Entries(Append(Waiters, t)) = Entries(Waiters) \cup {t}
      /\ Once(Waiters) /\ t \notin Entries(Waiters) => Once(Append(Waiters, t))
      /\ Entries(Waiters) \subseteq Tasks
  BY CvTypes, AppendFacts, EntriesFacts
<1>5. /\ CvTypeOK' /\ cvAt'[t] = "enlisted" /\ \A u \in Tasks \ {t} : cvAt'[u] = cvAt[u]
  BY <1>1, <1>3, <1>4, MovedTypes, CvTypes DEF InWait, SemKept
<1>6. WaitersOK'
  BY <1>1, <1>4, <1>5 DEF CvIInv, CvInv, WaitersOK
<1>7. PlaceOK(t)'
  BY <1>1, <1>2, <1>5, HolderIsExclusive DEF PlaceOK, Running, clientVars
<1>8. WokenOK(t)'
  <2>1. WokenOK(t)
    BY DEF CvIInv, CvInv
  <2> QED
    BY <1>1, <1>5, <2>1 DEF WokenOK
<1> QED
  BY <1>1, <1>3, <1>5, <1>6, <1>7, <1>8, ThreadStep

LEMMA UnlockStep ==
    ASSUME CvIInv, NEW t \in Tasks, Unlock(t)
    PROVE  CvIInv'
<1>1. /\ MayRun(t) /\ cvAt[t] = "enlisted" /\ Goes(t, "enlisted", "unlocked")
      /\ forbid' = t /\ Waiters' = Waiters /\ due' = due
  BY DEF Unlock, Goes
<1>2. PlaceOK(t) /\ WokenOK(t)
  BY DEF CvIInv, CvInv
<1>3. Running(t) /\ obtained[t][Mutex]["exclusive"] = 1
  BY <1>1, <1>2 DEF PlaceOK, InWait
<1>4. Release(t, t, Mutex, "exclusive")
  <2>1. obtained[t][Mutex]["exclusive"] > 0
    BY <1>3
  <2> QED
    BY <1>3, <2>1 DEF Unlock, Release
<1>5. SemKept /\ Alone(t) /\ Running(t)'
  BY <1>4, ReleaseCv
<1>6. CvTypeOK' /\ cvAt'[t] = "unlocked" /\ \A u \in Tasks \ {t} : cvAt'[u] = cvAt[u]
  BY <1>1, <1>5, MovedTypes, CvTypes DEF InWait, SemKept
<1>7. WaitersOK'
  BY <1>1, <1>6, SameWaiters
<1>8. PlaceOK(t)' /\ WokenOK(t)'
  BY <1>1, <1>2, <1>5, <1>6 DEF PlaceOK, WokenOK
<1> QED
  BY <1>1, <1>5, <1>6, <1>7, <1>8, ThreadStep

LEMMA ForgetSingleStep ==
    ASSUME CvIInv, NEW t \in Tasks, ForgetSingle(t)
    PROVE  CvIInv'
<1>1. /\ MayRun(t) /\ cvAt[t] = "unlocked" /\ Goes(t, "unlocked", "waiting")
      /\ sigSingle' = [sigSingle EXCEPT ![t] = FALSE] /\ forbid' = NULL
      /\ UNCHANGED <<semVars, clientVars, msgVars, Waiters, due>>
  BY DEF ForgetSingle, Goes, ClearSingle
<1>2. PlaceOK(t) /\ WokenOK(t)
  BY DEF CvIInv, CvInv
<1>3. Running(t)
  BY <1>1, <1>2 DEF PlaceOK, InWait
<1>4. SemKept /\ Alone(t)
  BY <1>1, <1>3, QuietCv, CvTypes DEF Alone, clientVars
<1>5. CvTypeOK' /\ cvAt'[t] = "waiting" /\ \A u \in Tasks \ {t} : cvAt'[u] = cvAt[u]
  BY <1>1, <1>4, MovedTypes, CvTypes DEF InWait, SemKept
<1>6. WaitersOK'
  BY <1>1, <1>5, SameWaiters
<1>7. PlaceOK(t)'
  BY <1>1, <1>3, <1>5 DEF PlaceOK, Running, clientVars
<1>8. WokenOK(t)'
  <2>1. ~sigSingle'[t]
    BY <1>1, CvTypes
  <2> QED
    BY <1>1, <1>2, <1>5, <2>1 DEF WokenOK
<1> QED
  BY <1>1, <1>4, <1>5, <1>6, <1>7, <1>8, ThreadStep

LEMMA WaitReturnsStep ==
    ASSUME CvIInv, NEW t \in Tasks, WaitReturns(t)
    PROVE  CvIInv'
<1>1. /\ MayRun(t) /\ cvAt[t] = "waiting" /\ Goes(t, "waiting", "relocking") /\ sigSingle[t]
      /\ sigSingle' = [sigSingle EXCEPT ![t] = FALSE]
      /\ UNCHANGED <<semVars, clientVars, msgVars, Waiters, forbid, due>>
  BY DEF WaitReturns, Goes, ClearSingle
<1>2. PlaceOK(t) /\ WokenOK(t)
  BY DEF CvIInv, CvInv
<1>3. Running(t) /\ t \in due
  BY <1>1, <1>2 DEF PlaceOK, WokenOK, InWait
<1>4. SemKept /\ Alone(t)
  BY <1>1, <1>3, QuietCv, CvTypes DEF Alone, clientVars
<1>5. CvTypeOK' /\ cvAt'[t] = "relocking" /\ \A u \in Tasks \ {t} : cvAt'[u] = cvAt[u]
  BY <1>1, <1>4, MovedTypes, CvTypes DEF InWait, SemKept
<1>6. WaitersOK'
  BY <1>1, <1>5, SameWaiters
<1>7. PlaceOK(t)' /\ WokenOK(t)'
  BY <1>1, <1>3, <1>5 DEF PlaceOK, WokenOK
<1> QED
  BY <1>1, <1>4, <1>5, <1>6, <1>7, ThreadStep

(* The thread has the mutex again.                                         *)
LEMMA RelockedStep ==
    ASSUME CvIInv, NEW t \in Tasks, RelockNow(t) \/ RelockAwake(t)
    PROVE  CvIInv'
<1>1. /\ MayRun(t) /\ cvAt[t] = "relocking" /\ Goes(t, "relocking", "leaving")
      /\ UNCHANGED <<Waiters, forbid, due>>
      /\ ObtainNow(t, Mutex, "exclusive") \/ ObtainAwake(t)
  BY DEF RelockNow, RelockAwake, Goes
<1>2. SemKept /\ Alone(t) /\ Running(t)'
  BY <1>1, ObtainNowCv, ObtainAwakeCv
<1>3. CvTypeOK' /\ cvAt'[t] = "leaving" /\ \A u \in Tasks \ {t} : cvAt'[u] = cvAt[u]
  BY <1>1, <1>2, MovedTypes, CvTypes DEF InWait, SemKept
<1>4. WaitersOK'
  BY <1>1, <1>3, SameWaiters
<1>5. WokenOK(t)
  BY DEF CvIInv, CvInv
<1>6. PlaceOK(t)' /\ WokenOK(t)'
  BY <1>1, <1>2, <1>3, <1>5 DEF PlaceOK, WokenOK
<1> QED
  BY <1>1, <1>2, <1>3, <1>4, <1>6, ThreadStep

LEMMA RelockSleepStep ==
    ASSUME CvIInv, NEW t \in Tasks, RelockSleep(t)
    PROVE  CvIInv'
<1>1. /\ MayRun(t) /\ cvAt[t] = "relocking" /\ ObtainSleep(t, Mutex, "exclusive")
      /\ Waiters' = Waiters /\ cvAt' = cvAt /\ forbid' = forbid /\ due' = due
  BY DEF RelockSleep, cvVars
<1>2. SemKept /\ Alone(t)
  BY <1>1, ObtainSleepCv
<1>3. CvTypeOK'
  BY <1>1, <1>2 DEF CvIInv, CvInv, CvTypeOK, SemKept, IInv
<1>4. PlaceOK(t) /\ WokenOK(t) /\ WaitersOK
  BY DEF CvIInv, CvInv
<1>5. PlaceOK(t)' /\ WokenOK(t)' /\ WaitersOK'
  BY <1>1, <1>4 DEF PlaceOK, WokenOK, WaitersOK
<1> QED
  BY <1>1, <1>2, <1>3, <1>5, ThreadStep

LEMMA LeaveStep ==
    ASSUME CvIInv, NEW t \in Tasks, Leave(t)
    PROVE  CvIInv'
<1>1. /\ MayRun(t) /\ cvAt[t] = "leaving" /\ Goes(t, "leaving", "out")
      /\ Waiters' = RemoveFirst(Waiters, t) /\ due' = due \ {t}
      /\ UNCHANGED <<vars, forbid>>
  BY DEF Leave, Goes
<1>2. UNCHANGED <<semVars, clientVars, msgVars, sigSingle>>
  BY <1>1 DEF vars
<1>3. SemKept /\ Alone(t)
  BY <1>2, QuietCv, CvTypes DEF Alone, clientVars
<1>4. Once(Waiters) /\ \A u \in Entries(Waiters) : cvAt[u] # "out"
  BY DEF CvIInv, CvInv, WaitersOK
<1>5. /\ Waiters' \in Seq(Tasks) /\ Once(Waiters')
      /\ Entries(Waiters') = Entries(Waiters) \ {t} /\ Entries(Waiters) \subseteq Tasks
  BY <1>1, <1>4, CvTypes, RemoveFirstFacts, EntriesFacts
<1>6. CvTypeOK' /\ cvAt'[t] = "out" /\ \A u \in Tasks \ {t} : cvAt'[u] = cvAt[u]
  BY <1>1, <1>3, <1>5, MovedTypes, CvTypes DEF InWait, SemKept
<1>7. WaitersOK'
  <2>1. \A u \in Entries(Waiters') : u \in Tasks \ {t} /\ cvAt[u] # "out"
    BY <1>4, <1>5
  <2>2. \A u \in Entries(Waiters') : cvAt'[u] # "out"
    BY <1>6, <2>1
  <2> QED
    BY <1>5, <2>2 DEF WaitersOK
<1>8. PlaceOK(t)' /\ WokenOK(t)'
  BY <1>1, <1>6 DEF PlaceOK, WokenOK, InWait
<1> QED
  BY <1>1, <1>3, <1>6, <1>7, <1>8, ThreadStep

LEMMA LockStepKeeps ==
    ASSUME CvIInv, NEW t \in Tasks, LockStep(t)
    PROVE  CvIInv'
<1>1. /\ MayRun(t) /\ cvAt[t] = "out"
      /\ Waiters' = Waiters /\ cvAt' = cvAt /\ forbid' = forbid /\ due' = due
  BY DEF LockStep, cvVars
<1>3. SemKept /\ Alone(t)
  <2>1. CASE StraySingle(t)
    <3>1. /\ Running(t) /\ sigSingle' = [sigSingle EXCEPT ![t] = TRUE]
          /\ UNCHANGED <<semVars, clientVars, msgVars>>
      BY <2>1 DEF StraySingle
    <3> QED
      BY <3>1, QuietCv, CvTypes DEF Alone, clientVars
  <2> QED
    BY <2>1, ObtainNowCv, ObtainSleepCv, ObtainAwakeCv, ReleaseCv DEF LockStep
<1>4. CvTypeOK'
  BY <1>1, <1>3 DEF CvIInv, CvInv, CvTypeOK, SemKept, IInv
<1>5. PlaceOK(t) /\ WokenOK(t) /\ WaitersOK
  BY DEF CvIInv, CvInv
<1>6. PlaceOK(t)' /\ WokenOK(t)' /\ WaitersOK'
  BY <1>1, <1>5 DEF PlaceOK, WokenOK, WaitersOK, InWait
<1> QED
  BY <1>1, <1>3, <1>4, <1>6, ThreadStep

-----------------------------------------------------------------------------
(* Waking                                                                  *)

(* Whoever is in the list when nobody is on the way out has not been woken *)
(* and is not between unlocking the mutex and Permit().                    *)
LEMMA WaitersWait ==
    ASSUME CvIInv, Patient, NEW t \in Tasks, MayWake(t), NEW u \in Entries(Waiters)
    PROVE  u \in Tasks /\ cvAt[u] = "waiting" /\ Running(u)
<1>1. /\ MayRun(t) /\ cvAt[t] = "out" /\ Holds(t, Mutex) > 0 /\ due = {}
  BY DEF MayWake, HasMutex
<1>2. u \in Tasks /\ cvAt[u] # "out" /\ u # t
  <2>1. u \in Tasks
    BY CvTypes, EntriesFacts
  <2> QED
    BY <1>1, <2>1 DEF CvIInv, CvInv, WaitersOK
<1>3. PlaceOK(u) /\ WokenOK(u)
  BY <1>2 DEF CvIInv, CvInv
<1>4. cvAt[u] # "enlisted"
  <2> SUFFICES ASSUME cvAt[u] = "enlisted" PROVE FALSE
    OBVIOUS
  <2>1. obtained[u][Mutex]["exclusive"] > 0
    BY <1>3 DEF PlaceOK
  <2>2. obtained[t][Mutex]["exclusive"] > 0
    BY <1>1, HolderIsExclusive
  <2> QED
    BY <1>2, <2>1, <2>2, OneHasMutex
<1>5. cvAt[u] # "unlocked"
  BY <1>1, <1>2, NoOtherUnlocked
<1>6. cvAt[u] = "waiting"
  <2>1. cvAt[u] \notin {"relocking", "leaving"}
    BY <1>1, <1>3 DEF WokenOK
  <2> QED
    BY <1>2, <1>4, <1>5, <2>1, CvTypes DEF InWait
<1> QED
  BY <1>2, <1>3, <1>6 DEF PlaceOK, InWait

LEMMA WakeStep ==
    ASSUME CvIInv, Patient, NEW t \in Tasks, MayWake(t),
           NEW threads \in SUBSET Entries(Waiters), Signalled(threads)
    PROVE  CvIInv'
<1>1. /\ sigSingle' = [u \in Tasks |-> sigSingle[u] \/ u \in threads]
      /\ due' = due \cup threads /\ UNCHANGED <<semVars, clientVars, msgVars>>
      /\ Waiters' = Waiters /\ cvAt' = cvAt /\ forbid' = forbid
  BY DEF Signalled
<1>2. \A u \in threads : u \in Tasks /\ cvAt[u] = "waiting" /\ Running(u)
  BY WaitersWait
<1>3. \A u \in Tasks : sigSingle'[u] <=> sigSingle[u] \/ u \in threads
  BY <1>1
<1>4. sigSingle' \in [Tasks -> BOOLEAN]
  BY <1>1, CvTypes
<1>5. SemKept
  BY <1>1, <1>2, <1>3, <1>4, QuietCv
<1>6. CvTypeOK'
  <2>1. due' \subseteq Tasks
    BY <1>1, <1>2, CvTypes
  <2> QED
    BY <1>1, <1>5, <2>1 DEF CvIInv, CvInv, CvTypeOK, SemKept, IInv
<1>7. ASSUME NEW u \in Tasks
      PROVE  PlaceOK(u)' /\ WokenOK(u)'
  <2>1. PlaceOK(u) /\ WokenOK(u)
    BY DEF CvIInv, CvInv
  <2>2. PlaceOK(u)'
    BY <1>1, <2>1 DEF PlaceOK, Running, clientVars
  <2>3. WokenOK(u)'
    BY <1>1, <1>2, <1>3, <2>1 DEF WokenOK
  <2> QED
    BY <2>2, <2>3
<1>8. WaitersOK'
  BY <1>1 DEF CvIInv, CvInv, WaitersOK
<1> QED
  BY <1>5, <1>6, <1>7, <1>8 DEF CvIInv, CvInv, SemKept

-----------------------------------------------------------------------------
(* The invariant                                                           *)

LEMMA InitCv == CvInit => CvIInv
<1> SUFFICES ASSUME CvInit PROVE CvIInv
  OBVIOUS
<1>1. IInv({}) /\ LInv({})
  BY InitIInv, InitLInv DEF CvInit
<1>2. Waiters = << >> /\ cvAt = [t \in Tasks |-> "out"] /\ forbid = NULL /\ due = {}
  BY DEF CvInit
<1>3. CvTypeOK
  <2>1. << >> \in Seq(Tasks)
    OBVIOUS
  <2> QED
    BY <1>1, <1>2, <2>1 DEF CvTypeOK, IInv
<1>4. PlainMutex
  BY ConditionAssumption DEF CvInit, Init, PlainMutex, Running, Modes
<1>5. WaitersOK
  BY <1>2, EmptyFacts DEF WaitersOK
<1>6. \A t \in Tasks : PlaceOK(t) /\ WokenOK(t)
  BY <1>2 DEF PlaceOK, WokenOK, InWait
<1> QED
  BY <1>1, <1>3, <1>4, <1>5, <1>6 DEF CvIInv, CvInv

LEMMA NextCv ==
    ASSUME Patient
    PROVE  CvIInv /\ [CvNext]_allVars => CvIInv'
<1> SUFFICES ASSUME CvIInv, [CvNext]_allVars PROVE CvIInv'
  OBVIOUS
<1>1. ASSUME NEW t \in Tasks, WaitStep(t) PROVE CvIInv'
  BY <1>1, UnlockStep, ForgetSingleStep, WaitReturnsStep, RelockedStep, RelockSleepStep,
     LeaveStep DEF WaitStep
<1>2. ASSUME NEW t \in Tasks, WakeOne(t) PROVE CvIInv'
  <2>1. MayWake(t) /\ Signalled({Waiters[1]}) /\ Waiters # << >>
    BY <1>2 DEF WakeOne
  <2>2. {Waiters[1]} \in SUBSET Entries(Waiters)
    <3>1. Waiters \in Seq(Tasks)
      BY CvTypes
    <3>2. 1 \in 1 .. Len(Waiters)
      BY <2>1, <3>1, EntriesFacts
    <3> QED
      BY <3>2 DEF Entries
  <2> QED
    BY <2>1, <2>2, WakeStep
<1>3. ASSUME NEW t \in Tasks, WakeAll(t) PROVE CvIInv'
  <2>1. MayWake(t) /\ Signalled(Range(Waiters))
    BY <1>3 DEF WakeAll
  <2>2. DOMAIN Waiters = 1 .. Len(Waiters)
    BY CvTypes, EntriesFacts
  <2>3. Range(Waiters) \in SUBSET Entries(Waiters)
    BY <2>2 DEF Range, Entries
  <2> QED
    BY <2>1, <2>3, WakeStep
<1>4. CASE UNCHANGED allVars
  <2>1. [Next]_vars
    BY <1>4 DEF allVars
  <2>2. IInv({})' /\ LInv({})'
    BY <2>1, SemaphoreStep DEF CvIInv
  <2>3. CvInv'
    BY <1>4 DEF CvIInv, CvInv, CvTypeOK, TypeOK, PlainMutex, WaitersOK, PlaceOK, WokenOK,
                Running, allVars, vars, cvVars, semVars, clientVars, msgVars
  <2> QED
    BY <2>2, <2>3 DEF CvIInv
<1> QED
  BY <1>1, <1>2, <1>3, <1>4, EnlistedStep, LockStepKeeps DEF CvNext

THEOREM CvSpecIInv ==
    ASSUME Patient
    PROVE  CvSpec => []CvIInv
<1>1. CvIInv /\ [CvNext]_allVars => CvIInv'
  BY NextCv
<1> QED
  BY <1>1, InitCv, PTL DEF CvSpec

(* Every field keeps its type: wakers only signal threads that wait.       *)
THEOREM CvSpecTypeOK ==
    ASSUME Patient
    PROVE  CvSpec => []CvTypeOK
<1>1. CvIInv => CvTypeOK
  BY DEF CvIInv, CvInv
<1> QED
  BY <1>1, CvSpecIInv, PTL

(* The mutex excludes, although a woken thread sleeps for it on the signal *)
(* that wakers send.                                                       *)
THEOREM CvSpecMutualExclusion ==
    ASSUME Patient
    PROVE  CvSpec => []MutualExclusion
<1>1. CvIInv => MutualExclusion
  BY LocksExclude DEF CvIInv
<1> QED
  BY <1>1, CvSpecIInv, PTL

(* A thread that was woken does not sleep on: no wake-up gets lost between *)
(* unlocking the mutex and Wait().                                         *)
THEOREM CvSpecNoLostWakeup ==
    ASSUME Patient
    PROVE  CvSpec => []NoLostWakeup
<1>1. CvIInv => NoLostWakeup
  BY DEF CvIInv, CvInv, CvTypeOK, WokenOK, NoLostWakeup
<1> QED
  BY <1>1, CvSpecIInv, PTL

(* No thread returns from _condvar_wait that was not woken.                *)
THEOREM CvSpecNoSpuriousReturn ==
    ASSUME Patient
    PROVE  CvSpec => []NoSpuriousReturn
<1>1. CvIInv => NoSpuriousReturn
  BY DEF CvIInv, CvInv, WokenOK, NoSpuriousReturn
<1> QED
  BY <1>1, CvSpecIInv, PTL
=============================================================================
