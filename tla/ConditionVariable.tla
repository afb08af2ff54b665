------------------------- MODULE ConditionVariable -------------------------
(***************************************************************************)
(* The condition variables that dbus.library is given                      *)
(* (src/ROM/dbus/amiga_threads.c), on top of the semaphores that are its   *)
(* mutexes.  A waiting thread and a thread asleep in ObtainSemaphore both  *)
(* sleep on SIGF_SINGLE.                                                   *)
(***************************************************************************)
EXTENDS SignalSemaphore

CONSTANTS
    Mutex,      \* the mutex that goes with the condition variable
    Patient     \* whether wakers leave alone a thread that was woken and has
                \* not got the mutex back

ASSUME ConditionAssumption == Mutex \in Sems /\ Patient \in BOOLEAN

VARIABLES
    Waiters,    \* the list of the condition variable
    cvAt,       \* thread -> where it is in _condvar_wait, or "out" of it
    forbid,     \* the thread that runs between Forbid() and Permit(), or NULL
    due         \* the threads woken that have not left _condvar_wait

cvVars  == <<Waiters, cvAt, forbid, due>>
allVars == <<vars, cvVars>>

CvTypeOK ==
    /\ TypeOK
    /\ Waiters \in Seq(Tasks)
    /\ cvAt \in [Tasks -> {"out", "enlisted", "unlocked", "waiting", "relocking", "leaving"}]
    /\ forbid \in Tasks \cup {NULL}
    /\ due \subseteq Tasks

CvInit ==
    /\ Init
    /\ Waiters = << >> /\ cvAt = [t \in Tasks |-> "out"] /\ forbid = NULL /\ due = {}

Goes(t, from, to) == cvAt[t] = from /\ cvAt' = [cvAt EXCEPT ![t] = to]

MayRun(t) == forbid \in {NULL, t}

HasMutex(t) == Running(t) /\ cvAt[t] = "out" /\ Holds(t, Mutex) > 0

-----------------------------------------------------------------------------
(* _condvar_wait, called with the mutex locked once                        *)

Enlisted(t) ==
    /\ MayRun(t) /\ HasMutex(t) /\ Holds(t, Mutex) = 1
    /\ Goes(t, "out", "enlisted")
    /\ Waiters' = Append(Waiters, t)
    /\ UNCHANGED <<vars, forbid, due>>

UnlockPreemptible(t) ==
    /\ MayRun(t) /\ Goes(t, "enlisted", "unlocked")
    /\ ReleaseSem(Mutex, ssmSemaphore)
    /\ obtained' = [obtained EXCEPT ![t][Mutex]["exclusive"] = @ - 1]
    /\ UNCHANGED <<waitingFor, bid, Waiters, forbid, due>>

(* Forbid() and _mutex_unlock().                                           *)
Unlock(t) ==
    /\ MayRun(t) /\ Goes(t, "enlisted", "unlocked")
    /\ forbid' = t
    /\ ReleaseSem(Mutex, ssmSemaphore)
    /\ obtained' = [obtained EXCEPT ![t][Mutex]["exclusive"] = @ - 1]
    /\ UNCHANGED <<waitingFor, bid, Waiters, due>>

ForgetNothing(t) ==
    /\ MayRun(t) /\ Goes(t, "unlocked", "waiting")
    /\ forbid' = NULL
    /\ UNCHANGED <<sigSingle, semVars, clientVars, msgVars, Waiters, due>>

(* SetSignal(0, SIGF_SINGLE) and Permit().                                 *)
ForgetSingle(t) ==
    /\ MayRun(t) /\ Goes(t, "unlocked", "waiting")
    /\ ClearSingle(t)
    /\ forbid' = NULL
    /\ UNCHANGED <<semVars, clientVars, msgVars, Waiters, due>>

(* Wait(SIGF_SINGLE) returns.                                              *)
WaitReturns(t) ==
    /\ MayRun(t) /\ sigSingle[t] /\ Goes(t, "waiting", "relocking")
    /\ ClearSingle(t)
    /\ UNCHANGED <<semVars, clientVars, msgVars, Waiters, forbid, due>>

(* _mutex_lock(), at once, or asleep in ObtainSemaphore for a while.       *)
RelockNow(t) ==
    /\ MayRun(t) /\ Goes(t, "relocking", "leaving")
    /\ ObtainNow(t, Mutex, "exclusive")
    /\ UNCHANGED <<Waiters, forbid, due>>

RelockSleep(t) ==
    /\ MayRun(t) /\ cvAt[t] = "relocking"
    /\ ObtainSleep(t, Mutex, "exclusive")
    /\ UNCHANGED cvVars

RelockAwake(t) ==
    /\ MayRun(t) /\ Goes(t, "relocking", "leaving")
    /\ ObtainAwake(t)
    /\ UNCHANGED <<Waiters, forbid, due>>

(* Remove() the request from the list.                                     *)
Leave(t) ==
    /\ MayRun(t) /\ Goes(t, "leaving", "out")
    /\ Waiters' = RemoveFirst(Waiters, t)
    /\ due' = due \ {t}
    /\ UNCHANGED <<vars, forbid>>

-----------------------------------------------------------------------------
(* Waking: "Assume the mutex is locked".                                   *)

Signalled(threads) ==
    /\ sigSingle' = [t \in Tasks |-> sigSingle[t] \/ t \in threads]
    /\ due' = due \cup threads
    /\ UNCHANGED <<semVars, clientVars, msgVars, Waiters, cvAt, forbid>>

MayWake(t) == MayRun(t) /\ HasMutex(t) /\ (Patient => due = {})

WakeOneUnguarded(t) ==
    MayWake(t) /\ Signalled(IF Waiters = << >> THEN {NULL} ELSE {Waiters[1]})

WakeOne(t) == MayWake(t) /\ Waiters # << >> /\ Signalled({Waiters[1]})

WakeAll(t) == MayWake(t) /\ Waiters # << >> /\ Signalled(Range(Waiters))

(* The threads lock and unlock the mutex, and use SIGF_SINGLE otherwise.   *)
LockStep(t) ==
    /\ MayRun(t) /\ cvAt[t] = "out"
    /\ \/ ObtainNow(t, Mutex, "exclusive")
       \/ ObtainSleep(t, Mutex, "exclusive")
       \/ ObtainAwake(t)
       \/ Release(t, t, Mutex, "exclusive")
       \/ StraySingle(t)
    /\ UNCHANGED cvVars

WaitStep(t) ==
    \/ Unlock(t) \/ ForgetSingle(t) \/ WaitReturns(t)
    \/ RelockNow(t) \/ RelockSleep(t) \/ RelockAwake(t) \/ Leave(t)

CvNext ==
    \E t \in Tasks : Enlisted(t) \/ WaitStep(t) \/ WakeOne(t) \/ WakeAll(t) \/ LockStep(t)

CvSpec == CvInit /\ [][CvNext]_allVars

(* A thread in _condvar_wait that can run gets to run, and so does one     *)
(* that got the mutex.                                                     *)
CvFairSpec ==
    /\ CvSpec
    /\ \A t \in Tasks :
         /\ WF_allVars(WaitStep(t))
         /\ WF_allVars(ObtainAwake(t) /\ LockStep(t))

-----------------------------------------------------------------------------
(* No wake-up is lost between unlocking the mutex and Wait(): a thread     *)
(* that was woken does not sleep on.                                       *)
NoLostWakeup == \A t \in due : cvAt[t] = "waiting" => sigSingle[t]

(* And no thread returns that was not woken, although releases of the      *)
(* mutex set the same signal.                                              *)
NoSpuriousReturn == \A t \in Tasks : cvAt[t] \in {"relocking", "leaving"} => t \in due

(* A thread that was woken gets the mutex and returns, if the others let   *)
(* it go.                                                                  *)
WokenReturns ==
    (\A t \in Tasks : []<>(ssOwner[Mutex] # t \/ cvAt[t] = "leaving")) =>
        \A t \in Tasks : t \in due ~> t \notin due
=============================================================================
