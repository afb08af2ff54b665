-------------------------- MODULE SignalSemaphore --------------------------
(***************************************************************************)
(* Exec signal semaphores (src/ROM/exec): ObtainSemaphore, its shared and  *)
(* attempting forms, ReleaseSemaphore, and the asynchronous Procure and    *)
(* Vacate that bid for a semaphore with a message.                         *)
(*                                                                         *)
(* Every call runs between Forbid() and Permit(), so with respect to other *)
(* tasks it is one step, except that a task that must queue gives up the   *)
(* processor in Wait(SIGF_SINGLE) and resumes in a step of its own.        *)
(***************************************************************************)
EXTENDS Integers, Sequences, FiniteSets, SequencesExt

CONSTANTS
    Tasks,      \* the tasks that use the semaphores
    Sems,       \* the struct SignalSemaphore
    Msgs,       \* the struct SemaphoreMessage used with Procure and Vacate
    NULL,       \* the null pointer
    MaxNest     \* bound: how often a task may hold one semaphore at a time

(* SM_EXCLUSIVE and SM_SHARED, the low bit of sr_Waiter.                   *)
Modes == {"exclusive", "shared"}

(* What a program knows of a lock it asked for.                            *)
Want == [sem : Sems, mode : Modes]
Bid  == [task : Tasks, sem : Sems, mode : Modes]

ASSUME ConstantsAssumption ==
    /\ MaxNest \in Nat
    /\ Tasks \cap Sems = {} /\ Tasks \cap Msgs = {} /\ Msgs \cap Sems = {}
    /\ NULL \notin Tasks \cup Sems \cup Msgs \cup Want \cup Bid

VARIABLES
    ssOwner, ssNestCount, ssQueueCount,     \* fields of each semaphore
    ssWaitQueue,    \* semaphore -> its queued requests, the oldest first
    sigSingle,      \* task -> is SIGF_SINGLE set in tc_SigRecvd
    waitingFor,     \* task -> the request it sleeps on in ObtainSemaphore
    obtained,       \* task, semaphore, mode -> locks its program has to release
    ssmSemaphore,   \* message -> ssm_Semaphore
    msgAt,          \* message -> with its program, in a queue, in the reply port
    bid             \* message -> the bid its program has not vacated yet

semVars    == <<ssOwner, ssNestCount, ssQueueCount, ssWaitQueue>>
clientVars == <<waitingFor, obtained, bid>>
msgVars    == <<ssmSemaphore, msgAt>>
vars       == <<semVars, sigSingle, clientVars, msgVars>>

(* A node of ss_WaitQueue.  A SemaphoreRequest on the stack of a task has  *)
(* that task in sr_Waiter; a SemaphoreMessage has NULL there.              *)
Request == [node : Tasks \cup Msgs, mode : Modes]

TypeOK ==
    /\ ssOwner \in [Sems -> Tasks \cup {NULL}]
    /\ ssNestCount \in [Sems -> Int]
    /\ ssQueueCount \in [Sems -> Int]
    /\ ssWaitQueue \in [Sems -> Seq(Request)]
    /\ sigSingle \in [Tasks -> BOOLEAN]
    /\ waitingFor \in [Tasks -> Want \cup {NULL}]
    /\ obtained \in [Tasks -> [Sems -> [Modes -> Nat]]]
    /\ ssmSemaphore \in [Msgs -> Tasks \cup Sems \cup {NULL}]
    /\ msgAt \in [Msgs -> {"program", "queue", "port"}]
    /\ bid \in [Msgs -> Bid \cup {NULL}]

Init ==
    /\ ssOwner = [s \in Sems |-> NULL]
    /\ ssNestCount = [s \in Sems |-> 0]
    /\ ssQueueCount = [s \in Sems |-> -1]
    /\ ssWaitQueue = [s \in Sems |-> << >>]
    /\ sigSingle = [t \in Tasks |-> FALSE]
    /\ waitingFor = [t \in Tasks |-> NULL]
    /\ obtained = [t \in Tasks |-> [s \in Sems |-> [m \in Modes |-> 0]]]
    /\ ssmSemaphore = [m \in Msgs |-> NULL]
    /\ msgAt = [m \in Msgs |-> "program"]
    /\ bid = [m \in Msgs |-> NULL]

-----------------------------------------------------------------------------
(* What the programs that call exec keep to.                               *)

Running(t) == waitingFor[t] = NULL

Holds(t, s) == obtained[t][s]["exclusive"] + obtained[t][s]["shared"]

Queued(m) == msgAt[m] = "queue"

(* m has a bid its program did not vacate, and the semaphore was given.    *)
Granted(m) == bid[m] # NULL /\ ~Queued(m)

BidsOf(t, s) == {m \in Msgs : bid[m] # NULL /\ bid[m].task = t /\ bid[m].sem = s}

(* A program does not sleep for a lock that only it can free: it does not  *)
(* ask for the exclusive lock over a shared one of its own, nor for any    *)
(* lock while a bid of its own is still queued.                            *)
MaySleep(t, s, mode) ==
    /\ \A m \in BidsOf(t, s) : ~Queued(m) /\ (mode = "exclusive" => bid[m].mode = mode)
    /\ mode = "exclusive" => obtained[t][s]["shared"] = 0

-----------------------------------------------------------------------------
(* Obtaining                                                               *)

(* The task that may share the lock with a request, the `owner' argument.  *)
OwnerFor(t, mode) == IF mode = "shared" THEN NULL ELSE t

IsFree(s) == ssQueueCount[s] = -1

(* The counter goes up before the test; 0 then means nobody had it.        *)
Acquire(s, owner) ==
    /\ ssQueueCount' = [ssQueueCount EXCEPT ![s] = @ + 1]
    /\ ssNestCount' = [ssNestCount EXCEPT ![s] = @ + 1]
    /\ ssOwner' = [ssOwner EXCEPT ![s] = IF IsFree(s) THEN owner ELSE @]
    /\ UNCHANGED ssWaitQueue

EnlistFirst(s, request) ==
    /\ ssQueueCount' = [ssQueueCount EXCEPT ![s] = @ + 1]
    /\ ssWaitQueue' = [ssWaitQueue EXCEPT ![s] = <<request>> \o @]
    /\ UNCHANGED <<ssOwner, ssNestCount>>

Enlist(s, request) ==
    /\ ssQueueCount' = [ssQueueCount EXCEPT ![s] = @ + 1]
    /\ ssWaitQueue' = [ssWaitQueue EXCEPT ![s] = Append(@, request)]
    /\ UNCHANGED <<ssOwner, ssNestCount>>

AvailableIgnoringMode(t, s, mode) == IsFree(s) \/ ssOwner[s] \in {t, NULL}

Available(t, s, mode) ==
    IsFree(s) \/ ssOwner[s] = t \/ ssOwner[s] = OwnerFor(t, mode)

(* The call returns with the lock.                                         *)
ObtainNow(t, s, mode) ==
    /\ Running(t) /\ Holds(t, s) < MaxNest /\ MaySleep(t, s, mode)
    /\ Available(t, s, mode)
    /\ Acquire(s, OwnerFor(t, mode))
    /\ obtained' = [obtained EXCEPT ![t][s][mode] = @ + 1]
    /\ UNCHANGED <<sigSingle, waitingFor, bid, msgVars>>

SingleLeftSet(t) == UNCHANGED sigSingle

ClearSingle(t) == sigSingle' = [sigSingle EXCEPT ![t] = FALSE]

(* Somebody else has it: clear a stale SIGF_SINGLE, queue, and sleep.      *)
ObtainSleep(t, s, mode) ==
    /\ Running(t) /\ Holds(t, s) < MaxNest /\ MaySleep(t, s, mode)
    /\ ~Available(t, s, mode)
    /\ ClearSingle(t)
    /\ Enlist(s, [node |-> t, mode |-> mode])
    /\ waitingFor' = [waitingFor EXCEPT ![t] = [sem |-> s, mode |-> mode]]
    /\ UNCHANGED <<obtained, bid, msgVars>>

(* Wait(SIGF_SINGLE) returns and the caller takes it that the lock is its. *)
ObtainAwake(t) ==
    /\ ~Running(t) /\ sigSingle[t]
    /\ sigSingle' = [sigSingle EXCEPT ![t] = FALSE]
    /\ obtained' = [obtained EXCEPT ![t][waitingFor[t].sem][waitingFor[t].mode] = @ + 1]
    /\ waitingFor' = [waitingFor EXCEPT ![t] = NULL]
    /\ UNCHANGED <<semVars, bid, msgVars>>

AttemptSucceeds(t, s, mode) ==
    /\ Running(t) /\ Holds(t, s) < MaxNest
    /\ Available(t, s, mode)
    /\ Acquire(s, OwnerFor(t, mode))
    /\ obtained' = [obtained EXCEPT ![t][s][mode] = @ + 1]
    /\ UNCHANGED <<sigSingle, waitingFor, bid, msgVars>>

(* The counter is put back and FALSE returned.                             *)
AttemptFails(t, s, mode) ==
    /\ Running(t) /\ Holds(t, s) < MaxNest
    /\ ~Available(t, s, mode)
    /\ UNCHANGED vars

-----------------------------------------------------------------------------
(* Releasing                                                               *)

SharedAt(q) == {i \in DOMAIN q : q[i].mode = "shared"}

ServedUpToFirstExclusive(q) ==
    IF q[1].mode = "shared" THEN {i \in SharedAt(q) : 1..i \subseteq SharedAt(q)} ELSE {1}

(* The places in the queue that the last release of a semaphore serves:    *)
(* every shared request when the oldest one is shared, else the oldest.    *)
Served(q) == IF q[1].mode = "shared" THEN SharedAt(q) ELSE {1}

(* The first n places of the queue q without the places K, in the same     *)
(* order; kept[i] is what is left of the first i.                          *)
WithoutUpTo(n, q, K) ==
    LET kept[i \in 1..n] ==
          LET before == IF i = 1 THEN << >> ELSE kept[i - 1]
          IN IF i \in K THEN before ELSE Append(before, q[i])
    IN IF n = 0 THEN << >> ELSE kept[n]

Without(q, K) == WithoutUpTo(Len(q), q, K)

Unserved(q) == Without(q, Served(q))

ServedNodes(q) == {q[i].node : i \in Served(q)}

OneLock(q) == 1

(* One lock for every request served.                                      *)
NewLocks(q) == Cardinality(Served(q))

HeadNode(q, ssm) == q[1].node

(* Who owns the semaphore once the head is served.  For a message the task *)
(* was left in ssm_Semaphore by Procure.                                   *)
NextOwner(q, ssm) ==
    IF q[1].mode = "shared" THEN NULL
    ELSE IF q[1].node \in Tasks THEN q[1].node
    ELSE ssm[q[1].node]

ManyQueued(s) == ssQueueCount[s] - 1 > 0 /\ ssWaitQueue[s] # << >>

(* Both tests of ReleaseSemaphore for waiters, the counter already lowered.*)
AnyQueued(s) == ssQueueCount[s] - 1 >= 0 /\ ssWaitQueue[s] # << >>

(* ReleaseSemaphore, with ssm the contents of the ssm_Semaphore fields     *)
(* when it is called.  The last release hands the semaphore over: sleeping *)
(* tasks are signalled, messages replied.                                  *)
ReleaseSem(s, ssm) ==
    LET q     == ssWaitQueue[s]
        last  == ssNestCount[s] = 1
        serve == last /\ AnyQueued(s)
        nodes == IF serve THEN ServedNodes(q) ELSE {}
    IN  /\ ssNestCount' = [ssNestCount EXCEPT ![s] =
                             IF serve THEN NewLocks(q) ELSE @ - 1]
        /\ ssQueueCount' = [ssQueueCount EXCEPT ![s] =
                             IF last /\ ~serve THEN -1 ELSE @ - 1]
        /\ ssOwner' = [ssOwner EXCEPT ![s] =
                             IF serve THEN NextOwner(q, ssm) ELSE IF last THEN NULL ELSE @]
        /\ ssWaitQueue' = [ssWaitQueue EXCEPT ![s] = IF serve THEN Unserved(q) ELSE @]
        /\ sigSingle' = [t \in Tasks |-> sigSingle[t] \/ t \in nodes]
        /\ ssmSemaphore' = [m \in Msgs |-> IF m \in nodes THEN s ELSE ssm[m]]
        /\ msgAt' = [m \in Msgs |-> IF m \in nodes THEN "port" ELSE msgAt[m]]

(* The lock may be released by another task than the one that obtained it: *)
(* CHECK_TASK is 0 and nothing in the call depends on the caller.          *)
Release(caller, t, s, mode) ==
    /\ Running(caller) /\ obtained[t][s][mode] > 0
    /\ ReleaseSem(s, ssmSemaphore)
    /\ obtained' = [obtained EXCEPT ![t][s][mode] = @ - 1]
    /\ UNCHANGED <<waitingFor, bid>>

-----------------------------------------------------------------------------
(* Bidding with a message                                                  *)

(* ssm_Semaphore names the bidder until the bid is granted.                *)
ProcureNow(t, m, s, mode) ==
    /\ Running(t) /\ bid[m] = NULL /\ msgAt[m] = "program"
    /\ IsFree(s) \/ ssOwner[s] = OwnerFor(t, mode)
    /\ Acquire(s, OwnerFor(t, mode))
    /\ ssmSemaphore' = [ssmSemaphore EXCEPT ![m] = s]
    /\ msgAt' = [msgAt EXCEPT ![m] = "port"]
    /\ bid' = [bid EXCEPT ![m] = [task |-> t, sem |-> s, mode |-> mode]]
    /\ UNCHANGED <<sigSingle, waitingFor, obtained>>

ProcureQueue(t, m, s, mode) ==
    /\ Running(t) /\ bid[m] = NULL /\ msgAt[m] = "program"
    /\ ~IsFree(s) /\ ssOwner[s] # OwnerFor(t, mode)
    /\ Enlist(s, [node |-> m, mode |-> mode])
    /\ ssmSemaphore' = [ssmSemaphore EXCEPT ![m] = OwnerFor(t, mode)]
    /\ msgAt' = [msgAt EXCEPT ![m] = "queue"]
    /\ bid' = [bid EXCEPT ![m] = [task |-> t, sem |-> s, mode |-> mode]]
    /\ UNCHANGED <<sigSingle, waitingFor, obtained>>

(* GetMsg on the reply port: the program has the message back.             *)
CollectReply(m) ==
    /\ msgAt[m] = "port"
    /\ msgAt' = [msgAt EXCEPT ![m] = "program"]
    /\ UNCHANGED <<semVars, sigSingle, clientVars, ssmSemaphore>>

KeepSemaphore(m) == ssmSemaphore

(* Vacate clears ssm_Semaphore first thing.                                *)
Forget(m) == [ssmSemaphore EXCEPT ![m] = NULL]

WithdrawUncounted(s, i) ==
    /\ ssWaitQueue' = [ssWaitQueue EXCEPT ![s] = RemoveAt(@, i)]
    /\ UNCHANGED ssQueueCount

(* Remove() takes the request at place i out of the queue.                 *)
Withdraw(s, i) ==
    /\ ssWaitQueue' = [ssWaitQueue EXCEPT ![s] = RemoveAt(@, i)]
    /\ ssQueueCount' = [ssQueueCount EXCEPT ![s] = @ - 1]

(* The bid is still in the queue: take it out and reply it.                *)
VacateQueued(m) ==
    /\ bid[m] # NULL /\ Running(bid[m].task) /\ Queued(m)
    /\ \E i \in DOMAIN ssWaitQueue[bid[m].sem] :
         /\ ssWaitQueue[bid[m].sem][i].node = m
         /\ Withdraw(bid[m].sem, i)
    /\ ssmSemaphore' = Forget(m)
    /\ msgAt' = [msgAt EXCEPT ![m] = "port"]
    /\ bid' = [bid EXCEPT ![m] = NULL]
    /\ UNCHANGED <<ssOwner, ssNestCount, sigSingle, waitingFor, obtained>>

(* It was granted, whether or not the program saw the reply.               *)
VacateGranted(m) ==
    /\ bid[m] # NULL /\ Running(bid[m].task) /\ ~Queued(m)
    /\ ReleaseSem(bid[m].sem, Forget(m))
    /\ bid' = [bid EXCEPT ![m] = NULL]
    /\ UNCHANGED <<waitingFor, obtained>>

(* SIGF_SINGLE is a bit anything may use; it can be left set in a task     *)
(* that is not asleep.                                                     *)
StraySingle(t) ==
    /\ Running(t) /\ ~sigSingle[t]
    /\ sigSingle' = [sigSingle EXCEPT ![t] = TRUE]
    /\ UNCHANGED <<semVars, clientVars, msgVars>>
-----------------------------------------------------------------------------
ObtainStep ==
    \E t \in Tasks, s \in Sems, mode \in Modes :
        \/ ObtainNow(t, s, mode)
        \/ ObtainSleep(t, s, mode)
        \/ AttemptSucceeds(t, s, mode)
        \/ AttemptFails(t, s, mode)

ReleaseStep ==
    \E caller, t \in Tasks, s \in Sems, mode \in Modes : Release(caller, t, s, mode)

ProcureStep ==
    \E t \in Tasks, m \in Msgs, s \in Sems, mode \in Modes :
        ProcureNow(t, m, s, mode) \/ ProcureQueue(t, m, s, mode)

MessageStep ==
    \E m \in Msgs : CollectReply(m) \/ VacateQueued(m) \/ VacateGranted(m)

SignalStep == \E t \in Tasks : ObtainAwake(t) \/ StraySingle(t)

Next == ObtainStep \/ ReleaseStep \/ ProcureStep \/ MessageStep \/ SignalStep

Spec == Init /\ [][Next]_vars

(* A signalled task is scheduled in the end.  Nothing else is fair: no     *)
(* program has to ask for a lock, or to release one.                       *)
Fairness == \A t \in Tasks : WF_vars(ObtainAwake(t))

FairSpec == Spec /\ Fairness

-----------------------------------------------------------------------------
(* Invariants                                                              *)

(* ss_QueueCount counts the locks held and the requests queued, less one,  *)
(* so the tests on -1 and 0 in every call mean what their comments say.    *)
CountsAgree ==
    \A s \in Sems : ssQueueCount[s] + 1 = ssNestCount[s] + Len(ssWaitQueue[s])

(* A semaphore nobody holds has nobody waiting: ReleaseSemaphore never     *)
(* leaves a request behind that no later call would serve.                 *)
NoForgottenWaiter ==
    \A s \in Sems : ssNestCount[s] = 0 => ssWaitQueue[s] = << >> /\ ssOwner[s] = NULL

Waits(n, q) == \E i \in DOMAIN q : q[i].node = n

(* A task that sleeps in ObtainSemaphore, its request already served.      *)
HandedTo(t, s) ==
    waitingFor[t] # NULL /\ waitingFor[t].sem = s /\ ~Waits(t, ssWaitQueue[s])

GrantedOn(s) == {m \in Msgs : Granted(m) /\ bid[m].sem = s}

(* The locks of s that were given and not yet released, <<who, mode, n>>:  *)
(* those that calls returned to a task, numbered, and with number 0 that   *)
(* of a task about to return, and that of a message.                       *)
ReturnedTo(t, s) == UNION {{<<t, mode, n>> : n \in 1..obtained[t][s][mode]} : mode \in Modes}

Returned(s) == UNION {ReturnedTo(t, s) : t \in Tasks}

ToReturn(s) == {<<t, waitingFor[t].mode, 0>> : t \in {u \in Tasks : HandedTo(u, s)}}

InMessages(s) == {<<m, bid[m].mode, 0>> : m \in GrantedOn(s)}

Locks(s) == Returned(s) \cup ToReturn(s) \cup InMessages(s)

TaskOf(who) == IF who \in Tasks THEN who ELSE bid[who].task

HolderOf(lock) == TaskOf(lock[1])

(* Mutual exclusion, from what the programs were told: whoever has an      *)
(* exclusive lock is alone with it, whatever mixture of calls and messages *)
(* the locks came from.                                                    *)
MutualExclusion ==
    \A s \in Sems : \A lock, other \in Locks(s) :
        lock[2] = "exclusive" => HolderOf(other) = HolderOf(lock)

(* ss_NestCount is the number of locks given and not yet released: none is *)
(* lost and none is handed out twice.                                      *)
NestCountIsLocks == \A s \in Sems : ssNestCount[s] = Cardinality(Locks(s))

(* A task wakes from ObtainSemaphore only by the release that gave it the  *)
(* lock: SIGF_SINGLE is set in a sleeping task exactly when its request    *)
(* has left the queue.                                                     *)
AwakeMeansHanded ==
    \A t \in Tasks : ~Running(t) => (sigSingle[t] <=> HandedTo(t, waitingFor[t].sem))

(* A semaphore held shared has only exclusive requests in its queue: the   *)
(* release that made it shared took every shared one.                      *)
SharedNeverQueuesBehindShared ==
    \A s \in Sems : ssNestCount[s] > 0 /\ ssOwner[s] = NULL =>
        SharedAt(ssWaitQueue[s]) = {}

(* ssm_Semaphore, read when the message is back, tells whether the bid was *)
(* granted or vacated, also when Vacate overtook the reply.                *)
ReplyTellsOutcome ==
    \A m \in Msgs : msgAt[m] # "queue" =>
        ssmSemaphore[m] = IF bid[m] # NULL THEN bid[m].sem ELSE NULL

-----------------------------------------------------------------------------
(* Liveness                                                                *)

Asleep(t, mode) == ~Running(t) /\ waitingFor[t].mode = mode

HeldShared(s) == ssNestCount[s] > 0 /\ ssOwner[s] = NULL

(* Owners that let go: no task is the owner of a semaphore for ever.       *)
OwnersLetGo == \A s \in Sems, t \in Tasks : []<>(ssOwner[s] # t)

(* Then readers are never starved: a task that waits for the shared lock   *)
(* gets it, whatever else is queued before it and comes after it.          *)
SharedIsServed ==
    OwnersLetGo => \A t \in Tasks : Asleep(t, "shared") ~> Running(t)

(* And writers are starved by nothing but readers that overlap for ever.   *)
ExclusiveIsServed ==
    OwnersLetGo /\ (\A s \in Sems : []<>~HeldShared(s)) =>
        \A t \in Tasks : Asleep(t, "exclusive") ~> Running(t)
=============================================================================
