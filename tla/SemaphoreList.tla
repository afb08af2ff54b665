--------------------------- MODULE SemaphoreList ---------------------------
(***************************************************************************)
(* ObtainSemaphoreList (src/ROM/exec/obtainsemaphorelist.c) among the      *)
(* other semaphore calls.                                                  *)
(*                                                                         *)
(* The call takes what it can of the list and queues for the rest, all in  *)
(* one Forbid(), then sleeps until it owns everything.  It queues with     *)
(* ss_MultipleLink, a field of the semaphore, so only one task at a time   *)
(* may be in it: its documentation asks the programs to arbitrate, and so  *)
(* does this module.  ReleaseSemaphoreList is a ReleaseSemaphore for each  *)
(* of the list, and Forbid() is not held between them.                     *)
(***************************************************************************)
EXTENDS SignalSemaphore

CONSTANT List       \* the semaphores of the list, in order

ASSUME ListAssumption == List \in Seq(Sems) /\ IsInjective(List)

VARIABLES
    lister,         \* the task that sleeps in ObtainSemaphoreList
    at,             \* place in List that it has come to
    failedObtain    \* its counter of semaphores that it had to queue for

listVars == <<lister, at, failedObtain>>
allVars  == <<vars, listVars>>

Listed == {List[i] : i \in DOMAIN List}

ListTypeOK ==
    /\ TypeOK
    /\ lister \in Tasks \cup {NULL}
    /\ at \in {1} \cup DOMAIN List
    /\ failedObtain \in Int

ListInit == Init /\ lister = NULL /\ at = 1 /\ failedObtain = 0

-----------------------------------------------------------------------------
PassOneEachTime(t, i, owner) == IF i <= Len(List) THEN i + 1 ELSE i

(* The first place from i on with a semaphore that t does not own.         *)
NextToWaitFor(t, i, owner) ==
    CHOOSE j \in i..(Len(List) + 1) :
        /\ \A k \in i..(j - 1) : owner[List[k]] = t
        /\ j <= Len(List) => owner[List[j]] # t

(* The call returns; failedObtain is now what its consistency check sees.  *)
ReturnWithList(t, failed) ==
    /\ lister' = NULL /\ at' = 1 /\ failedObtain' = failed
    /\ obtained' = [obtained EXCEPT ![t] = [s \in Sems |-> [mode \in Modes |->
         IF s \in Listed /\ mode = "exclusive" THEN @[s][mode] + 1 ELSE @[s][mode]]]]

(* The loop over the list, with the owners as they are now: it sleeps at a *)
(* semaphore that t does not own, and lowers the counter for every one     *)
(* that it passes.                                                         *)
WaitLoop(t, i, failed, owner) ==
    LET j    == NextToWaitFor(t, i, owner)
        left == failed - (j - i)
    IN  IF j > Len(List) THEN ReturnWithList(t, left)
        ELSE lister' = t /\ at' = j /\ failedObtain' = left /\ UNCHANGED obtained

TakenFromReaders(t, s) == IsFree(s) \/ ssOwner[s] \in {t, NULL}

(* Either nobody has it, or t has; a semaphore held shared is not taken.   *)
TakenAtOnce(t, s) == IsFree(s) \/ ssOwner[s] = t

Nested(t, s) == IF TakenAtOnce(t, s) THEN 1 ELSE 0

ObtainList(t) ==
    LET queue  == {s \in Listed : ~TakenAtOnce(t, s)}
        owner  == [s \in Sems |-> IF s \in Listed \ queue THEN t ELSE ssOwner[s]]
        failed == Cardinality(queue)
    IN  /\ Running(t) /\ lister = NULL
        /\ \A s \in Listed : Holds(t, s) < MaxNest /\ MaySleep(t, s, "exclusive")
        /\ ssQueueCount' = [s \in Sems |-> IF s \in Listed THEN ssQueueCount[s] + 1
                                           ELSE ssQueueCount[s]]
        /\ ssNestCount' = [s \in Sems |-> IF s \in Listed THEN ssNestCount[s] + Nested(t, s)
                                          ELSE ssNestCount[s]]
        /\ ssOwner' = owner
        /\ ssWaitQueue' = [s \in Sems |->
             IF s \in queue THEN Append(ssWaitQueue[s], [node |-> t, mode |-> "exclusive"])
             ELSE ssWaitQueue[s]]
        /\ IF failed > 0 THEN WaitLoop(t, 1, failed, owner) ELSE ReturnWithList(t, 0)
        /\ UNCHANGED <<sigSingle, waitingFor, bid, msgVars>>

(* Wait() returns; the signal may have been for another of the list.       *)
ListAwake(t) ==
    /\ lister = t /\ sigSingle[t]
    /\ sigSingle' = [sigSingle EXCEPT ![t] = FALSE]
    /\ WaitLoop(t, at, failedObtain, ssOwner)
    /\ UNCHANGED <<semVars, waitingFor, bid, msgVars>>

-----------------------------------------------------------------------------
(* The tasks that are not in the call go on with their own.                *)
OthersStep ==
    /\ \/ \E t \in Tasks \ {lister}, s \in Sems, mode \in Modes :
            \/ ObtainNow(t, s, mode) \/ ObtainSleep(t, s, mode)
            \/ AttemptSucceeds(t, s, mode) \/ AttemptFails(t, s, mode)
            \/ \E m \in Msgs : ProcureNow(t, m, s, mode) \/ ProcureQueue(t, m, s, mode)
       \/ \E caller \in Tasks \ {lister}, t \in Tasks, s \in Sems, mode \in Modes :
            Release(caller, t, s, mode)
       \/ \E m \in Msgs : CollectReply(m)
       \/ \E m \in {n \in Msgs : bid[n] # NULL /\ bid[n].task # lister} :
            VacateQueued(m) \/ VacateGranted(m)
       \/ SignalStep
    /\ UNCHANGED listVars

ListStep == \E t \in Tasks : ObtainList(t) \/ ListAwake(t)

ListNext == OthersStep \/ ListStep

ListSpec == ListInit /\ [][ListNext]_allVars

ListFairSpec ==
    /\ ListSpec
    /\ \A t \in Tasks :
         WF_allVars(ListAwake(t)) /\ WF_allVars(ObtainAwake(t) /\ UNCHANGED listVars)

-----------------------------------------------------------------------------
(* The locks of s, with those that the call has been given but not         *)
(* returned with.                                                          *)
GivenToLister(s) ==
    IF lister # NULL /\ s \in Listed /\ ~Waits(lister, ssWaitQueue[s])
    THEN {<<lister, "exclusive", 0>>} ELSE {}

LocksAll(s) == Locks(s) \cup GivenToLister(s)

(* An exclusive lock is alone, also while a task has only part of the list *)
(* and sleeps for the rest.                                                *)
ListMutualExclusion ==
    \A s \in Sems : \A lock, other \in LocksAll(s) :
        lock[2] = "exclusive" => HolderOf(other) = HolderOf(lock)

(* The call cannot sleep through its last signal.  What the loop has passed *)
(* it never looks at again, so that must stay owned however long the call  *)
(* sleeps; and if the semaphore that it sleeps at has been given to it,    *)
(* SIGF_SINGLE is set, although one signal may stand for several.          *)
NoMissedSignal ==
    lister # NULL =>
        /\ \A i \in 1..(at - 1) : ssOwner[List[i]] = lister
        /\ ~Waits(lister, ssWaitQueue[List[at]]) => sigSingle[lister]

(* Nobody but the sleeping call owns a semaphore for ever, and readers do  *)
(* not overlap for ever.                                                   *)
OtherOwnersLetGo ==
    \A s \in Sems : /\ []<>~HeldShared(s)
                    /\ \A t \in Tasks : []<>(ssOwner[s] = t => lister = t /\ s \in Listed)

(* Then the call returns: it is not stuck behind itself, nor asleep with   *)
(* its signal consumed for another semaphore of the list.                  *)
ListIsServed ==
    OtherOwnersLetGo => \A t \in Tasks : lister = t ~> lister # t
=============================================================================
