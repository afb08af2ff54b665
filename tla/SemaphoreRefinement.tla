------------------------ MODULE SemaphoreRefinement ------------------------
(***************************************************************************)
(* SignalSemaphore implements ReadersWriterLock: a lock is held from the   *)
(* release that gave it, before the task that slept for it runs again or   *)
(* the program of a message looks at its port.                             *)
(***************************************************************************)
EXTENDS SignalSemaphore

TokenOf(who, mode, n) == [task |-> TaskOf(who), mode |-> mode, id |-> <<who, n>>]

heldTokens == [s \in Sems |-> {TokenOf(lock[1], lock[2], lock[3]) : lock \in Locks(s)}]

RequestsIn(q) == {q[i] : i \in DOMAIN q}

askedTokens ==
    [s \in Sems |-> {TokenOf(r.node, r.mode, 0) : r \in RequestsIn(ssWaitQueue[s])}]

RW == INSTANCE ReadersWriterLock WITH
        Ids <- (Tasks \cup Msgs) \X (0..MaxNest),
        held <- heldTokens,
        asked <- askedTokens

(* Every step of the semaphore calls gives, takes or queues what the       *)
(* abstract lock may: in particular a lock that becomes free while anybody *)
(* waits goes to one writer or to all the readers in the same step.        *)
ImplementsLock == RW!Spec
=============================================================================
