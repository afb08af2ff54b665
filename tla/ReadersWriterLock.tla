------------------------- MODULE ReadersWriterLock -------------------------
(***************************************************************************)
(* What a set of signal semaphores promises to programs, with no counters, *)
(* queues or signals: who has each lock, who waits for it, and what a      *)
(* release gives to whom.                                                  *)
(***************************************************************************)
CONSTANTS Tasks, Sems, Ids

Modes == {"exclusive", "shared"}

(* One grant, or the request for it.  A task may have many.                *)
Token == [task : Tasks, mode : Modes, id : Ids]

VARIABLES
    held,       \* semaphore -> the locks that were given and not given back
    asked       \* semaphore -> the requests that wait

lockVars == <<held, asked>>

LockTypeOK ==
    /\ held \in [Sems -> SUBSET Token]
    /\ asked \in [Sems -> SUBSET Token]

Init == held = [s \in Sems |-> {}] /\ asked = [s \in Sems |-> {}]

(* An exclusive lock is shared with nobody but its own task.               *)
Compatible(locks) ==
    \A x, y \in locks : x.mode = "exclusive" => y.task = x.task

Get(s, x) ==
    /\ x \notin held[s] /\ Compatible(held[s] \cup {x})
    /\ held' = [held EXCEPT ![s] = @ \cup {x}]
    /\ UNCHANGED asked

(* Nobody has to wait for a lock that is free.                             *)
Ask(s, x) ==
    /\ x \notin asked[s] /\ held[s] # {}
    /\ asked' = [asked EXCEPT ![s] = @ \cup {x}]
    /\ UNCHANGED held

Withdraw(s, x) ==
    /\ x \in asked[s]
    /\ asked' = [asked EXCEPT ![s] = @ \ {x}]
    /\ UNCHANGED held

Shared(requests) == {x \in requests : x.mode = "shared"}

(* Whose turn it may be: one writer, or all the readers that wait.         *)
Turns(requests) ==
    IF requests = {} THEN {{}}
    ELSE {{x} : x \in requests \ Shared(requests)} \cup ({Shared(requests)} \ {{}})

(* The last lock to be given back frees the semaphore, and if anybody      *)
(* waits it goes to the next in the same step.                             *)
GiveBack(s, x) ==
    /\ x \in held[s]
    /\ \E next \in IF held[s] = {x} THEN Turns(asked[s]) ELSE {{}} :
         /\ held' = [held EXCEPT ![s] = (@ \ {x}) \cup next]
         /\ asked' = [asked EXCEPT ![s] = @ \ next]

(* The call that a lock was given to returns: only its name changes.       *)
Return(s, x, y) ==
    /\ x \in held[s] /\ y \notin held[s] /\ x.task = y.task /\ x.mode = y.mode
    /\ held' = [held EXCEPT ![s] = (@ \ {x}) \cup {y}]
    /\ UNCHANGED asked

Next ==
    \E s \in Sems, x \in Token :
        \/ Get(s, x) \/ Ask(s, x) \/ Withdraw(s, x) \/ GiveBack(s, x)
        \/ \E id \in Ids : Return(s, x, [x EXCEPT !.id = id])

Spec == Init /\ [][Next]_lockVars

Exclusion == \A s \in Sems : Compatible(held[s])

NobodyWaitsForNobody == \A s \in Sems : held[s] = {} => asked[s] = {}
=============================================================================
