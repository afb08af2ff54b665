------------------------ MODULE ExecSchedulerProofs -------------------------
(***************************************************************************)
(* Theorems about ExecScheduler, for any tasks, priorities, signals and    *)
(* quantum.                                                                *)
(*                                                                         *)
(* exec is a record that the functions of exec.library and the scheduler   *)
(* pass on, so first come facts about each function, for any such record;  *)
(* then one lemma for each action.  The inductive invariant says of the    *)
(* machine that its lists are right, at most one task runs and a switch    *)
(* that is due was asked for (Fit); of the nest counts that they are those *)
(* of the running task, and that the other tasks have theirs put aside     *)
(* (Nested); and that nothing outranks a running task that could have been *)
(* switched away.                                                          *)
(***************************************************************************)
EXTENDS ExecScheduler, ListLemmas, FiniteSetTheorems

---------------------------------------------------------------------------
(* What holds of a value of exec, also inside a call.                      *)

Machine ==
  [ThisTask : Tasks, idle : BOOLEAN, TaskReady : Seq(Tasks), IDNestCnt : Int,
   TDNestCnt : Int, Elapsed : 0 .. Quantum, QuantumOver : BOOLEAN,
   AttnSwitch : BOOLEAN, SoftInt : BOOLEAN, lowered : BOOLEAN,
   tc : [Tasks -> TaskStructure]]

(* Enqueue() puts the highest priority first.                              *)
Rank(m) == [u \in Tasks |-> -m.tc[u].Pri]

ListRight(m) ==
  /\ Once(m.TaskReady)
  /\ Entries(m.TaskReady) = {u \in Tasks : m.tc[u].State = "ready"}
  /\ Sorted(m.TaskReady, Rank(m))

SleepsRightly(m) ==
  \A u \in Tasks : m.tc[u].State = "wait" => m.tc[u].SigRecvd \cap m.tc[u].SigWait = {}

Sound(m) == m \in Machine /\ ListRight(m) /\ SleepsRightly(m)

(* A record whose fields are those of m but for some.                      *)
LEMMA MachineFields ==
  ASSUME NEW m \in Machine
  PROVE  /\ m.ThisTask \in Tasks /\ m.idle \in BOOLEAN /\ m.TaskReady \in Seq(Tasks)
         /\ m.IDNestCnt \in Int /\ m.TDNestCnt \in Int /\ m.Elapsed \in 0 .. Quantum
         /\ m.QuantumOver \in BOOLEAN /\ m.AttnSwitch \in BOOLEAN /\ m.SoftInt \in BOOLEAN
         /\ m.lowered \in BOOLEAN /\ m.tc \in [Tasks -> TaskStructure]
         /\ \A u \in Tasks : /\ m.tc[u] \in TaskStructure
                             /\ m.tc[u].State \in TaskStates /\ m.tc[u].Pri \in Int
                             /\ m.tc[u].Pri \in Priorities
                             /\ m.tc[u].SigRecvd \subseteq Signals /\ m.tc[u].SigWait \subseteq Signals
                             /\ m.tc[u].IDNestCnt \in Int /\ m.tc[u].TDNestCnt \in Int
         /\ Rank(m) \in [Tasks -> Int]
<1>1. Priorities \subseteq Int
  BY SchedulerAssumption DEF SchedulerAssumption
<1>2. m.tc \in [Tasks -> TaskStructure]
  BY DEF Machine
<1>3. \A u \in Tasks : m.tc[u] \in TaskStructure /\ m.tc[u].Pri \in Int
  BY <1>1, <1>2 DEF TaskStructure
<1>4. Rank(m) \in [Tasks -> Int]
  BY <1>3 DEF Rank
<1> QED
  BY <1>1, <1>2, <1>3, <1>4 DEF Machine, TaskStructure

LEMMA EnqueueFacts ==
  ASSUME NEW m \in Machine, NEW t \in Tasks, Once(m.TaskReady),
         Sorted(m.TaskReady, Rank(m)), t \notin Entries(m.TaskReady)
  PROVE  \E q \in Seq(Tasks) :
           /\ Enqueue(m, t) = [m EXCEPT !.TaskReady = q]
           /\ q # << >> /\ Entries(q) = Entries(m.TaskReady) \cup {t}
           /\ Once(q) /\ Sorted(q, Rank(m))
<1> DEFINE list == m.TaskReady
           lower == {i \in 1 .. Len(list) : m.tc[list[i]].Pri < m.tc[t].Pri}
           place == Min(lower \cup {Len(list) + 1})
           q == InsertAt(list, place, t)
           key == Rank(m)
<1>1. /\ list \in Seq(Tasks) /\ Len(list) \in Nat
      /\ \A i \in 1 .. Len(list) : list[i] \in Tasks
  BY MachineFields, LenProperties, ElementOfSeq
<1>2. /\ place \in lower \cup {Len(list) + 1}
      /\ \A i \in lower \cup {Len(list) + 1} : place <= i
  <2> DEFINE P == lower \cup {Len(list) + 1}
  <2>1. P \in SUBSET Nat /\ P # {}
    BY <1>1
  <2> HIDE DEF P
  <2>2. \E x \in P : \A y \in P : x <= y
    BY <2>1, LeastOf
  <2> QED
    BY <2>2 DEF Min, P
<1>3. Enqueue(m, t) = [m EXCEPT !.TaskReady = q]
  BY DEF Enqueue
<1> HIDE DEF place, q
<1>4. /\ \A u \in Tasks : key[u] = -m.tc[u].Pri /\ m.tc[u].Pri \in Int
      /\ key \in [Tasks -> Int]
  BY MachineFields DEF Rank
<1>5. place \in 1 .. Len(list) + 1
  BY <1>1, <1>2
<1>6. \A i \in 1 .. Len(list) : i < place => key[list[i]] <= key[t]
  <2>1. ASSUME NEW i \in 1 .. Len(list), i < place PROVE key[list[i]] <= key[t]
    <3>1. i \notin lower
      BY <1>1, <1>2, <1>5, <2>1
    <3>2. list[i] \in Tasks /\ ~(m.tc[list[i]].Pri < m.tc[t].Pri)
      BY <1>1, <3>1
    <3> HIDE DEF key, list
    <3> QED
      BY <1>4, <3>2
  <2> QED
    BY <2>1
<1>7. place \in 1 .. Len(list) => key[t] <= key[list[place]]
  <2>1. ASSUME place \in 1 .. Len(list) PROVE key[t] <= key[list[place]]
    <3>1. place \in lower
      BY <1>1, <1>2, <2>1
    <3>2. list[place] \in Tasks /\ m.tc[list[place]].Pri < m.tc[t].Pri
      BY <1>1, <3>1
    <3> HIDE DEF key, list
    <3> QED
      BY <1>4, <3>2
  <2> QED
    BY <2>1
<1> HIDE DEF key, list
<1>8. /\ q \in Seq(Tasks) /\ q # << >> /\ Entries(q) = Entries(list) \cup {t}
      /\ Once(list) /\ t \notin Entries(list) => Once(q)
      /\ \A x \in [Tasks -> Int] :
              /\ Sorted(list, x)
              /\ \A i \in 1 .. Len(list) : i < place => x[list[i]] <= x[t]
              /\ place \in 1 .. Len(list) => x[t] <= x[list[place]]
              => Sorted(q, x)
  <2>1. list \in Seq(Tasks)
    BY <1>1
  <2>2. InsertAt(list, place, t) \in Seq(Tasks) /\ InsertAt(list, place, t) # << >>
    BY <2>1, <1>5, PutFacts
  <2>3. /\ Entries(InsertAt(list, place, t)) = Entries(list) \cup {t}
        /\ Once(list) /\ t \notin Entries(list) => Once(InsertAt(list, place, t))
    BY <2>1, <1>5, PutFacts
  <2>4. ASSUME NEW x \in [Tasks -> Int], Sorted(list, x),
               \A i \in 1 .. Len(list) : i < place => x[list[i]] <= x[t],
               place \in 1 .. Len(list) => x[t] <= x[list[place]]
        PROVE  Sorted(InsertAt(list, place, t), x)
    BY <2>1, <2>4, <1>5, PutFacts
  <2> QED
    BY <2>2, <2>3, <2>4 DEF q
<1>9. Sorted(list, key) => Sorted(q, key)
  BY <1>4, <1>6, <1>7, <1>8
<1> QED
  BY <1>3, <1>8, <1>9 DEF key, list

(* A task that becomes ready.                                              *)
LEMMA MakeReadyFacts ==
  ASSUME NEW m \in Machine, NEW t \in Tasks, m.tc[t].State # "ready", ListRight(m),
         \A u \in Tasks : u # t /\ m.tc[u].State = "wait"
                            => m.tc[u].SigRecvd \cap m.tc[u].SigWait = {}
  PROVE  LET n == MakeReady(m, t)
         IN  /\ Sound(n) /\ n.TaskReady # << >>
             /\ n.tc = [m.tc EXCEPT ![t].State = "ready"]
             /\ n.ThisTask = m.ThisTask /\ n.idle = m.idle
             /\ n.IDNestCnt = m.IDNestCnt /\ n.TDNestCnt = m.TDNestCnt
             /\ n.lowered = m.lowered /\ n.AttnSwitch = m.AttnSwitch
<1> DEFINE s == [m EXCEPT !.tc[t].State = "ready"]
<1>1. s \in Machine /\ s.tc = [m.tc EXCEPT ![t].State = "ready"] /\ s.TaskReady = m.TaskReady
  <2>1. m \in Machine /\ m.tc \in [Tasks -> TaskStructure] /\ m.tc[t] \in TaskStructure
    BY MachineFields
  <2>2. [m.tc[t] EXCEPT !.State = "ready"] \in TaskStructure
    BY <2>1 DEF TaskStructure, TaskStates
  <2>3. [m.tc EXCEPT ![t].State = "ready"] \in [Tasks -> TaskStructure]
    BY <2>1, <2>2
  <2> QED
    BY <2>1, <2>3 DEF Machine
<1>2. s.tc \in [Tasks -> TaskStructure] /\ m.tc \in [Tasks -> TaskStructure]
  BY <1>1 DEF Machine
<1>3. \A u \in Tasks : /\ s.tc[u].Pri = m.tc[u].Pri
                       /\ s.tc[u].SigRecvd = m.tc[u].SigRecvd
                       /\ s.tc[u].SigWait = m.tc[u].SigWait
                       /\ s.tc[u].State = IF u = t THEN "ready" ELSE m.tc[u].State
  BY <1>1, <1>2 DEF TaskStructure
<1>4. Rank(s) = Rank(m)
  BY <1>3 DEF Rank
<1>5. Once(s.TaskReady) /\ Sorted(s.TaskReady, Rank(s)) /\ t \notin Entries(s.TaskReady)
  BY <1>1, <1>4 DEF ListRight
<1>6. s.ThisTask = m.ThisTask /\ s.idle = m.idle /\ s.IDNestCnt = m.IDNestCnt
      /\ s.TDNestCnt = m.TDNestCnt /\ s.lowered = m.lowered /\ s.AttnSwitch = m.AttnSwitch
  BY DEF Machine
<1>7. MakeReady(m, t) = Enqueue(s, t)
  BY DEF MakeReady
<1> HIDE DEF s
<1>8. PICK q \in Seq(Tasks) :
           /\ Enqueue(s, t) = [s EXCEPT !.TaskReady = q]
           /\ q # << >> /\ Entries(q) = Entries(s.TaskReady) \cup {t}
           /\ Once(q) /\ Sorted(q, Rank(s))
  BY <1>1, <1>5, EnqueueFacts
<1> DEFINE n == [s EXCEPT !.TaskReady = q]
<1>9. /\ n \in Machine /\ n.TaskReady = q /\ n.tc = s.tc /\ n.ThisTask = s.ThisTask
      /\ n.idle = s.idle /\ n.IDNestCnt = s.IDNestCnt /\ n.TDNestCnt = s.TDNestCnt
      /\ n.lowered = s.lowered /\ n.AttnSwitch = s.AttnSwitch
  BY <1>1 DEF Machine
<1> HIDE DEF n
<1>10. Rank(n) = Rank(s)
  BY <1>9 DEF Rank
<1>11. Entries(q) = {u \in Tasks : n.tc[u].State = "ready"}
  BY <1>1, <1>3, <1>8, <1>9 DEF ListRight
<1>12. SleepsRightly(n)
  BY <1>3, <1>9 DEF SleepsRightly
<1>13. Sound(n)
  BY <1>8, <1>9, <1>10, <1>11, <1>12 DEF Sound, ListRight
<1> QED
  BY <1>1, <1>6, <1>7, <1>8, <1>9, <1>13 DEF n

---------------------------------------------------------------------------

(* The scheduler                                                           *)

(* Only ThisTask runs, unless the processor is idle.                       *)
OneRuns(m) ==
  /\ \A u \in Tasks : m.tc[u].State = "run" => ~m.idle /\ m.ThisTask = u
  /\ ~m.idle => m.tc[m.ThisTask].State \in {"run", "removed"}

NobodyRuns(m) == \A u \in Tasks : m.tc[u].State # "run"

Highest(m) ==
  m.lowered \/ \A u \in Tasks : m.tc[u].State = "ready" => m.tc[u].Pri <= m.tc[m.ThisTask].Pri

(* A switch that is due has been asked for.                                *)
Asked(m) == ~m.idle /\ m.tc[m.ThisTask].State = "run" => m.AttnSwitch \/ Highest(m)

Fit(m) == Sound(m) /\ OneRuns(m) /\ Asked(m)

(* The first of the ready tasks has the highest priority.                  *)
LEMMA HeadIsHighest ==
  ASSUME NEW m, Sound(m), m.TaskReady # << >>
  PROVE  /\ Head(m.TaskReady) \in Tasks /\ m.tc[Head(m.TaskReady)].State = "ready"
         /\ \A u \in Tasks : m.tc[u].State = "ready" => m.tc[u].Pri <= m.tc[Head(m.TaskReady)].Pri
<1> DEFINE list == m.TaskReady
           key == Rank(m)
<1>1. list \in Seq(Tasks) /\ list # << >> /\ m \in Machine
  BY MachineFields DEF Sound
<1>2. /\ Head(list) = list[1] /\ 1 \in 1 .. Len(list) /\ Head(list) \in Entries(list)
      /\ Entries(list) \subseteq Tasks
  BY <1>1, EntriesFacts
<1>3. Entries(list) = {u \in Tasks : m.tc[u].State = "ready"} /\ Sorted(list, key)
  BY DEF Sound, ListRight
<1>4. \A u \in Tasks : key[u] = -m.tc[u].Pri /\ m.tc[u].Pri \in Int
  BY <1>1, MachineFields DEF Rank
<1>5. ASSUME NEW u \in Tasks, m.tc[u].State = "ready" PROVE m.tc[u].Pri <= m.tc[Head(list)].Pri
  <2>1. u \in Entries(list)
    BY <1>3, <1>5
  <2>2. PICK i \in 1 .. Len(list) : u = list[i]
    BY <2>1 DEF Entries
  <2>3. Len(list) \in Nat
    BY <1>1, LenProperties
  <2> HIDE DEF list, key
  <2>4. key[list[1]] <= key[list[i]]
    BY <1>2, <1>3, <2>3 DEF Sorted
  <2>5. key[Head(list)] <= key[u] /\ Head(list) \in Tasks
    BY <1>2, <2>2, <2>4
  <2> QED
    BY <1>4, <2>5
<1> QED
  BY <1>2, <1>3, <1>5

LEMMA DispatchFacts ==
  ASSUME NEW m, Sound(m), NobodyRuns(m)
  PROVE  LET n == Dispatch(m)
         IN  /\ Fit(n) /\ n.TDNestCnt = m.TDNestCnt
             /\ ~n.idle => Highest(n) /\ n.tc[n.ThisTask].State = "run"
             /\ m.TaskReady = << >> => /\ n.idle /\ n.ThisTask = m.ThisTask
                                       /\ n.IDNestCnt = m.IDNestCnt /\ n.tc = m.tc
             /\ m.TaskReady # << >> => /\ ~n.idle /\ m.tc[n.ThisTask].State = "ready"
                                       /\ n.IDNestCnt = m.tc[n.ThisTask].IDNestCnt
                                       /\ n.tc = [m.tc EXCEPT ![n.ThisTask].State = "run"]
<1> DEFINE n == Dispatch(m)
           next == Head(m.TaskReady)
<1>1. m \in Machine /\ m.TaskReady \in Seq(Tasks) /\ Quantum \in 0 .. Quantum
      /\ m.tc \in [Tasks -> TaskStructure]
  BY MachineFields, SchedulerAssumption DEF Sound, SchedulerAssumption
<1>2. CASE m.TaskReady = << >>
  <2>1. n = [m EXCEPT !.idle = TRUE, !.AttnSwitch = TRUE]
    BY <1>2 DEF Dispatch
  <2>2. /\ n \in Machine /\ n.idle /\ n.ThisTask = m.ThisTask /\ n.IDNestCnt = m.IDNestCnt
        /\ n.TDNestCnt = m.TDNestCnt /\ n.tc = m.tc /\ n.TaskReady = m.TaskReady
    BY <1>1, <2>1 DEF Machine
  <2> HIDE DEF n
  <2>3. Sound(n)
    BY <2>2 DEF Sound, ListRight, SleepsRightly, Rank
  <2>4. OneRuns(n) /\ Asked(n)
    BY <2>2 DEF NobodyRuns, OneRuns, Asked
  <2> QED
    BY <1>2, <2>2, <2>3, <2>4 DEF n, Fit
<1>3. CASE m.TaskReady # << >>
  <2>1. /\ next \in Tasks /\ m.tc[next].State = "ready"
        /\ \A u \in Tasks : m.tc[u].State = "ready" => m.tc[u].Pri <= m.tc[next].Pri
    BY <1>3, HeadIsHighest
  <2>2. n = [m EXCEPT !.TaskReady = Tail(@), !.idle = FALSE,
                      !.ThisTask = next, !.tc[next].State = "run",
                      !.IDNestCnt = m.tc[next].IDNestCnt,
                      !.Elapsed = Quantum, !.QuantumOver = FALSE,
                      !.lowered = FALSE]
    BY <1>3 DEF Dispatch
  <2>3. /\ Tail(m.TaskReady) \in Seq(Tasks)
        /\ Once(m.TaskReady) => /\ Once(Tail(m.TaskReady))
                                /\ Entries(Tail(m.TaskReady)) = Entries(m.TaskReady) \ {next}
        /\ \A key : Sorted(m.TaskReady, key) => Sorted(Tail(m.TaskReady), key)
    BY <1>1, <1>3, TailFacts
  <2>4. [m.tc EXCEPT ![next].State = "run"] \in [Tasks -> TaskStructure]
    <3>1. m.tc[next] \in TaskStructure
      BY <1>1, <2>1
    <3>2. [m.tc[next] EXCEPT !.State = "run"] \in TaskStructure
      BY <3>1 DEF TaskStructure, TaskStates
    <3> QED
      BY <1>1, <3>2
  <2>5. m.tc[next].IDNestCnt \in Int
    BY <1>1, <2>1, MachineFields
  <2> DEFINE rest == Tail(m.TaskReady)
             tc == [m.tc EXCEPT ![next].State = "run"]
  <2>6. n = [m EXCEPT !.TaskReady = rest, !.idle = FALSE, !.ThisTask = next, !.tc = tc,
                      !.IDNestCnt = m.tc[next].IDNestCnt, !.Elapsed = Quantum,
                      !.QuantumOver = FALSE, !.lowered = FALSE]
    BY <1>1, <2>2 DEF Machine
  <2> HIDE DEF n, rest, tc, next
  <2>7. /\ n \in Machine /\ ~n.idle /\ n.ThisTask = next /\ n.IDNestCnt = m.tc[next].IDNestCnt
        /\ n.TDNestCnt = m.TDNestCnt /\ n.tc = tc /\ n.TaskReady = rest
    BY <1>1, <2>1, <2>3, <2>4, <2>5, <2>6 DEF Machine, rest, tc
  <2>8. \A u \in Tasks : /\ n.tc[u].Pri = m.tc[u].Pri
                         /\ n.tc[u].SigRecvd = m.tc[u].SigRecvd
                         /\ n.tc[u].SigWait = m.tc[u].SigWait
                         /\ n.tc[u].State = IF u = next THEN "run" ELSE m.tc[u].State
    BY <1>1, <2>1, <2>7 DEF tc, TaskStructure
  <2>9. Rank(n) = Rank(m)
    BY <2>8 DEF Rank
  <2>10. ListRight(n)
    <3>1. /\ Once(m.TaskReady) /\ Sorted(m.TaskReady, Rank(m))
          /\ Entries(m.TaskReady) = {u \in Tasks : m.tc[u].State = "ready"}
      BY DEF Sound, ListRight
    <3>2. /\ Once(n.TaskReady) /\ Sorted(n.TaskReady, Rank(n))
          /\ Entries(n.TaskReady) = Entries(m.TaskReady) \ {next}
      BY <2>3, <2>7, <2>9, <3>1 DEF rest
    <3> QED
      BY <2>8, <3>1, <3>2 DEF ListRight
  <2>11. SleepsRightly(n)
    BY <2>8 DEF Sound, SleepsRightly
  <2>12. OneRuns(n) /\ n.tc[n.ThisTask].State = "run"
    BY <2>1, <2>7, <2>8 DEF NobodyRuns, OneRuns
  <2>13. Highest(n)
    BY <2>1, <2>7, <2>8 DEF Highest
  <2> QED
    BY <1>3, <2>1, <2>7, <2>10, <2>11, <2>12, <2>13 DEF n, Fit, Sound, Asked, tc
<1> QED
  BY <1>2, <1>3

(* Where the running task goes.                                            *)
LEMMA SwitchFacts ==
  ASSUME NEW m, Sound(m), \A u \in Tasks : m.tc[u].State = "run" => m.ThisTask = u,
         m.tc[m.ThisTask].State # "ready"
  PROVE  LET n == Switch(m)
         IN  /\ Sound(n) /\ NobodyRuns(n)
             /\ n.TDNestCnt = m.TDNestCnt /\ n.ThisTask = m.ThisTask
             /\ n.IDNestCnt = m.IDNestCnt
             /\ m.tc[m.ThisTask].State = "run" => n.TaskReady # << >>
             /\ \A u \in Tasks :
                  /\ n.tc[u].TDNestCnt = m.tc[u].TDNestCnt
                  /\ n.tc[u].IDNestCnt = IF u = m.ThisTask THEN m.IDNestCnt ELSE m.tc[u].IDNestCnt
                  /\ n.tc[u].State = IF u = m.ThisTask /\ m.tc[u].State \notin {"wait", "removed"}
                                     THEN "ready" ELSE m.tc[u].State
<1> DEFINE s == [m EXCEPT !.tc[m.ThisTask].IDNestCnt = m.IDNestCnt]
           tc == [m.tc EXCEPT ![m.ThisTask].IDNestCnt = m.IDNestCnt]
           t == m.ThisTask
<1>1. m \in Machine /\ m.tc \in [Tasks -> TaskStructure] /\ t \in Tasks /\ m.IDNestCnt \in Int
  BY MachineFields DEF Sound
<1>2. tc \in [Tasks -> TaskStructure]
  <2>1. m.tc[t] \in TaskStructure
    BY <1>1
  <2>2. [m.tc[t] EXCEPT !.IDNestCnt = m.IDNestCnt] \in TaskStructure
    BY <1>1, <2>1 DEF TaskStructure
  <2> QED
    BY <1>1, <2>2
<1>3. s = [m EXCEPT !.tc = tc]
  BY <1>1 DEF Machine
<1>4. \A u \in Tasks : /\ tc[u].Pri = m.tc[u].Pri /\ tc[u].State = m.tc[u].State
                       /\ tc[u].SigRecvd = m.tc[u].SigRecvd
                       /\ tc[u].SigWait = m.tc[u].SigWait
                       /\ tc[u].TDNestCnt = m.tc[u].TDNestCnt
                       /\ tc[u].IDNestCnt = IF u = t THEN m.IDNestCnt ELSE m.tc[u].IDNestCnt
  BY <1>1 DEF TaskStructure
<1>5. Switch(m) = IF m.tc[t].State \in {"wait", "removed"} THEN s ELSE MakeReady(s, t)
  BY DEF Switch
<1> HIDE DEF s, tc
<1>6. /\ s \in Machine /\ s.tc = tc /\ s.TaskReady = m.TaskReady /\ s.ThisTask = t
      /\ s.IDNestCnt = m.IDNestCnt /\ s.TDNestCnt = m.TDNestCnt
  BY <1>1, <1>2, <1>3 DEF Machine
<1>7. Rank(s) = Rank(m)
  BY <1>4, <1>6 DEF Rank
<1>8. Sound(s)
  BY <1>4, <1>6, <1>7 DEF Sound, ListRight, SleepsRightly
<1>9. CASE m.tc[t].State \in {"wait", "removed"}
  <2>1. NobodyRuns(s)
    BY <1>4, <1>6, <1>9 DEF NobodyRuns
  <2> QED
    BY <1>4, <1>5, <1>6, <1>8, <1>9, <2>1
<1>10. CASE m.tc[t].State \notin {"wait", "removed"}
  <2> DEFINE n == MakeReady(s, t)
  <2>1. /\ Sound(n) /\ n.TaskReady # << >>
        /\ n.tc = [s.tc EXCEPT ![t].State = "ready"]
        /\ n.ThisTask = s.ThisTask
        /\ n.IDNestCnt = s.IDNestCnt /\ n.TDNestCnt = s.TDNestCnt
    <3>1. s.tc[t].State # "ready"
      BY <1>1, <1>4, <1>6
    <3>2. /\ t \in Tasks /\ s \in Machine /\ ListRight(s)
          /\ \A u \in Tasks : u # t /\ s.tc[u].State = "wait"
                                => s.tc[u].SigRecvd \cap s.tc[u].SigWait = {}
      BY <1>1, <1>8 DEF Sound, SleepsRightly
    <3> HIDE DEF t
    <3> QED
      BY <3>1, <3>2, MakeReadyFacts
  <2> HIDE DEF n
  <2>2. \A u \in Tasks : /\ n.tc[u].TDNestCnt = tc[u].TDNestCnt
                         /\ n.tc[u].IDNestCnt = tc[u].IDNestCnt
                         /\ n.tc[u].State = IF u = t THEN "ready" ELSE tc[u].State
    BY <1>1, <1>2, <1>6, <2>1 DEF TaskStructure
  <2>3. NobodyRuns(n)
    BY <1>4, <2>2 DEF NobodyRuns
  <2>4. Switch(m) = n
    BY <1>5, <1>10 DEF n
  <2>5. \A u \in Tasks :
          /\ n.tc[u].TDNestCnt = m.tc[u].TDNestCnt
          /\ n.tc[u].IDNestCnt = IF u = t THEN m.IDNestCnt ELSE m.tc[u].IDNestCnt
          /\ n.tc[u].State = IF u = t THEN "ready" ELSE m.tc[u].State
    BY <1>4, <2>2
  <2>6. /\ n.ThisTask = t /\ n.IDNestCnt = m.IDNestCnt /\ n.TDNestCnt = m.TDNestCnt
        /\ Sound(n) /\ n.TaskReady # << >>
    BY <1>6, <2>1
  <2> QED
    BY <1>10, <2>3, <2>4, <2>5, <2>6
<1> QED
  BY <1>9, <1>10

(* The scheduler hands the processor over, or leaves the running task.     *)
Swapped(m, n) ==
  /\ n.ThisTask = m.ThisTask \/ m.tc[n.ThisTask].State = "ready"
  /\ n.IDNestCnt = IF n.ThisTask = m.ThisTask THEN m.IDNestCnt ELSE m.tc[n.ThisTask].IDNestCnt
  /\ \A u \in Tasks :
       /\ n.tc[u].TDNestCnt = m.tc[u].TDNestCnt
       /\ n.tc[u].IDNestCnt = IF u = m.ThisTask THEN m.IDNestCnt ELSE m.tc[u].IDNestCnt
       /\ n.tc[u].State = IF u = n.ThisTask THEN "run"
                          ELSE IF u = m.ThisTask THEN "ready" ELSE m.tc[u].State

LEMMA KrnScheduleFacts ==
  ASSUME NEW m, Fit(m), ~m.idle, m.tc[m.ThisTask].State = "run"
  PROVE  LET n == KrnSchedule(m)
         IN  /\ Fit(n) /\ Highest(n) /\ ~n.idle /\ n.TDNestCnt = m.TDNestCnt
             /\ \/ n.ThisTask = m.ThisTask /\ n.IDNestCnt = m.IDNestCnt /\ n.tc = m.tc
                \/ Swapped(m, n)
<1> DEFINE seen == [m EXCEPT !.AttnSwitch = FALSE]
           n == KrnSchedule(m)
           t == m.ThisTask
<1>1. /\ m \in Machine /\ m.tc \in [Tasks -> TaskStructure] /\ t \in Tasks
      /\ \A u \in Tasks : m.tc[u].Pri \in Int
  BY MachineFields DEF Fit, Sound
<1>2. n = IF Schedules(m) THEN Dispatch(Switch(seen)) ELSE seen
  BY DEF KrnSchedule
<1>3. /\ seen \in Machine /\ seen.tc = m.tc /\ seen.TaskReady = m.TaskReady /\ seen.idle = m.idle
      /\ seen.ThisTask = t /\ seen.IDNestCnt = m.IDNestCnt /\ seen.TDNestCnt = m.TDNestCnt
      /\ seen.lowered = m.lowered
  BY <1>1 DEF Machine
<1> HIDE DEF seen, n
<1>4. Sound(seen) /\ OneRuns(seen)
  BY <1>3 DEF Fit, Sound, ListRight, SleepsRightly, Rank, OneRuns
<1>5. CASE Schedules(m)
  <2> DEFINE s == Switch(seen)
  <2>1. /\ Sound(s) /\ NobodyRuns(s)
        /\ s.TDNestCnt = seen.TDNestCnt /\ s.ThisTask = seen.ThisTask
        /\ s.IDNestCnt = seen.IDNestCnt
        /\ seen.tc[seen.ThisTask].State = "run" => s.TaskReady # << >>
        /\ \A u \in Tasks :
             /\ s.tc[u].TDNestCnt = seen.tc[u].TDNestCnt
             /\ s.tc[u].IDNestCnt = IF u = seen.ThisTask THEN seen.IDNestCnt
                                    ELSE seen.tc[u].IDNestCnt
             /\ s.tc[u].State = IF u = seen.ThisTask /\ seen.tc[u].State \notin {"wait", "removed"}
                                THEN "ready" ELSE seen.tc[u].State
    <3>1. seen.tc[seen.ThisTask].State # "ready"
      BY <1>3
    <3>2. \A u \in Tasks : seen.tc[u].State = "run" => seen.ThisTask = u
      BY <1>4 DEF OneRuns
    <3> QED
      BY <1>4, <3>1, <3>2, SwitchFacts
  <2>2. n = Dispatch(s)
    BY <1>2, <1>5
  <2> HIDE DEF s
  <2>3. s.TaskReady # << >>
    BY <1>3, <2>1
  <2>4. /\ Fit(n) /\ n.TDNestCnt = s.TDNestCnt
        /\ ~n.idle => Highest(n)
        /\ ~n.idle /\ s.tc[n.ThisTask].State = "ready"
        /\ n.IDNestCnt = s.tc[n.ThisTask].IDNestCnt
        /\ n.tc = [s.tc EXCEPT ![n.ThisTask].State = "run"]
    BY <2>1, <2>2, <2>3, DispatchFacts
  <2>5. n.ThisTask \in Tasks /\ s.tc \in [Tasks -> TaskStructure]
    BY <2>1, <2>4, MachineFields DEF Fit, Sound
  <2>6. \A u \in Tasks :
          /\ n.tc[u].TDNestCnt = s.tc[u].TDNestCnt
          /\ n.tc[u].IDNestCnt = s.tc[u].IDNestCnt
          /\ n.tc[u].State = IF u = n.ThisTask THEN "run" ELSE s.tc[u].State
    BY <2>4, <2>5 DEF TaskStructure
  <2>7. \A u \in Tasks :
          /\ s.tc[u].TDNestCnt = m.tc[u].TDNestCnt
          /\ s.tc[u].IDNestCnt = IF u = t THEN m.IDNestCnt ELSE m.tc[u].IDNestCnt
          /\ s.tc[u].State = IF u = t THEN "ready" ELSE m.tc[u].State
    BY <1>3, <2>1
  <2>8. Swapped(m, n)
    BY <2>4, <2>5, <2>6, <2>7 DEF Swapped
  <2> QED
    BY <1>3, <2>1, <2>4, <2>8 DEF n
<1>6. CASE ~Schedules(m)
  <2>1. n = seen
    BY <1>2, <1>6
  <2>2. Highest(seen)
    <3>1. m.TaskReady = << >> \/ ~(m.tc[Head(m.TaskReady)].Pri > m.tc[t].Pri)
      BY <1>6 DEF Schedules
    <3>2. CASE m.TaskReady = << >>
      <4>1. Entries(m.TaskReady) = {}
        BY <3>2, EmptyFacts
      <4>2. \A u \in Tasks : m.tc[u].State # "ready"
        BY <4>1 DEF Fit, Sound, ListRight
      <4> QED
        BY <1>3, <4>2 DEF Highest
    <3>3. CASE m.TaskReady # << >> /\ ~(m.tc[Head(m.TaskReady)].Pri > m.tc[t].Pri)
      <4>1. /\ Head(m.TaskReady) \in Tasks
            /\ \A u \in Tasks : m.tc[u].State = "ready" => m.tc[u].Pri <= m.tc[Head(m.TaskReady)].Pri
        BY <3>3, HeadIsHighest DEF Fit
      <4> QED
        BY <1>1, <1>3, <3>3, <4>1 DEF Highest
    <3> QED
      BY <3>1, <3>2, <3>3
  <2> QED
    BY <1>3, <1>4, <2>1, <2>2 DEF n, Fit, Asked
<1> QED
  BY <1>5, <1>6

(* What no function but the scheduler changes.                             *)
Keeps(m, n) ==
  /\ n.ThisTask = m.ThisTask /\ n.idle = m.idle
  /\ n.IDNestCnt = m.IDNestCnt /\ n.TDNestCnt = m.TDNestCnt
  /\ \A u \in Tasks :
       /\ n.tc[u].IDNestCnt = m.tc[u].IDNestCnt /\ n.tc[u].TDNestCnt = m.tc[u].TDNestCnt
       /\ \/ n.tc[u].State = m.tc[u].State
          \/ m.tc[u].State = "wait" /\ n.tc[u].State = "ready"

(* Reschedule() only sets a flag.                                          *)
LEMMA AskingIsFit ==
  ASSUME NEW m, Sound(m), OneRuns(m)
  PROVE  LET n == [m EXCEPT !.AttnSwitch = TRUE]
         IN  /\ Fit(n) /\ n.tc = m.tc /\ n.TaskReady = m.TaskReady
             /\ n.ThisTask = m.ThisTask /\ n.idle = m.idle
             /\ n.IDNestCnt = m.IDNestCnt /\ n.TDNestCnt = m.TDNestCnt
             /\ \A w : Keeps(w, m) => Keeps(w, n)
<1> DEFINE n == [m EXCEPT !.AttnSwitch = TRUE]
<1>1. /\ n \in Machine /\ n.tc = m.tc /\ n.TaskReady = m.TaskReady /\ n.ThisTask = m.ThisTask
      /\ n.idle = m.idle /\ n.IDNestCnt = m.IDNestCnt /\ n.TDNestCnt = m.TDNestCnt
      /\ n.AttnSwitch
  BY DEF Sound, Machine
<1> HIDE DEF n
<1>2. Rank(n) = Rank(m)
  BY <1>1 DEF Rank
<1>3. Fit(n)
  BY <1>1, <1>2 DEF Fit, Sound, ListRight, SleepsRightly, OneRuns, Asked
<1>4. ASSUME NEW w, Keeps(w, m) PROVE Keeps(w, n)
  BY <1>1, <1>4 DEF Keeps
<1> QED
  BY <1>1, <1>3, <1>4 DEF n

LEMMA SignalFacts ==
  ASSUME NEW m, Fit(m), NEW u \in Tasks, NEW sig \in Signals
  PROVE  Fit(Signal(m, u, sig)) /\ Keeps(m, Signal(m, u, sig))
<1> DEFINE n == Signal(m, u, sig)
           sent == [m EXCEPT !.tc[u].SigRecvd = @ \cup {sig}]
           tc == [m.tc EXCEPT ![u].SigRecvd = @ \cup {sig}]
           wakes == sent.tc[u].State = "wait" /\ sent.tc[u].SigRecvd \cap sent.tc[u].SigWait # {}
           this == m.tc[m.ThisTask]
<1>1. /\ m \in Machine /\ m.tc \in [Tasks -> TaskStructure] /\ m.ThisTask \in Tasks
      /\ \A v \in Tasks : m.tc[v].Pri \in Int
  BY MachineFields DEF Fit, Sound
<1>2. tc \in [Tasks -> TaskStructure]
  <2>1. m.tc[u] \in TaskStructure
    BY <1>1
  <2>2. [m.tc[u] EXCEPT !.SigRecvd = @ \cup {sig}] \in TaskStructure
    BY <2>1 DEF TaskStructure
  <2> QED
    BY <1>1, <2>2
<1>3. sent = [m EXCEPT !.tc = tc]
  BY <1>1 DEF Machine
<1>4. \A v \in Tasks : /\ tc[v].Pri = m.tc[v].Pri /\ tc[v].State = m.tc[v].State
                       /\ tc[v].SigRecvd = IF v = u THEN m.tc[v].SigRecvd \cup {sig}
                                           ELSE m.tc[v].SigRecvd
                       /\ tc[v].SigWait = m.tc[v].SigWait
                       /\ tc[v].TDNestCnt = m.tc[v].TDNestCnt
                       /\ tc[v].IDNestCnt = m.tc[v].IDNestCnt
  BY <1>1 DEF TaskStructure
<1>5. n = CASE ~wakes -> sent
            [] wakes /\ m.tc[u].Pri >= this.Pri /\ this.State = "run"
                 -> [MakeReady(sent, u) EXCEPT !.AttnSwitch = TRUE]
            [] OTHER -> MakeReady(sent, u)
  BY DEF Signal, RescheduleLater
<1> HIDE DEF sent, tc, n
<1>6. /\ sent \in Machine /\ sent.tc = tc /\ sent.TaskReady = m.TaskReady
      /\ sent.ThisTask = m.ThisTask /\ sent.idle = m.idle
      /\ sent.IDNestCnt = m.IDNestCnt /\ sent.TDNestCnt = m.TDNestCnt
      /\ sent.lowered = m.lowered /\ sent.AttnSwitch = m.AttnSwitch
  BY <1>1, <1>2, <1>3 DEF Machine
<1>0. \A v \in Tasks : /\ sent.tc[v].Pri = m.tc[v].Pri /\ sent.tc[v].State = m.tc[v].State
                       /\ sent.tc[v].SigRecvd = IF v = u THEN m.tc[v].SigRecvd \cup {sig}
                                                ELSE m.tc[v].SigRecvd
                       /\ sent.tc[v].SigWait = m.tc[v].SigWait
                       /\ sent.tc[v].TDNestCnt = m.tc[v].TDNestCnt
                       /\ sent.tc[v].IDNestCnt = m.tc[v].IDNestCnt
  BY <1>4, <1>6
<1>7. Rank(sent) = Rank(m)
  BY <1>0 DEF Rank
<1>8. ListRight(sent) /\ OneRuns(sent) /\ Asked(sent) /\ Keeps(m, sent)
  <2>1. ListRight(sent)
    <3>1. {v \in Tasks : sent.tc[v].State = "ready"} = {v \in Tasks : m.tc[v].State = "ready"}
      BY <1>0
    <3> QED
      BY <1>6, <1>7, <3>1 DEF Fit, Sound, ListRight
  <2>2. OneRuns(sent)
    <3>1. OneRuns(m)
      BY DEF Fit
    <3>2. sent.tc[m.ThisTask].State = m.tc[m.ThisTask].State
      BY <1>0, <1>1
    <3> QED
      BY <1>0, <1>6, <3>1, <3>2 DEF OneRuns
  <2>3. Asked(sent)
    BY <1>0, <1>1, <1>6 DEF Fit, Asked, Highest
  <2>4. Keeps(m, sent)
    BY <1>0, <1>6 DEF Keeps
  <2> QED
    BY <2>1, <2>2, <2>3, <2>4
<1>9. CASE ~wakes
  <2>1. n = sent
    BY <1>5, <1>9
  <2>2. SleepsRightly(sent)
    BY <1>4, <1>6, <1>9 DEF Fit, Sound, SleepsRightly
  <2> QED
    BY <1>6, <1>8, <2>1, <2>2 DEF n, Fit, Sound
<1>10. CASE wakes
  <2> DEFINE r == MakeReady(sent, u)
  <2>1. m.tc[u].State = "wait" /\ sent.tc[u].State # "ready"
    BY <1>4, <1>6, <1>10
  <2>2. /\ Sound(r) /\ r.tc = [sent.tc EXCEPT ![u].State = "ready"]
        /\ r.ThisTask = sent.ThisTask /\ r.idle = sent.idle
        /\ r.IDNestCnt = sent.IDNestCnt /\ r.TDNestCnt = sent.TDNestCnt
        /\ r.lowered = sent.lowered /\ r.AttnSwitch = sent.AttnSwitch
    <3>1. \A v \in Tasks : v # u /\ sent.tc[v].State = "wait"
                              => sent.tc[v].SigRecvd \cap sent.tc[v].SigWait = {}
      BY <1>4, <1>6 DEF Fit, Sound, SleepsRightly
    <3> QED
      BY <1>6, <1>8, <2>1, <3>1, MakeReadyFacts
  <2> HIDE DEF r
  <2>3. \A v \in Tasks : /\ r.tc[v].Pri = m.tc[v].Pri
                         /\ r.tc[v].State = IF v = u THEN "ready" ELSE m.tc[v].State
                         /\ r.tc[v].TDNestCnt = m.tc[v].TDNestCnt
                         /\ r.tc[v].IDNestCnt = m.tc[v].IDNestCnt
    BY <1>2, <1>4, <1>6, <2>2 DEF TaskStructure
  <2>4. Keeps(m, r) /\ OneRuns(r)
    <3>1. Keeps(m, r)
      BY <1>6, <2>1, <2>2, <2>3 DEF Keeps
    <3>2. OneRuns(m)
      BY DEF Fit
    <3>3. r.ThisTask = m.ThisTask /\ r.idle = m.idle
      BY <1>6, <2>2
    <3>4. \A v \in Tasks : r.tc[v].State = "run" => m.tc[v].State = "run"
      BY <2>3
    <3>5. ~m.idle => r.tc[m.ThisTask].State = m.tc[m.ThisTask].State
      BY <1>1, <2>1, <2>3, <3>2 DEF OneRuns
    <3> QED
      BY <3>1, <3>2, <3>3, <3>4, <3>5 DEF OneRuns
  <2>5. CASE m.tc[u].Pri >= this.Pri /\ this.State = "run"
    <3>1. n = [r EXCEPT !.AttnSwitch = TRUE]
      BY <1>5, <1>10, <2>5 DEF r
    <3> HIDE DEF this
    <3>2. Fit(n) /\ \A w : Keeps(w, r) => Keeps(w, n)
      BY <2>2, <2>4, <3>1, AskingIsFit
    <3> QED
      BY <2>4, <3>2 DEF n
  <2>6. CASE ~(m.tc[u].Pri >= this.Pri /\ this.State = "run")
    <3>1. n = r
      BY <1>5, <1>10, <2>6 DEF r
    <3>2. Asked(r)
      BY <1>1, <1>6, <2>2, <2>3, <2>6 DEF Asked, Highest, Fit
    <3> QED
      BY <2>2, <2>4, <3>1, <3>2 DEF Fit, n
  <2> QED
    BY <2>5, <2>6
<1> QED
  BY <1>9, <1>10

---------------------------------------------------------------------------

(* The nest counts                                                         *)

(* a and o are values of at and own.  The counts of the machine are those  *)
(* of the running task: one Disable() more in Wait(), which has put the    *)
(* other count aside, and one Forbid() more in RemTask().                  *)
Mine(m, a, o) ==
  LET t == m.ThisTask
  IN  /\ a[t] \in {"user", "check"} => m.IDNestCnt = o[t].id - 1 /\ m.TDNestCnt = o[t].td - 1
      /\ a[t] = "removing" => m.IDNestCnt = o[t].id - 1 /\ m.TDNestCnt = o[t].td
      /\ a[t] = "wait" => /\ m.IDNestCnt = o[t].id /\ m.TDNestCnt = -1
                          /\ m.tc[t].TDNestCnt = o[t].td - 1
      /\ m.tc[t].State = "removed" => a[t] = "removing"

(* A task that does not run has its counts in its structure; if it was     *)
(* switched away outside Wait(), both were at the lowest.                  *)
Parked(m, a, o, u) ==
  /\ a[u] # "removing"
  /\ a[u] = "wait" => m.tc[u].IDNestCnt = o[u].id /\ m.tc[u].TDNestCnt = o[u].td - 1
  /\ a[u] # "wait" => m.tc[u].IDNestCnt = -1 /\ o[u].id = 0 /\ o[u].td = 0

Nested(m, a, o) ==
  /\ a \in [Tasks -> Places]
  /\ o \in [Tasks -> [id : 0 .. MaxNest, td : 0 .. MaxNest]]
  /\ ~m.idle => Mine(m, a, o)
  /\ m.idle => m.TDNestCnt = -1 /\ m.IDNestCnt \in 0 .. MaxNest
  /\ \A u \in Tasks : /\ m.idle \/ u # m.ThisTask
                      /\ m.tc[u].State \in {"ready", "wait"}
                      => Parked(m, a, o, u)

LEMMA NestTypes ==
  ASSUME NEW a, NEW o, NEW m, Nested(m, a, o), NEW u \in Tasks
  PROVE  /\ a[u] \in Places /\ o[u].id \in 0 .. MaxNest /\ o[u].td \in 0 .. MaxNest
         /\ MaxNest \in Nat
<1>1. MaxNest \in Nat
  BY SchedulerAssumption DEF SchedulerAssumption
<1>2. a \in [Tasks -> Places] /\ o \in [Tasks -> [id : 0 .. MaxNest, td : 0 .. MaxNest]]
  BY DEF Nested
<1>3. o[u] \in [id : 0 .. MaxNest, td : 0 .. MaxNest]
  BY <1>2
<1> QED
  BY <1>1, <1>2, <1>3

LEMMA KeepsNested ==
  ASSUME NEW m, NEW n, NEW a, NEW o, m \in Machine, Nested(m, a, o), Keeps(m, n)
  PROVE  Nested(n, a, o)
<1>1. m.ThisTask \in Tasks
  BY MachineFields
<1>2. ASSUME ~n.idle PROVE Mine(n, a, o)
  <2>1. Mine(m, a, o) /\ n.ThisTask = m.ThisTask
    BY <1>2 DEF Nested, Keeps
  <2>2. n.tc[m.ThisTask].State = "removed" => m.tc[m.ThisTask].State = "removed"
    BY <1>1 DEF Keeps
  <2> QED
    BY <1>1, <2>1, <2>2 DEF Mine, Keeps
<1>3. ASSUME NEW u \in Tasks, n.idle \/ u # n.ThisTask, n.tc[u].State \in {"ready", "wait"}
      PROVE  Parked(n, a, o, u)
  <2>1. (m.idle \/ u # m.ThisTask) /\ m.tc[u].State \in {"ready", "wait"}
    BY <1>3 DEF Keeps
  <2>2. Parked(m, a, o, u)
    BY <2>1 DEF Nested
  <2> QED
    BY <2>2 DEF Parked, Keeps
<1> QED
  BY <1>2, <1>3 DEF Nested, Keeps

(* The scheduler gives the next task its counts.                           *)
LEMMA SwappedNested ==
  ASSUME NEW m, NEW n, NEW a, NEW o, m \in Machine, n \in Machine, Nested(m, a, o),
         ~m.idle, m.tc[m.ThisTask].State = "run", m.IDNestCnt < 0, m.TDNestCnt < 0,
         ~n.idle, n.TDNestCnt = m.TDNestCnt, Swapped(m, n)
  PROVE  Nested(n, a, o)
<1> DEFINE t == m.ThisTask
           v == n.ThisTask
<1>1. t \in Tasks /\ v \in Tasks /\ m.IDNestCnt \in Int /\ m.TDNestCnt \in Int
  BY MachineFields
<1>2. /\ a[t] \in Places /\ o[t].id \in Nat /\ o[t].td \in Nat
      /\ a[v] \in Places /\ o[v].id \in Nat /\ o[v].td \in Nat
  BY <1>1, NestTypes
<1>3. Mine(m, a, o)
  BY DEF Nested
<1>4. /\ a[t] \in {"user", "check"} /\ o[t].id = 0 /\ o[t].td = 0
      /\ m.IDNestCnt = -1 /\ m.TDNestCnt = -1
  <2>1. a[t] # "wait"
    BY <1>1, <1>2, <1>3 DEF Mine
  <2>2. a[t] # "removing"
    BY <1>1, <1>2, <1>3 DEF Mine
  <2>3. a[t] \in {"user", "check"}
    BY <1>2, <2>1, <2>2 DEF Places
  <2>4. m.IDNestCnt = o[t].id - 1 /\ m.TDNestCnt = o[t].td - 1
    BY <1>3, <2>3 DEF Mine
  <2> QED
    BY <1>1, <1>2, <2>3, <2>4
<1>5. Mine(n, a, o)
  <2>1. n.tc[v].State = "run" /\ n.tc[v].TDNestCnt = m.tc[v].TDNestCnt
    BY <1>1 DEF Swapped
  <2>2. CASE v = t
    <3>1. n.IDNestCnt = -1 /\ n.TDNestCnt = -1
      BY <1>4, <2>2 DEF Swapped
    <3> QED
      BY <1>4, <2>1, <2>2, <3>1 DEF Mine
  <2>3. CASE v # t
    <3>1. m.tc[v].State = "ready" /\ n.IDNestCnt = m.tc[v].IDNestCnt
      BY <2>3 DEF Swapped
    <3>2. Parked(m, a, o, v)
      BY <1>1, <2>3, <3>1 DEF Nested
    <3>3. n.TDNestCnt = -1
      BY <1>4
    <3> QED
      BY <1>2, <2>1, <3>1, <3>2, <3>3 DEF Parked, Mine
  <2> QED
    BY <2>2, <2>3
<1>6. ASSUME NEW u \in Tasks, u # v, n.tc[u].State \in {"ready", "wait"}
      PROVE  Parked(n, a, o, u)
  <2>1. CASE u = t
    <3>1. n.tc[u].IDNestCnt = -1
      BY <1>1, <1>4, <2>1 DEF Swapped
    <3> QED
      BY <1>4, <2>1, <3>1 DEF Parked
  <2>2. CASE u # t
    <3>1. /\ m.tc[u].State \in {"ready", "wait"} /\ n.tc[u].IDNestCnt = m.tc[u].IDNestCnt
          /\ n.tc[u].TDNestCnt = m.tc[u].TDNestCnt
      BY <1>6, <2>2 DEF Swapped
    <3>2. Parked(m, a, o, u)
      BY <2>2, <3>1 DEF Nested
    <3> QED
      BY <3>1, <3>2 DEF Parked
  <2> QED
    BY <2>1, <2>2
<1> QED
  BY <1>5, <1>6 DEF Nested

(* The running task keeps the processor.                                   *)
Stays(m, n) ==
  /\ n.ThisTask = m.ThisTask /\ ~n.idle /\ n.tc[n.ThisTask].State = m.tc[m.ThisTask].State
  /\ n.IDNestCnt = m.IDNestCnt /\ n.TDNestCnt = m.TDNestCnt

(* What a switch with task switching and interrupts enabled may do.        *)
LEMMA ScheduleNested ==
  ASSUME NEW m, NEW a, NEW o, Fit(m), Nested(m, a, o), ~m.idle, m.IDNestCnt < 0, m.TDNestCnt < 0
  PROVE  LET n == KrnSchedule(m)
         IN  Fit(n) /\ Nested(n, a, o) /\ ~n.idle /\ Highest(n)
<1> DEFINE n == KrnSchedule(m)
           t == m.ThisTask
<1>1. m \in Machine /\ t \in Tasks /\ m.IDNestCnt \in Int /\ m.TDNestCnt \in Int
  BY MachineFields DEF Fit, Sound
<1>2. m.tc[t].State = "run"
  <2>1. Mine(m, a, o) /\ o[t].td \in Nat
    BY <1>1, NestTypes DEF Nested
  <2>2. a[t] # "removing"
    BY <1>1, <2>1 DEF Mine
  <2>3. m.tc[t].State # "removed"
    BY <2>1, <2>2 DEF Mine
  <2> QED
    BY <2>3 DEF Fit, OneRuns
<1>3. /\ Fit(n) /\ Highest(n) /\ ~n.idle /\ n.TDNestCnt = m.TDNestCnt
      /\ \/ n.ThisTask = m.ThisTask /\ n.IDNestCnt = m.IDNestCnt /\ n.tc = m.tc
         \/ Swapped(m, n)
  BY <1>2, KrnScheduleFacts
<1> HIDE DEF n
<1>4. CASE n.ThisTask = m.ThisTask /\ n.IDNestCnt = m.IDNestCnt /\ n.tc = m.tc
  <2>1. Keeps(m, n)
    <3>1. n.idle \in BOOLEAN /\ m.idle \in BOOLEAN
      BY <1>1, <1>3, MachineFields DEF Fit, Sound
    <3>2. n.idle = m.idle
      BY <1>3, <3>1
    <3> QED
      BY <1>3, <1>4, <3>2 DEF Keeps
  <2> QED
    BY <1>1, <1>3, <2>1, KeepsNested DEF n
<1>5. CASE Swapped(m, n)
  <2>1. n \in Machine
    BY <1>3 DEF Fit, Sound
  <2> QED
    BY <1>1, <1>2, <1>3, <1>5, <2>1, SwappedNested DEF n
<1> QED
  BY <1>3, <1>4, <1>5

LEMMA SoftIntsFacts ==
  ASSUME NEW m, Fit(m), NEW n \in SoftInts(m)
  PROVE  Fit(n) /\ Keeps(m, n)
<1> DEFINE done == [m EXCEPT !.SoftInt = FALSE]
<1>1. Fit(m) /\ Keeps(m, m)
  BY DEF Keeps
<1>2. Fit(done) /\ Keeps(m, done)
  <2>1. /\ done \in Machine /\ done.tc = m.tc /\ done.TaskReady = m.TaskReady
        /\ done.ThisTask = m.ThisTask /\ done.idle = m.idle /\ done.IDNestCnt = m.IDNestCnt
        /\ done.TDNestCnt = m.TDNestCnt /\ done.AttnSwitch = m.AttnSwitch
        /\ done.lowered = m.lowered
    BY DEF Fit, Sound, Machine
  <2> HIDE DEF done
  <2>2. Rank(done) = Rank(m)
    BY <2>1 DEF Rank
  <2>3. Sound(done)
    BY <2>1, <2>2 DEF Fit, Sound, ListRight, SleepsRightly
  <2>4. OneRuns(done) /\ Asked(done)
    BY <2>1 DEF Fit, OneRuns, Asked, Highest
  <2> QED
    BY <2>1, <2>3, <2>4 DEF Fit, Keeps
<1>3. n = m \/ n = done \/ \E u \in Tasks, sig \in Signals : n = Signal(done, u, sig)
  <2>1. SoftInts(m) = IF ~m.SoftInt THEN {m}
                      ELSE {done} \cup {Signal(done, u, sig) : u \in Tasks, sig \in Signals}
    BY DEF SoftInts
  <2> HIDE DEF done
  <2>2. CASE m.SoftInt
    <3>1. SoftInts(m) = {done} \cup {Signal(done, u, sig) : u \in Tasks, sig \in Signals}
      BY <2>1, <2>2
    <3>2. n \in {done} \cup {Signal(done, u, sig) : u \in Tasks, sig \in Signals}
      BY <3>1
    <3> QED
      BY <3>2
  <2>3. CASE ~m.SoftInt
    BY <2>1, <2>3
  <2> QED
    BY <2>2, <2>3
<1> HIDE DEF done
<1>4. CASE \E u \in Tasks, sig \in Signals : n = Signal(done, u, sig)
  <2>1. PICK u \in Tasks, sig \in Signals : n = Signal(done, u, sig)
    BY <1>4
  <2>2. Fit(n) /\ Keeps(done, n)
    BY <1>2, <2>1, SignalFacts
  <2>3. Keeps(m, n)
    BY <1>2, <2>2 DEF Keeps
  <2> QED
    BY <2>2, <2>3
<1> QED
  BY <1>1, <1>2, <1>3, <1>4

(* The end of an interrupt, or of Enable(), in the running task.           *)
LEMMA ExitFacts ==
  ASSUME NEW m, NEW a, NEW o, Fit(m), Nested(m, a, o), ~m.idle, m.IDNestCnt < 0,
         NEW n \in ExitInterrupt(m)
  PROVE  /\ Fit(n) /\ Nested(n, a, o) /\ ~n.idle
         /\ m.TDNestCnt < 0 => Highest(n)
         /\ ~(m.TDNestCnt < 0) => Stays(m, n)
<1>1. PICK x \in SoftInts(m) : n = LeaveInterrupt(x)
  BY DEF ExitInterrupt
<1>2. Fit(x) /\ Keeps(m, x) /\ m \in Machine
  BY SoftIntsFacts DEF Fit, Sound
<1>3. Nested(x, a, o) /\ ~x.idle /\ x.IDNestCnt < 0 /\ x.TDNestCnt = m.TDNestCnt
  BY <1>2, KeepsNested DEF Keeps
<1>4. CASE x.TDNestCnt < 0 /\ x.AttnSwitch
  <2>1. n = KrnSchedule(x)
    BY <1>1, <1>4 DEF LeaveInterrupt
  <2> QED
    BY <1>2, <1>3, <1>4, <2>1, ScheduleNested
<1>5. CASE ~(x.TDNestCnt < 0 /\ x.AttnSwitch)
  <2>1. n = x
    BY <1>1, <1>5 DEF LeaveInterrupt
  <2>2. m.ThisTask \in Tasks /\ m.TDNestCnt \in Int
    BY <1>2, MachineFields
  <2>3. ASSUME m.TDNestCnt < 0 PROVE Highest(x)
    <3>1. Mine(x, a, o) /\ x.ThisTask = m.ThisTask /\ o[m.ThisTask].td \in Nat
      BY <1>2, <1>3, <2>2, NestTypes DEF Nested, Keeps
    <3>2. x.tc[x.ThisTask].State # "removed"
      BY <1>3, <2>2, <2>3, <3>1 DEF Mine
    <3>3. x.tc[x.ThisTask].State = "run"
      BY <1>2, <1>3, <3>2 DEF Fit, OneRuns
    <3> QED
      BY <1>2, <1>3, <1>5, <2>3, <3>3 DEF Fit, Asked
  <2>4. Stays(m, x)
    <3>1. m.tc[m.ThisTask].State \in {"run", "removed"}
      BY DEF Fit, OneRuns
    <3> QED
      BY <1>2, <2>2, <3>1 DEF Keeps, Stays
  <2> QED
    BY <1>2, <1>3, <2>1, <2>3, <2>4
<1> QED
  BY <1>4, <1>5

(* Fit() is not about the counts.                                          *)
LEMMA FitFrame ==
  ASSUME NEW m, NEW n, Fit(m), n \in Machine, n.tc = m.tc, n.TaskReady = m.TaskReady,
         n.ThisTask = m.ThisTask, n.idle = m.idle, n.lowered = m.lowered,
         m.AttnSwitch => n.AttnSwitch
  PROVE  Fit(n)
<1>1. Rank(n) = Rank(m)
  BY DEF Rank
<1>2. Sound(n)
  BY <1>1 DEF Fit, Sound, ListRight, SleepsRightly
<1>3. OneRuns(n) /\ Asked(n)
  BY DEF Fit, OneRuns, Asked, Highest
<1> QED
  BY <1>2, <1>3 DEF Fit

(* The inductive invariant: the machine, the counts, and no ready task has *)
(* a higher priority than a running task that may be switched away.        *)
Good(m, a, o) ==
  /\ Fit(m)
  /\ Nested(m, a, o)
  /\ ~m.idle /\ a[m.ThisTask] = "user" /\ m.IDNestCnt < 0 /\ m.TDNestCnt < 0 => Highest(m)

Lowered(m) == [m EXCEPT !.IDNestCnt = @ - 1]

LEMMA EnableFacts ==
  ASSUME NEW m, NEW a, NEW o, Fit(m), ~m.idle, Nested(Lowered(m), a, o),
         a[m.ThisTask] # "user", NEW n \in Enable(m)
  PROVE  /\ Good(n, a, o)
         /\ ~(m.IDNestCnt - 1 < 0 /\ m.TDNestCnt < 0) => Stays(Lowered(m), n)
<1> DEFINE open == Lowered(m)
<1>1. m \in Machine /\ m.IDNestCnt \in Int /\ m.TDNestCnt \in Int
  BY MachineFields DEF Fit, Sound
<1>2. /\ open \in Machine /\ open.tc = m.tc /\ open.TaskReady = m.TaskReady
      /\ open.ThisTask = m.ThisTask /\ open.idle = m.idle /\ open.lowered = m.lowered
      /\ open.AttnSwitch = m.AttnSwitch /\ open.IDNestCnt = m.IDNestCnt - 1
      /\ open.TDNestCnt = m.TDNestCnt
  BY <1>1 DEF Lowered, Machine
<1>3. Enable(m) = IF open.IDNestCnt < 0 /\ open.SoftInt THEN ExitInterrupt(open) ELSE {open}
  BY DEF Enable, Lowered
<1> HIDE DEF open
<1>4. Fit(open)
  BY <1>2, FitFrame
<1>5. Nested(open, a, o)
  BY DEF open
<1>6. CASE open.IDNestCnt < 0 /\ open.SoftInt
  <2>1. n \in ExitInterrupt(open)
    BY <1>3, <1>6
  <2>2. /\ Fit(n) /\ Nested(n, a, o) /\ ~n.idle
        /\ open.TDNestCnt < 0 => Highest(n)
        /\ ~(open.TDNestCnt < 0) => Stays(open, n)
    BY <1>2, <1>4, <1>5, <1>6, <2>1, ExitFacts
  <2> QED
    BY <1>2, <1>6, <2>2 DEF Good, Stays, open
<1>7. CASE ~(open.IDNestCnt < 0 /\ open.SoftInt)
  <2>1. n = open
    BY <1>3, <1>7
  <2> QED
    BY <1>2, <1>4, <1>5, <2>1 DEF Good, Stays, open
<1> QED
  BY <1>6, <1>7

(* The processor goes to a task that waited for it, or sleeps.             *)
LEMMA DispatchNested ==
  ASSUME NEW m, NEW a, NEW o, Sound(m), NobodyRuns(m),
         a \in [Tasks -> Places], o \in [Tasks -> [id : 0 .. MaxNest, td : 0 .. MaxNest]],
         \A u \in Tasks : m.tc[u].State \in {"ready", "wait"} => Parked(m, a, o, u),
         m.TDNestCnt = -1, m.TaskReady = << >> => m.IDNestCnt \in 0 .. MaxNest
  PROVE  Good(Dispatch(m), a, o)
<1> DEFINE n == Dispatch(m)
           v == n.ThisTask
<1>1. /\ Fit(n) /\ n.TDNestCnt = m.TDNestCnt
      /\ ~n.idle => Highest(n) /\ n.tc[n.ThisTask].State = "run"
      /\ m.TaskReady = << >> => /\ n.idle /\ n.ThisTask = m.ThisTask
                                /\ n.IDNestCnt = m.IDNestCnt /\ n.tc = m.tc
      /\ m.TaskReady # << >> => /\ ~n.idle /\ m.tc[n.ThisTask].State = "ready"
                                /\ n.IDNestCnt = m.tc[n.ThisTask].IDNestCnt
                                /\ n.tc = [m.tc EXCEPT ![n.ThisTask].State = "run"]
  BY DispatchFacts
<1> HIDE DEF n
<1>2. v \in Tasks /\ m.tc \in [Tasks -> TaskStructure]
  BY <1>1, MachineFields DEF Fit, Sound
<1>3. CASE m.TaskReady = << >>
  <2>1. \A u \in Tasks : n.tc[u].State \in {"ready", "wait"} => Parked(n, a, o, u)
    BY <1>1, <1>3 DEF Parked
  <2>2. Nested(n, a, o)
    BY <1>1, <1>3, <2>1 DEF Nested
  <2> QED
    BY <1>1, <1>3, <2>2 DEF Good, n
<1>4. CASE m.TaskReady # << >>
  <2>1. \A u \in Tasks : /\ n.tc[u].TDNestCnt = m.tc[u].TDNestCnt
                         /\ n.tc[u].IDNestCnt = m.tc[u].IDNestCnt
                         /\ u # v => n.tc[u].State = m.tc[u].State
    BY <1>1, <1>2, <1>4 DEF TaskStructure
  <2>2. \A u \in Tasks : u # v /\ n.tc[u].State \in {"ready", "wait"} => Parked(n, a, o, u)
    BY <2>1 DEF Parked
  <2>3. Parked(m, a, o, v) /\ a[v] \in Places
    BY <1>1, <1>2, <1>4
  <2>4. /\ n.IDNestCnt = m.tc[v].IDNestCnt /\ n.tc[v].TDNestCnt = m.tc[v].TDNestCnt
        /\ n.TDNestCnt = -1 /\ n.tc[v].State = "run" /\ ~n.idle
    BY <1>1, <1>2, <1>4, <2>1
  <2>5. Mine(n, a, o)
    BY <2>3, <2>4 DEF Parked, Mine
  <2>6. Nested(n, a, o)
    BY <2>2, <2>4, <2>5 DEF Nested
  <2> QED
    BY <1>1, <2>4, <2>6 DEF Good, n
<1> QED
  BY <1>3, <1>4

---------------------------------------------------------------------------

(* The steps                                                               *)

IInv == Good(exec, at, own)

(* KeepsProcessor for one step.                                            *)
Kept ==
  \A t \in Tasks :
    Runs(t) /\ (own[t].id > 0 \/ own[t].td > 0) /\ exec.tc[t].State = "run"
      => \/ Runs(t)' /\ exec'.tc[t].State \in {"run", "removed"}
         \/ at'[t] = "wait"
         \/ own'[t] = NoNest

IInvNext == Good(exec', at', own')

(* What the invariant says of the running task.                            *)
LEMMA RunnerFacts ==
  ASSUME IInv, NEW t \in Tasks, Runs(t)
  PROVE  /\ exec \in Machine /\ Fit(exec) /\ ~exec.idle /\ exec.ThisTask = t
         /\ exec.IDNestCnt \in Int /\ exec.TDNestCnt \in Int
         /\ at \in [Tasks -> Places] /\ at[t] \in Places
         /\ own \in [Tasks -> [id : 0 .. MaxNest, td : 0 .. MaxNest]]
         /\ own[t].id \in 0 .. MaxNest /\ own[t].td \in 0 .. MaxNest
         /\ own[t] \in [id : 0 .. MaxNest, td : 0 .. MaxNest] /\ MaxNest \in Nat
         /\ at[t] \in {"user", "check"} => /\ exec.IDNestCnt = own[t].id - 1
                                           /\ exec.TDNestCnt = own[t].td - 1
         /\ at[t] = "removing" => exec.IDNestCnt = own[t].id - 1 /\ exec.TDNestCnt = own[t].td
         /\ at[t] = "wait" => /\ exec.IDNestCnt = own[t].id /\ exec.TDNestCnt = -1
                              /\ exec.tc[t].TDNestCnt = own[t].td - 1
         /\ exec.tc[t].State = "run" \/ (at[t] = "removing" /\ exec.tc[t].State = "removed")
         /\ \A u \in Tasks : u # t /\ exec.tc[u].State \in {"ready", "wait"}
                               => Parked(exec, at, own, u)
         /\ \A u \in Tasks : exec.tc[u].State = "run" => u = t
<1>1. Fit(exec) /\ Nested(exec, at, own) /\ ~exec.idle /\ exec.ThisTask = t
  BY DEF IInv, Good, Runs
<1>2. Mine(exec, at, own)
  BY <1>1 DEF Nested
<1>3. exec \in Machine /\ exec.IDNestCnt \in Int /\ exec.TDNestCnt \in Int
  BY <1>1, MachineFields DEF Fit, Sound
<1>4. OneRuns(exec)
  BY <1>1 DEF Fit
<1>5. at \in [Tasks -> Places] /\ own \in [Tasks -> [id : 0 .. MaxNest, td : 0 .. MaxNest]]
  BY <1>1 DEF Nested
<1>6. /\ own[t] \in [id : 0 .. MaxNest, td : 0 .. MaxNest] /\ at[t] \in Places
      /\ MaxNest \in Nat
  BY <1>5, SchedulerAssumption DEF SchedulerAssumption
<1>7. own[t].id \in 0 .. MaxNest /\ own[t].td \in 0 .. MaxNest
  BY <1>6
<1>8. exec.tc[t].State = "run" \/ (at[t] = "removing" /\ exec.tc[t].State = "removed")
  BY <1>1, <1>2, <1>4 DEF Mine, OneRuns
<1>9. \A u \in Tasks : exec.tc[u].State = "run" => u = t
  BY <1>1, <1>4 DEF OneRuns
<1> QED
  BY <1>1, <1>2, <1>3, <1>5, <1>6, <1>7, <1>8, <1>9 DEF Mine, Nested

(* Back in Enable() or Permit(), the counts are the same.                  *)
LEMMA CheckNested ==
  ASSUME NEW m, NEW a, NEW o, m \in Machine, Nested(m, a, o), ~m.idle,
         a[m.ThisTask] \in {"user", "check"}, NEW p \in {"user", "check"}
  PROVE  Nested(m, [a EXCEPT ![m.ThisTask] = p], o)
<1> DEFINE b == [a EXCEPT ![m.ThisTask] = p]
           t == m.ThisTask
<1>1. t \in Tasks /\ a \in [Tasks -> Places]
  BY MachineFields DEF Nested
<1>2. b \in [Tasks -> Places] /\ b[t] = p /\ \A u \in Tasks : u # t => b[u] = a[u]
  BY <1>1 DEF Places
<1>3. Mine(m, a, o)
  BY DEF Nested
<1> HIDE DEF b
<1>4. Mine(m, b, o)
  BY <1>2, <1>3 DEF Mine
<1>5. \A u \in Tasks : u # t /\ m.tc[u].State \in {"ready", "wait"} => Parked(m, b, o, u)
  BY <1>2 DEF Nested, Parked
<1> QED
  BY <1>2, <1>4, <1>5 DEF Nested, b

(* Only the running task has anything to keep.                             *)
LEMMA RunnerKept ==
  ASSUME IInv, NEW t \in Tasks, Runs(t),
         (own[t].id > 0 \/ own[t].td > 0) /\ exec.tc[t].State = "run"
           => \/ Runs(t)' /\ exec'.tc[t].State \in {"run", "removed"}
              \/ at'[t] = "wait"
              \/ own'[t] = NoNest
  PROVE  Kept
  BY DEF Kept, Runs

LEMMA DisableFacts ==
  ASSUME NEW m, Fit(m)
  PROVE  /\ Fit(Disable(m)) /\ Disable(m) \in Machine
         /\ Disable(m).tc = m.tc /\ Disable(m).TaskReady = m.TaskReady
         /\ Disable(m).ThisTask = m.ThisTask /\ Disable(m).idle = m.idle
         /\ Disable(m).IDNestCnt = m.IDNestCnt + 1 /\ Disable(m).TDNestCnt = m.TDNestCnt
         /\ Disable(m).lowered = m.lowered /\ Disable(m).AttnSwitch = m.AttnSwitch
<1>1. m \in Machine /\ m.IDNestCnt + 1 \in Int
  BY MachineFields DEF Fit, Sound
<1>2. /\ Disable(m) \in Machine
      /\ Disable(m).tc = m.tc /\ Disable(m).TaskReady = m.TaskReady
      /\ Disable(m).ThisTask = m.ThisTask /\ Disable(m).idle = m.idle
      /\ Disable(m).IDNestCnt = m.IDNestCnt + 1 /\ Disable(m).TDNestCnt = m.TDNestCnt
      /\ Disable(m).lowered = m.lowered /\ Disable(m).AttnSwitch = m.AttnSwitch
  BY <1>1 DEF Disable, Machine
<1> QED
  BY <1>2, FitFrame

LEMMA LoweredFacts ==
  ASSUME NEW m \in Machine
  PROVE  /\ Lowered(m) \in Machine
         /\ Lowered(m).tc = m.tc /\ Lowered(m).TaskReady = m.TaskReady
         /\ Lowered(m).ThisTask = m.ThisTask /\ Lowered(m).idle = m.idle
         /\ Lowered(m).IDNestCnt = m.IDNestCnt - 1 /\ Lowered(m).TDNestCnt = m.TDNestCnt
<1>1. m.IDNestCnt - 1 \in Int
  BY MachineFields
<1> QED
  BY <1>1 DEF Lowered, Machine

(* A function that works under Disable() and ends with Enable().           *)
LEMMA EnableStep ==
  ASSUME IInv, NEW t \in Tasks, Runs(t), NEW a, Nested(exec, a, own), a[t] # "user",
         NEW m, Fit(m), Keeps(Disable(exec), m), NEW n \in Enable(m)
  PROVE  /\ Good(n, a, own)
         /\ ~(exec.IDNestCnt < 0 /\ exec.TDNestCnt < 0) => Stays(exec, n)
<1>1. /\ exec \in Machine /\ Fit(exec) /\ ~exec.idle /\ exec.ThisTask = t
      /\ exec.IDNestCnt \in Int /\ exec.TDNestCnt \in Int
      /\ exec.tc[t].State = "run" \/ (at[t] = "removing" /\ exec.tc[t].State = "removed")
  BY RunnerFacts
<1>2. /\ Disable(exec).tc = exec.tc
      /\ Disable(exec).ThisTask = t /\ Disable(exec).idle = exec.idle
      /\ Disable(exec).IDNestCnt = exec.IDNestCnt + 1
      /\ Disable(exec).TDNestCnt = exec.TDNestCnt
  BY <1>1, DisableFacts
<1>3. m \in Machine
  BY DEF Fit, Sound
<1> DEFINE open == Lowered(m)
<1>4. /\ open \in Machine /\ open.tc = m.tc
      /\ open.ThisTask = m.ThisTask /\ open.idle = m.idle
      /\ open.IDNestCnt = m.IDNestCnt - 1 /\ open.TDNestCnt = m.TDNestCnt
  BY <1>3, LoweredFacts
<1> HIDE DEF open
<1>5. m.ThisTask = t /\ ~m.idle /\ m.IDNestCnt = exec.IDNestCnt + 1
      /\ m.TDNestCnt = exec.TDNestCnt
  BY <1>1, <1>2 DEF Keeps
<1>6. Keeps(exec, open)
  BY <1>1, <1>2, <1>4, <1>5 DEF Keeps
<1>7. Nested(open, a, own)
  BY <1>1, <1>6, KeepsNested
<1>8. /\ Good(n, a, own)
      /\ ~(m.IDNestCnt - 1 < 0 /\ m.TDNestCnt < 0) => Stays(open, n)
  BY <1>5, <1>7, EnableFacts DEF open
<1>9. open.tc[t].State = exec.tc[t].State
  BY <1>1, <1>6 DEF Keeps
<1>10. Stays(open, n) => Stays(exec, n)
  BY <1>1, <1>4, <1>5, <1>9 DEF Stays
<1> QED
  BY <1>1, <1>5, <1>8, <1>10

(* Such a call of a running program.                                       *)
LEMMA CallStep ==
  ASSUME IInv, NEW t \in Tasks, Calls(t), Check(t), UNCHANGED own,
         NEW m, Fit(m), Keeps(Disable(exec), m), exec' \in Enable(m)
  PROVE  IInvNext /\ Kept
<1>1. /\ Runs(t) /\ at[t] = "user" /\ at' = [at EXCEPT ![t] = "check"] /\ own' = own
  BY DEF Calls, Check
<1>2. /\ exec \in Machine /\ ~exec.idle /\ exec.ThisTask = t /\ at \in [Tasks -> Places]
      /\ own[t].id \in Nat /\ own[t].td \in Nat
      /\ exec.IDNestCnt = own[t].id - 1 /\ exec.TDNestCnt = own[t].td - 1
  BY <1>1, RunnerFacts
<1>3. Nested(exec, at', own) /\ at'[t] = "check"
  <2>1. Nested(exec, at, own)
    BY DEF IInv, Good
  <2> QED
    BY <1>1, <1>2, <2>1, CheckNested
<1>4. /\ Good(exec', at', own)
      /\ ~(exec.IDNestCnt < 0 /\ exec.TDNestCnt < 0) => Stays(exec, exec')
  BY <1>1, <1>3, EnableStep
<1>5. ASSUME own[t].id > 0 \/ own[t].td > 0, exec.tc[t].State = "run"
      PROVE  Runs(t)' /\ exec'.tc[t].State \in {"run", "removed"}
  <2>1. Stays(exec, exec')
    BY <1>2, <1>4, <1>5
  <2> QED
    BY <1>2, <1>5, <2>1 DEF Stays, Runs
<1> QED
  BY <1>1, <1>4, <1>5, RunnerKept DEF IInvNext

---------------------------------------------------------------------------

(* What a task does: one lemma for each action                             *)

(* The others keep their counts while the running task changes its own.    *)
LEMMA RunnerNested ==
  ASSUME NEW m, NEW a, NEW o, Nested(m, a, o), NEW n, NEW b, NEW p, NEW t \in Tasks,
         m.ThisTask = t, n.ThisTask = t, ~n.idle, Mine(n, b, p),
         b \in [Tasks -> Places], p \in [Tasks -> [id : 0 .. MaxNest, td : 0 .. MaxNest]],
         \A u \in Tasks : u # t =>
           /\ b[u] = a[u] /\ p[u] = o[u]
           /\ n.tc[u].IDNestCnt = m.tc[u].IDNestCnt /\ n.tc[u].TDNestCnt = m.tc[u].TDNestCnt
           /\ n.tc[u].State \in {"ready", "wait"} => m.tc[u].State \in {"ready", "wait"}
  PROVE  Nested(n, b, p)
<1>1. ASSUME NEW u \in Tasks, u # t, n.tc[u].State \in {"ready", "wait"}
      PROVE  Parked(n, b, p, u)
  <2>1. m.tc[u].State \in {"ready", "wait"} /\ u # m.ThisTask
    BY <1>1
  <2>2. Parked(m, a, o, u)
    BY <2>1 DEF Nested
  <2> QED
    BY <1>1, <2>2 DEF Parked
<1> QED
  BY <1>1 DEF Nested

Counted(t, i, d, p) ==
  /\ exec' = [exec EXCEPT !.IDNestCnt = i - 1, !.TDNestCnt = d - 1]
  /\ own' = [own EXCEPT ![t] = [id |-> i, td |-> d]]
  /\ at' = [at EXCEPT ![t] = p]

(* A step that only counts, and perhaps goes on to the test of SCHEDSWITCH. *)
LEMMA CountStep ==
  ASSUME IInv, NEW t \in Tasks, Calls(t), NEW i \in 0 .. MaxNest, NEW d \in 0 .. MaxNest,
         NEW p \in {"user", "check"}, Counted(t, i, d, p),
         p = "user" => i >= own[t].id /\ d >= own[t].td
  PROVE  IInvNext /\ Kept
<1>1. /\ exec \in Machine /\ Fit(exec) /\ ~exec.idle /\ exec.ThisTask = t
      /\ at \in [Tasks -> Places] /\ own \in [Tasks -> [id : 0 .. MaxNest, td : 0 .. MaxNest]]
      /\ own[t].id \in Nat /\ own[t].td \in Nat /\ at[t] = "user" /\ MaxNest \in Nat
      /\ exec.IDNestCnt = own[t].id - 1 /\ exec.TDNestCnt = own[t].td - 1
      /\ exec.tc[t].State = "run"
  BY RunnerFacts DEF Calls
<1>2. i \in Nat /\ d \in Nat
  BY <1>1
<1>3. /\ Fit(exec') /\ exec'.tc = exec.tc /\ exec'.ThisTask = t /\ ~exec'.idle
      /\ exec'.IDNestCnt = i - 1 /\ exec'.TDNestCnt = d - 1
      /\ Highest(exec) => Highest(exec')
  <2> DEFINE j == i - 1
             k == d - 1
  <2>1. j \in Int /\ k \in Int /\ j = i - 1 /\ k = d - 1
    BY <1>2
  <2>2. exec' = [exec EXCEPT !.IDNestCnt = j, !.TDNestCnt = k]
    BY DEF Counted
  <2>3. exec \in Machine
    BY <1>1
  <2> HIDE DEF j, k
  <2>4. /\ exec' \in Machine /\ exec'.tc = exec.tc /\ exec'.TaskReady = exec.TaskReady
        /\ exec'.ThisTask = exec.ThisTask /\ exec'.idle = exec.idle
        /\ exec'.lowered = exec.lowered /\ exec'.AttnSwitch = exec.AttnSwitch
        /\ exec'.IDNestCnt = j /\ exec'.TDNestCnt = k
    BY <2>1, <2>2, <2>3 DEF Machine
  <2>5. Fit(exec')
    <3>1. exec.AttnSwitch => exec'.AttnSwitch
      BY <2>4
    <3> QED
      BY <1>1, <2>4, <3>1, FitFrame
  <2>6. ~exec'.idle
    BY <1>1, <2>4
  <2>7. Highest(exec) => Highest(exec')
    BY <2>4 DEF Highest
  <2> QED
    BY <1>1, <2>1, <2>4, <2>5, <2>6, <2>7
<1>5. /\ at' \in [Tasks -> Places] /\ at'[t] = p
      /\ own' \in [Tasks -> [id : 0 .. MaxNest, td : 0 .. MaxNest]]
      /\ own'[t].id = i /\ own'[t].td = d
      /\ \A u \in Tasks : u # t => at'[u] = at[u] /\ own'[u] = own[u]
  <2>1. p \in Places
    BY DEF Places
  <2> QED
    BY <1>1, <2>1 DEF Counted
<1>6. Mine(exec', at', own')
  BY <1>1, <1>3, <1>5 DEF Mine
<1>7. Nested(exec', at', own')
  <2>1. Nested(exec, at, own)
    BY DEF IInv, Good
  <2> QED
    BY <1>1, <1>3, <1>5, <1>6, <2>1, RunnerNested
<1>8. p = "user" /\ i - 1 < 0 /\ d - 1 < 0 => Highest(exec')
  <2>1. ASSUME p = "user", i - 1 < 0, d - 1 < 0 PROVE Highest(exec)
    <3>1. exec.IDNestCnt < 0 /\ exec.TDNestCnt < 0
      BY <1>1, <1>2, <2>1
    <3> QED
      BY <1>1, <3>1 DEF IInv, Good
  <2> QED
    BY <1>3, <2>1
<1>9. IInvNext
  BY <1>3, <1>5, <1>7, <1>8 DEF IInvNext, Good
<1>10. Runs(t)' /\ exec'.tc[t].State = "run"
  BY <1>1, <1>3 DEF Runs
<1> QED
  BY <1>9, <1>10, RunnerKept DEF Calls

LEMMA ForbidStep ==
  ASSUME IInv, NEW t \in Tasks, ForbidCall(t)
  PROVE  IInvNext /\ Kept
<1>1. /\ exec \in Machine /\ at[t] = "user" /\ at \in [Tasks -> Places] /\ Calls(t)
      /\ own[t].id \in 0 .. MaxNest /\ own[t].td \in 0 .. MaxNest /\ MaxNest \in Nat
      /\ own[t] \in [id : 0 .. MaxNest, td : 0 .. MaxNest]
      /\ exec.IDNestCnt = own[t].id - 1 /\ exec.TDNestCnt = own[t].td - 1
  BY RunnerFacts DEF Calls, ForbidCall
<1> DEFINE i == own[t].id
           d == own[t].td + 1
<1>2. i \in 0 .. MaxNest /\ d \in 0 .. MaxNest /\ i >= own[t].id /\ d >= own[t].td
  BY <1>1 DEF ForbidCall
<1>3. /\ [own[t] EXCEPT !.td = @ + 1] = [id |-> i, td |-> d]
      /\ exec.IDNestCnt = i - 1 /\ exec.TDNestCnt + 1 = d - 1
  BY <1>1
<1> HIDE DEF i, d
<1>4. exec' = [exec EXCEPT !.IDNestCnt = i - 1, !.TDNestCnt = d - 1]
  BY <1>1, <1>3 DEF ForbidCall, Machine
<1>0. own' = [own EXCEPT ![t] = [id |-> i, td |-> d]]
  BY <1>1, <1>3 DEF ForbidCall
<1>5. at' = [at EXCEPT ![t] = "user"]
  BY <1>1 DEF ForbidCall
<1>6. Counted(t, i, d, "user")
  BY <1>0, <1>4, <1>5 DEF Counted
<1> QED
  BY <1>1, <1>2, <1>6, CountStep

LEMMA PermitStep ==
  ASSUME IInv, NEW t \in Tasks, PermitCall(t)
  PROVE  IInvNext /\ Kept
<1>1. /\ exec \in Machine /\ Calls(t)
      /\ own[t].id \in 0 .. MaxNest /\ own[t].td \in 0 .. MaxNest /\ MaxNest \in Nat
      /\ own[t] \in [id : 0 .. MaxNest, td : 0 .. MaxNest]
      /\ exec.IDNestCnt = own[t].id - 1 /\ exec.TDNestCnt = own[t].td - 1
  BY RunnerFacts DEF Calls, PermitCall
<1> DEFINE i == own[t].id
           d == own[t].td - 1
<1>2. i \in 0 .. MaxNest /\ d \in 0 .. MaxNest
  BY <1>1 DEF PermitCall
<1>3. /\ [own[t] EXCEPT !.td = @ - 1] = [id |-> i, td |-> d]
      /\ exec.IDNestCnt = i - 1 /\ exec.TDNestCnt - 1 = d - 1
  BY <1>1
<1> HIDE DEF i, d
<1>4. exec' = [exec EXCEPT !.IDNestCnt = i - 1, !.TDNestCnt = d - 1]
  BY <1>1, <1>3 DEF PermitCall, Machine
<1>0. own' = [own EXCEPT ![t] = [id |-> i, td |-> d]]
  BY <1>1, <1>3 DEF PermitCall
<1>5. at' = [at EXCEPT ![t] = "check"]
  BY DEF PermitCall, Check
<1>6. Counted(t, i, d, "check")
  BY <1>0, <1>4, <1>5 DEF Counted
<1> QED
  BY <1>1, <1>2, <1>6, CountStep

LEMMA DisableStep ==
  ASSUME IInv, NEW t \in Tasks, DisableCall(t)
  PROVE  IInvNext /\ Kept
<1>1. /\ exec \in Machine /\ at[t] = "user" /\ at \in [Tasks -> Places] /\ Calls(t)
      /\ own[t].id \in 0 .. MaxNest /\ own[t].td \in 0 .. MaxNest /\ MaxNest \in Nat
      /\ own[t] \in [id : 0 .. MaxNest, td : 0 .. MaxNest]
      /\ exec.IDNestCnt = own[t].id - 1 /\ exec.TDNestCnt = own[t].td - 1
  BY RunnerFacts DEF Calls, DisableCall
<1> DEFINE i == own[t].id + 1
           d == own[t].td
<1>2. i \in 0 .. MaxNest /\ d \in 0 .. MaxNest /\ i >= own[t].id /\ d >= own[t].td
  BY <1>1 DEF DisableCall
<1>3. /\ [own[t] EXCEPT !.id = @ + 1] = [id |-> i, td |-> d]
      /\ exec.IDNestCnt + 1 = i - 1 /\ exec.TDNestCnt = d - 1
  BY <1>1
<1> HIDE DEF i, d
<1>4. exec' = [exec EXCEPT !.IDNestCnt = i - 1, !.TDNestCnt = d - 1]
  BY <1>1, <1>3 DEF DisableCall, Disable, Machine
<1>0. own' = [own EXCEPT ![t] = [id |-> i, td |-> d]]
  BY <1>1, <1>3 DEF DisableCall
<1>5. at' = [at EXCEPT ![t] = "user"]
  BY <1>1 DEF DisableCall
<1>6. Counted(t, i, d, "user")
  BY <1>0, <1>4, <1>5 DEF Counted
<1> QED
  BY <1>1, <1>2, <1>6, CountStep

LEMMA EnableCallStep ==
  ASSUME IInv, NEW t \in Tasks, EnableCall(t)
  PROVE  IInvNext /\ Kept
<1>1. /\ exec \in Machine /\ Fit(exec) /\ ~exec.idle /\ exec.ThisTask = t
      /\ at \in [Tasks -> Places] /\ own \in [Tasks -> [id : 0 .. MaxNest, td : 0 .. MaxNest]]
      /\ own[t].id \in 0 .. MaxNest /\ own[t].td \in 0 .. MaxNest /\ MaxNest \in Nat
      /\ own[t] \in [id : 0 .. MaxNest, td : 0 .. MaxNest] /\ own[t].id > 0
      /\ exec.IDNestCnt = own[t].id - 1 /\ exec.TDNestCnt = own[t].td - 1
      /\ exec.tc[t].State = "run" /\ Runs(t)
  BY RunnerFacts DEF Calls, EnableCall
<1>2. /\ at' \in [Tasks -> Places] /\ at'[t] = "check"
      /\ own' \in [Tasks -> [id : 0 .. MaxNest, td : 0 .. MaxNest]]
      /\ own'[t] = [id |-> own[t].id - 1, td |-> own[t].td]
      /\ \A u \in Tasks : u # t => at'[u] = at[u] /\ own'[u] = own[u]
  <2>1. own[t].id - 1 \in 0 .. MaxNest
    BY <1>1
  <2>2. [own[t] EXCEPT !.id = @ - 1] = [id |-> own[t].id - 1, td |-> own[t].td]
    BY <1>1
  <2>3. own' = [own EXCEPT ![t] = [id |-> own[t].id - 1, td |-> own[t].td]]
    BY <1>1, <2>2 DEF EnableCall
  <2>4. at' = [at EXCEPT ![t] = "check"] /\ "check" \in Places
    BY DEF EnableCall, Check, Places
  <2> QED
    BY <1>1, <2>1, <2>3, <2>4
<1> DEFINE open == Lowered(exec)
<1>3. /\ open.tc = exec.tc /\ open.ThisTask = t /\ ~open.idle
      /\ open.IDNestCnt = exec.IDNestCnt - 1 /\ open.TDNestCnt = exec.TDNestCnt
  BY <1>1, LoweredFacts
<1> HIDE DEF open
<1>4. Mine(open, at', own')
  BY <1>1, <1>2, <1>3 DEF Mine
<1>5. Nested(open, at', own')
  <2>1. Nested(exec, at, own)
    BY DEF IInv, Good
  <2> QED
    BY <1>1, <1>2, <1>3, <1>4, <2>1, RunnerNested
<1>6. /\ Good(exec', at', own')
      /\ ~(exec.IDNestCnt - 1 < 0 /\ exec.TDNestCnt < 0) => Stays(open, exec')
  BY <1>1, <1>2, <1>5, EnableFacts DEF EnableCall, open
<1>7. CASE exec.IDNestCnt - 1 < 0 /\ exec.TDNestCnt < 0
  <2>1. own'[t] = NoNest
    BY <1>1, <1>2, <1>7 DEF NoNest
  <2> QED
    BY <1>1, <1>6, <2>1, RunnerKept DEF IInvNext
<1>8. CASE ~(exec.IDNestCnt - 1 < 0 /\ exec.TDNestCnt < 0)
  <2>1. Runs(t)' /\ exec'.tc[t].State = "run"
    BY <1>1, <1>3, <1>6, <1>8 DEF Stays, Runs
  <2> QED
    BY <1>1, <1>6, <2>1, RunnerKept DEF IInvNext
<1> QED
  BY <1>7, <1>8

LEMMA CheckStep ==
  ASSUME IInv, NEW t \in Tasks, CheckSwitch(t)
  PROVE  IInvNext /\ Kept
<1>1. /\ Runs(t) /\ at[t] = "check" /\ own' = own
      /\ at' = [at EXCEPT ![t] = "user"]
      /\ exec' = IF exec.TDNestCnt < 0 /\ exec.IDNestCnt < 0 /\ exec.AttnSwitch
                 THEN KrnSchedule(exec) ELSE exec
  BY DEF CheckSwitch
<1>2. /\ exec \in Machine /\ Fit(exec) /\ ~exec.idle /\ exec.ThisTask = t
      /\ own[t].id \in Nat /\ own[t].td \in Nat
      /\ exec.IDNestCnt = own[t].id - 1 /\ exec.TDNestCnt = own[t].td - 1
      /\ exec.tc[t].State = "run"
  BY <1>1, RunnerFacts
<1>3. Nested(exec, at', own)
  <2>1. Nested(exec, at, own)
    BY DEF IInv, Good
  <2> QED
    BY <1>1, <1>2, <2>1, CheckNested
<1>4. CASE exec.TDNestCnt < 0 /\ exec.IDNestCnt < 0 /\ exec.AttnSwitch
  <2>1. exec' = KrnSchedule(exec) /\ own[t].id = 0 /\ own[t].td = 0
    BY <1>1, <1>2, <1>4
  <2>2. Good(exec', at', own)
    BY <1>2, <1>3, <1>4, <2>1, ScheduleNested DEF Good
  <2> QED
    BY <1>1, <2>1, <2>2, RunnerKept DEF IInvNext
<1>5. CASE ~(exec.TDNestCnt < 0 /\ exec.IDNestCnt < 0 /\ exec.AttnSwitch)
  <2>1. exec' = exec
    BY <1>1, <1>5
  <2>2. exec.TDNestCnt < 0 /\ exec.IDNestCnt < 0 => Highest(exec)
    BY <1>2, <1>5 DEF Fit, Asked
  <2>3. Good(exec', at', own)
    BY <1>2, <1>3, <2>1, <2>2 DEF Good
  <2>4. Runs(t)' /\ exec'.tc[t].State = "run"
    BY <1>2, <2>1 DEF Runs
  <2> QED
    BY <1>1, <2>3, <2>4, RunnerKept DEF IInvNext
<1> QED
  BY <1>4, <1>5

LEMMA RescheduleStep ==
  ASSUME IInv, NEW t \in Tasks, RescheduleCall(t)
  PROVE  IInvNext /\ Kept
<1> DEFINE asked == [exec EXCEPT !.AttnSwitch = TRUE]
<1>1. /\ Runs(t) /\ at[t] = "user" /\ own' = own /\ at' = at
      /\ exec' = IF exec.TDNestCnt < 0 /\ exec.IDNestCnt < 0 THEN KrnSchedule(asked) ELSE asked
  BY DEF RescheduleCall, RescheduleLater, Calls
<1>2. /\ exec \in Machine /\ Fit(exec) /\ ~exec.idle /\ exec.ThisTask = t
      /\ own[t].id \in Nat /\ own[t].td \in Nat
      /\ exec.IDNestCnt = own[t].id - 1 /\ exec.TDNestCnt = own[t].td - 1
      /\ exec.tc[t].State = "run"
  BY <1>1, RunnerFacts
<1>3. /\ Fit(asked) /\ asked.tc = exec.tc /\ asked.TaskReady = exec.TaskReady
      /\ asked.ThisTask = exec.ThisTask /\ asked.idle = exec.idle
      /\ asked.IDNestCnt = exec.IDNestCnt /\ asked.TDNestCnt = exec.TDNestCnt
      /\ \A w : Keeps(w, exec) => Keeps(w, asked)
  BY <1>2, AskingIsFit DEF Fit
<1> HIDE DEF asked
<1>4. Nested(asked, at, own)
  <2>1. Nested(exec, at, own) /\ Keeps(exec, exec)
    BY DEF IInv, Good, Keeps
  <2> QED
    BY <1>2, <1>3, <2>1, KeepsNested
<1>5. CASE exec.TDNestCnt < 0 /\ exec.IDNestCnt < 0
  <2>1. exec' = KrnSchedule(asked) /\ own[t].id = 0 /\ own[t].td = 0
    BY <1>1, <1>2, <1>5
  <2>2. Good(exec', at, own)
    BY <1>2, <1>3, <1>4, <1>5, <2>1, ScheduleNested DEF Good
  <2> QED
    BY <1>1, <2>1, <2>2, RunnerKept DEF IInvNext
<1>6. CASE ~(exec.TDNestCnt < 0 /\ exec.IDNestCnt < 0)
  <2>1. exec' = asked
    BY <1>1, <1>6
  <2>2. Good(exec', at, own)
    BY <1>3, <1>4, <1>6, <2>1 DEF Good
  <2>3. Runs(t)' /\ exec'.tc[t].State = "run"
    BY <1>2, <1>3, <2>1 DEF Runs
  <2> QED
    BY <1>1, <2>2, <2>3, RunnerKept DEF IInvNext
<1> QED
  BY <1>5, <1>6

LEMMA SignalStep ==
  ASSUME IInv, NEW t \in Tasks, SignalCall(t)
  PROVE  IInvNext /\ Kept
<1>1. PICK u \in Tasks, sig \in Signals : exec' \in Enable(Signal(Disable(exec), u, sig))
  BY DEF SignalCall
<1>2. Fit(Disable(exec))
  BY DisableFacts DEF IInv, Good
<1>3. Fit(Signal(Disable(exec), u, sig)) /\ Keeps(Disable(exec), Signal(Disable(exec), u, sig))
  BY <1>2, SignalFacts
<1> QED
  BY <1>1, <1>3, CallStep DEF SignalCall

(* Cause() changes only a flag that no fact here is about.                 *)
LEMMA CauseFacts ==
  ASSUME NEW m, Fit(m)
  PROVE  Fit(Cause(m)) /\ Keeps(m, Cause(m))
<1> DEFINE n == Cause(m)
<1>1. m \in Machine
  BY DEF Fit, Sound
<1>2. /\ n \in Machine /\ n.tc = m.tc /\ n.TaskReady = m.TaskReady /\ n.ThisTask = m.ThisTask
      /\ n.idle = m.idle /\ n.lowered = m.lowered /\ n.AttnSwitch = m.AttnSwitch
      /\ n.IDNestCnt = m.IDNestCnt /\ n.TDNestCnt = m.TDNestCnt
  BY <1>1 DEF Machine, Cause
<1> HIDE DEF n
<1>3. Fit(n)
  BY <1>2, FitFrame
<1> QED
  BY <1>2, <1>3 DEF Keeps, n

LEMMA CauseStep ==
  ASSUME IInv, NEW t \in Tasks, CauseCall(t)
  PROVE  IInvNext /\ Kept
<1>1. Fit(Disable(exec))
  BY DisableFacts DEF IInv, Good
<1>2. Fit(Cause(Disable(exec))) /\ Keeps(Disable(exec), Cause(Disable(exec)))
  BY <1>1, CauseFacts
<1> QED
  BY <1>2, CallStep DEF CauseCall

(* Only the keys of the members matter.                                    *)
LEMMA SortedAgree ==
  ASSUME NEW q, NEW k1, NEW k2, \A e \in Entries(q) : k1[e] = k2[e], Sorted(q, k1)
  PROVE  Sorted(q, k2)
<1>1. \A i \in 1 .. Len(q) : k1[q[i]] = k2[q[i]]
  BY DEF Entries
<1> QED
  BY <1>1 DEF Sorted

(* A task with a new priority: a ready one finds its new place.            *)
LEMMA SetTaskPriFacts ==
  ASSUME NEW m, Fit(m), ~m.idle, m.tc[m.ThisTask].State = "run", NEW u \in Tasks,
         NEW pri \in Priorities
  PROVE  Fit(SetTaskPri(m, u, pri)) /\ Keeps(m, SetTaskPri(m, u, pri))
<1> DEFINE n == SetTaskPri(m, u, pri)
           tc == [m.tc EXCEPT ![u].Pri = pri]
           low == m.lowered \/ (u = m.ThisTask /\ pri < m.tc[u].Pri)
           set == [m EXCEPT !.tc = tc, !.lowered = low]
           sorted == IF m.tc[u].State = "ready" THEN Enqueue(Unlink(set, u), u) ELSE set
           ask == m.tc[u].State # "wait" /\ pri > set.tc[m.ThisTask].Pri
<1>1. /\ m \in Machine /\ m.tc \in [Tasks -> TaskStructure] /\ m.ThisTask \in Tasks
      /\ \A v \in Tasks : m.tc[v].Pri \in Int
      /\ m.TaskReady \in Seq(Tasks) /\ Priorities \subseteq Int /\ pri \in Int
      /\ m.idle \in BOOLEAN /\ m.lowered \in BOOLEAN /\ low \in BOOLEAN
  BY MachineFields, SchedulerAssumption DEF Fit, Sound, SchedulerAssumption
<1>2. tc \in [Tasks -> TaskStructure]
  <2>1. m.tc[u] \in TaskStructure
    BY <1>1
  <2>2. [m.tc[u] EXCEPT !.Pri = pri] \in TaskStructure
    BY <2>1 DEF TaskStructure
  <2> QED
    BY <1>1, <2>2
<1>3. \A v \in Tasks : /\ tc[v].Pri = IF v = u THEN pri ELSE m.tc[v].Pri
                       /\ tc[v].State = m.tc[v].State
                       /\ tc[v].SigRecvd = m.tc[v].SigRecvd
                       /\ tc[v].SigWait = m.tc[v].SigWait
                       /\ tc[v].TDNestCnt = m.tc[v].TDNestCnt
                       /\ tc[v].IDNestCnt = m.tc[v].IDNestCnt
  BY <1>1 DEF TaskStructure
<1>4. n = IF ask THEN [sorted EXCEPT !.AttnSwitch = TRUE] ELSE sorted
  <2>1. set = [m EXCEPT !.tc[u].Pri = pri,
                        !.lowered = @ \/ (u = m.ThisTask /\ pri < m.tc[u].Pri)]
    BY <1>1 DEF Machine
  <2> HIDE DEF set
  <2> QED
    BY <2>1 DEF SetTaskPri, RescheduleLater
<1> HIDE DEF tc, low
<1>5. /\ set \in Machine /\ set.tc = tc /\ set.TaskReady = m.TaskReady
      /\ set.ThisTask = m.ThisTask /\ set.idle = m.idle
      /\ set.IDNestCnt = m.IDNestCnt /\ set.TDNestCnt = m.TDNestCnt
      /\ set.lowered = low /\ set.AttnSwitch = m.AttnSwitch
  BY <1>1, <1>2 DEF Machine
<1> HIDE DEF set, sorted, n
<1>6. \A v \in Tasks : v # u => Rank(set)[v] = Rank(m)[v]
  BY <1>3, <1>5 DEF Rank
<1>7. /\ Once(m.TaskReady) /\ Sorted(m.TaskReady, Rank(m)) /\ Entries(m.TaskReady) \subseteq Tasks
      /\ Entries(m.TaskReady) = {v \in Tasks : m.tc[v].State = "ready"}
  BY DEF Fit, Sound, ListRight
<1>8. \E q \in Seq(Tasks) :
         /\ sorted = [set EXCEPT !.TaskReady = q] /\ Once(q)
         /\ Entries(q) = Entries(m.TaskReady) /\ Sorted(q, Rank(set))
  <2>1. CASE m.tc[u].State = "ready"
    <3> DEFINE r == RemoveFirst(m.TaskReady, u)
               s == Unlink(set, u)
    <3>1. /\ r \in Seq(Tasks) /\ Once(r) /\ Entries(r) = Entries(m.TaskReady) \ {u}
          /\ Sorted(r, Rank(m))
      BY <1>1, <1>7, RemoveFirstFacts
    <3>2. s = [set EXCEPT !.TaskReady = r]
      BY <1>5 DEF Unlink
    <3> HIDE DEF r, s
    <3>3. Sorted(r, Rank(set))
      <4>1. \A e \in Entries(r) : Rank(m)[e] = Rank(set)[e]
        BY <1>6, <1>7, <3>1
      <4> QED
        BY <3>1, <4>1, SortedAgree
    <3>4. s \in Machine /\ s.TaskReady = r /\ s.tc = set.tc
      BY <1>5, <3>1, <3>2 DEF Machine
    <3>5. Rank(s) = Rank(set)
      BY <3>4 DEF Rank
    <3>6. PICK q \in Seq(Tasks) :
             /\ Enqueue(s, u) = [s EXCEPT !.TaskReady = q]
             /\ Entries(q) = Entries(s.TaskReady) \cup {u}
             /\ Once(q) /\ Sorted(q, Rank(s))
      BY <3>1, <3>3, <3>4, <3>5, EnqueueFacts
    <3>7. [s EXCEPT !.TaskReady = q] = [set EXCEPT !.TaskReady = q]
      BY <1>5, <3>2 DEF Machine
    <3>8. u \in Entries(m.TaskReady)
      BY <1>7, <2>1
    <3>9. sorted = [set EXCEPT !.TaskReady = q]
      BY <2>1, <3>6, <3>7 DEF sorted, s
    <3>10. Entries(q) = Entries(m.TaskReady)
      BY <3>1, <3>4, <3>6, <3>8
    <3> QED
      BY <3>5, <3>6, <3>9, <3>10
  <2>2. CASE m.tc[u].State # "ready"
    <3>1. \A e \in Entries(m.TaskReady) : Rank(m)[e] = Rank(set)[e]
      BY <1>6, <1>7, <2>2
    <3>2. Sorted(m.TaskReady, Rank(set))
      BY <1>7, <3>1, SortedAgree
    <3>3. sorted = [set EXCEPT !.TaskReady = m.TaskReady]
      BY <1>5, <2>2 DEF sorted, Machine
    <3> QED
      BY <1>1, <1>7, <3>2, <3>3
  <2> QED
    BY <2>1, <2>2
<1>9. PICK q \in Seq(Tasks) :
         /\ sorted = [set EXCEPT !.TaskReady = q] /\ Once(q)
         /\ Entries(q) = Entries(m.TaskReady) /\ Sorted(q, Rank(set))
  BY <1>8
<1>10. /\ sorted \in Machine /\ sorted.tc = tc /\ sorted.TaskReady = q
       /\ sorted.ThisTask = m.ThisTask /\ sorted.idle = m.idle
       /\ sorted.IDNestCnt = m.IDNestCnt /\ sorted.TDNestCnt = m.TDNestCnt
       /\ sorted.lowered = low /\ sorted.AttnSwitch = m.AttnSwitch
  BY <1>5, <1>9 DEF Machine
<1>11. Sound(sorted)
  <2>1. Rank(sorted) = Rank(set)
    BY <1>5, <1>10 DEF Rank
  <2>2. {v \in Tasks : sorted.tc[v].State = "ready"} = {v \in Tasks : m.tc[v].State = "ready"}
    BY <1>3, <1>10
  <2>3. ListRight(sorted)
    BY <1>7, <1>9, <1>10, <2>1, <2>2 DEF ListRight
  <2>4. SleepsRightly(sorted)
    BY <1>3, <1>10 DEF Fit, Sound, SleepsRightly
  <2> QED
    BY <1>10, <2>3, <2>4 DEF Sound
<1>12. OneRuns(sorted)
  <2>1. OneRuns(m)
    BY DEF Fit
  <2>2. sorted.tc[m.ThisTask].State = m.tc[m.ThisTask].State
    BY <1>1, <1>3, <1>10
  <2> QED
    BY <1>3, <1>10, <2>1, <2>2 DEF OneRuns
<1>13. Keeps(m, sorted)
  BY <1>3, <1>10 DEF Keeps
<1>14. CASE ask
  <2>1. n = [sorted EXCEPT !.AttnSwitch = TRUE]
    BY <1>4, <1>14
  <2>2. Fit(n) /\ \A w : Keeps(w, sorted) => Keeps(w, n)
    BY <1>11, <1>12, <2>1, AskingIsFit
  <2> QED
    BY <1>13, <2>2 DEF n
<1>15. CASE ~ask
  <2>1. n = sorted
    BY <1>4, <1>15
  <2>2. ASSUME Highest(m) PROVE Highest(sorted)
    <3>1. CASE low
      BY <1>10, <3>1 DEF Highest
    <3>2. CASE ~low
      <4>1. /\ ~m.lowered /\ ~(u = m.ThisTask /\ pri < m.tc[u].Pri)
            /\ \A v \in Tasks : m.tc[v].State = "ready" => m.tc[v].Pri <= m.tc[m.ThisTask].Pri
        BY <2>2, <3>2 DEF Highest, low
      <4>2. tc[m.ThisTask].Pri >= m.tc[m.ThisTask].Pri \/ u # m.ThisTask
        BY <1>1, <1>3, <4>1
      <4>3. m.tc[u].State = "ready" => pri <= tc[m.ThisTask].Pri
        BY <1>1, <1>3, <1>5, <1>15
      <4>4. ASSUME NEW v \in Tasks, m.tc[v].State = "ready"
            PROVE  tc[v].Pri <= tc[m.ThisTask].Pri
        <5>1. CASE v = u
          BY <1>3, <4>3, <4>4, <5>1
        <5>2. CASE v # u
          <6>1. tc[v].Pri = m.tc[v].Pri /\ m.tc[v].Pri <= m.tc[m.ThisTask].Pri
            BY <1>3, <4>1, <4>4, <5>2
          <6>2. tc[m.ThisTask].Pri >= m.tc[m.ThisTask].Pri /\ tc[m.ThisTask].Pri \in Int
            BY <1>1, <1>3, <4>2
          <6> QED
            BY <1>1, <6>1, <6>2
        <5> QED
          BY <5>1, <5>2
      <4> QED
        BY <1>3, <1>10, <4>4 DEF Highest
    <3> QED
      BY <3>1, <3>2
  <2>3. Asked(sorted)
    BY <1>10, <2>2 DEF Fit, Asked
  <2> QED
    BY <1>11, <1>12, <1>13, <2>1, <2>3 DEF Fit, n
<1> QED
  BY <1>14, <1>15

LEMMA SetTaskPriStep ==
  ASSUME IInv, NEW t \in Tasks, SetTaskPriCall(t)
  PROVE  IInvNext /\ Kept
<1>1. PICK u \in Tasks, pri \in Priorities : exec' \in Enable(SetTaskPri(Disable(exec), u, pri))
  BY DEF SetTaskPriCall
<1>2. Runs(t) /\ at[t] = "user"
  BY DEF SetTaskPriCall, Calls
<1>3. Fit(exec) /\ ~exec.idle /\ exec.tc[exec.ThisTask].State = "run"
  BY <1>2, RunnerFacts
<1>4. /\ Fit(Disable(exec)) /\ Disable(exec).tc = exec.tc
      /\ Disable(exec).ThisTask = exec.ThisTask /\ Disable(exec).idle = exec.idle
  BY <1>3, DisableFacts
<1> DEFINE m == Disable(exec)
<1>5. Fit(m) /\ ~m.idle /\ m.tc[m.ThisTask].State = "run"
  BY <1>3, <1>4
<1> HIDE DEF m
<1>6. Fit(SetTaskPri(m, u, pri)) /\ Keeps(m, SetTaskPri(m, u, pri))
  BY <1>5, SetTaskPriFacts
<1> QED
  BY <1>1, <1>6, CallStep DEF SetTaskPriCall, m

(* A turn of the loop of Wait(), with interrupts disabled.                 *)
LEMMA AwaitStep ==
  ASSUME IInv, NEW t \in Tasks, Runs(t), at[t] \in {"user", "wait"}, UNCHANGED own,
         NEW m, Fit(m), m.tc = exec.tc, m.ThisTask = t, ~m.idle,
         m.IDNestCnt = own[t].id, m.TDNestCnt = own[t].td - 1,
         NEW mask \in SUBSET Signals, Await(t, m, mask)
  PROVE  IInvNext /\ Kept
<1>1. /\ at \in [Tasks -> Places] /\ own \in [Tasks -> [id : 0 .. MaxNest, td : 0 .. MaxNest]]
      /\ own[t].id \in 0 .. MaxNest /\ own[t].td \in 0 .. MaxNest /\ MaxNest \in Nat
      /\ exec.tc[t].State = "run" /\ exec.ThisTask = t /\ own' = own
      /\ \A u \in Tasks : u # t /\ exec.tc[u].State \in {"ready", "wait"}
                            => Parked(exec, at, own, u)
      /\ \A u \in Tasks : exec.tc[u].State = "run" => u = t
  BY RunnerFacts
<1>2. /\ m \in Machine /\ m.tc \in [Tasks -> TaskStructure] /\ m.tc[t] \in TaskStructure
      /\ m.tc[t].SigRecvd \subseteq Signals /\ m.TDNestCnt \in Int /\ m.IDNestCnt \in Int
      /\ ListRight(m) /\ SleepsRightly(m) /\ m.tc[t].State = "run"
  BY <1>1, MachineFields DEF Fit, Sound
<1>3. CASE m.tc[t].SigRecvd \cap mask = {}
  <2> DEFINE task == [m.tc[t] EXCEPT !.SigWait = mask, !.State = "wait",
                                     !.TDNestCnt = m.TDNestCnt]
             tc == [m.tc EXCEPT ![t] = task]
             a == [m EXCEPT !.tc = tc, !.TDNestCnt = -1]
             s == Switch(a)
  <2>1. exec' = Dispatch(s) /\ at' = [at EXCEPT ![t] = "wait"]
    <3>1. [m EXCEPT !.tc[t] = task, !.TDNestCnt = -1] = a
      BY <1>2 DEF Machine
    <3> HIDE DEF a
    <3> QED
      BY <1>3, <3>1 DEF Await
  <2>2. task \in TaskStructure /\ task.State = "wait" /\ task.SigWait = mask
        /\ task.SigRecvd = m.tc[t].SigRecvd /\ task.Pri = m.tc[t].Pri
        /\ task.IDNestCnt = m.tc[t].IDNestCnt /\ task.TDNestCnt = m.TDNestCnt
    BY <1>2 DEF TaskStructure, TaskStates
  <2> HIDE DEF task
  <2>3. /\ tc \in [Tasks -> TaskStructure] /\ tc[t] = task
        /\ \A u \in Tasks : u # t => tc[u] = m.tc[u]
    BY <1>2, <2>2
  <2> HIDE DEF tc
  <2>4. /\ a \in Machine /\ a.tc = tc /\ a.TaskReady = m.TaskReady /\ a.ThisTask = t
        /\ a.IDNestCnt = own[t].id /\ a.TDNestCnt = -1
    <3> DEFINE one == -1
    <3>1. one \in Int /\ one = -1 /\ m \in Machine /\ a = [m EXCEPT !.tc = tc, !.TDNestCnt = one]
      BY <1>2
    <3> HIDE DEF one, a
    <3>2. /\ a \in Machine /\ a.tc = tc /\ a.TaskReady = m.TaskReady /\ a.ThisTask = m.ThisTask
          /\ a.IDNestCnt = m.IDNestCnt /\ a.TDNestCnt = one
      BY <2>3, <3>1 DEF Machine
    <3> QED
      BY <3>1, <3>2
  <2> HIDE DEF a, s
  <2>5. Rank(a) = Rank(m)
    BY <2>2, <2>3, <2>4 DEF Rank
  <2>6. {u \in Tasks : a.tc[u].State = "ready"} = {u \in Tasks : m.tc[u].State = "ready"}
    BY <1>2, <2>2, <2>3, <2>4
  <2>7. ListRight(a)
    BY <1>2, <2>4, <2>5, <2>6 DEF ListRight
  <2>8. SleepsRightly(a)
    BY <1>2, <1>3, <2>2, <2>3, <2>4 DEF SleepsRightly
  <2>9. \A u \in Tasks : a.tc[u].State = "run" => a.ThisTask = u
    BY <1>1, <2>2, <2>3, <2>4
  <2>10. a.tc[a.ThisTask].State = "wait"
    BY <2>2, <2>3, <2>4
  <2>11. /\ Sound(s) /\ NobodyRuns(s)
         /\ s.TDNestCnt = a.TDNestCnt /\ s.IDNestCnt = a.IDNestCnt
         /\ \A u \in Tasks :
              /\ s.tc[u].TDNestCnt = a.tc[u].TDNestCnt
              /\ s.tc[u].IDNestCnt = IF u = a.ThisTask THEN a.IDNestCnt ELSE a.tc[u].IDNestCnt
              /\ s.tc[u].State = IF u = a.ThisTask /\ a.tc[u].State \notin {"wait", "removed"}
                                 THEN "ready" ELSE a.tc[u].State
    <3>1. Sound(a) /\ a.tc[a.ThisTask].State # "ready"
      BY <2>4, <2>7, <2>8, <2>10 DEF Sound
    <3> QED
      BY <2>9, <3>1, SwitchFacts DEF s
  <2>12. /\ at' \in [Tasks -> Places] /\ at'[t] = "wait"
         /\ \A u \in Tasks : u # t => at'[u] = at[u]
    BY <1>1, <2>1 DEF Places
  <2>13. ASSUME NEW u \in Tasks, s.tc[u].State \in {"ready", "wait"}
         PROVE  Parked(s, at', own, u)
    <3>1. CASE u = t
      <4>1. s.tc[u].IDNestCnt = own[t].id /\ s.tc[u].TDNestCnt = own[t].td - 1
        BY <2>2, <2>3, <2>4, <2>11, <3>1
      <4> QED
        BY <2>12, <3>1, <4>1 DEF Parked
    <3>2. CASE u # t
      <4>1. s.tc[u].IDNestCnt = exec.tc[u].IDNestCnt /\ s.tc[u].TDNestCnt = exec.tc[u].TDNestCnt
            /\ s.tc[u].State = exec.tc[u].State
        BY <2>3, <2>4, <2>11, <3>2
      <4>2. Parked(exec, at, own, u)
        BY <1>1, <2>13, <3>2, <4>1
      <4> QED
        BY <2>12, <3>2, <4>1, <4>2 DEF Parked
    <3> QED
      BY <3>1, <3>2
  <2>14. Good(exec', at', own)
    <3>1. s.TDNestCnt = -1 /\ s.IDNestCnt \in 0 .. MaxNest
      BY <1>1, <2>4, <2>11
    <3> QED
      BY <1>1, <2>1, <2>11, <2>12, <2>13, <3>1, DispatchNested
  <2> QED
    BY <1>1, <2>12, <2>14, RunnerKept DEF IInvNext
<1>4. CASE m.tc[t].SigRecvd \cap mask # {}
  <2> DEFINE task == [m.tc[t] EXCEPT !.SigRecvd = @ \ mask]
             tc == [m.tc EXCEPT ![t] = task]
             a == [m EXCEPT !.tc = tc]
             open == Lowered(a)
  <2>1. exec' \in Enable(a) /\ at' = [at EXCEPT ![t] = "check"]
    <3>1. [m EXCEPT !.tc[t].SigRecvd = @ \ mask] = a
      BY <1>2 DEF Machine
    <3> HIDE DEF a
    <3> QED
      BY <1>4, <3>1 DEF Await, Check
  <2>2. task \in TaskStructure /\ task.State = "run" /\ task.Pri = m.tc[t].Pri
        /\ task.IDNestCnt = m.tc[t].IDNestCnt /\ task.TDNestCnt = m.tc[t].TDNestCnt
    BY <1>2 DEF TaskStructure
  <2> HIDE DEF task
  <2>3. /\ tc \in [Tasks -> TaskStructure] /\ tc[t] = task
        /\ \A u \in Tasks : u # t => tc[u] = m.tc[u]
    BY <1>2, <2>2
  <2> HIDE DEF tc
  <2>4. /\ a \in Machine /\ a.tc = tc /\ a.TaskReady = m.TaskReady /\ a.ThisTask = t
        /\ a.IDNestCnt = own[t].id /\ a.TDNestCnt = own[t].td - 1 /\ a.idle = m.idle
        /\ a.lowered = m.lowered /\ a.AttnSwitch = m.AttnSwitch
    BY <1>2, <2>3 DEF Machine
  <2> HIDE DEF a
  <2>5. \A u \in Tasks : a.tc[u].Pri = m.tc[u].Pri /\ a.tc[u].State = m.tc[u].State
    BY <1>2, <2>2, <2>3, <2>4
  <2>6. Fit(a)
    <3>1. Rank(a) = Rank(m)
      BY <2>5 DEF Rank
    <3>2. {u \in Tasks : a.tc[u].State = "ready"} = {u \in Tasks : m.tc[u].State = "ready"}
      BY <2>5
    <3>3. ListRight(a)
      BY <1>2, <2>4, <3>1, <3>2 DEF ListRight
    <3>4. SleepsRightly(a)
      BY <1>2, <2>2, <2>3, <2>4 DEF SleepsRightly
    <3>5. OneRuns(a)
      BY <2>4, <2>5 DEF Fit, OneRuns
    <3>6. Highest(m) => Highest(a)
      BY <2>4, <2>5 DEF Highest
    <3>7. Asked(a)
      BY <2>4, <2>5, <3>6 DEF Fit, Asked
    <3> QED
      BY <2>4, <3>3, <3>4, <3>5, <3>7 DEF Fit, Sound
  <2>7. /\ open.tc = a.tc /\ open.ThisTask = t /\ ~open.idle
        /\ open.IDNestCnt = own[t].id - 1 /\ open.TDNestCnt = own[t].td - 1
    BY <2>4, LoweredFacts
  <2> HIDE DEF open
  <2>8. /\ at' \in [Tasks -> Places] /\ at'[t] = "check"
        /\ \A u \in Tasks : u # t => at'[u] = at[u]
    BY <1>1, <2>1 DEF Places
  <2>9. Nested(open, at', own)
    <3>1. Mine(open, at', own)
      BY <2>2, <2>3, <2>4, <2>7, <2>8 DEF Mine
    <3>2. \A u \in Tasks : u # t => open.tc[u] = exec.tc[u]
      BY <2>3, <2>4, <2>7
    <3>3. Nested(exec, at, own)
      BY DEF IInv, Good
    <3> QED
      BY <1>1, <2>7, <2>8, <3>1, <3>2, <3>3, RunnerNested
  <2>10. /\ Good(exec', at', own)
         /\ ~(a.IDNestCnt - 1 < 0 /\ a.TDNestCnt < 0) => Stays(open, exec')
    BY <2>1, <2>4, <2>6, <2>8, <2>9, EnableFacts DEF open
  <2>11. ASSUME own[t].id > 0 \/ own[t].td > 0
         PROVE  Runs(t)' /\ exec'.tc[t].State = "run"
    <3>1. Stays(open, exec') /\ open.tc[t].State = "run"
      BY <1>1, <2>2, <2>3, <2>4, <2>7, <2>10, <2>11
    <3> QED
      BY <2>7, <3>1 DEF Stays, Runs
  <2> QED
    BY <1>1, <2>10, <2>11, RunnerKept DEF IInvNext
<1> QED
  BY <1>3, <1>4

LEMMA WaitStep ==
  ASSUME IInv, NEW t \in Tasks, WaitCall(t)
  PROVE  IInvNext /\ Kept
<1>1. /\ Runs(t) /\ at[t] = "user"
      /\ \E mask \in SUBSET Signals \ {{}} : Await(t, Disable(exec), mask)
  BY DEF WaitCall, Calls
<1>2. PICK mask \in SUBSET Signals : Await(t, Disable(exec), mask)
  BY <1>1
<1>3. /\ Fit(exec) /\ ~exec.idle /\ exec.ThisTask = t
      /\ own[t].id \in 0 .. MaxNest /\ own[t].td \in 0 .. MaxNest
      /\ exec.IDNestCnt = own[t].id - 1 /\ exec.TDNestCnt = own[t].td - 1
  BY <1>1, RunnerFacts
<1> DEFINE m == Disable(exec)
<1>4. /\ Fit(m) /\ m.tc = exec.tc /\ m.ThisTask = t /\ ~m.idle
      /\ m.IDNestCnt = own[t].id /\ m.TDNestCnt = own[t].td - 1
  BY <1>3, DisableFacts
<1> HIDE DEF m
<1> QED
  BY <1>1, <1>2, <1>4, AwaitStep DEF WaitCall, m

LEMMA WaitAwakeStep ==
  ASSUME IInv, NEW t \in Tasks, WaitAwake(t)
  PROVE  IInvNext /\ Kept
<1> DEFINE m == RestoreTDNest(t)
           mask == exec.tc[t].SigWait
<1>1. Runs(t) /\ at[t] = "wait" /\ Await(t, m, mask)
  BY DEF WaitAwake
<1>2. /\ exec \in Machine /\ Fit(exec) /\ ~exec.idle /\ exec.ThisTask = t
      /\ exec.IDNestCnt = own[t].id /\ exec.tc[t].TDNestCnt = own[t].td - 1
  BY <1>1, RunnerFacts
<1>3. mask \in SUBSET Signals /\ exec.tc[t].TDNestCnt \in Int
  BY <1>2, MachineFields
<1>4. /\ m \in Machine /\ m.tc = exec.tc /\ m.ThisTask = t /\ m.idle = exec.idle
      /\ m.TaskReady = exec.TaskReady /\ m.lowered = exec.lowered
      /\ m.AttnSwitch = exec.AttnSwitch
      /\ m.IDNestCnt = exec.IDNestCnt /\ m.TDNestCnt = exec.tc[t].TDNestCnt
  BY <1>2, <1>3 DEF RestoreTDNest, Machine
<1> HIDE DEF m, mask
<1>5. Fit(m) /\ ~m.idle
  BY <1>2, <1>4, FitFrame
<1> QED
  BY <1>1, <1>2, <1>3, <1>4, <1>5, AwaitStep DEF WaitAwake

(* A task structure, not in use, becomes that of a ready task.             *)
LEMMA AddTaskFacts ==
  ASSUME NEW m, Fit(m), ~m.idle, m.tc[m.ThisTask].State = "run", NEW u \in Tasks,
         m.tc[u].State \in {"removed", "invalid"}, NEW pri \in Priorities
  PROVE  LET n == AddTask(m, u, pri)
         IN  /\ Fit(n) /\ n.tc = [m.tc EXCEPT ![u] = NewTask(pri)]
             /\ n.ThisTask = m.ThisTask /\ n.idle = m.idle
             /\ n.IDNestCnt = m.IDNestCnt /\ n.TDNestCnt = m.TDNestCnt
<1> DEFINE n == AddTask(m, u, pri)
           tc == [m.tc EXCEPT ![u] = NewTask(pri)]
           s == [m EXCEPT !.tc = tc]
           added == Enqueue(s, u)
           ask == pri > m.tc[m.ThisTask].Pri
<1>1. /\ m \in Machine /\ m.tc \in [Tasks -> TaskStructure] /\ m.ThisTask \in Tasks
      /\ \A v \in Tasks : m.tc[v].Pri \in Int
      /\ m.TaskReady \in Seq(Tasks) /\ pri \in Int /\ u # m.ThisTask
  BY MachineFields, SchedulerAssumption DEF Fit, Sound, SchedulerAssumption
<1>2. NewTask(pri) \in TaskStructure /\ NewTask(pri).State = "ready" /\ NewTask(pri).Pri = pri
  BY DEF NewTask, TaskStructure, TaskStates
<1>3. /\ tc \in [Tasks -> TaskStructure] /\ tc[u] = NewTask(pri)
      /\ \A v \in Tasks : v # u => tc[v] = m.tc[v]
  BY <1>1, <1>2
<1>4. n = IF ask THEN [added EXCEPT !.AttnSwitch = TRUE] ELSE added
  <2>1. s = [m EXCEPT !.tc[u] = NewTask(pri)]
    BY <1>1 DEF Machine
  <2> HIDE DEF s
  <2> QED
    BY <2>1 DEF AddTask, RescheduleLater
<1> HIDE DEF tc
<1>5. /\ s \in Machine /\ s.tc = tc /\ s.TaskReady = m.TaskReady
      /\ s.ThisTask = m.ThisTask /\ s.idle = m.idle
      /\ s.IDNestCnt = m.IDNestCnt /\ s.TDNestCnt = m.TDNestCnt
      /\ s.lowered = m.lowered /\ s.AttnSwitch = m.AttnSwitch
  BY <1>1, <1>3 DEF Machine
<1> HIDE DEF s, added, n
<1>6. /\ Once(m.TaskReady) /\ Sorted(m.TaskReady, Rank(m)) /\ u \notin Entries(m.TaskReady)
      /\ Entries(m.TaskReady) = {v \in Tasks : m.tc[v].State = "ready"}
  BY DEF Fit, Sound, ListRight
<1>7. Sorted(s.TaskReady, Rank(s))
  <2>1. \A e \in Entries(m.TaskReady) : Rank(m)[e] = Rank(s)[e]
    BY <1>3, <1>5, <1>6 DEF Rank
  <2> QED
    BY <1>5, <1>6, <2>1, SortedAgree
<1>8. PICK q \in Seq(Tasks) :
         /\ added = [s EXCEPT !.TaskReady = q]
         /\ Entries(q) = Entries(s.TaskReady) \cup {u}
         /\ Once(q) /\ Sorted(q, Rank(s))
  BY <1>5, <1>6, <1>7, EnqueueFacts DEF added
<1>9. /\ added \in Machine /\ added.tc = tc /\ added.TaskReady = q
      /\ added.ThisTask = m.ThisTask /\ added.idle = m.idle
      /\ added.IDNestCnt = m.IDNestCnt /\ added.TDNestCnt = m.TDNestCnt
      /\ added.lowered = m.lowered /\ added.AttnSwitch = m.AttnSwitch
  BY <1>5, <1>8 DEF Machine
<1>10. Sound(added)
  <2>1. Rank(added) = Rank(s)
    BY <1>5, <1>9 DEF Rank
  <2>2. {v \in Tasks : added.tc[v].State = "ready"}
          = {v \in Tasks : m.tc[v].State = "ready"} \cup {u}
    BY <1>2, <1>3, <1>9
  <2>3. ListRight(added)
    BY <1>5, <1>6, <1>8, <1>9, <2>1, <2>2 DEF ListRight
  <2>4. SleepsRightly(added)
    BY <1>2, <1>3, <1>9 DEF Fit, Sound, SleepsRightly
  <2> QED
    BY <1>9, <2>3, <2>4 DEF Sound
<1>11. OneRuns(added)
  <2>1. \A v \in Tasks : added.tc[v].State = "run" => m.tc[v].State = "run"
    BY <1>2, <1>3, <1>9
  <2>2. added.tc[m.ThisTask].State = m.tc[m.ThisTask].State
    BY <1>1, <1>3, <1>9
  <2> QED
    BY <1>9, <2>1, <2>2 DEF Fit, OneRuns
<1>12. CASE ask
  <2>1. n = [added EXCEPT !.AttnSwitch = TRUE]
    BY <1>4, <1>12
  <2>2. /\ Fit(n) /\ n.tc = added.tc /\ n.ThisTask = added.ThisTask /\ n.idle = added.idle
        /\ n.IDNestCnt = added.IDNestCnt /\ n.TDNestCnt = added.TDNestCnt
    BY <1>10, <1>11, <2>1, AskingIsFit
  <2> QED
    BY <1>9, <2>2 DEF n, tc
<1>13. CASE ~ask
  <2>1. n = added
    BY <1>4, <1>13
  <2>2. Highest(m) => Highest(added)
    <3>1. tc[m.ThisTask].Pri = m.tc[m.ThisTask].Pri /\ tc[u].Pri = pri
      BY <1>1, <1>2, <1>3
    <3>2. pri <= m.tc[m.ThisTask].Pri
      BY <1>1, <1>13
    <3> QED
      BY <1>3, <1>9, <3>1, <3>2 DEF Highest
  <2>3. Asked(added)
    BY <1>9, <2>2 DEF Fit, Asked
  <2> QED
    BY <1>9, <1>10, <1>11, <2>1, <2>3 DEF Fit, n, tc
<1> QED
  BY <1>12, <1>13

LEMMA AddTaskStep ==
  ASSUME IInv, NEW t \in Tasks, AddTaskCall(t)
  PROVE  IInvNext /\ Kept
<1>1. PICK u \in Tasks, pri \in Priorities :
         /\ u # t
         /\ exec.tc[u].State \in {"removed", "invalid"}
         /\ exec' \in Enable(AddTask(Disable(exec), u, pri))
         /\ at' = [at EXCEPT ![t] = "check", ![u] = "user"]
         /\ own' = [own EXCEPT ![u] = NoNest]
  BY DEF AddTaskCall
<1>2. Runs(t) /\ at[t] = "user"
  BY DEF AddTaskCall, Calls
<1>3. /\ exec \in Machine /\ Fit(exec) /\ ~exec.idle /\ exec.ThisTask = t
      /\ at \in [Tasks -> Places] /\ own \in [Tasks -> [id : 0 .. MaxNest, td : 0 .. MaxNest]]
      /\ own[t].id \in 0 .. MaxNest /\ own[t].td \in 0 .. MaxNest /\ MaxNest \in Nat
      /\ exec.IDNestCnt = own[t].id - 1 /\ exec.TDNestCnt = own[t].td - 1
      /\ exec.tc[t].State = "run" /\ exec.tc \in [Tasks -> TaskStructure]
      /\ \A w \in Tasks : w # t /\ exec.tc[w].State \in {"ready", "wait"}
                            => Parked(exec, at, own, w)
  BY <1>2, RunnerFacts, MachineFields
<1> DEFINE m == Disable(exec)
           n == AddTask(m, u, pri)
           open == Lowered(n)
<1>4. /\ Fit(m) /\ m.tc = exec.tc /\ m.ThisTask = t /\ ~m.idle
      /\ m.IDNestCnt = own[t].id /\ m.TDNestCnt = own[t].td - 1
  <2>1. /\ Fit(exec) /\ ~exec.idle /\ exec.ThisTask = t
        /\ own[t].id \in 0 .. MaxNest /\ own[t].td \in 0 .. MaxNest
        /\ exec.IDNestCnt = own[t].id - 1 /\ exec.TDNestCnt = own[t].td - 1
    BY <1>3
  <2> QED
    BY <2>1, DisableFacts
<1>5. exec' \in Enable(n)
  BY <1>1
<1> HIDE DEF m
<1>6. /\ Fit(n) /\ n.tc = [exec.tc EXCEPT ![u] = NewTask(pri)] /\ n.ThisTask = t
      /\ ~n.idle /\ n.IDNestCnt = own[t].id /\ n.TDNestCnt = own[t].td - 1
  <2>1. ~m.idle /\ m.tc[m.ThisTask].State = "run" /\ m.tc[u].State \in {"removed", "invalid"}
    BY <1>1, <1>3, <1>4
  <2>2. /\ Fit(n) /\ n.tc = [m.tc EXCEPT ![u] = NewTask(pri)]
        /\ n.ThisTask = m.ThisTask /\ n.idle = m.idle
        /\ n.IDNestCnt = m.IDNestCnt /\ n.TDNestCnt = m.TDNestCnt
    BY <1>4, <2>1, AddTaskFacts
  <2>3. ~n.idle
    BY <1>4, <2>2
  <2> QED
    BY <1>4, <2>2, <2>3
<1> HIDE DEF n
<1>7. /\ open.tc = n.tc /\ open.ThisTask = t /\ ~open.idle
      /\ open.IDNestCnt = own[t].id - 1 /\ open.TDNestCnt = own[t].td - 1
  <2>1. n \in Machine
    BY <1>6 DEF Fit, Sound
  <2> QED
    BY <1>3, <1>6, <2>1, LoweredFacts
<1> HIDE DEF open
<1>8. /\ open.tc[u] = NewTask(pri) /\ \A w \in Tasks : w # u => open.tc[w] = exec.tc[w]
  BY <1>3, <1>6, <1>7
<1>9. /\ at' \in [Tasks -> Places] /\ at'[t] = "check" /\ at'[u] = "user"
      /\ \A w \in Tasks : w # t /\ w # u => at'[w] = at[w]
  BY <1>1, <1>3 DEF Places
<1>10. /\ own' \in [Tasks -> [id : 0 .. MaxNest, td : 0 .. MaxNest]]
       /\ own'[u].id = 0 /\ own'[u].td = 0 /\ \A w \in Tasks : w # u => own'[w] = own[w]
  <2>1. NoNest \in [id : 0 .. MaxNest, td : 0 .. MaxNest]
    BY <1>3 DEF NoNest
  <2>2. own' \in [Tasks -> [id : 0 .. MaxNest, td : 0 .. MaxNest]] /\ own'[u] = NoNest
        /\ \A w \in Tasks : w # u => own'[w] = own[w]
    BY <1>1, <1>3, <2>1
  <2> QED
    BY <2>2 DEF NoNest
<1>11. Mine(open, at', own')
  BY <1>1, <1>3, <1>7, <1>8, <1>9, <1>10 DEF Mine
<1>12. ASSUME NEW w \in Tasks, w # t, open.tc[w].State \in {"ready", "wait"}
       PROVE  Parked(open, at', own', w)
  <2>1. CASE w = u
    BY <1>8, <1>9, <1>10, <2>1 DEF Parked, NewTask
  <2>2. CASE w # u
    <3>1. Parked(exec, at, own, w) /\ open.tc[w] = exec.tc[w]
      BY <1>3, <1>8, <1>12, <2>2
    <3> QED
      BY <1>9, <1>10, <1>12, <2>2, <3>1 DEF Parked
  <2> QED
    BY <2>1, <2>2
<1>13. Nested(open, at', own')
  BY <1>7, <1>9, <1>10, <1>11, <1>12 DEF Nested
<1>14. /\ Good(exec', at', own')
       /\ ~(n.IDNestCnt - 1 < 0 /\ n.TDNestCnt < 0) => Stays(open, exec')
  <2>1. ~n.idle /\ at'[n.ThisTask] # "user"
    BY <1>3, <1>6, <1>9
  <2> QED
    BY <1>5, <1>6, <1>13, <2>1, EnableFacts DEF open
<1>15. ASSUME own[t].id > 0 \/ own[t].td > 0
       PROVE  Runs(t)' /\ exec'.tc[t].State = "run"
  <2>1. Stays(open, exec') /\ open.tc[t].State = "run"
    BY <1>1, <1>3, <1>6, <1>8, <1>14, <1>15
  <2> QED
    BY <1>7, <2>1 DEF Stays, Runs
<1> QED
  BY <1>2, <1>14, <1>15, RunnerKept DEF IInvNext

LEMMA RemTaskStep ==
  ASSUME IInv, NEW t \in Tasks, RemTaskCall(t)
  PROVE  IInvNext /\ Kept
<1>1. PICK u \in Tasks :
         /\ exec.tc[u].State \in {"run", "ready", "wait"}
         /\ exec' = Unlink([exec EXCEPT !.tc[u].State = "removed", !.TDNestCnt = @ + 1], u)
  BY DEF RemTaskCall
<1>2. Runs(t) /\ at[t] = "user" /\ at' = [at EXCEPT ![t] = "removing"] /\ own' = own
  BY DEF RemTaskCall, Calls
<1>3. /\ exec \in Machine /\ Fit(exec) /\ ~exec.idle /\ exec.ThisTask = t
      /\ at \in [Tasks -> Places] /\ own \in [Tasks -> [id : 0 .. MaxNest, td : 0 .. MaxNest]]
      /\ own[t].td \in Nat /\ exec.TDNestCnt \in Int
      /\ exec.IDNestCnt = own[t].id - 1 /\ exec.TDNestCnt = own[t].td - 1
      /\ exec.tc[t].State = "run" /\ exec.tc \in [Tasks -> TaskStructure]
      /\ exec.TaskReady \in Seq(Tasks)
      /\ \A w \in Tasks : exec.tc[w].State = "run" => w = t
  BY <1>2, RunnerFacts, MachineFields
<1> DEFINE tc == [exec.tc EXCEPT ![u].State = "removed"]
           list == RemoveFirst(exec.TaskReady, u)
           td == exec.TDNestCnt + 1
<1>4. exec' = [exec EXCEPT !.tc = tc, !.TDNestCnt = td, !.TaskReady = list]
  <2> DEFINE s == [exec EXCEPT !.tc[u].State = "removed", !.TDNestCnt = @ + 1]
  <2>1. exec' = [s EXCEPT !.TaskReady = RemoveFirst(@, u)]
    BY <1>1 DEF Unlink
  <2>2. s = [exec EXCEPT !.tc = tc, !.TDNestCnt = td] /\ s.TaskReady = exec.TaskReady
    BY <1>3 DEF Machine
  <2> HIDE DEF s, tc, td
  <2>3. exec' = [s EXCEPT !.TaskReady = list]
    BY <1>3, <2>1, <2>2 DEF Machine
  <2> QED
    BY <1>3, <2>2, <2>3 DEF Machine
<1>5. /\ list \in Seq(Tasks) /\ Once(list) /\ Entries(list) = Entries(exec.TaskReady) \ {u}
      /\ Sorted(list, Rank(exec))
      /\ Entries(exec.TaskReady) = {v \in Tasks : exec.tc[v].State = "ready"}
  <2>1. /\ Once(exec.TaskReady) /\ Sorted(exec.TaskReady, Rank(exec))
        /\ Entries(exec.TaskReady) = {v \in Tasks : exec.tc[v].State = "ready"}
    BY <1>3 DEF Fit, Sound, ListRight
  <2> QED
    BY <1>3, <2>1, RemoveFirstFacts
<1>6. /\ tc \in [Tasks -> TaskStructure]
      /\ \A v \in Tasks : /\ tc[v].Pri = exec.tc[v].Pri
                          /\ tc[v].State = IF v = u THEN "removed" ELSE exec.tc[v].State
                          /\ tc[v].SigRecvd = exec.tc[v].SigRecvd
                          /\ tc[v].SigWait = exec.tc[v].SigWait
                          /\ tc[v].TDNestCnt = exec.tc[v].TDNestCnt
                          /\ tc[v].IDNestCnt = exec.tc[v].IDNestCnt
  <2>1. exec.tc[u] \in TaskStructure
    BY <1>3
  <2>2. [exec.tc[u] EXCEPT !.State = "removed"] \in TaskStructure
    BY <2>1 DEF TaskStructure, TaskStates
  <2>3. tc \in [Tasks -> TaskStructure]
    BY <1>3, <2>2
  <2> QED
    BY <1>3, <2>3 DEF TaskStructure
<1>7. td \in Int /\ td = own[t].td
  <2>1. own[t].td \in Nat /\ exec.TDNestCnt = own[t].td - 1
    BY <1>3
  <2> QED
    BY <2>1
<1> HIDE DEF tc, list, td
<1>8. /\ exec' \in Machine /\ exec'.tc = tc /\ exec'.TaskReady = list /\ exec'.TDNestCnt = td
      /\ exec'.ThisTask = exec.ThisTask /\ exec'.idle = exec.idle
      /\ exec'.lowered = exec.lowered /\ exec'.AttnSwitch = exec.AttnSwitch
      /\ exec'.IDNestCnt = exec.IDNestCnt
  BY <1>3, <1>4, <1>5, <1>6, <1>7 DEF Machine
<1>9. ~exec'.idle
  BY <1>3, <1>8
<1>10. Fit(exec')
  <2>1. Rank(exec') = Rank(exec)
    BY <1>6, <1>8 DEF Rank
  <2>2. {v \in Tasks : exec'.tc[v].State = "ready"}
          = {v \in Tasks : exec.tc[v].State = "ready"} \ {u}
    BY <1>6, <1>8
  <2>3. ListRight(exec')
    <3>1. Entries(exec'.TaskReady) = {v \in Tasks : exec'.tc[v].State = "ready"}
      BY <1>5, <1>8, <2>2
    <3>2. Once(exec'.TaskReady) /\ Sorted(exec'.TaskReady, Rank(exec'))
      BY <1>5, <1>8, <2>1
    <3> QED
      BY <3>1, <3>2 DEF ListRight
  <2>4. SleepsRightly(exec')
    <3>1. SleepsRightly(exec)
      BY <1>3 DEF Fit, Sound
    <3> QED
      BY <1>6, <1>8, <3>1 DEF SleepsRightly
  <2>5. OneRuns(exec')
    BY <1>3, <1>6, <1>8, <1>9 DEF OneRuns
  <2>6. Highest(exec) => Highest(exec')
    BY <1>3, <1>6, <1>8 DEF Highest
  <2>7. Asked(exec')
    BY <1>3, <1>8, <2>6 DEF Fit, Asked
  <2> QED
    BY <1>8, <2>3, <2>4, <2>5, <2>7 DEF Fit, Sound
<1>11. /\ at' \in [Tasks -> Places] /\ at'[t] = "removing"
       /\ \A w \in Tasks : w # t => at'[w] = at[w]
  BY <1>2, <1>3 DEF Places
<1>12. Mine(exec', at', own)
  BY <1>3, <1>7, <1>8, <1>11 DEF Mine
<1>13. Nested(exec', at', own)
  <2>1. Nested(exec, at, own)
    BY DEF IInv, Good
  <2>2. \A w \in Tasks : w # t =>
          /\ at'[w] = at[w]
          /\ exec'.tc[w].IDNestCnt = exec.tc[w].IDNestCnt
          /\ exec'.tc[w].TDNestCnt = exec.tc[w].TDNestCnt
          /\ exec'.tc[w].State \in {"ready", "wait"} => exec.tc[w].State \in {"ready", "wait"}
    BY <1>6, <1>8, <1>11
  <2>3. /\ exec.ThisTask = t /\ exec'.ThisTask = t
        /\ own \in [Tasks -> [id : 0 .. MaxNest, td : 0 .. MaxNest]]
    BY <1>3, <1>8
  <2> QED
    BY <1>9, <1>11, <1>12, <2>1, <2>2, <2>3, RunnerNested
<1>14. IInvNext
  BY <1>2, <1>3, <1>8, <1>10, <1>11, <1>13 DEF IInvNext, Good
<1>15. Runs(t)' /\ exec'.tc[t].State \in {"run", "removed"}
  BY <1>3, <1>6, <1>8, <1>9 DEF Runs
<1> QED
  BY <1>2, <1>14, <1>15, RunnerKept

LEMMA RemTaskSignalsStep ==
  ASSUME IInv, NEW t \in Tasks, RemTaskSignals(t)
  PROVE  IInvNext /\ Kept
<1>1. PICK u \in Tasks, sig \in Signals : exec' \in Enable(Signal(Disable(exec), u, sig))
  BY DEF RemTaskSignals
<1>2. Runs(t) /\ at[t] = "removing" /\ at' = at /\ own' = own
  BY DEF RemTaskSignals
<1>3. /\ ~exec.idle /\ exec.ThisTask = t /\ own[t].td \in Nat /\ exec.TDNestCnt = own[t].td
  BY <1>2, RunnerFacts
<1>4. Fit(Disable(exec)) /\ Nested(exec, at, own)
  BY DisableFacts DEF IInv, Good
<1>5. Fit(Signal(Disable(exec), u, sig)) /\ Keeps(Disable(exec), Signal(Disable(exec), u, sig))
  BY <1>4, SignalFacts
<1>6. /\ Good(exec', at, own)
      /\ ~(exec.IDNestCnt < 0 /\ exec.TDNestCnt < 0) => Stays(exec, exec')
  BY <1>1, <1>2, <1>4, <1>5, EnableStep
<1>7. Stays(exec, exec')
  BY <1>3, <1>6
<1>8. exec.tc[t].State = "run" => Runs(t)' /\ exec'.tc[t].State = "run"
  BY <1>3, <1>7 DEF Stays, Runs
<1> QED
  BY <1>2, <1>6, <1>8, RunnerKept DEF IInvNext

LEMMA RemTaskSelfStep ==
  ASSUME IInv, NEW t \in Tasks, RemTaskSelf(t)
  PROVE  IInvNext /\ Kept
<1>1. /\ Runs(t) /\ at[t] = "removing" /\ exec.tc[t].State = "removed"
      /\ at' = [at EXCEPT ![t] = "user"] /\ own' = [own EXCEPT ![t] = NoNest]
      /\ exec' = Dispatch([exec EXCEPT !.IDNestCnt = @ + 1, !.TDNestCnt = -1,
                                       !.tc[t].State = "invalid"])
  BY DEF RemTaskSelf
<1>2. /\ exec \in Machine /\ Fit(exec) /\ ~exec.idle /\ exec.ThisTask = t
      /\ at \in [Tasks -> Places] /\ own \in [Tasks -> [id : 0 .. MaxNest, td : 0 .. MaxNest]]
      /\ own[t].id \in 0 .. MaxNest /\ MaxNest \in Nat
      /\ exec.IDNestCnt = own[t].id - 1 /\ exec.tc \in [Tasks -> TaskStructure]
      /\ \A w \in Tasks : exec.tc[w].State = "run" => w = t
      /\ \A w \in Tasks : w # t /\ exec.tc[w].State \in {"ready", "wait"}
                            => Parked(exec, at, own, w)
  BY <1>1, RunnerFacts, MachineFields
<1> DEFINE tc == [exec.tc EXCEPT ![t].State = "invalid"]
           id == exec.IDNestCnt + 1
           td == -1
           m == [exec EXCEPT !.IDNestCnt = id, !.TDNestCnt = td, !.tc = tc]
<1>3. exec' = Dispatch(m)
  <2>1. [exec EXCEPT !.IDNestCnt = @ + 1, !.TDNestCnt = -1, !.tc[t].State = "invalid"] = m
    BY <1>2 DEF Machine
  <2> QED
    BY <1>1, <2>1
<1>4. /\ tc \in [Tasks -> TaskStructure]
      /\ \A v \in Tasks : /\ tc[v].Pri = exec.tc[v].Pri
                          /\ tc[v].State = IF v = t THEN "invalid" ELSE exec.tc[v].State
                          /\ tc[v].SigRecvd = exec.tc[v].SigRecvd
                          /\ tc[v].SigWait = exec.tc[v].SigWait
                          /\ tc[v].TDNestCnt = exec.tc[v].TDNestCnt
                          /\ tc[v].IDNestCnt = exec.tc[v].IDNestCnt
  <2>1. exec.tc[t] \in TaskStructure
    BY <1>2
  <2>2. [exec.tc[t] EXCEPT !.State = "invalid"] \in TaskStructure
    BY <2>1 DEF TaskStructure, TaskStates
  <2>3. tc \in [Tasks -> TaskStructure]
    BY <1>2, <2>2
  <2> QED
    BY <1>2, <2>3 DEF TaskStructure
<1>5. id \in Int /\ id \in 0 .. MaxNest /\ td \in Int /\ td = -1
  BY <1>2
<1> HIDE DEF tc, id, td
<1>6. /\ m \in Machine /\ m.tc = tc /\ m.TaskReady = exec.TaskReady
      /\ m.IDNestCnt = id /\ m.TDNestCnt = td
  BY <1>2, <1>4, <1>5 DEF Machine
<1> HIDE DEF m
<1>7. Sound(m)
  <2>1. Rank(m) = Rank(exec)
    BY <1>4, <1>6 DEF Rank
  <2>2. {v \in Tasks : m.tc[v].State = "ready"} = {v \in Tasks : exec.tc[v].State = "ready"}
    BY <1>1, <1>4, <1>6
  <2>3. ListRight(m)
    BY <1>2, <1>6, <2>1, <2>2 DEF Fit, Sound, ListRight
  <2>4. SleepsRightly(m)
    BY <1>2, <1>4, <1>6 DEF Fit, Sound, SleepsRightly
  <2> QED
    BY <1>6, <2>3, <2>4 DEF Sound
<1>8. NobodyRuns(m)
  BY <1>2, <1>4, <1>6 DEF NobodyRuns
<1>9. /\ at' \in [Tasks -> Places] /\ \A w \in Tasks : w # t => at'[w] = at[w]
      /\ own' \in [Tasks -> [id : 0 .. MaxNest, td : 0 .. MaxNest]] /\ own'[t] = NoNest
      /\ \A w \in Tasks : w # t => own'[w] = own[w]
  <2>1. NoNest \in [id : 0 .. MaxNest, td : 0 .. MaxNest]
    BY <1>2 DEF NoNest
  <2> QED
    BY <1>1, <1>2, <2>1 DEF Places
<1>10. ASSUME NEW w \in Tasks, m.tc[w].State \in {"ready", "wait"}
       PROVE  Parked(m, at', own', w)
  <2>1. w # t /\ exec.tc[w].State \in {"ready", "wait"}
    BY <1>4, <1>6, <1>10
  <2>2. Parked(exec, at, own, w)
    BY <1>2, <2>1
  <2>3. m.tc[w].IDNestCnt = exec.tc[w].IDNestCnt /\ m.tc[w].TDNestCnt = exec.tc[w].TDNestCnt
    BY <1>4, <1>6
  <2> QED
    BY <1>9, <2>1, <2>2, <2>3 DEF Parked
<1>11. Good(Dispatch(m), at', own')
  BY <1>5, <1>6, <1>7, <1>8, <1>9, <1>10, DispatchNested
<1> QED
  BY <1>1, <1>3, <1>9, <1>11, RunnerKept DEF IInvNext

LEMMA RemTaskOtherStep ==
  ASSUME IInv, NEW t \in Tasks, RemTaskOther(t)
  PROVE  IInvNext /\ Kept
<1>1. /\ Runs(t) /\ at[t] = "removing" /\ own' = own /\ at' = [at EXCEPT ![t] = "check"]
      /\ exec' = [exec EXCEPT !.TDNestCnt = @ - 1] /\ exec.tc[t].State = "run"
  BY DEF RemTaskOther, Check
<1>2. /\ exec \in Machine /\ Fit(exec) /\ ~exec.idle /\ exec.ThisTask = t
      /\ at \in [Tasks -> Places] /\ own \in [Tasks -> [id : 0 .. MaxNest, td : 0 .. MaxNest]]
      /\ own[t].td \in Nat /\ exec.TDNestCnt \in Int
      /\ exec.IDNestCnt = own[t].id - 1 /\ exec.TDNestCnt = own[t].td
  BY <1>1, RunnerFacts
<1>3. exec.TDNestCnt - 1 \in Int
  BY <1>2
<1>4. /\ exec' \in Machine /\ exec'.tc = exec.tc /\ exec'.TaskReady = exec.TaskReady
      /\ exec'.ThisTask = exec.ThisTask /\ exec'.idle = exec.idle
      /\ exec'.lowered = exec.lowered /\ exec'.AttnSwitch = exec.AttnSwitch
      /\ exec'.IDNestCnt = exec.IDNestCnt /\ exec'.TDNestCnt = exec.TDNestCnt - 1
  BY <1>1, <1>2, <1>3 DEF Machine
<1>5. Fit(exec') /\ ~exec'.idle
  BY <1>2, <1>4, FitFrame
<1>6. /\ at' \in [Tasks -> Places] /\ at'[t] = "check"
      /\ \A w \in Tasks : w # t => at'[w] = at[w]
  BY <1>1, <1>2 DEF Places
<1>7. Mine(exec', at', own)
  BY <1>1, <1>2, <1>4, <1>6 DEF Mine
<1>8. Nested(exec', at', own)
  <2>1. Nested(exec, at, own)
    BY DEF IInv, Good
  <2> QED
    BY <1>2, <1>4, <1>5, <1>6, <1>7, <2>1, RunnerNested
<1>9. Runs(t)' /\ exec'.tc[t].State = "run"
  BY <1>1, <1>2, <1>4, <1>5 DEF Runs
<1> QED
  BY <1>1, <1>2, <1>4, <1>5, <1>6, <1>8, <1>9, RunnerKept DEF IInvNext, Good

---------------------------------------------------------------------------

(* Interrupts                                                              *)

LEMMA VBlankFacts ==
  ASSUME NEW m, Fit(m)
  PROVE  Fit(VBlank(m)) /\ Keeps(m, VBlank(m))
<1> DEFINE n == VBlank(m)
           e == m.Elapsed - 1
           left == [m EXCEPT !.Elapsed = e]
<1>1. m \in Machine /\ m.Elapsed \in 0 .. Quantum /\ Quantum \in Nat
  BY MachineFields, SchedulerAssumption DEF Fit, Sound, SchedulerAssumption
<1>2. CASE m.Elapsed = 0
  <2>1. n = m
    BY <1>2 DEF VBlank
  <2> QED
    BY <2>1 DEF Keeps
<1>3. CASE m.Elapsed # 0
  <2>1. e \in 0 .. Quantum
    BY <1>1, <1>3
  <2>2. n = left \/ n = [left EXCEPT !.QuantumOver = TRUE, !.AttnSwitch = TRUE]
    BY <1>3 DEF VBlank
  <2> HIDE DEF e, n
  <2>3. /\ left \in Machine /\ left.tc = m.tc /\ left.TaskReady = m.TaskReady
        /\ left.ThisTask = m.ThisTask /\ left.idle = m.idle /\ left.lowered = m.lowered
        /\ left.AttnSwitch = m.AttnSwitch
        /\ left.IDNestCnt = m.IDNestCnt /\ left.TDNestCnt = m.TDNestCnt
    BY <1>1, <2>1 DEF Machine
  <2> HIDE DEF left
  <2>4. /\ n \in Machine /\ n.tc = m.tc /\ n.TaskReady = m.TaskReady
        /\ n.ThisTask = m.ThisTask /\ n.idle = m.idle /\ n.lowered = m.lowered
        /\ n.IDNestCnt = m.IDNestCnt /\ n.TDNestCnt = m.TDNestCnt
        /\ n.AttnSwitch \/ n.AttnSwitch = m.AttnSwitch
    <3>1. CASE n = left
      BY <2>3, <3>1
    <3>2. CASE n = [left EXCEPT !.QuantumOver = TRUE, !.AttnSwitch = TRUE]
      <4>1. /\ n \in Machine /\ n.tc = left.tc /\ n.TaskReady = left.TaskReady
            /\ n.ThisTask = left.ThisTask /\ n.idle = left.idle /\ n.lowered = left.lowered
            /\ n.IDNestCnt = left.IDNestCnt /\ n.TDNestCnt = left.TDNestCnt
            /\ n.AttnSwitch
        BY <2>3, <3>2 DEF Machine
      <4> QED
        BY <2>3, <4>1
    <3> QED
      BY <2>2, <3>1, <3>2
  <2>5. m.AttnSwitch => n.AttnSwitch
    BY <2>4
  <2>6. Fit(n)
    BY <2>4, <2>5, FitFrame
  <2> QED
    BY <2>4, <2>6 DEF Keeps, n
<1> QED
  BY <1>2, <1>3

LEMMA InterruptStep ==
  ASSUME IInv, NEW m, Fit(m), Keeps(exec, m), Interrupt(m)
  PROVE  IInvNext /\ Kept
<1>1. /\ exec.idle \/ exec.IDNestCnt < 0
      /\ exec.idle => \E x \in SoftInts(m) : exec' = Dispatch(x)
      /\ ~exec.idle => exec' \in ExitInterrupt(m)
      /\ at' = at /\ own' = own
  BY DEF Interrupt
<1>2. Fit(exec) /\ Nested(exec, at, own) /\ exec \in Machine
  BY DEF IInv, Good, Fit, Sound
<1>3. Nested(m, at, own)
  BY <1>2, KeepsNested
<1>4. CASE exec.idle
  <2>1. PICK x \in SoftInts(m) : exec' = Dispatch(x)
    BY <1>1, <1>4
  <2>2. Fit(x) /\ Keeps(m, x) /\ m \in Machine
    BY SoftIntsFacts DEF Fit, Sound
  <2>3. Nested(x, at, own)
    BY <1>3, <2>2, KeepsNested
  <2>4. x.idle
    BY <1>4, <2>2 DEF Keeps
  <2>5. Sound(x) /\ NobodyRuns(x)
    BY <2>2, <2>4 DEF Fit, OneRuns, NobodyRuns
  <2>6. /\ at \in [Tasks -> Places] /\ own \in [Tasks -> [id : 0 .. MaxNest, td : 0 .. MaxNest]]
        /\ x.TDNestCnt = -1 /\ x.IDNestCnt \in 0 .. MaxNest
        /\ \A u \in Tasks : x.tc[u].State \in {"ready", "wait"} => Parked(x, at, own, u)
    BY <2>3, <2>4 DEF Nested
  <2>7. Good(exec', at, own)
    BY <2>1, <2>5, <2>6, DispatchNested
  <2>8. Kept
    BY <1>4 DEF Kept, Runs
  <2> QED
    BY <1>1, <2>7, <2>8 DEF IInvNext
<1>5. CASE ~exec.idle
  <2>1. /\ exec' \in ExitInterrupt(m) /\ exec.IDNestCnt < 0
        /\ m.ThisTask = exec.ThisTask /\ ~m.idle
        /\ m.IDNestCnt = exec.IDNestCnt /\ m.TDNestCnt = exec.TDNestCnt
    BY <1>1, <1>5 DEF Keeps
  <2>2. /\ Fit(exec') /\ Nested(exec', at, own) /\ ~exec'.idle
        /\ m.TDNestCnt < 0 => Highest(exec')
        /\ ~(m.TDNestCnt < 0) => Stays(m, exec')
    BY <1>3, <2>1, ExitFacts
  <2>3. Good(exec', at, own)
    BY <2>2 DEF Good, Stays
  <2>4. ASSUME NEW t \in Tasks, Runs(t), own[t].id > 0 \/ own[t].td > 0, exec.tc[t].State = "run"
        PROVE  Runs(t)' /\ exec'.tc[t].State = "run"
    <3>1. /\ exec.ThisTask = t /\ own[t].id \in Nat /\ own[t].td \in Nat /\ at[t] \in Places
          /\ at[t] \in {"user", "check"} => /\ exec.IDNestCnt = own[t].id - 1
                                            /\ exec.TDNestCnt = own[t].td - 1
          /\ at[t] = "removing" => exec.IDNestCnt = own[t].id - 1 /\ exec.TDNestCnt = own[t].td
          /\ at[t] = "wait" => exec.IDNestCnt = own[t].id
      BY <2>4, RunnerFacts
    <3>2. at[t] \in {"user", "check"} \/ at[t] = "removing" \/ at[t] = "wait"
      BY <3>1 DEF Places
    <3>3. ~(exec.TDNestCnt < 0)
      BY <2>1, <2>4, <3>1, <3>2
    <3>4. Stays(m, exec')
      BY <2>1, <2>2, <3>3
    <3>5. m.tc[t].State = "run"
      BY <2>4 DEF Keeps
    <3> QED
      BY <2>1, <3>1, <3>4, <3>5 DEF Stays, Runs
  <2> QED
    BY <1>1, <2>3, <2>4 DEF Kept, IInvNext
<1> QED
  BY <1>4, <1>5

LEMMA InterruptsStep ==
  ASSUME IInv, VBlankInterrupt \/ SignalInterrupt \/ CauseInterrupt
  PROVE  IInvNext /\ Kept
<1>1. Fit(exec)
  BY DEF IInv, Good
<1>2. CASE VBlankInterrupt
  <2>1. Fit(VBlank(exec)) /\ Keeps(exec, VBlank(exec))
    BY <1>1, VBlankFacts
  <2> QED
    BY <1>2, <2>1, InterruptStep DEF VBlankInterrupt
<1>3. CASE SignalInterrupt
  <2>1. PICK u \in Tasks, sig \in Signals : Interrupt(Signal(exec, u, sig))
    BY <1>3 DEF SignalInterrupt
  <2>2. Fit(Signal(exec, u, sig)) /\ Keeps(exec, Signal(exec, u, sig))
    BY <1>1, SignalFacts
  <2> QED
    BY <2>1, <2>2, InterruptStep
<1>4. CASE CauseInterrupt
  <2>1. Fit(Cause(exec)) /\ Keeps(exec, Cause(exec))
    BY <1>1, CauseFacts
  <2> QED
    BY <1>4, <2>1, InterruptStep DEF CauseInterrupt
<1> QED
  BY <1>2, <1>3, <1>4

---------------------------------------------------------------------------

(* The invariant                                                           *)

LEMMA InitIInv == Init => IInv
<1> SUFFICES ASSUME Init PROVE IInv
  OBVIOUS
<1>1. PICK boot \in Tasks :
         exec = [ThisTask |-> boot, idle |-> FALSE, TaskReady |-> <<>>,
                 IDNestCnt |-> -1, TDNestCnt |-> -1,
                 Elapsed |-> Quantum, QuantumOver |-> FALSE, AttnSwitch |-> FALSE,
                 SoftInt |-> FALSE, lowered |-> FALSE,
                 tc |-> [u \in Tasks |->
                           [NewTask(0) EXCEPT !.State = IF u = boot THEN "run" ELSE "invalid"]]]
  BY DEF Init
<1>2. /\ at \in [Tasks -> Places] /\ at[boot] = "user"
      /\ own \in [Tasks -> [id : 0 .. MaxNest, td : 0 .. MaxNest]]
      /\ own[boot].id = 0 /\ own[boot].td = 0
  BY SchedulerAssumption DEF Init, NoNest, Places, SchedulerAssumption
<1> DEFINE task(u) == [NewTask(0) EXCEPT !.State = IF u = boot THEN "run" ELSE "invalid"]
<1>3. \A u \in Tasks : /\ task(u) \in TaskStructure
                       /\ task(u).State = IF u = boot THEN "run" ELSE "invalid"
  BY SchedulerAssumption DEF SchedulerAssumption, NewTask, TaskStructure, TaskStates
<1>4. /\ exec.tc = [u \in Tasks |-> task(u)] /\ exec.ThisTask = boot /\ ~exec.idle
      /\ exec.IDNestCnt = -1 /\ exec.TDNestCnt = -1 /\ exec.TaskReady = << >>
  BY <1>1
<1> HIDE DEF task
<1>5. /\ exec.tc \in [Tasks -> TaskStructure]
      /\ \A u \in Tasks : exec.tc[u].State = IF u = boot THEN "run" ELSE "invalid"
  BY <1>3, <1>4
<1>6. exec \in Machine
  <2>1. Quantum \in 0 .. Quantum /\ << >> \in Seq(Tasks)
    BY SchedulerAssumption DEF SchedulerAssumption
  <2> DEFINE tc == exec.tc
             one == -1
             list == << >>
  <2>2. exec = [ThisTask |-> boot, idle |-> FALSE, TaskReady |-> list,
                IDNestCnt |-> one, TDNestCnt |-> one,
                Elapsed |-> Quantum, QuantumOver |-> FALSE, AttnSwitch |-> FALSE,
                SoftInt |-> FALSE, lowered |-> FALSE, tc |-> tc]
    BY <1>1
  <2>3. tc \in [Tasks -> TaskStructure] /\ one \in Int /\ list \in Seq(Tasks)
    BY <1>5, <2>1
  <2> HIDE DEF tc, one, list
  <2> QED
    BY <2>1, <2>2, <2>3 DEF Machine
<1>7. Sound(exec)
  BY <1>4, <1>5, <1>6, EmptyFacts DEF Sound, ListRight, SleepsRightly
<1>8. OneRuns(exec) /\ Highest(exec)
  BY <1>4, <1>5 DEF OneRuns, Highest
<1>9. Nested(exec, at, own)
  BY <1>2, <1>4, <1>5 DEF Nested, Mine
<1> QED
  BY <1>7, <1>8, <1>9 DEF IInv, Good, Fit, Asked

LEMMA NextIInv == IInv /\ [Next]_vars => IInv' /\ [Kept]_vars
<1> SUFFICES ASSUME IInv, [Next]_vars PROVE IInv' /\ [Kept]_vars
  OBVIOUS
<1>1. IInvNext => IInv'
  BY DEF IInv, IInvNext
<1>2. CASE UNCHANGED vars
  <2>1. exec' = exec /\ at' = at /\ own' = own
    BY <1>2 DEF vars
  <2>2. IInvNext
    BY <2>1 DEF IInv, IInvNext
  <2> QED
    BY <1>1, <1>2, <2>2
<1>3. CASE VBlankInterrupt \/ SignalInterrupt \/ CauseInterrupt
  BY <1>1, <1>3, InterruptsStep
<1>4. ASSUME NEW t \in Tasks, TaskStep(t) PROVE IInvNext /\ Kept
  <2>1. CASE ForbidCall(t)
    BY <2>1, ForbidStep
  <2>2. CASE PermitCall(t)
    BY <2>2, PermitStep
  <2>3. CASE DisableCall(t)
    BY <2>3, DisableStep
  <2>4. CASE EnableCall(t)
    BY <2>4, EnableCallStep
  <2>5. CASE CheckSwitch(t)
    BY <2>5, CheckStep
  <2>6. CASE WaitCall(t)
    BY <2>6, WaitStep
  <2>7. CASE WaitAwake(t)
    BY <2>7, WaitAwakeStep
  <2>8. CASE SignalCall(t)
    BY <2>8, SignalStep
  <2>9. CASE SetTaskPriCall(t)
    BY <2>9, SetTaskPriStep
  <2>10. CASE RescheduleCall(t)
    BY <2>10, RescheduleStep
  <2>11. CASE CauseCall(t)
    BY <2>11, CauseStep
  <2>12. CASE AddTaskCall(t)
    BY <2>12, AddTaskStep
  <2>13. CASE RemTaskCall(t)
    BY <2>13, RemTaskStep
  <2>14. CASE RemTaskSignals(t)
    BY <2>14, RemTaskSignalsStep
  <2>15. CASE RemTaskSelf(t)
    BY <2>15, RemTaskSelfStep
  <2>16. CASE RemTaskOther(t)
    BY <2>16, RemTaskOtherStep
  <2> QED
    BY <1>4, <2>1, <2>2, <2>3, <2>4, <2>5, <2>6, <2>7, <2>8, <2>9, <2>10, <2>11, <2>12,
       <2>13, <2>14, <2>15, <2>16 DEF TaskStep
<1> QED
  BY <1>1, <1>2, <1>3, <1>4 DEF Next

THEOREM SpecIInv == Spec => []IInv
  BY InitIInv, NextIInv, PTL DEF Spec

(* Every field keeps its type, and the nest counts never leave the range   *)
(* that the calls of the tasks account for.                                *)
THEOREM SpecTypeOK == Spec => []TypeOK
<1>1. IInv => TypeOK
  <2> SUFFICES ASSUME IInv PROVE TypeOK
    OBVIOUS
  <2>1. Fit(exec) /\ Nested(exec, at, own) /\ exec \in Machine
    BY DEF IInv, Good, Fit, Sound
  <2>2. /\ exec.ThisTask \in Tasks /\ exec.idle \in BOOLEAN /\ exec.TaskReady \in Seq(Tasks)
        /\ exec.IDNestCnt \in Int /\ exec.TDNestCnt \in Int /\ exec.Elapsed \in 0 .. Quantum
        /\ exec.QuantumOver \in BOOLEAN /\ exec.AttnSwitch \in BOOLEAN
        /\ exec.SoftInt \in BOOLEAN
        /\ exec.lowered \in BOOLEAN /\ exec.tc \in [Tasks -> TaskStructure]
    BY <2>1, MachineFields
  <2>3. /\ at \in [Tasks -> Places]
        /\ own \in [Tasks -> [id : 0 .. MaxNest, td : 0 .. MaxNest]]
    BY <2>1 DEF Nested
  <2>4. exec.IDNestCnt \in -1 .. MaxNest + 1 /\ exec.TDNestCnt \in -1 .. MaxNest
    <3>1. CASE exec.idle
      <4>1. exec.TDNestCnt = -1 /\ exec.IDNestCnt \in 0 .. MaxNest /\ MaxNest \in Nat
        BY <2>1, <3>1, SchedulerAssumption DEF Nested, SchedulerAssumption
      <4> QED
        BY <4>1
    <3>2. CASE ~exec.idle
      <4> DEFINE t == exec.ThisTask
      <4>1. Runs(t)
        BY <3>2 DEF Runs
      <4> HIDE DEF t
      <4>2. t \in Tasks
        BY <2>2 DEF t
      <4>3. /\ own[t].id \in 0 .. MaxNest /\ own[t].td \in 0 .. MaxNest /\ MaxNest \in Nat
            /\ at[t] \in Places
            /\ at[t] \in {"user", "check"} => /\ exec.IDNestCnt = own[t].id - 1
                                              /\ exec.TDNestCnt = own[t].td - 1
            /\ at[t] = "removing" => exec.IDNestCnt = own[t].id - 1 /\ exec.TDNestCnt = own[t].td
            /\ at[t] = "wait" => exec.IDNestCnt = own[t].id /\ exec.TDNestCnt = -1
          BY <4>1, <4>2, RunnerFacts
      <4>4. at[t] \in {"user", "check"} \/ at[t] = "removing" \/ at[t] = "wait"
          BY <4>3 DEF Places
      <4> QED
        BY <4>3, <4>4
    <3> QED
      BY <3>1, <3>2
  <2> QED
    BY <2>2, <2>3, <2>4 DEF TypeOK
<1> QED
  BY <1>1, SpecIInv, PTL

(* The ready list: each ready task once, in descending priority, and only  *)
(* the running task is in state "run", after any sequence of Signal(),     *)
(* SetTaskPri(), NewAddTask(), RemTask(), switches and interrupts.         *)
THEOREM SpecReadyListRight == Spec => []ReadyListRight
<1>1. IInv => ReadyListRight
  <2> SUFFICES ASSUME IInv PROVE ReadyListRight
    OBVIOUS
  <2> DEFINE list == exec.TaskReady
  <2>1. /\ exec \in Machine /\ OneRuns(exec) /\ Once(list) /\ Sorted(list, Rank(exec))
        /\ Entries(list) = {u \in Tasks : exec.tc[u].State = "ready"}
    BY DEF IInv, Good, Fit, Sound, ListRight
  <2>2. list \in Seq(Tasks) /\ \A u \in Tasks : exec.tc[u].Pri \in Int
    BY <2>1, MachineFields
  <2>3. Len(list) \in Nat /\ \A i \in 1 .. Len(list) : list[i] \in Tasks
    BY <2>2, LenProperties, ElementOfSeq
  <2> HIDE DEF list
  <2>4. ASSUME NEW u \in Tasks
        PROVE  Cardinality({i \in 1 .. Len(list) : list[i] = u})
                 = IF exec.tc[u].State = "ready" THEN 1 ELSE 0
    <3> DEFINE P == {i \in 1 .. Len(list) : list[i] = u}
    <3>1. CASE exec.tc[u].State = "ready"
      <4>1. u \in Entries(list)
        BY <2>1, <3>1
      <4>2. PICK k \in 1 .. Len(list) : list[k] = u
        BY <4>1 DEF Entries
      <4>3. P = {k}
        BY <2>1, <4>2 DEF Once
      <4>4. Cardinality({k}) = 1
        BY FS_Singleton
      <4> QED
        BY <3>1, <4>3, <4>4
    <3>2. CASE exec.tc[u].State # "ready"
      <4>1. u \notin Entries(list)
        BY <2>1, <3>2
      <4>2. P = {}
        BY <4>1 DEF Entries
      <4> QED
        BY <3>2, <4>2, FS_EmptySet
    <3> QED
      BY <3>1, <3>2
  <2>5. ASSUME NEW i \in 1 .. Len(list), NEW j \in 1 .. Len(list), i < j
        PROVE  ~Outranks(list[j], list[i])
    <3>1. Rank(exec)[list[i]] <= Rank(exec)[list[j]]
      BY <2>1, <2>3, <2>5 DEF Sorted
    <3>2. list[i] \in Tasks /\ list[j] \in Tasks
      BY <2>3
    <3> QED
      BY <2>2, <3>1, <3>2 DEF Rank, Outranks
  <2>6. \A u \in Tasks : exec.tc[u].State = "run" => Runs(u)
    BY <2>1 DEF OneRuns, Runs
  <2> QED
    BY <2>4, <2>5, <2>6 DEF ReadyListRight, list
<1> QED
  BY <1>1, SpecIInv, PTL

(* Wait() and Signal() never leave a task asleep on a signal it has.       *)
THEOREM SpecNoLostSignal == Spec => []NoLostSignal
<1>1. IInv => NoLostSignal
  BY DEF IInv, Good, Fit, Sound, SleepsRightly, NoLostSignal
<1> QED
  BY <1>1, SpecIInv, PTL

(* Wait() and the scheduler give every task its own nest counts back.      *)
THEOREM SpecNestCountsAreMine == Spec => []NestCountsAreMine
<1>1. IInv => NestCountsAreMine
  BY DEF IInv, Good, Nested, Mine, NestCountsAreMine
<1> QED
  BY <1>1, SpecIInv, PTL

(* However a switch was put off, it has been made by the time the running  *)
(* task is back from its calls with switching and interrupts enabled.      *)
THEOREM SpecPriorityHonoured == Spec => []PriorityHonoured
<1>1. IInv => PriorityHonoured
  <2> SUFFICES ASSUME IInv, ~exec.idle, at[exec.ThisTask] = "user",
                      exec.IDNestCnt < 0, exec.TDNestCnt < 0, ~exec.lowered,
                      NEW u \in Tasks, exec.tc[u].State = "ready"
               PROVE  ~Outranks(u, exec.ThisTask)
    BY DEF PriorityHonoured
  <2>1. Highest(exec) /\ exec \in Machine
    BY DEF IInv, Good, Fit, Sound
  <2>2. exec.tc[u].Pri \in Int /\ exec.tc[exec.ThisTask].Pri \in Int
    BY <2>1, MachineFields
  <2> QED
    BY <2>1, <2>2 DEF Highest, Outranks
<1> QED
  BY <1>1, SpecIInv, PTL

(* Forbid() and Disable() keep the processor: no step but the task's own   *)
(* Wait(), its RemTask() or the call that undoes the last of them takes    *)
(* it away.                                                                *)
THEOREM SpecKeepsProcessor == Spec => KeepsProcessor
<1>1. IInv /\ [Next]_vars
        => [\A t \in Tasks :
              Runs(t) /\ (own[t].id > 0 \/ own[t].td > 0) /\ exec.tc[t].State = "run"
                => \/ Runs(t)' /\ exec'.tc[t].State \in {"run", "removed"}
                   \/ at'[t] = "wait"
                   \/ own'[t] = NoNest]_vars
  BY NextIInv DEF Kept
<1> QED
  BY <1>1, SpecIInv, PTL DEF Spec, KeepsProcessor
=============================================================================
