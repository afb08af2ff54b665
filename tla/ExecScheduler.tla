--------------------------- MODULE ExecScheduler ---------------------------
(***************************************************************************)
(* Tasks, signals and the scheduler of exec.library and kernel.resource on *)
(* one processor (the build without __AROSEXEC_SMP__): Forbid, Permit,     *)
(* Disable, Enable, Wait, Signal, SetTaskPri, Reschedule, NewAddTask,      *)
(* RemTask, Cause, and the interrupts that run between them.               *)
(*                                                                         *)
(* `exec' is what SysBase and the task structures hold.  The operators     *)
(* named after a function map a value of it to the value the function      *)
(* leaves.  An interrupt, with the software interrupts and the scheduling  *)
(* that end it, is one step; it comes between any two steps of a task that *)
(* runs with interrupts enabled.  What a task does inside Disable() is one *)
(* step, and the test of SCHEDSWITCH that follows the KrnSti() of Enable() *)
(* and the decrement of Permit() is another one.                           *)
(*                                                                         *)
(* Task exceptions (TF_EXCEPT) and stack checks are left out; TaskWait is  *)
(* the set of the tasks whose state is "wait".                             *)
(***************************************************************************)
EXTENDS Integers, Sequences, FiniteSets, SequencesExt

CONSTANTS Tasks,
          Signals,
          Priorities,
          Quantum,      \* SysBase->Quantum: VBlanks a task may run
          MaxNest,      \* bound on a task's nested Forbid()s and Disable()s
          Nesters,      \* the tasks that call Forbid() and Disable()
          Renicers      \* the tasks that call SetTaskPri()

ASSUME SchedulerAssumption == /\ Priorities \subseteq Int /\ 0 \in Priorities
                              /\ Quantum \in Nat \ {0}
                              /\ MaxNest \in Nat
                              /\ Nesters \subseteq Tasks /\ Renicers \subseteq Tasks

VARIABLES exec,   \* ExecBase and the task structures
          at,     \* where each task is in its code
          own     \* ghost: the Forbid()s and Disable()s each task has open

vars == <<exec, at, own>>

TaskStates == {"run", "ready", "wait", "removed", "invalid"}

\* "user": between calls; "wait": in Wait(); "check": about to test SCHEDSWITCH
\* in Enable() or Permit(); "removing": in RemTask().
Places == {"user", "wait", "check", "removing"}

TaskStructure == [State : TaskStates, Pri : Priorities, SigRecvd : SUBSET Signals,
                  SigWait : SUBSET Signals, IDNestCnt : Int, TDNestCnt : Int]

NewTask(pri) == [State |-> "ready", Pri |-> pri, SigRecvd |-> {}, SigWait |-> {},
                 IDNestCnt |-> -1, TDNestCnt |-> -1]

NoNest == [id |-> 0, td |-> 0]

TypeOK ==
  /\ exec.ThisTask \in Tasks
  /\ exec.idle \in BOOLEAN
  /\ exec.TaskReady \in Seq(Tasks)
  /\ exec.IDNestCnt \in -1 .. MaxNest + 1
  /\ exec.TDNestCnt \in -1 .. MaxNest
  /\ exec.Elapsed \in 0 .. Quantum
  /\ {exec.QuantumOver, exec.AttnSwitch, exec.SoftInt, exec.lowered} \subseteq BOOLEAN
  /\ exec.tc \in [Tasks -> TaskStructure]
  /\ at \in [Tasks -> Places]
  /\ own \in [Tasks -> [id : 0 .. MaxNest, td : 0 .. MaxNest]]

\* The boot task runs, the only one there is; multitasking is on.  `lowered' is a ghost: since
\* it was dispatched the running task has lowered its own priority.
Init ==
  /\ \E boot \in Tasks :
       exec = [ThisTask |-> boot, idle |-> FALSE, TaskReady |-> <<>>,
               IDNestCnt |-> -1, TDNestCnt |-> -1,
               Elapsed |-> Quantum, QuantumOver |-> FALSE, AttnSwitch |-> FALSE,
               SoftInt |-> FALSE, lowered |-> FALSE,
               tc |-> [u \in Tasks |->
                         [NewTask(0) EXCEPT !.State = IF u = boot THEN "run" ELSE "invalid"]]]
  /\ at = [u \in Tasks |-> "user"]
  /\ own = [u \in Tasks |-> NoNest]

---------------------------------------------------------------------------
(* The lists *)

\* Enqueue() on TaskReady: before the first task with a lower priority.
Enqueue(m, t) ==
  LET lower == {i \in 1 .. Len(m.TaskReady) : m.tc[m.TaskReady[i]].Pri < m.tc[t].Pri}
      place == Min(lower \cup {Len(m.TaskReady) + 1})
  IN  [m EXCEPT !.TaskReady = InsertAt(@, place, t)]

Unlink(m, t) == [m EXCEPT !.TaskReady = RemoveFirst(@, t)]

MakeReady(m, t) == Enqueue([m EXCEPT !.tc[t].State = "ready"], t)

---------------------------------------------------------------------------
(* The scheduler *)

\* core_Schedule(): is there to be another task?
Schedules(m) ==
  LET this == m.tc[m.ThisTask]
  IN  /\ this.State # "removed"
      /\ m.TaskReady # <<>>
      /\ m.tc[Head(m.TaskReady)].Pri > this.Pri \/ m.QuantumOver

\* core_Switch(): put the running task where its state says.
Switch(m) ==
  LET saved == [m EXCEPT !.tc[m.ThisTask].IDNestCnt = m.IDNestCnt]
  IN  IF m.tc[m.ThisTask].State \in {"wait", "removed"} THEN saved
      ELSE MakeReady(saved, m.ThisTask)

\* core_Dispatch(): run the first ready task, or sleep.
Dispatch(m) ==
  IF m.TaskReady = <<>> THEN [m EXCEPT !.idle = TRUE, !.AttnSwitch = TRUE]
  ELSE LET next == Head(m.TaskReady)
       IN  [m EXCEPT !.TaskReady = Tail(@), !.idle = FALSE,
                     !.ThisTask = next, !.tc[next].State = "run",
                     !.IDNestCnt = m.tc[next].IDNestCnt,
                     !.Elapsed = Quantum, !.QuantumOver = FALSE,
                     !.lowered = FALSE]

\* The system call SC_SCHEDULE.
KrnSchedule(m) ==
  LET seen == [m EXCEPT !.AttnSwitch = FALSE]
  IN  IF Schedules(m) THEN Dispatch(Switch(seen)) ELSE seen

\* Mutant: Forbid() is not looked at.
LeaveInterruptAnyway(m) == IF m.AttnSwitch THEN KrnSchedule(m) ELSE m

\* The end of core_ExitInterrupt().
LeaveInterrupt(m) ==
  IF m.TDNestCnt < 0 /\ m.AttnSwitch THEN KrnSchedule(m) ELSE m

\* Mutant: under Forbid() the request is forgotten.
RescheduleIfPermitted(m) == IF m.TDNestCnt < 0 THEN [m EXCEPT !.AttnSwitch = TRUE] ELSE m

\* Reschedule() under Disable(), which is how every function below calls it.
RescheduleLater(m) == [m EXCEPT !.AttnSwitch = TRUE]

\* Mutant: the test comes before the signal is set.
SignalTestedFirst(m, u, sig) ==
  LET sent  == [m EXCEPT !.tc[u].SigRecvd = @ \cup {sig}]
      wakes == m.tc[u].State = "wait" /\ m.tc[u].SigRecvd \cap m.tc[u].SigWait # {}
  IN  IF wakes THEN RescheduleLater(MakeReady(sent, u)) ELSE sent

\* Signal(), between its Disable() and its Enable().
Signal(m, u, sig) ==
  LET sent   == [m EXCEPT !.tc[u].SigRecvd = @ \cup {sig}]
      wakes  == sent.tc[u].State = "wait" /\ sent.tc[u].SigRecvd \cap sent.tc[u].SigWait # {}
      this   == m.tc[m.ThisTask]
  IN  CASE ~wakes -> sent
        [] wakes /\ m.tc[u].Pri >= this.Pri /\ this.State = "run"
             -> RescheduleLater(MakeReady(sent, u))
        [] OTHER -> MakeReady(sent, u)

\* SoftIntDispatch(): the handlers of the software interrupts signal tasks.
SoftInts(m) ==
  IF ~m.SoftInt THEN {m}
  ELSE LET done == [m EXCEPT !.SoftInt = FALSE]
       IN  {done} \cup {Signal(done, u, sig) : u \in Tasks, sig \in Signals}

\* core_ExitInterrupt()
ExitInterrupt(m) == {LeaveInterrupt(x) : x \in SoftInts(m)}

\* Enable(), up to the test of SCHEDSWITCH, in a task that had called Disable().
Enable(m) ==
  LET open == [m EXCEPT !.IDNestCnt = @ - 1]
  IN  IF open.IDNestCnt < 0 /\ open.SoftInt THEN ExitInterrupt(open) ELSE {open}

Disable(m) == [m EXCEPT !.IDNestCnt = @ + 1]

Runs(t) == ~exec.idle /\ exec.ThisTask = t

\* The task goes on to the last test in Enable() or Permit().
Check(t) == at' = [at EXCEPT ![t] = "check"]

---------------------------------------------------------------------------
(* What a task does *)

Calls(t) == Runs(t) /\ at[t] = "user"

ForbidCall(t) ==
  /\ Calls(t)
  /\ t \in Nesters /\ own[t].td < MaxNest
  /\ exec' = [exec EXCEPT !.TDNestCnt = @ + 1]
  /\ own' = [own EXCEPT ![t].td = @ + 1]
  /\ UNCHANGED at

PermitCall(t) ==
  /\ Calls(t)
  /\ own[t].td > 0
  /\ exec' = [exec EXCEPT !.TDNestCnt = @ - 1]
  /\ own' = [own EXCEPT ![t].td = @ - 1]
  /\ Check(t)

DisableCall(t) ==
  /\ Calls(t)
  /\ t \in Nesters /\ own[t].id < MaxNest
  /\ exec' = Disable(exec)
  /\ own' = [own EXCEPT ![t].id = @ + 1]
  /\ UNCHANGED at

EnableCall(t) ==
  /\ Calls(t)
  /\ own[t].id > 0
  /\ exec' \in Enable(exec)
  /\ own' = [own EXCEPT ![t].id = @ - 1]
  /\ Check(t)

\* The last test of Enable() and of Permit().
CheckSwitch(t) ==
  /\ Runs(t)
  /\ at[t] = "check"
  /\ exec' = IF exec.TDNestCnt < 0 /\ exec.IDNestCnt < 0 /\ exec.AttnSwitch
             THEN KrnSchedule(exec) ELSE exec
  /\ at' = [at EXCEPT ![t] = "user"]
  /\ UNCHANGED own

\* A turn of the loop of Wait(), and what follows it when a signal is there.
Await(t, m, mask) ==
  LET this == m.tc[t]
      asleep == [m EXCEPT !.tc[t] = [this EXCEPT !.SigWait = mask, !.State = "wait",
                                                 !.TDNestCnt = m.TDNestCnt],
                          !.TDNestCnt = -1]
  IN  IF this.SigRecvd \cap mask = {}
      THEN exec' = Dispatch(Switch(asleep)) /\ at' = [at EXCEPT ![t] = "wait"]
      ELSE exec' \in Enable([m EXCEPT !.tc[t].SigRecvd = @ \ mask]) /\ Check(t)

WaitCall(t) ==
  /\ Calls(t)
  /\ \E mask \in SUBSET Signals \ {{}} : Await(t, Disable(exec), mask)
  /\ UNCHANGED own

\* Mutant: the count stays as Wait() left it for the others.
KeepTDNest(t) == exec

\* Wait() goes on, with interrupts disabled again, where it was switched away.
RestoreTDNest(t) == [exec EXCEPT !.TDNestCnt = exec.tc[t].TDNestCnt]

WaitAwake(t) ==
  /\ Runs(t)
  /\ at[t] = "wait"
  /\ Await(t, RestoreTDNest(t), exec.tc[t].SigWait)
  /\ UNCHANGED own

SignalCall(t) ==
  /\ Calls(t)
  /\ \E u \in Tasks, sig \in Signals : exec' \in Enable(Signal(Disable(exec), u, sig))
  /\ Check(t)
  /\ UNCHANGED own

\* Mutant: a ready task keeps its place in the list.
SetTaskPriInPlace(m, u, pri) ==
  LET set == [m EXCEPT !.tc[u].Pri = pri,
                       !.lowered = @ \/ (u = m.ThisTask /\ pri < m.tc[u].Pri)]
  IN  IF m.tc[u].State # "wait" /\ pri > set.tc[m.ThisTask].Pri
      THEN RescheduleLater(set) ELSE set

\* SetTaskPri(), between its Disable() and its Enable().
SetTaskPri(m, u, pri) ==
  LET old    == m.tc[u].Pri
      set    == [m EXCEPT !.tc[u].Pri = pri,
                          !.lowered = @ \/ (u = m.ThisTask /\ pri < old)]
      sorted == IF m.tc[u].State = "ready" THEN Enqueue(Unlink(set, u), u) ELSE set
  IN  IF m.tc[u].State # "wait" /\ pri > set.tc[m.ThisTask].Pri
      THEN RescheduleLater(sorted) ELSE sorted

SetTaskPriCall(t) ==
  /\ Calls(t)
  /\ t \in Renicers
  /\ \E u \in Tasks, pri \in Priorities :
       /\ exec.tc[u].State \in {"run", "ready", "wait"}
       /\ exec' \in Enable(SetTaskPri(Disable(exec), u, pri))
  /\ Check(t)
  /\ UNCHANGED own

\* Reschedule(), called by a task.
RescheduleCall(t) ==
  /\ Calls(t)
  /\ LET asked == RescheduleLater(exec)
     IN  exec' = IF exec.TDNestCnt < 0 /\ exec.IDNestCnt < 0 THEN KrnSchedule(asked) ELSE asked
  /\ UNCHANGED <<at, own>>

\* Cause() of an Interrupt: the flag, if the node was not queued already.
Cause(m) == [m EXCEPT !.SoftInt = TRUE]

CauseCall(t) ==
  /\ Calls(t)
  /\ exec' \in Enable(Cause(Disable(exec)))
  /\ Check(t)
  /\ UNCHANGED own

\* NewAddTask(), from its Disable() on, with a task structure not in use.
AddTask(m, u, pri) ==
  LET added == Enqueue([m EXCEPT !.tc[u] = NewTask(pri)], u)
  IN  IF pri > m.tc[m.ThisTask].Pri THEN RescheduleLater(added) ELSE added

AddTaskCall(t) ==
  /\ Calls(t)
  /\ \E u \in Tasks, pri \in Priorities :
       /\ u # t
       /\ exec.tc[u].State \in {"removed", "invalid"}
       /\ exec' \in Enable(AddTask(Disable(exec), u, pri))
       /\ at' = [at EXCEPT ![t] = "check", ![u] = "user"]
       /\ own' = [own EXCEPT ![u] = NoNest]

\* RemTask(): Forbid(), and the task is removed; another one leaves its list.
RemTaskCall(t) ==
  /\ Calls(t)
  /\ \E u \in Tasks :
       /\ exec.tc[u].State \in {"run", "ready", "wait"}
       /\ exec' = Unlink([exec EXCEPT !.tc[u].State = "removed", !.TDNestCnt = @ + 1], u)
  /\ at' = [at EXCEPT ![t] = "removing"]
  /\ UNCHANGED own

\* CleanupETask() and InternalPutMsg() signal the parent and the service task.
RemTaskSignals(t) ==
  /\ Runs(t)
  /\ at[t] = "removing"
  /\ \E u \in Tasks, sig \in Signals : exec' \in Enable(Signal(Disable(exec), u, sig))
  /\ UNCHANGED <<at, own>>

\* The end of RemTask() for the task itself, which never runs again.
RemTaskSelf(t) ==
  /\ Runs(t)
  /\ at[t] = "removing"
  /\ exec.tc[t].State = "removed"
  /\ exec' = Dispatch([exec EXCEPT !.IDNestCnt = @ + 1, !.TDNestCnt = -1,
                                   !.tc[t].State = "invalid"])
  /\ at' = [at EXCEPT ![t] = "user"]
  /\ own' = [own EXCEPT ![t] = NoNest]

\* The Permit() that ends RemTask() for another task.
RemTaskOther(t) ==
  /\ Runs(t)
  /\ at[t] = "removing"
  /\ exec.tc[t].State = "run"
  /\ exec' = [exec EXCEPT !.TDNestCnt = @ - 1]
  /\ Check(t)
  /\ UNCHANGED own

---------------------------------------------------------------------------
(* Interrupts *)

\* Mutants: the count goes on below zero; the end of a quantum asks for no switch.
VBlankUnbounded(m) ==
  IF m.Elapsed = 1 THEN [m EXCEPT !.Elapsed = 0, !.QuantumOver = TRUE, !.AttnSwitch = TRUE]
  ELSE [m EXCEPT !.Elapsed = @ - 1]

VBlankQuiet(m) ==
  IF m.Elapsed = 0 THEN m
  ELSE [m EXCEPT !.Elapsed = @ - 1, !.QuantumOver = (m.Elapsed = 1)]

\* VBlankServer
VBlank(m) ==
  LET left == [m EXCEPT !.Elapsed = @ - 1]
  IN  CASE m.Elapsed = 0 -> m
        [] m.Elapsed > 1 -> left
        [] OTHER         -> [left EXCEPT !.QuantumOver = TRUE, !.AttnSwitch = TRUE]

\* An interrupt ends in core_ExitInterrupt() when it came to a task, and in
\* another core_Dispatch() when the processor slept in cpu_Dispatch().
Interrupt(m) ==
  /\ exec.idle \/ exec.IDNestCnt < 0
  /\ IF exec.idle THEN \E x \in SoftInts(m) : exec' = Dispatch(x)
     ELSE exec' \in ExitInterrupt(m)
  /\ UNCHANGED <<at, own>>

VBlankInterrupt == Interrupt(VBlank(exec))

SignalInterrupt == \E u \in Tasks, sig \in Signals : Interrupt(Signal(exec, u, sig))

CauseInterrupt == Interrupt(Cause(exec))

---------------------------------------------------------------------------
TaskStep(t) ==
  \/ ForbidCall(t) \/ PermitCall(t) \/ DisableCall(t) \/ EnableCall(t) \/ CheckSwitch(t)
  \/ WaitCall(t) \/ WaitAwake(t) \/ SignalCall(t) \/ SetTaskPriCall(t) \/ RescheduleCall(t)
  \/ CauseCall(t) \/ AddTaskCall(t) \/ RemTaskCall(t) \/ RemTaskSignals(t)
  \/ RemTaskSelf(t) \/ RemTaskOther(t)

Next == (\E t \in Tasks : TaskStep(t)) \/ VBlankInterrupt \/ SignalInterrupt \/ CauseInterrupt

Spec == Init /\ [][Next]_vars

\* A task inside a call goes on; no task keeps Disable() or Forbid(), or one or
\* the other by turns, for ever while it runs; the VBlank interrupt, latched by
\* the hardware, comes as long as interrupts are enabled again and again.
GoesOn(t) == CheckSwitch(t) \/ WaitAwake(t) \/ RemTaskSelf(t) \/ RemTaskOther(t)

Undoes(t) == EnableCall(t) \/ PermitCall(t)

UndoesLast(t) == \/ EnableCall(t) /\ own[t].td = 0
                 \/ PermitCall(t) /\ own[t].id = 0

Fairness == /\ \A t \in Tasks : /\ WF_vars(GoesOn(t))
                                /\ SF_vars(Undoes(t))
                                /\ SF_vars(UndoesLast(t))
            /\ SF_vars(VBlankInterrupt)

FairSpec == Spec /\ Fairness

---------------------------------------------------------------------------
(* Properties *)

Outranks(u, v) == exec.tc[u].Pri > exec.tc[v].Pri

\* Every ready task is in TaskReady exactly once, in descending priority and, so
\* that REMHEAD gives the right one; exactly the running task is in state "run".
\* Signal(), SetTaskPri(), NewAddTask(), RemTask(), core_Switch() and
\* core_Dispatch() all change the list.
ReadyListRight ==
  /\ \A u \in Tasks : Cardinality({i \in 1 .. Len(exec.TaskReady) : exec.TaskReady[i] = u})
                       = IF exec.tc[u].State = "ready" THEN 1 ELSE 0
  /\ \A i, j \in 1 .. Len(exec.TaskReady) :
       i < j => ~Outranks(exec.TaskReady[j], exec.TaskReady[i])
  /\ \A u \in Tasks : exec.tc[u].State = "run" => Runs(u)

\* Whenever the running task is back from its calls with task switching and
\* interrupts enabled, no ready task has a higher priority, however the switch
\* was deferred in between (Forbid, Disable, both, interrupts, soft interrupts).
\* The one exception: SetTaskPri() does not reschedule for a task that lowers
\* its own priority.
PriorityHonoured ==
  ~exec.idle /\ at[exec.ThisTask] = "user" /\ exec.IDNestCnt < 0 /\ exec.TDNestCnt < 0
    => exec.lowered \/ \A u \in Tasks : exec.tc[u].State = "ready" => ~Outranks(u, exec.ThisTask)

\* The two nest counts are those of the running task: Wait() and the scheduler
\* give every task its own counts back, whatever the others did meanwhile.
NestCountsAreMine ==
  ~exec.idle /\ at[exec.ThisTask] = "user" =>
    /\ exec.IDNestCnt = own[exec.ThisTask].id - 1
    /\ exec.TDNestCnt = own[exec.ThisTask].td - 1

\* No task sleeps in Wait() on a signal it has already received.
NoLostSignal ==
  \A u \in Tasks : exec.tc[u].State = "wait" => exec.tc[u].SigRecvd \cap exec.tc[u].SigWait = {}

\* A task that called Forbid() or Disable() keeps the processor until it undoes
\* that, waits, or is removed: no interrupt and no call of its own takes it away.
KeepsProcessor ==
  [][\A t \in Tasks :
       Runs(t) /\ (own[t].id > 0 \/ own[t].td > 0) /\ exec.tc[t].State = "run"
         => \/ Runs(t)' /\ exec'.tc[t].State \in {"run", "removed"}
            \/ at'[t] = "wait"
            \/ own'[t] = NoNest]_vars

\* A ready task that no running task outranks gets the processor, provided that
\* the quantum of the running task is not used up when it becomes ready.
TurnComes ==
  \A u \in Tasks :
    exec.tc[u].State = "ready" /\ exec.Elapsed > 0
      ~> exec.tc[u].State # "ready" \/ Outranks(exec.ThisTask, u)
=============================================================================
