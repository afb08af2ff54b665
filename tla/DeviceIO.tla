------------------------------ MODULE DeviceIO ------------------------------
(***************************************************************************)
(* The life of an I/O request: exec's message ports, SendIO, DoIO, WaitIO  *)
(* and WaitPort of the programs; timer.device, which answers from its      *)
(* interrupt and can abort; and sdcard.device, which hands its requests to *)
(* a task of its own.  What a caller does under Disable() or Forbid() is   *)
(* one step; ReplyMsg() of the bus task and PutMsg() to it are more.  The  *)
(* bus task has a higher priority than the programs, but for `Preempts'.   *)
(*                                                                         *)
(* IOF_QUICK tells DoIO() whether to wait, nothing else, and io_Error is   *)
(* not looked at.  A time is kept as what is left of it, in VBlanks.       *)
(***************************************************************************)
EXTENDS Integers, Sequences, FiniteSets, SequencesExt

CONSTANTS Tasks,          \* the programs
          Ports,          \* their reply ports
          PortTask,       \* the task of each
          UnitPort,       \* the port of the bus task
          UnitRequests,   \* the requests opened for an SD card
          TimerRequests,  \* the requests opened for timer.device
          Timeouts,       \* those of them with a port of their own, for sdcard_WaitTO()
          ReplyPort,      \* the reply port of each request
          Preempts,       \* the tasks that may run while the bus task is ready
          MaxTime,        \* the longest time asked for
          None            \* no request

Requests == UnitRequests \cup TimerRequests

ASSUME DeviceAssumption ==
  /\ PortTask \in [Ports -> Tasks] /\ ReplyPort \in [Requests -> Ports]
  /\ UnitPort \notin Ports /\ None \notin Requests
  /\ UnitRequests \cap TimerRequests = {} /\ Timeouts \subseteq TimerRequests
  /\ \A r \in Timeouts, s \in Requests : ReplyPort[s] = ReplyPort[r] => s = r
  /\ Preempts \subseteq Tasks
  /\ MaxTime \in Nat

VARIABLES type,       \* ln_Type of each request
          command,    \* io_Command of those for the SD card
          left,       \* the time left of those for the timer
          mpMsgList,  \* the messages at each port
          sigRecvd,   \* is the signal of the port set in its task?
          timeList,   \* tb_Lists
          handling,   \* is the VBlank handler running?
          bus,        \* where the bus task is, and its request
          at,         \* where each program is: the call, its step, the request
          sent        \* the requests that a program has sent and not taken back

vars == <<type, command, left, mpMsgList, sigRecvd, timeList, handling, bus, at, sent>>

Lists == {"MICROHZ", "VBLANK", "WAITUNTIL"}

Program == [call |-> "none", step |-> "run", req |-> None]

Places ==
  [call : {"SendIO", "DoIO"}, step : {"signal"}, req : UnitRequests]
  \cup [call : {"DoIO", "WaitIO"}, step : {"check", "wait", "remove"}, req : Requests]
  \cup [call : {"WaitPort"}, step : {"look", "sleep"}, req : Requests]
  \cup [call : {"WaitTO"}, req : Timeouts,
        step : {"timeout", "late", "abort", "check", "wait", "remove", "clear"}]

Hardware == {"command", "stopping", "lost"}

BusSteps == {"work", "answered", "flush", "reply", "link", "signal"} \cup Hardware

TypeOK ==
  /\ type \in [Requests -> {"none", "message", "reply"}]
  /\ command \in [UnitRequests -> {"transfer", "flush"}]
  /\ left \in [TimerRequests -> 0 .. MaxTime]
  /\ mpMsgList \in [Ports \cup {UnitPort} -> Seq(Requests)]
  /\ mpMsgList[UnitPort] \in Seq(UnitRequests)
  /\ sigRecvd \in [Ports \cup {UnitPort} -> BOOLEAN]
  /\ timeList \in [Lists -> Seq(TimerRequests)]
  /\ handling \in BOOLEAN
  /\ bus \in [step : {"wait", "get"}, req : {None}]
           \cup [step : BusSteps, req : UnitRequests]
  /\ at \in [Tasks -> {Program} \cup Places]
  /\ sent \in SUBSET Requests

---------------------------------------------------------------------------
(* Ports *)

TaskOf(r) == PortTask[ReplyPort[r]]

\* Remove() does not ask for the list and does harm to a node that is in none, which is why
\* RemovedIsLinked is a property; here it is nothing then.
Unlink(list, r) == RemoveFirst(list, r)

\* ReplyMsg() where no task can come between its steps.
Reply(r) ==
  /\ type' = [type EXCEPT ![r] = "reply"]
  /\ sigRecvd' = [sigRecvd EXCEPT ![ReplyPort[r]] = TRUE]

Replied(r) == [mpMsgList EXCEPT ![ReplyPort[r]] = Append(@, r)]

---------------------------------------------------------------------------
(* The interrupt of timer.device *)

Listed(l) == {timeList[l][i] : i \in DOMAIN timeList[l]}

\* What is left of a time when a clock has gone on, or was set ahead, by n (or back).
Less(time, n) ==
  IF time <= n THEN 0 ELSE IF time - n > MaxTime THEN MaxTime ELSE time - n

\* The clocks go on and the handler starts.
VBlank ==
  /\ ~handling
  /\ handling' = TRUE
  /\ left' = [r \in TimerRequests |->
                IF \E l \in Lists : r \in Listed(l) THEN Less(left[r], 1) ELSE left[r]]
  /\ UNCHANGED <<type, command, mpMsgList, sigRecvd, timeList, bus, at, sent>>

Due(l) == timeList[l] # << >> /\ left[Head(timeList[l])] = 0

\* The loops of TimerProcessMicroHZ() and TimerProcessVBlank(), one list after the other.
Expire(l) ==
  /\ handling
  /\ Due(l)
  /\ l = "VBLANK" => ~Due("MICROHZ")
  /\ l = "WAITUNTIL" => ~Due("MICROHZ") /\ ~Due("VBLANK")
  /\ LET r == Head(timeList[l])
     IN  Reply(r) /\ mpMsgList' = Replied(r)
  /\ timeList' = [timeList EXCEPT ![l] = Tail(@)]
  /\ UNCHANGED <<command, left, handling, bus, at, sent>>

HandlerEnds ==
  /\ handling
  /\ \A l \in Lists : ~Due(l)
  /\ handling' = FALSE
  /\ UNCHANGED <<type, command, left, mpMsgList, sigRecvd, timeList, bus, at, sent>>

Handler == HandlerEnds \/ \E l \in Lists : Expire(l)

---------------------------------------------------------------------------
(* The bus task of sdcard.device *)

BusReady ==
  \/ bus.step \in {"get", "answered", "flush", "reply", "link", "signal"}
  \/ bus.step = "wait" /\ sigRecvd[UnitPort]

BusAt(step) == bus.step = step /\ ~handling

BusTo(step) == bus' = [bus EXCEPT !.step = step]

BusWait ==
  /\ BusAt("wait")
  /\ sigRecvd[UnitPort]
  /\ sigRecvd' = [sigRecvd EXCEPT ![UnitPort] = FALSE]
  /\ BusTo("get")
  /\ UNCHANGED <<type, command, left, mpMsgList, timeList, handling, at, sent>>

BusGet ==
  /\ BusAt("get")
  /\ IF mpMsgList[UnitPort] = << >>
     THEN BusTo("wait") /\ UNCHANGED mpMsgList
     ELSE LET r == Head(mpMsgList[UnitPort])
          IN  /\ bus' = [step |-> IF command[r] = "flush" THEN "flush" ELSE "work", req |-> r]
              /\ mpMsgList' = [mpMsgList EXCEPT ![UnitPort] = Tail(@)]
  /\ UNCHANGED <<type, command, left, sigRecvd, timeList, handling, at, sent>>

\* HandleIO() sends a command to the card and goes to sleep in WaitCmd(), or is done at
\* once: a command without a transfer, or a controller that stays inhibited.
BusSendCmd ==
  /\ BusAt("work")
  /\ BusTo("command") \/ BusTo("reply")
  /\ UNCHANGED <<type, command, left, mpMsgList, sigRecvd, timeList, handling, at, sent>>

\* BusIRQ() signals the bus task for a response; for an error it resets the controller and
\* does not.  WaitCmd() has no timeout then: the task sleeps for ever.
BusIRQ ==
  /\ ~handling
  /\ \/ bus.step = "command" /\ BusTo("answered")
     \/ bus.step = "stopping" /\ BusTo("reply")
     \/ bus.step \in {"command", "stopping"} /\ BusTo("lost")
  /\ UNCHANGED <<type, command, left, mpMsgList, sigRecvd, timeList, handling, at, sent>>

\* After a transfer of several blocks the card is told to stop, and WaitCmd() called also
\* where SendCmd() has failed.
BusFinish ==
  /\ BusAt("answered")
  /\ BusTo("reply") \/ BusTo("stopping") \/ BusTo("lost")
  /\ UNCHANGED <<type, command, left, mpMsgList, sigRecvd, timeList, handling, at, sent>>

\* cmd_Flush(), under Forbid().
BusFlush ==
  /\ BusAt("flush")
  /\ IF mpMsgList[UnitPort] = << >>
     THEN BusTo("reply") /\ UNCHANGED <<type, sigRecvd, mpMsgList>>
     ELSE LET r == Head(mpMsgList[UnitPort])
          IN  /\ Reply(r)
              /\ mpMsgList' = [Replied(r) EXCEPT ![UnitPort] = Tail(@)]
              /\ UNCHANGED bus
  /\ UNCHANGED <<command, left, timeList, handling, at, sent>>

\* ReplyMsg() in three steps: the type, the list, the signal.
BusMark ==
  /\ BusAt("reply")
  /\ type' = [type EXCEPT ![bus.req] = "reply"]
  /\ BusTo("link")
  /\ UNCHANGED <<command, left, mpMsgList, sigRecvd, timeList, handling, at, sent>>

BusLink ==
  /\ BusAt("link")
  /\ mpMsgList' = Replied(bus.req)
  /\ BusTo("signal")
  /\ UNCHANGED <<type, command, left, sigRecvd, timeList, handling, at, sent>>

\* Mutant: the signal only for the first message at the port.
SignalIfEmpty ==
  /\ BusAt("signal")
  /\ sigRecvd' = [sigRecvd EXCEPT ![ReplyPort[bus.req]] =
                     @ \/ Len(mpMsgList[ReplyPort[bus.req]]) = 1]
  /\ bus' = [step |-> "get", req |-> None]
  /\ UNCHANGED <<type, command, left, mpMsgList, timeList, handling, at, sent>>

BusSignal ==
  /\ BusAt("signal")
  /\ sigRecvd' = [sigRecvd EXCEPT ![ReplyPort[bus.req]] = TRUE]
  /\ bus' = [step |-> "get", req |-> None]
  /\ UNCHANGED <<type, command, left, mpMsgList, timeList, handling, at, sent>>

BusStep ==
  \/ BusWait \/ BusGet \/ BusSendCmd \/ BusFinish \/ BusFlush
  \/ BusMark \/ BusLink \/ BusSignal

---------------------------------------------------------------------------
(* The programs *)

Runs(c) ==
  /\ ~handling
  /\ ~BusReady \/ (c \in Preempts /\ bus.step # "flush")

Calls(c) == Runs(c) /\ at[c] = Program

Step(c, step) == Runs(c) /\ at[c].step = step

Goes(c, step) == at' = [at EXCEPT ![c].step = step]

Returns(c) == at' = [at EXCEPT ![c] = Program]

\* The program goes on, or in DoIO() waits for the request.
Begun(c, call, r) ==
  at' = [at EXCEPT ![c] =
           CASE call = "SendIO" -> Program
             [] call = "DoIO"   -> [call |-> call, step |-> "check", req |-> r]
             [] call = "WaitTO" -> [call |-> call, step |-> "timeout", req |-> r]]

MaySend(c, r, call) ==
  /\ Calls(c) /\ TaskOf(r) = c
  /\ r \notin sent
  /\ call = "WaitTO" <=> r \in Timeouts

\* SendIO() or DoIO() to an SD card, up to AddTail() in PutMsg().
BeginUnit(c, r, cmd, call) ==
  /\ MaySend(c, r, call)
  /\ sent' = sent \cup {r}
  /\ type' = [type EXCEPT ![r] = "message"]
  /\ command' = [command EXCEPT ![r] = cmd]
  /\ mpMsgList' = [mpMsgList EXCEPT ![UnitPort] = Append(@, r)]
  /\ at' = [at EXCEPT ![c] = [call |-> call, step |-> "signal", req |-> r]]
  /\ UNCHANGED <<left, sigRecvd, timeList, handling, bus>>

SignalUnit(c) ==
  /\ Step(c, "signal")
  /\ sigRecvd' = [sigRecvd EXCEPT ![UnitPort] = TRUE]
  /\ Begun(c, at[c].call, at[c].req)
  /\ UNCHANGED <<type, command, left, mpMsgList, timeList, handling, bus, sent>>

\* Mutant: a request is added at the end of the list.
InsertLast(list, r, time) == Append(list, r)

\* addToWaitList()
Insert(list, r, time) ==
  LET later == {i \in DOMAIN list : left[list[i]] > time}
      place == IF later = {} THEN Len(list) + 1 ELSE CHOOSE i \in later : \A j \in later : i <= j
  IN  InsertAt(list, place, r)

\* TR_ADDREQUEST that has to wait.
AddRequest(c, r, l, time, call) ==
  /\ MaySend(c, r, call)
  /\ l = "WAITUNTIL" => time > 0
  /\ sent' = sent \cup {r}
  /\ type' = [type EXCEPT ![r] = "message"]
  /\ left' = [left EXCEPT ![r] = time]
  /\ timeList' = [timeList EXCEPT ![l] = Insert(@, r, time)]
  /\ Begun(c, call, r)
  /\ UNCHANGED <<command, mpMsgList, sigRecvd, handling, bus>>

\* A command that timer.device answers at once, for SendIO(); TR_SETSYSTIME sets the clock
\* `ahead'.  DoIO() of such a command comes back with IOF_QUICK.
Immediate(c, r, ahead, call) ==
  /\ MaySend(c, r, call)
  /\ left' = [s \in TimerRequests |->
                IF s \in Listed("WAITUNTIL") THEN Less(left[s], ahead) ELSE left[s]]
  /\ IF call = "SendIO"
     THEN sent' = sent \cup {r} /\ Reply(r) /\ mpMsgList' = Replied(r)
     ELSE /\ type' = [type EXCEPT ![r] = "message"]
          /\ UNCHANGED <<sent, sigRecvd, mpMsgList>>
  /\ UNCHANGED <<command, timeList, handling, bus, at>>

\* Mutant: AbortIO() does not look at ln_Type.
AbortAnyway(r) ==
  /\ left' = [left EXCEPT ![r] = 0]
  /\ timeList' = [l \in Lists |-> Unlink(timeList[l], r)]
  /\ Reply(r) /\ mpMsgList' = Replied(r)

\* AbortIO() of timer.device.
AbortRequest(r) ==
  IF type[r] = "reply" THEN UNCHANGED <<type, left, sigRecvd, mpMsgList, timeList>>
  ELSE /\ left' = [left EXCEPT ![r] = 0]
       /\ timeList' = [l \in Lists |-> Unlink(timeList[l], r)]
       /\ Reply(r) /\ mpMsgList' = Replied(r)

AbortIO(c, r) ==
  /\ Calls(c) /\ TaskOf(r) = c
  /\ r \in sent
  /\ AbortRequest(r)
  /\ UNCHANGED <<command, handling, bus, at, sent>>

WaitIO(c, r) ==
  /\ Calls(c) /\ TaskOf(r) = c
  /\ r \in sent
  /\ at' = [at EXCEPT ![c] = [call |-> "WaitIO", step |-> "check", req |-> r]]
  /\ UNCHANGED <<type, command, left, mpMsgList, sigRecvd, timeList, handling, bus, sent>>

CheckRequest(c) ==
  /\ Step(c, "check")
  /\ Goes(c, IF type[at[c].req] = "message" THEN "wait" ELSE "remove")
  /\ UNCHANGED <<type, command, left, mpMsgList, sigRecvd, timeList, handling, bus, sent>>

\* Mutant: WaitIO() waits once.
WakesOnce(c, from, to) ==
  LET port == ReplyPort[at[c].req]
  IN  /\ Step(c, from)
      /\ sigRecvd[port]
      /\ sigRecvd' = [sigRecvd EXCEPT ![port] = FALSE]
      /\ Goes(c, IF from = "wait" THEN "remove" ELSE to)
      /\ UNCHANGED <<type, command, left, mpMsgList, timeList, handling, bus, sent>>

\* Wait() for the signal of the port in WaitIO(), and in WaitPort().
Wakes(c, from, to) ==
  LET port == ReplyPort[at[c].req]
  IN  /\ Step(c, from)
      /\ sigRecvd[port]
      /\ sigRecvd' = [sigRecvd EXCEPT ![port] = FALSE]
      /\ Goes(c, to)
      /\ UNCHANGED <<type, command, left, mpMsgList, timeList, handling, bus, sent>>

\* Mutant: sdcard_WaitTO() ends with WaitIO().
RemoveAndReturn(c) ==
  LET r == at[c].req
  IN  /\ Step(c, "remove")
      /\ mpMsgList' = [mpMsgList EXCEPT ![ReplyPort[r]] = Unlink(@, r)]
      /\ sent' = sent \ {r}
      /\ Returns(c)
      /\ UNCHANGED <<type, command, left, sigRecvd, timeList, handling, bus>>

\* Mutant: every WaitIO() clears the signal.
RemoveAndClear(c) ==
  LET r == at[c].req
  IN  /\ Step(c, "remove")
      /\ mpMsgList' = [mpMsgList EXCEPT ![ReplyPort[r]] = Unlink(@, r)]
      /\ sent' = sent \ {r}
      /\ Goes(c, "clear")
      /\ UNCHANGED <<type, command, left, sigRecvd, timeList, handling, bus>>

RemoveRequest(c) ==
  LET r == at[c].req
  IN  /\ Step(c, "remove")
      /\ mpMsgList' = [mpMsgList EXCEPT ![ReplyPort[r]] = Unlink(@, r)]
      /\ sent' = sent \ {r}
      /\ IF at[c].call = "WaitTO" THEN Goes(c, "clear") ELSE Returns(c)
      /\ UNCHANGED <<type, command, left, sigRecvd, timeList, handling, bus>>

\* Mutant: WaitPort() waits before it looks.
WaitPortFirst(c, r) ==
  /\ Calls(c) /\ TaskOf(r) = c
  /\ r \in sent
  /\ at' = [at EXCEPT ![c] = [call |-> "WaitPort", step |-> "sleep", req |-> r]]
  /\ UNCHANGED <<type, command, left, mpMsgList, sigRecvd, timeList, handling, bus, sent>>

\* WaitPort() at a port with a request to come.
WaitPort(c, r) ==
  /\ Calls(c) /\ TaskOf(r) = c
  /\ r \in sent
  /\ at' = [at EXCEPT ![c] = [call |-> "WaitPort", step |-> "look", req |-> r]]
  /\ UNCHANGED <<type, command, left, mpMsgList, sigRecvd, timeList, handling, bus, sent>>

LookAtPort(c) ==
  /\ Step(c, "look")
  /\ IF mpMsgList[ReplyPort[at[c].req]] = << >> THEN Goes(c, "sleep") ELSE Returns(c)
  /\ UNCHANGED <<type, command, left, mpMsgList, sigRecvd, timeList, handling, bus, sent>>

GetMsg(c, p) ==
  /\ Calls(c) /\ PortTask[p] = c
  /\ mpMsgList[p] # << >>
  /\ sent' = sent \ {Head(mpMsgList[p])}
  /\ mpMsgList' = [mpMsgList EXCEPT ![p] = Tail(@)]
  /\ UNCHANGED <<type, command, left, sigRecvd, timeList, handling, bus, at>>

\* sdcard_WaitTO() waits for the timer or for the task's other ports.
TimeoutOrSignal(c) ==
  LET timer == ReplyPort[at[c].req]
      mask  == {p \in Ports : PortTask[p] = c}
  IN  /\ Step(c, "timeout")
      /\ \E p \in mask : sigRecvd[p]
      /\ sigRecvd' = [p \in Ports \cup {UnitPort} |-> sigRecvd[p] /\ p \notin mask]
      /\ Goes(c, IF sigRecvd[timer] THEN "check" ELSE "late")
      /\ UNCHANGED <<type, command, left, mpMsgList, timeList, handling, bus, sent>>

CheckTimer(c) ==
  /\ Step(c, "late")
  /\ Goes(c, IF type[at[c].req] = "message" THEN "abort" ELSE "check")
  /\ UNCHANGED <<type, command, left, mpMsgList, sigRecvd, timeList, handling, bus, sent>>

AbortTimer(c) ==
  /\ Step(c, "abort")
  /\ AbortRequest(at[c].req)
  /\ Goes(c, "check")
  /\ UNCHANGED <<command, handling, bus, sent>>

ClearSignal(c) ==
  /\ Step(c, "clear")
  /\ sigRecvd' = [sigRecvd EXCEPT ![ReplyPort[at[c].req]] = FALSE]
  /\ Returns(c)
  /\ UNCHANGED <<type, command, left, mpMsgList, timeList, handling, bus, sent>>

---------------------------------------------------------------------------

Init ==
  /\ type = [r \in Requests |-> "none"]
  /\ command = [r \in UnitRequests |-> "transfer"]
  /\ left = [r \in TimerRequests |-> 0]
  /\ mpMsgList = [p \in Ports \cup {UnitPort} |-> << >>]
  /\ sigRecvd = [p \in Ports \cup {UnitPort} |-> FALSE]
  /\ timeList = [l \in Lists |-> << >>]
  /\ handling = FALSE
  /\ bus = [step |-> "wait", req |-> None]
  /\ at = [c \in Tasks |-> Program]
  /\ sent = {}

\* What a program asks for.
Asks(c) ==
  \/ \E r \in UnitRequests, cmd \in {"transfer", "flush"}, call \in {"SendIO", "DoIO"} :
       BeginUnit(c, r, cmd, call)
  \/ \E r \in TimerRequests \ Timeouts, call \in {"SendIO", "DoIO"} :
       \/ \E l \in Lists, time \in 0 .. MaxTime : AddRequest(c, r, l, time, call)
       \/ \E ahead \in -MaxTime .. MaxTime : Immediate(c, r, ahead, call)
       \/ AbortIO(c, r)
  \/ \E r \in Timeouts, time \in 0 .. MaxTime : AddRequest(c, r, "MICROHZ", time, "WaitTO")
  \/ \E r \in Requests : WaitIO(c, r) \/ WaitPort(c, r)
  \/ \E p \in Ports : GetMsg(c, p)

\* How a call that it is in goes on.
GoesOn(c) ==
  \/ SignalUnit(c) \/ CheckRequest(c) \/ Wakes(c, "wait", "check") \/ RemoveRequest(c)
  \/ LookAtPort(c) \/ Wakes(c, "sleep", "look")
  \/ TimeoutOrSignal(c) \/ CheckTimer(c) \/ AbortTimer(c) \/ ClearSignal(c)

Next ==
  \/ VBlank \/ Handler
  \/ BusStep \/ BusIRQ
  \/ \E c \in Tasks : Asks(c) \/ GoesOn(c)

Spec == Init /\ [][Next]_vars

\* VBlanks come and are handled; they and the bus task leave the programs time.  Nothing is
\* said of BusIRQ: a card may never answer.
Fairness ==
  /\ WF_vars(VBlank) /\ WF_vars(Handler)
  /\ SF_vars(BusStep)
  /\ \A c \in Tasks : SF_vars(GoesOn(c))

FairSpec == Spec /\ Fairness

---------------------------------------------------------------------------
(* Properties *)

\* The places of request r in the lists.
Nodes(lists, r) ==
  UNION {{l} \X {i \in 1 .. Len(lists[l]) : lists[l][i] = r} : l \in DOMAIN lists}

AtBusTask(r) == bus.req = r /\ bus.step # "signal"

\* A request has one node: while it is sent it is in one list or with the bus task, and
\* before and after it is nowhere, also when AbortIO() comes as the timer expires.
RequestInOnePlace ==
  \A r \in Requests :
    Cardinality(Nodes(mpMsgList, r)) + Cardinality(Nodes(timeList, r))
      + (IF AtBusTask(r) THEN 1 ELSE 0) = IF r \in sent THEN 1 ELSE 0

\* WaitIO(): "removes it from the reply port": what Remove() takes out is in that list.
RemovedIsLinked ==
  \A c \in Tasks : at[c].step = "remove" =>
    \E i \in DOMAIN mpMsgList[ReplyPort[at[c].req]] :
      mpMsgList[ReplyPort[at[c].req]][i] = at[c].req

\* A program does not sleep on an answer that is there: the signal is set or comes next
\* (WaitIO(), WaitPort(), and the timer in sdcard_WaitTO()).
NoMissedReply ==
  \A c \in Tasks :
    LET r    == at[c].req
        port == ReplyPort[r]
        coming(steps) == bus.step \in steps /\ ReplyPort[bus.req] = port
    IN  /\ at[c].step \in {"wait", "timeout"} /\ type[r] = "reply"
             => sigRecvd[port] \/ coming({"link", "signal"})
        /\ at[c].step = "sleep" /\ mpMsgList[port] # << >>
             => sigRecvd[port] \/ coming({"signal"})

\* When the VBlank handler is through, no request in any list has had its time, although
\* its loops stop at the first that has not (addToWaitList(), TR_SETSYSTIME).
NoneOverdue ==
  [][handling /\ ~handling'
       => \A l \in Lists : \A r \in Listed(l) : left[r] > 0]_vars

\* When sdcard_WaitTO() is over, however it ended, neither the answer of the timer nor its
\* signal is left for the next call.
TimeoutLeavesNothing ==
  \A r \in Timeouts :
    at[TaskOf(r)].call # "WaitTO" =>
      r \notin sent /\ ~sigRecvd[ReplyPort[r]] /\ mpMsgList[ReplyPort[r]] = << >>

ClockNotSetBack ==
  <>[][\A r \in TimerRequests : r \in Listed("WAITUNTIL") /\ r \in Listed("WAITUNTIL")'
         => left'[r] <= left[r]]_vars

CardAnswers == []<>(bus.step \notin Hardware)

\* The calls that wait for the answer of an SD card.
WaitsForCard(c) == at[c].step \notin {"run", "signal"} /\ at[c].req \in UnitRequests

\* If the clock is not set back again and again, every call that waits for nothing but the
\* timer comes back, whatever becomes of the card, and every call at all unless the bus
\* task is left asleep in WaitCmd().
IoReturns ==
  ClockNotSetBack =>
    \A c \in Tasks :
      /\ at[c].step # "run" /\ ~WaitsForCard(c) ~> at[c].step = "run" \/ WaitsForCard(c)
      /\ CardAnswers => (at[c].step # "run" ~> at[c].step = "run")
=============================================================================
