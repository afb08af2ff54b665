--------------------------- MODULE DeviceIOProofs ---------------------------
(***************************************************************************)
(* Theorems about DeviceIO, for any programs, ports, requests and times.   *)
(*                                                                         *)
(* First the lists, by ListLemmas; then the types, action by action.       *)
(* NoMissedReply is inductive together with the types and OwnCalls, that a *)
(* call is about a request of the caller: then only the caller takes the   *)
(* signal it waits for.                                                    *)
(***************************************************************************)
EXTENDS DeviceIO, ListLemmas, FiniteSetTheorems

---------------------------------------------------------------------------
(* The lists *)

(* Unlink takes r out, if it is there.                                     *)
LEMMA UnlinkFacts ==
  ASSUME NEW S, NEW q \in Seq(S), NEW e
  PROVE  /\ Unlink(q, e) \in Seq(S)
         /\ Entries(Unlink(q, e)) \subseteq Entries(q)
         /\ Once(q) => Once(Unlink(q, e)) /\ Entries(Unlink(q, e)) = Entries(q) \ {e}
         /\ \A key : Sorted(q, key) => Sorted(Unlink(q, e), key)
  BY RemoveFirstFacts DEF Unlink

(* addToWaitList() keeps the order, the new request being in none before.  *)
LEMMA InsertFacts ==
  ASSUME left \in [TimerRequests -> 0 .. MaxTime],
         NEW q \in Seq(TimerRequests), NEW e \in TimerRequests, NEW time \in 0 .. MaxTime
  PROVE  /\ Insert(q, e, time) \in Seq(TimerRequests)
         /\ Entries(Insert(q, e, time)) = Entries(q) \cup {e}
         /\ e \notin Entries(q) /\ Once(q) => Once(Insert(q, e, time))
         /\ e \notin Entries(q) /\ Sorted(q, left)
              => Sorted(Insert(q, e, time), [left EXCEPT ![e] = time])
<1> DEFINE later == {i \in DOMAIN q : left[q[i]] > time}
           k == FirstPlace(Len(q), later)
           key == [left EXCEPT ![e] = time]
<1>1. /\ Len(q) \in Nat /\ DOMAIN q = 1 .. Len(q)
      /\ \A i \in 1 .. Len(q) : q[i] \in TimerRequests
  BY LenProperties, ElementOfSeq
<1>2. MaxTime \in Nat
  BY DeviceAssumption DEF DeviceAssumption
<1>3. /\ k \in 1 .. Len(q) + 1
      /\ \A i \in 1 .. Len(q) : i < k => i \notin later
      /\ k \in 1 .. Len(q) => k \in later
  <2> DEFINE L == later
             n == Len(q)
  <2>1. L \in SUBSET (1 .. n) /\ n \in Nat
    BY <1>1
  <2>2. k = FirstPlace(n, L)
    OBVIOUS
  <2> HIDE DEF L, k, n
  <2>3. /\ k \in 1 .. n + 1
        /\ \A i \in 1 .. n : i < k => i \notin L
        /\ k \in 1 .. n => k \in L
    BY <2>1, <2>2, FirstFacts
  <2> QED
    BY <2>3 DEF L, n
<1>4. Insert(q, e, time) = InsertAt(q, k, e)
  BY DEF Insert, FirstPlace
<1> HIDE DEF k
<1>5. key \in [TimerRequests -> Int] /\ key[e] = time
  BY <1>2
<1>6. ASSUME e \notin Entries(q), Sorted(q, left)
      PROVE  /\ Sorted(q, key)
             /\ \A i \in 1 .. Len(q) : i < k => key[q[i]] <= key[e]
             /\ k \in 1 .. Len(q) => key[e] <= key[q[k]]
  <2>1. \A i \in 1 .. Len(q) : key[q[i]] = left[q[i]] /\ left[q[i]] \in 0 .. MaxTime
    BY <1>1, <1>6 DEF Entries
  <2>2. Sorted(q, key)
    BY <1>6, <2>1 DEF Sorted
  <2> HIDE DEF key
  <2> QED
    BY <1>1, <1>2, <1>3, <1>5, <2>1, <2>2
<1> HIDE DEF key
<1>7. /\ InsertAt(q, k, e) \in Seq(TimerRequests)
      /\ Entries(InsertAt(q, k, e)) = Entries(q) \cup {e}
      /\ Once(q) /\ e \notin Entries(q) => Once(InsertAt(q, k, e))
  BY <1>3, PutFacts
<1>8. ASSUME e \notin Entries(q), Sorted(q, left) PROVE Sorted(InsertAt(q, k, e), key)
  BY <1>3, <1>5, <1>6, <1>8, PutFacts
<1> QED
  BY <1>4, <1>7, <1>8 DEF key

---------------------------------------------------------------------------
(* Types *)

LEMMA ConstantFacts ==
  /\ PortTask \in [Ports -> Tasks] /\ ReplyPort \in [Requests -> Ports]
  /\ UnitPort \notin Ports /\ None \notin Requests
  /\ UnitRequests \subseteq Requests /\ TimerRequests \subseteq Requests
  /\ \A r \in UnitRequests : r \notin TimerRequests
  /\ Timeouts \subseteq TimerRequests
  /\ \A r \in Timeouts, s \in Requests : ReplyPort[s] = ReplyPort[r] => s = r
  /\ \A r \in Requests : TaskOf(r) \in Tasks /\ TaskOf(r) = PortTask[ReplyPort[r]]
  /\ MaxTime \in Nat
  /\ "MICROHZ" \in Lists /\ "VBLANK" \in Lists /\ "WAITUNTIL" \in Lists
  BY DeviceAssumption DEF DeviceAssumption, Requests, TaskOf, Lists

LEMMA LessType ==
  ASSUME NEW time \in 0 .. MaxTime, NEW n \in Int
  PROVE  Less(time, n) \in 0 .. MaxTime
  BY ConstantFacts DEF Less

(* A reply to a request that has its type.                                 *)
LEMMA ReplyType ==
  ASSUME TypeOK, NEW r \in Requests, Reply(r)
  PROVE  /\ type' \in [Requests -> {"none", "message", "reply"}]
         /\ sigRecvd' \in [Ports \cup {UnitPort} -> BOOLEAN]
         /\ Replied(r) \in [Ports \cup {UnitPort} -> Seq(Requests)]
         /\ Replied(r)[UnitPort] = mpMsgList[UnitPort]
<1>1. ReplyPort[r] \in Ports /\ ReplyPort[r] # UnitPort
  BY ConstantFacts
<1>2. Append(mpMsgList[ReplyPort[r]], r) \in Seq(Requests)
  BY <1>1, AppendFacts DEF TypeOK
<1> QED
  BY <1>1, <1>2 DEF TypeOK, Reply, Replied

LEMMA StepType ==
  ASSUME TypeOK, NEW c \in Tasks, at[c] # Program
  PROVE  /\ at[c] \in Places /\ at[c].req \in Requests
         /\ at[c].step # "run"
         /\ at[c].call = "WaitTO" => at[c].req \in Timeouts
         /\ at[c].step = "signal" => at[c].req \in UnitRequests
  BY ConstantFacts DEF TypeOK, Places, Program

(* What a call may do to its task's place.                                 *)
LEMMA GoesType ==
  ASSUME TypeOK, NEW c \in Tasks, at[c] # Program, NEW step, Goes(c, step),
         [at[c] EXCEPT !.step = step] \in Places
  PROVE  at' \in [Tasks -> {Program} \cup Places]
  BY DEF TypeOK, Goes

LEMMA HandlerType ==
  ASSUME TypeOK, VBlank \/ Handler
  PROVE  TypeOK'
<1>1. CASE VBlank
  <2>1. left' \in [TimerRequests -> 0 .. MaxTime]
    BY <1>1, LessType DEF VBlank, TypeOK
  <2> QED
    BY <1>1, <2>1 DEF VBlank, TypeOK
<1>2. ASSUME NEW l \in Lists, Expire(l) PROVE TypeOK'
  <2> DEFINE r == Head(timeList[l])
  <2>1. timeList[l] \in Seq(TimerRequests) /\ timeList[l] # << >>
    BY <1>2 DEF Expire, Due, TypeOK
  <2>2. r \in Requests /\ Tail(timeList[l]) \in Seq(TimerRequests)
    BY <2>1, EntriesFacts, TailFacts, ConstantFacts
  <2>3. Reply(r) /\ mpMsgList' = Replied(r)
    BY <1>2 DEF Expire
  <2> HIDE DEF r
  <2> QED
    BY <1>2, <2>2, <2>3, ReplyType DEF Expire, TypeOK
<1>3. CASE HandlerEnds
  BY <1>3 DEF HandlerEnds, TypeOK
<1> QED
  BY <1>1, <1>2, <1>3 DEF Handler

(* The steps of the bus task, the interrupt of the SD card among them; and *)
(* those that do nothing but send it on.                                   *)
BusActs == BusStep \/ BusIRQ

BusHardware == BusSendCmd \/ BusIRQ \/ BusFinish

LEMMA BusType ==
  ASSUME TypeOK, BusActs
  PROVE  TypeOK'
<1> DEFINE q == mpMsgList[UnitPort]
<1>1. q \in Seq(UnitRequests) /\ q \in Seq(Requests)
  BY DEF TypeOK
<1>2. q # << >> => /\ Head(q) \in UnitRequests /\ Head(q) \in Requests
                   /\ Tail(q) \in Seq(UnitRequests) /\ Tail(q) \in Seq(Requests)
  BY <1>1, EntriesFacts, TailFacts, ConstantFacts
<1>3. bus.req \in UnitRequests => bus.req \in Requests
  BY ConstantFacts
<1> HIDE DEF q
<1>4. CASE BusWait
  BY <1>4 DEF BusWait, BusAt, BusTo, TypeOK, BusSteps, Hardware
<1>5. CASE BusGet
  <2>1. CASE q = << >>
    <3>1. BusTo("wait") /\ bus.step = "get" /\ UNCHANGED mpMsgList
      BY <1>5, <2>1 DEF BusGet, BusAt, q
    <3> QED
      BY <1>5, <3>1 DEF BusGet, BusTo, TypeOK, BusSteps, Hardware
  <2>2. CASE q # << >>
    <3>1. /\ bus'.step \in {"flush", "work"} /\ bus' = [step |-> bus'.step, req |-> Head(q)]
          /\ mpMsgList' = [mpMsgList EXCEPT ![UnitPort] = Tail(q)]
      BY <1>5, <2>2 DEF BusGet, q
    <3> QED
      BY <1>2, <1>5, <2>2, <3>1 DEF BusGet, TypeOK, BusSteps, Hardware
  <2> QED
    BY <2>1, <2>2
<1>6. CASE BusHardware
  BY <1>6 DEF BusHardware, BusSendCmd, BusIRQ, BusFinish, Hardware, BusSteps, BusAt, BusTo,
              TypeOK
<1>7. CASE BusFlush
  <2>1. CASE q = << >>
    <3>1. /\ BusTo("reply") /\ bus.step = "flush"
          /\ UNCHANGED <<type, sigRecvd, mpMsgList, command, left, timeList, handling, at, sent>>
      BY <1>7, <2>1 DEF BusFlush, BusAt, q
    <3> QED
      BY <3>1 DEF BusTo, TypeOK, BusSteps, Hardware
  <2>2. CASE q # << >>
    <3>1. Reply(Head(q)) /\ mpMsgList' = [Replied(Head(q)) EXCEPT ![UnitPort] = Tail(q)]
      BY <1>7, <2>2 DEF BusFlush, q, Replied
    <3> QED
      BY <1>2, <1>7, <2>2, <3>1, ReplyType DEF BusFlush, TypeOK, q
  <2> QED
    BY <2>1, <2>2
<1>8. CASE BusMark
  BY <1>8 DEF BusMark, BusAt, BusTo, TypeOK, BusSteps, Hardware
<1>9. CASE BusLink
  <2>1. bus.req \in Requests /\ bus.step = "link" /\ bus.req \in UnitRequests
    BY <1>3, <1>9 DEF BusLink, BusAt, TypeOK
  <2>2. ReplyPort[bus.req] \in Ports /\ ReplyPort[bus.req] # UnitPort
    BY <2>1, ConstantFacts
  <2>3. Append(mpMsgList[ReplyPort[bus.req]], bus.req) \in Seq(Requests)
    BY <2>1, <2>2, AppendFacts DEF TypeOK
  <2> QED
    BY <1>9, <2>1, <2>2, <2>3 DEF BusLink, BusTo, TypeOK, Replied, BusSteps, Hardware
<1>10. CASE BusSignal
  BY <1>10 DEF BusSignal, BusAt, TypeOK
<1> QED
  BY <1>4, <1>5, <1>6, <1>7, <1>8, <1>9, <1>10 DEF BusActs, BusStep, BusHardware

LEMMA BegunType ==
  ASSUME TypeOK, NEW c \in Tasks, NEW r \in Requests, NEW call, Begun(c, call, r),
         call \in {"SendIO", "DoIO"} \/ (call = "WaitTO" /\ r \in Timeouts)
  PROVE  at' \in [Tasks -> {Program} \cup Places]
<1>1. CASE call = "SendIO"
  BY <1>1 DEF TypeOK, Begun
<1>2. CASE call = "DoIO"
  <2>1. [call |-> "DoIO", step |-> "check", req |-> r] \in Places
    BY DEF Places
  <2> QED
    BY <1>2, <2>1 DEF TypeOK, Begun
<1>3. CASE call = "WaitTO" /\ r \in Timeouts
  <2>1. [call |-> "WaitTO", step |-> "timeout", req |-> r] \in Places
    BY <1>3 DEF Places
  <2> QED
    BY <1>3, <2>1 DEF TypeOK, Begun
<1> QED
  BY <1>1, <1>2, <1>3

LEMMA AbortType ==
  ASSUME TypeOK, NEW r \in TimerRequests, AbortRequest(r)
  PROVE  /\ type' \in [Requests -> {"none", "message", "reply"}]
         /\ left' \in [TimerRequests -> 0 .. MaxTime]
         /\ sigRecvd' \in [Ports \cup {UnitPort} -> BOOLEAN]
         /\ mpMsgList' \in [Ports \cup {UnitPort} -> Seq(Requests)]
         /\ mpMsgList'[UnitPort] = mpMsgList[UnitPort]
         /\ timeList' \in [Lists -> Seq(TimerRequests)]
<1>1. CASE type[r] = "reply"
  BY <1>1 DEF AbortRequest, TypeOK
<1>2. CASE type[r] # "reply"
  <2>1. /\ left' = [left EXCEPT ![r] = 0]
        /\ timeList' = [l \in Lists |-> Unlink(timeList[l], r)]
        /\ Reply(r) /\ mpMsgList' = Replied(r)
    BY <1>2 DEF AbortRequest
  <2>2. timeList' \in [Lists -> Seq(TimerRequests)]
    BY <2>1, UnlinkFacts DEF TypeOK
  <2>3. left' \in [TimerRequests -> 0 .. MaxTime]
    BY <2>1, ConstantFacts DEF TypeOK
  <2> QED
    BY <2>1, <2>2, <2>3, ReplyType, ConstantFacts
<1> QED
  BY <1>1, <1>2

LEMMA AsksType ==
  ASSUME TypeOK, NEW c \in Tasks, Asks(c)
  PROVE  TypeOK'
<1>1. ASSUME NEW r \in UnitRequests, NEW cmd \in {"transfer", "flush"},
             NEW call \in {"SendIO", "DoIO"}, BeginUnit(c, r, cmd, call)
      PROVE  TypeOK'
  <2>1. r \in Requests /\ UnitPort \in Ports \cup {UnitPort}
    BY ConstantFacts
  <2>2. /\ Append(mpMsgList[UnitPort], r) \in Seq(UnitRequests)
        /\ Append(mpMsgList[UnitPort], r) \in Seq(Requests)
    BY <2>1, AppendFacts DEF TypeOK
  <2>3. [call |-> call, step |-> "signal", req |-> r] \in Places
    BY DEF Places
  <2> QED
    BY <1>1, <2>1, <2>2, <2>3 DEF BeginUnit, TypeOK
<1>2. ASSUME NEW r \in TimerRequests, NEW l \in Lists, NEW time \in 0 .. MaxTime, NEW call,
             call \in {"SendIO", "DoIO"} \/ (call = "WaitTO" /\ r \in Timeouts),
             AddRequest(c, r, l, time, call)
      PROVE  TypeOK'
  <2>1. r \in Requests
    BY ConstantFacts
  <2>2. Insert(timeList[l], r, time) \in Seq(TimerRequests)
    BY InsertFacts DEF TypeOK
  <2>3. at' \in [Tasks -> {Program} \cup Places]
    BY <1>2, <2>1, BegunType DEF AddRequest
  <2> QED
    BY <1>2, <2>1, <2>2, <2>3 DEF AddRequest, TypeOK
<1>3. ASSUME NEW r \in TimerRequests, NEW ahead \in -MaxTime .. MaxTime,
             NEW call \in {"SendIO", "DoIO"}, Immediate(c, r, ahead, call)
      PROVE  TypeOK'
  <2>1. r \in Requests /\ ahead \in Int
    BY ConstantFacts
  <2>2. left' \in [TimerRequests -> 0 .. MaxTime]
    BY <1>3, <2>1, LessType DEF Immediate, TypeOK
  <2>3. CASE call = "SendIO"
    <3>1. sent' = sent \cup {r} /\ Reply(r) /\ mpMsgList' = Replied(r)
      BY <1>3, <2>3 DEF Immediate
    <3> QED
      BY <1>3, <2>1, <2>2, <3>1, ReplyType DEF Immediate, TypeOK
  <2>4. CASE call # "SendIO"
    BY <1>3, <2>1, <2>2, <2>4 DEF Immediate, TypeOK
  <2> QED
    BY <2>3, <2>4
<1>4. ASSUME NEW r \in TimerRequests, AbortIO(c, r) PROVE TypeOK'
  <2>1. AbortRequest(r) /\ UNCHANGED <<command, handling, bus, at, sent>>
    BY <1>4 DEF AbortIO
  <2> QED
    BY <2>1, AbortType DEF TypeOK
<1>5. ASSUME NEW r \in Requests, WaitIO(c, r) \/ WaitPort(c, r) PROVE TypeOK'
  <2>1. /\ [call |-> "WaitIO", step |-> "check", req |-> r] \in Places
        /\ [call |-> "WaitPort", step |-> "look", req |-> r] \in Places
    BY DEF Places
  <2> QED
    BY <1>5, <2>1 DEF WaitIO, WaitPort, TypeOK
<1>6. ASSUME NEW p \in Ports, GetMsg(c, p) PROVE TypeOK'
  <2>1. p # UnitPort /\ p \in Ports \cup {UnitPort}
    BY ConstantFacts
  <2>2. Tail(mpMsgList[p]) \in Seq(Requests)
    BY <1>6, <2>1, TailFacts DEF GetMsg, TypeOK
  <2> QED
    BY <1>6, <2>1, <2>2 DEF GetMsg, TypeOK
<1> QED
  <2>1. \A r \in Timeouts : r \in TimerRequests
    BY ConstantFacts
  <2>2. "MICROHZ" \in Lists
    BY ConstantFacts
  <2> QED
    BY <1>1, <1>2, <1>3, <1>4, <1>5, <1>6, <2>1, <2>2 DEF Asks

LEMMA GoesOnType ==
  ASSUME TypeOK, NEW c \in Tasks, GoesOn(c)
  PROVE  TypeOK'
<1> DEFINE r == at[c].req
           port == ReplyPort[r]
<1>1. at[c] # Program
  BY DEF GoesOn, SignalUnit, CheckRequest, Wakes, RemoveRequest, LookAtPort, TimeoutOrSignal,
         CheckTimer, AbortTimer, ClearSignal, Step, Program
<1>2. /\ at[c] \in Places /\ r \in Requests /\ port \in Ports /\ port # UnitPort
      /\ at[c].call = "WaitTO" => r \in Timeouts /\ r \in TimerRequests
      /\ at[c].step = "signal" => r \in UnitRequests
  BY <1>1, StepType, ConstantFacts
<1>3. at[c].step \in {"timeout", "late", "abort", "clear"} => at[c].call = "WaitTO"
  BY <1>2 DEF Places
<1> HIDE DEF r, port
<1>4. CASE SignalUnit(c)
  <2>1. Begun(c, at[c].call, r) /\ at[c].step = "signal"
    BY <1>4 DEF SignalUnit, Step, r
  <2>2. at[c].call \in {"SendIO", "DoIO"}
    BY <1>2, <2>1 DEF Places
  <2>3. at' \in [Tasks -> {Program} \cup Places]
    BY <1>2, <2>1, <2>2, BegunType
  <2> QED
    BY <1>4, <2>3 DEF SignalUnit, TypeOK
<1>5. CASE CheckRequest(c)
  <2>1. /\ [at[c] EXCEPT !.step = "wait"] \in Places
        /\ [at[c] EXCEPT !.step = "remove"] \in Places
    BY <1>2, <1>5 DEF CheckRequest, Step, Places
  <2>2. at' \in [Tasks -> {Program} \cup Places]
    BY <1>1, <1>5, <2>1, GoesType DEF CheckRequest
  <2> QED
    BY <1>5, <2>2 DEF CheckRequest, TypeOK
<1>6. CASE Wakes(c, "wait", "check")
  <2>1. [at[c] EXCEPT !.step = "check"] \in Places
    BY <1>2, <1>6 DEF Wakes, Step, Places
  <2>2. at' \in [Tasks -> {Program} \cup Places]
    BY <1>1, <1>6, <2>1, GoesType DEF Wakes
  <2> QED
    BY <1>2, <1>6, <2>2 DEF Wakes, TypeOK, port, r
<1>7. CASE Wakes(c, "sleep", "look")
  <2>1. [at[c] EXCEPT !.step = "look"] \in Places
    BY <1>2, <1>7 DEF Wakes, Step, Places
  <2>2. at' \in [Tasks -> {Program} \cup Places]
    BY <1>1, <1>7, <2>1, GoesType DEF Wakes
  <2> QED
    BY <1>2, <1>7, <2>2 DEF Wakes, TypeOK, port, r
<1>8. CASE RemoveRequest(c)
  <2>1. at[c].call = "WaitTO" => [at[c] EXCEPT !.step = "clear"] \in Places
    BY <1>2 DEF Places
  <2>2. at' \in [Tasks -> {Program} \cup Places]
    <3>1. CASE at[c].call = "WaitTO"
      BY <1>1, <1>8, <2>1, <3>1, GoesType DEF RemoveRequest
    <3>2. CASE at[c].call # "WaitTO"
      BY <1>8, <3>2 DEF RemoveRequest, Returns, TypeOK
    <3> QED
      BY <3>1, <3>2
  <2>3. Unlink(mpMsgList[port], r) \in Seq(Requests)
    BY <1>2, UnlinkFacts DEF TypeOK
  <2>4. /\ mpMsgList' = [mpMsgList EXCEPT ![port] = Unlink(mpMsgList[port], r)]
        /\ sent' = sent \ {r}
        /\ UNCHANGED <<type, command, left, sigRecvd, timeList, handling, bus>>
    BY <1>8 DEF RemoveRequest, port, r
  <2> QED
    BY <1>2, <2>2, <2>3, <2>4 DEF TypeOK
<1>9. CASE LookAtPort(c)
  <2>1. [at[c] EXCEPT !.step = "sleep"] \in Places
    BY <1>2, <1>9 DEF LookAtPort, Step, Places
  <2>2. at' \in [Tasks -> {Program} \cup Places]
    <3>1. Goes(c, "sleep") \/ Returns(c)
      BY <1>9 DEF LookAtPort
    <3> QED
      BY <1>1, <2>1, <3>1, GoesType DEF Returns, TypeOK
  <2> QED
    BY <1>9, <2>2 DEF LookAtPort, TypeOK
<1>10. CASE TimeoutOrSignal(c)
  <2>1. /\ [at[c] EXCEPT !.step = "check"] \in Places
        /\ [at[c] EXCEPT !.step = "late"] \in Places
    BY <1>2, <1>3, <1>10 DEF TimeoutOrSignal, Step, Places
  <2>2. at' \in [Tasks -> {Program} \cup Places]
    BY <1>1, <1>10, <2>1, GoesType DEF TimeoutOrSignal
  <2>3. sigRecvd' \in [Ports \cup {UnitPort} -> BOOLEAN]
    BY <1>10 DEF TimeoutOrSignal, TypeOK
  <2> QED
    BY <1>10, <2>2, <2>3 DEF TimeoutOrSignal, TypeOK
<1>11. CASE CheckTimer(c)
  <2>1. /\ [at[c] EXCEPT !.step = "check"] \in Places
        /\ [at[c] EXCEPT !.step = "abort"] \in Places
    BY <1>2, <1>3, <1>11 DEF CheckTimer, Step, Places
  <2>2. at' \in [Tasks -> {Program} \cup Places]
    BY <1>1, <1>11, <2>1, GoesType DEF CheckTimer
  <2> QED
    BY <1>11, <2>2 DEF CheckTimer, TypeOK
<1>12. CASE AbortTimer(c)
  <2>1. [at[c] EXCEPT !.step = "check"] \in Places /\ r \in TimerRequests
    BY <1>2, <1>3, <1>12 DEF AbortTimer, Step, Places
  <2>2. at' \in [Tasks -> {Program} \cup Places]
    BY <1>1, <1>12, <2>1, GoesType DEF AbortTimer
  <2>3. AbortRequest(r) /\ UNCHANGED <<command, handling, bus, sent>>
    BY <1>12 DEF AbortTimer, r
  <2> QED
    BY <2>1, <2>2, <2>3, AbortType DEF TypeOK
<1>13. CASE ClearSignal(c)
  <2>1. at' \in [Tasks -> {Program} \cup Places]
    BY <1>13 DEF ClearSignal, Returns, TypeOK
  <2> QED
    BY <1>2, <1>13, <2>1 DEF ClearSignal, TypeOK, port, r
<1> QED
  BY <1>4, <1>5, <1>6, <1>7, <1>8, <1>9, <1>10, <1>11, <1>12, <1>13 DEF GoesOn

LEMMA InitType == Init => TypeOK
<1> SUFFICES ASSUME Init PROVE TypeOK
  OBVIOUS
<1>1. << >> \in Seq(Requests) /\ << >> \in Seq(UnitRequests) /\ << >> \in Seq(TimerRequests)
  OBVIOUS
<1>2. 0 \in 0 .. MaxTime
  BY ConstantFacts
<1> QED
  BY <1>1, <1>2 DEF Init, TypeOK

LEMMA NextType == TypeOK /\ [Next]_vars => TypeOK'
<1> SUFFICES ASSUME TypeOK, [Next]_vars PROVE TypeOK'
  OBVIOUS
<1>1. CASE Next
  BY <1>1, HandlerType, BusType, AsksType, GoesOnType DEF Next, BusActs
<1>2. CASE UNCHANGED vars
  BY <1>2 DEF vars, TypeOK
<1> QED
  BY <1>1, <1>2

(* Every variable of the devices has its type: no list holds a request of  *)
(* another device, no program is in a step that its call does not have.    *)
THEOREM SpecTypeOK == Spec => []TypeOK
  BY InitType, NextType, PTL DEF Spec

---------------------------------------------------------------------------
(* No answer is missed *)

OwnCalls == \A c \in Tasks : at[c].step # "run" => TaskOf(at[c].req) = c

(* What the other programs see of a call that goes on or returns.          *)
LEMMA GoesPlace ==
  ASSUME TypeOK, NEW c \in Tasks, NEW step, Goes(c, step)
  PROVE  /\ at'[c].step = step /\ at'[c].req = at[c].req /\ at'[c].call = at[c].call
         /\ \A d \in Tasks : d # c => at'[d] = at[d]
<1>1. /\ at[c] \in {Program} \cup Places /\ at' = [at EXCEPT ![c].step = step]
      /\ at \in [Tasks -> {Program} \cup Places]
  BY DEF TypeOK, Goes
<1>2. at'[c] = [at[c] EXCEPT !.step = step] /\ \A d \in Tasks : d # c => at'[d] = at[d]
  BY <1>1
<1>3. [at[c] EXCEPT !.step = step]
        = [call |-> at[c].call, step |-> step, req |-> at[c].req]
  BY <1>1 DEF Program, Places
<1> QED
  BY <1>2, <1>3

LEMMA ReturnsPlace ==
  ASSUME TypeOK, NEW c \in Tasks, Returns(c)
  PROVE  /\ at'[c].step = "run" /\ at'[c].call = "none"
         /\ \A d \in Tasks : d # c => at'[d] = at[d]
  BY DEF TypeOK, Returns, Program

LEMMA BegunPlace ==
  ASSUME TypeOK, NEW c \in Tasks, NEW r, NEW call \in {"SendIO", "DoIO", "WaitTO"},
         Begun(c, call, r)
  PROVE  /\ call = "SendIO" => at'[c].step = "run" /\ at'[c].call = "none"
         /\ call = "DoIO" => at'[c].step = "check" /\ at'[c].call = "DoIO"
         /\ call = "WaitTO" => at'[c].step = "timeout" /\ at'[c].call = "WaitTO"
         /\ call # "SendIO" => at'[c].req = r
         /\ \A d \in Tasks : d # c => at'[d] = at[d]
<1>1. CASE call = "SendIO"
  BY <1>1 DEF TypeOK, Begun, Program
<1>2. CASE call = "DoIO"
  BY <1>2 DEF TypeOK, Begun
<1>3. CASE call = "WaitTO"
  BY <1>3 DEF TypeOK, Begun
<1> QED
  BY <1>1, <1>2, <1>3

(* A call begins.                                                          *)
Begins(c) ==
  /\ at[c] = Program
  /\ \A d \in Tasks : d # c => at'[d] = at[d]
  /\ at'[c].step \in {"run", "signal", "check", "timeout", "look"}
  /\ at'[c].step # "run" => TaskOf(at'[c].req) = c
  /\ at'[c].step \in {"signal", "check", "timeout"} => at'[c].req \in sent'
  /\ at'[c].step = "timeout" => type'[at'[c].req] = "message"
  /\ at'[c].call = "WaitTO" <=> at'[c].step = "timeout"

LEMMA AddBegins ==
  ASSUME TypeOK, NEW c \in Tasks, NEW r \in TimerRequests, NEW l, NEW time,
         NEW call \in {"SendIO", "DoIO", "WaitTO"}, AddRequest(c, r, l, time, call)
  PROVE  Begins(c)
<1>1. /\ at[c] = Program /\ TaskOf(r) = c /\ r \in sent' /\ Begun(c, call, r)
      /\ type'[r] = "message"
  BY ConstantFacts DEF AddRequest, MaySend, Calls, TypeOK
<1> QED
  BY <1>1, BegunPlace DEF Begins

LEMMA AsksBegins ==
  ASSUME TypeOK, NEW c \in Tasks, Asks(c)
  PROVE  Begins(c)
<1>1. ASSUME NEW r \in UnitRequests, NEW cmd, NEW call \in {"SendIO", "DoIO"},
             BeginUnit(c, r, cmd, call)
      PROVE  Begins(c)
  <2>1. /\ at[c] = Program /\ TaskOf(r) = c /\ r \in sent'
        /\ at' = [at EXCEPT ![c] = [call |-> call, step |-> "signal", req |-> r]]
    BY <1>1 DEF BeginUnit, MaySend, Calls
  <2>2. /\ at'[c].step = "signal" /\ at'[c].req = r /\ at'[c].call = call
        /\ \A d \in Tasks : d # c => at'[d] = at[d]
    BY <2>1 DEF TypeOK
  <2> QED
    BY <2>1, <2>2 DEF Begins
<1>2. ASSUME at[c] = Program, UNCHANGED at PROVE Begins(c)
  BY <1>2 DEF Begins, Program
<1>3. ASSUME NEW r \in Requests, WaitIO(c, r) \/ WaitPort(c, r) PROVE Begins(c)
  <2>1. at[c] = Program /\ TaskOf(r) = c /\ r \in sent'
    BY <1>3 DEF WaitIO, WaitPort, Calls
  <2>2. PICK call \in {"WaitIO", "WaitPort"}, step \in {"check", "look"} :
          at' = [at EXCEPT ![c] = [call |-> call, step |-> step, req |-> r]]
    BY <1>3 DEF WaitIO, WaitPort
  <2>3. /\ at'[c].step = step /\ at'[c].req = r /\ at'[c].call = call
        /\ \A d \in Tasks : d # c => at'[d] = at[d]
    BY <2>2 DEF TypeOK
  <2> QED
    BY <2>1, <2>3 DEF Begins
<1>4. ASSUME NEW r, NEW ahead, NEW call, Immediate(c, r, ahead, call) \/ AbortIO(c, r)
      PROVE  Begins(c)
  BY <1>2, <1>4 DEF Immediate, AbortIO, MaySend, Calls
<1>5. ASSUME NEW p, GetMsg(c, p) PROVE Begins(c)
  BY <1>2, <1>5 DEF GetMsg, Calls
<1> QED
  BY <1>1, <1>3, <1>4, <1>5, AddBegins, ConstantFacts DEF Asks

(* A call goes on.                                                         *)
Continues(c) ==
  /\ at[c] \in Places
  /\ \A d \in Tasks : d # c => at'[d] = at[d]
  /\ at'[c].step # "run" => at'[c].req = at[c].req /\ at'[c].call = at[c].call
  /\ at'[c].step = "run" => at'[c].call = "none"

LEMMA GoesOnContinues ==
  ASSUME TypeOK, NEW c \in Tasks, GoesOn(c)
  PROVE  Continues(c)
<1>1. at[c] # Program
  BY DEF GoesOn, SignalUnit, CheckRequest, Wakes, RemoveRequest, LookAtPort, TimeoutOrSignal,
         CheckTimer, AbortTimer, ClearSignal, Step, Program
<1>2. at[c] \in Places
  BY <1>1, StepType
<1>3. CASE SignalUnit(c)
  <2>1. at[c].call \in {"SendIO", "DoIO"} /\ Begun(c, at[c].call, at[c].req)
    BY <1>2, <1>3 DEF SignalUnit, Step, Places
  <2> QED
    BY <1>2, <2>1, BegunPlace DEF Continues
<1>4. CASE ~SignalUnit(c)
  <2>1. (\E step \in {"check", "wait", "remove", "look", "sleep", "late", "abort", "clear"} :
            Goes(c, step)) \/ Returns(c)
    BY <1>4 DEF GoesOn, CheckRequest, Wakes, RemoveRequest, LookAtPort, TimeoutOrSignal,
                CheckTimer, AbortTimer, ClearSignal
  <2> QED
    BY <1>2, <2>1, GoesPlace, ReturnsPlace DEF Continues
<1> QED
  BY <1>3, <1>4

LEMMA OwnCallsStep ==
  ASSUME TypeOK, OwnCalls, [Next]_vars
  PROVE  OwnCalls'
<1>1. ASSUME UNCHANGED at PROVE OwnCalls'
  BY <1>1 DEF OwnCalls, TaskOf
<1>2. ASSUME NEW c \in Tasks, Asks(c) PROVE OwnCalls'
  BY <1>2, AsksBegins DEF Begins, OwnCalls, TaskOf
<1>3. ASSUME NEW c \in Tasks, GoesOn(c) PROVE OwnCalls'
  <2>1. Continues(c) /\ at[c].step # "run"
    BY <1>3, GoesOnContinues DEF Places, Continues
  <2> QED
    BY <2>1 DEF Continues, OwnCalls, TaskOf
<1>4. VBlank \/ Handler \/ BusActs \/ UNCHANGED vars => UNCHANGED at
  BY DEF VBlank, Handler, HandlerEnds, Expire, BusActs, BusStep, BusWait, BusGet,
         BusHardware, BusSendCmd, BusIRQ, BusFinish, BusFlush,
         BusMark, BusLink, BusSignal, vars
<1> QED
  BY <1>1, <1>2, <1>3, <1>4 DEF Next, BusActs

(* The answer to r, or a message at its port, comes with a signal, and the *)
(* signal stays.                                                           *)
Coming(r, steps) == bus.step \in steps /\ ReplyPort[bus.req] = ReplyPort[r]

Told(r, steps) == sigRecvd[ReplyPort[r]] \/ Coming(r, steps)

Heard(r) ==
  LET port == ReplyPort[r]
  IN  /\ type'[r] = "reply" => type[r] = "reply" \/ Told(r, {"link", "signal"})'
      /\ mpMsgList'[port] # << >> => mpMsgList[port] # << >> \/ Told(r, {"signal"})'
      /\ Told(r, {"link", "signal"}) => Told(r, {"link", "signal"})'
      /\ Told(r, {"signal"}) => Told(r, {"signal"})'

LEMMA ReplyHeard ==
  ASSUME TypeOK, NEW s \in Requests, Reply(s), UNCHANGED bus, NEW r \in Requests,
         \A p \in Ports : mpMsgList'[p] = Replied(s)[p]
  PROVE  Heard(r)
<1>1. ReplyPort[r] \in Ports /\ ReplyPort[s] \in Ports
  BY ConstantFacts
<1>2. /\ sigRecvd'[ReplyPort[s]] = TRUE
      /\ \A p \in Ports : sigRecvd[p] => sigRecvd'[p]
      /\ \A p \in Ports : p # ReplyPort[s] => mpMsgList'[p] = mpMsgList[p]
      /\ r # s => type'[r] = type[r]
  BY <1>1 DEF TypeOK, Reply, Replied
<1> QED
  BY <1>1, <1>2 DEF Heard, Told, Coming

LEMMA QuietHeard ==
  ASSUME NEW r \in Requests, UNCHANGED <<type, bus>>,
         sigRecvd[ReplyPort[r]] => sigRecvd'[ReplyPort[r]],
         mpMsgList'[ReplyPort[r]] # << >> => mpMsgList[ReplyPort[r]] # << >>
  PROVE  Heard(r)
  BY DEF Heard, Told, Coming

LEMMA DevicesHeard ==
  ASSUME TypeOK, NEW r \in Requests, VBlank \/ Handler \/ BusActs
  PROVE  Heard(r)
<1>0. ReplyPort[r] \in Ports /\ ReplyPort[r] # UnitPort
  BY ConstantFacts
<1>1. CASE VBlank
  BY <1>1, QuietHeard DEF VBlank
<1>2. ASSUME NEW l \in Lists, Expire(l) PROVE Heard(r)
  <2>1. Head(timeList[l]) \in Requests
    BY <1>2, EntriesFacts, ConstantFacts DEF Expire, Due, TypeOK
  <2> QED
    BY <1>2, <2>1, ReplyHeard DEF Expire
<1>3. CASE HandlerEnds
  BY <1>3, QuietHeard DEF HandlerEnds
<1>4. CASE BusWait
  BY <1>0, <1>4 DEF BusWait, BusAt, BusTo, TypeOK, Heard, Told, Coming
<1>5. CASE BusGet
  <2>1. /\ mpMsgList'[ReplyPort[r]] = mpMsgList[ReplyPort[r]] /\ bus.step = "get"
        /\ UNCHANGED <<type, sigRecvd>>
    BY <1>0, <1>5 DEF BusGet, BusAt, TypeOK
  <2> QED
    BY <2>1 DEF Heard, Told, Coming
<1>6. CASE BusHardware
  BY <1>6 DEF BusHardware, BusSendCmd, BusIRQ, BusFinish, Hardware, BusSteps, BusAt, BusTo,
              Heard, Told, Coming
<1>7. CASE BusFlush
  <2>1. CASE mpMsgList[UnitPort] = << >>
    BY <1>7, <2>1 DEF BusFlush, BusAt, BusTo, Heard, Told, Coming
  <2>2. CASE mpMsgList[UnitPort] # << >>
    <3> DEFINE s == Head(mpMsgList[UnitPort])
    <3>1. s \in Requests
      BY <2>2, EntriesFacts, ConstantFacts DEF TypeOK
    <3>2. Reply(s) /\ UNCHANGED bus /\ mpMsgList' = [Replied(s) EXCEPT ![UnitPort] = Tail(@)]
      BY <1>7, <2>2 DEF BusFlush, Replied
    <3>3. \A p \in Ports : mpMsgList'[p] = Replied(s)[p]
      BY <3>1, <3>2, ReplyType, ConstantFacts
    <3> QED
      BY <3>1, <3>2, <3>3, ReplyHeard
  <2> QED
    BY <2>1, <2>2
<1>8. CASE BusMark
  <2>1. /\ bus.step = "reply" /\ bus'.step = "link" /\ bus'.req = bus.req
        /\ bus.req \in UnitRequests
        /\ type' = [type EXCEPT ![bus.req] = "reply"] /\ UNCHANGED <<mpMsgList, sigRecvd>>
    BY <1>8 DEF BusMark, BusAt, BusTo, TypeOK
  <2>2. r # bus.req => type'[r] = type[r]
    BY <2>1 DEF TypeOK
  <2> QED
    BY <2>1, <2>2 DEF Heard, Told, Coming
<1>9. CASE BusLink
  <2>1. /\ bus.step = "link" /\ bus'.step = "signal" /\ bus'.req = bus.req
        /\ mpMsgList' = Replied(bus.req) /\ UNCHANGED <<type, sigRecvd>>
    BY <1>9 DEF BusLink, BusAt, BusTo, TypeOK
  <2>2. ReplyPort[bus.req] # ReplyPort[r] => mpMsgList'[ReplyPort[r]] = mpMsgList[ReplyPort[r]]
    BY <1>0, <2>1 DEF Replied, TypeOK
  <2> QED
    BY <2>1, <2>2 DEF Heard, Told, Coming
<1>10. CASE BusSignal
  <2>1. /\ bus.step = "signal" /\ UNCHANGED <<type, mpMsgList>>
        /\ sigRecvd' = [sigRecvd EXCEPT ![ReplyPort[bus.req]] = TRUE]
    BY <1>10 DEF BusSignal, BusAt
  <2>2. /\ sigRecvd[ReplyPort[r]] => sigRecvd'[ReplyPort[r]]
        /\ ReplyPort[bus.req] = ReplyPort[r] => sigRecvd'[ReplyPort[r]]
    BY <1>0, <2>1 DEF TypeOK
  <2> QED
    BY <2>1, <2>2 DEF Heard, Told, Coming
<1> QED
  BY <1>1, <1>2, <1>3, <1>4, <1>5, <1>6, <1>7, <1>8, <1>9, <1>10 DEF Handler, BusActs,
     BusStep, BusHardware

LEMMA AbortHeard ==
  ASSUME TypeOK, NEW s \in TimerRequests, AbortRequest(s), UNCHANGED bus, NEW r \in Requests
  PROVE  Heard(r)
<1>1. s \in Requests
  BY ConstantFacts
<1> QED
  BY <1>1, ReplyHeard, QuietHeard DEF AbortRequest

LEMMA AsksHeard ==
  ASSUME TypeOK, NEW c \in Tasks, Asks(c), NEW r \in Requests
  PROVE  Heard(r)
<1>0. ReplyPort[r] \in Ports /\ ReplyPort[r] # UnitPort
  BY ConstantFacts
<1>1. ASSUME NEW s \in UnitRequests, NEW cmd, NEW call, BeginUnit(c, s, cmd, call)
      PROVE  Heard(r)
  <2>1. /\ mpMsgList'[ReplyPort[r]] = mpMsgList[ReplyPort[r]]
        /\ type'[r] = "reply" => type[r] = "reply"
        /\ UNCHANGED <<bus, sigRecvd>>
    BY <1>0, <1>1 DEF BeginUnit, TypeOK
  <2> QED
    BY <2>1 DEF Heard, Told, Coming
<1>2. ASSUME NEW s \in TimerRequests, NEW l, NEW time, NEW call, AddRequest(c, s, l, time, call)
      PROVE  Heard(r)
  <2>1. (type'[r] = "reply" => type[r] = "reply") /\ UNCHANGED <<bus, sigRecvd, mpMsgList>>
    BY <1>2 DEF AddRequest, TypeOK
  <2> QED
    BY <2>1 DEF Heard, Told, Coming
<1>3. ASSUME NEW s \in TimerRequests, NEW ahead, NEW call, Immediate(c, s, ahead, call)
      PROVE  Heard(r)
  <2>1. s \in Requests /\ UNCHANGED bus
    BY <1>3, ConstantFacts DEF Immediate
  <2>2. CASE call = "SendIO"
    BY <1>3, <2>1, <2>2, ReplyHeard DEF Immediate
  <2>3. CASE call # "SendIO"
    <3>1. (type'[r] = "reply" => type[r] = "reply") /\ UNCHANGED <<bus, sigRecvd, mpMsgList>>
      BY <1>3, <2>3 DEF Immediate, TypeOK
    <3> QED
      BY <3>1 DEF Heard, Told, Coming
  <2> QED
    BY <2>2, <2>3
<1>4. ASSUME NEW s \in TimerRequests, AbortIO(c, s) PROVE Heard(r)
  BY <1>4, AbortHeard DEF AbortIO
<1>5. ASSUME NEW s, WaitIO(c, s) \/ WaitPort(c, s) PROVE Heard(r)
  BY <1>5, QuietHeard DEF WaitIO, WaitPort
<1>6. ASSUME NEW p \in Ports, GetMsg(c, p) PROVE Heard(r)
  <2>1. mpMsgList'[ReplyPort[r]] # << >> => mpMsgList[ReplyPort[r]] # << >>
    BY <1>0, <1>6 DEF GetMsg, TypeOK
  <2> QED
    BY <1>6, <2>1, QuietHeard DEF GetMsg
<1> QED
  BY <1>1, <1>2, <1>3, <1>4, <1>5, <1>6, ConstantFacts DEF Asks

(* A call that goes on takes no other task's answer or signal.             *)
LEMMA GoesOnHeard ==
  ASSUME TypeOK, OwnCalls, NEW c \in Tasks, GoesOn(c), NEW r \in Requests, TaskOf(r) # c
  PROVE  Heard(r)
<1> DEFINE s == at[c].req
           port == ReplyPort[s]
<1>1. /\ at[c] \in Places /\ at[c].step # "run" /\ s \in Requests
      /\ at[c].step \in {"timeout", "late", "abort", "clear"} => s \in TimerRequests
  <2>1. Continues(c)
    BY GoesOnContinues
  <2> QED
    BY <2>1, ConstantFacts DEF Continues, Places
<1>2. /\ port \in Ports /\ ReplyPort[r] \in Ports /\ PortTask[port] = c
      /\ PortTask[ReplyPort[r]] # c /\ ReplyPort[r] # port
      /\ ReplyPort[r] # UnitPort /\ port # UnitPort
  BY <1>1, ConstantFacts DEF OwnCalls, TaskOf
<1> HIDE DEF s, port
<1>3. CASE SignalUnit(c)
  BY <1>2, <1>3, QuietHeard DEF SignalUnit, TypeOK
<1>4. CASE CheckRequest(c) \/ LookAtPort(c) \/ CheckTimer(c)
  BY <1>4, QuietHeard DEF CheckRequest, LookAtPort, CheckTimer
<1>5. CASE Wakes(c, "wait", "check") \/ Wakes(c, "sleep", "look") \/ ClearSignal(c)
  <2>1. /\ sigRecvd' = [sigRecvd EXCEPT ![port] = FALSE]
        /\ UNCHANGED <<type, bus, mpMsgList>>
    BY <1>5 DEF Wakes, ClearSignal, port, s
  <2> QED
    BY <1>2, <2>1, QuietHeard DEF TypeOK
<1>6. CASE RemoveRequest(c)
  <2>1. mpMsgList' = [mpMsgList EXCEPT ![port] = Unlink(@, s)]
    BY <1>6 DEF RemoveRequest, port, s
  <2>2. mpMsgList'[ReplyPort[r]] = mpMsgList[ReplyPort[r]]
    BY <1>2, <2>1 DEF TypeOK
  <2> QED
    BY <1>6, <2>2, QuietHeard DEF RemoveRequest
<1>7. CASE TimeoutOrSignal(c)
  <2>1. sigRecvd[ReplyPort[r]] => sigRecvd'[ReplyPort[r]]
    BY <1>2, <1>7 DEF TimeoutOrSignal, TypeOK
  <2> QED
    BY <1>7, <2>1, QuietHeard DEF TimeoutOrSignal
<1>8. CASE AbortTimer(c)
  BY <1>1, <1>8, AbortHeard DEF AbortTimer, Step, s
<1> QED
  BY <1>3, <1>4, <1>5, <1>6, <1>7, <1>8 DEF GoesOn

(* What NoMissedReply asks of one program.                                 *)
Warned(c) ==
  /\ at[c].step \in {"wait", "timeout"} /\ type[at[c].req] = "reply"
       => Told(at[c].req, {"link", "signal"})
  /\ at[c].step = "sleep" /\ mpMsgList[ReplyPort[at[c].req]] # << >>
       => Told(at[c].req, {"signal"})

AllWarned == \A c \in Tasks : Warned(c)

LEMMA NoMissedWarned == NoMissedReply <=> AllWarned
  BY DEF AllWarned, NoMissedReply, Warned, Told, Coming

(* A program that stays where it is is warned as before.                   *)
LEMMA WarnedStays ==
  ASSUME TypeOK, NEW d \in Tasks, Warned(d), at'[d] = at[d],
         at[d].step # "run" => Heard(at[d].req)
  PROVE  Warned(d)'
  BY DEF Warned, Heard, Told, Coming

LEMMA NoMissedStep ==
  ASSUME TypeOK, OwnCalls, AllWarned, [Next]_vars
  PROVE  AllWarned'
<1>0. \A d \in Tasks : at[d].step # "run" => at[d].req \in Requests /\ TaskOf(at[d].req) = d
  BY StepType DEF OwnCalls, Program
<1>1. CASE VBlank \/ Handler \/ BusActs
  <2>1. UNCHANGED at
    BY <1>1 DEF VBlank, Handler, HandlerEnds, Expire, BusActs, BusStep, BusWait, BusGet,
                BusHardware, BusSendCmd, BusIRQ, BusFinish,
                BusFlush, BusMark, BusLink, BusSignal
  <2> QED
    BY <1>0, <1>1, <2>1, DevicesHeard, WarnedStays DEF AllWarned
<1>2. ASSUME NEW c \in Tasks, Asks(c) PROVE AllWarned'
  <2>1. Begins(c)
    BY <1>2, AsksBegins
  <2>2. Warned(c)'
    BY <2>1 DEF Begins, Warned
  <2>3. ASSUME NEW d \in Tasks, d # c PROVE Warned(d)'
    BY <1>0, <1>2, <2>1, <2>3, AsksHeard, WarnedStays DEF AllWarned, Begins
  <2> QED
    BY <2>2, <2>3 DEF AllWarned
<1>3. ASSUME NEW c \in Tasks, GoesOn(c) PROVE AllWarned'
  <2>1. Continues(c)
    BY <1>3, GoesOnContinues
  <2>2. Warned(c)'
    <3>1. CASE CheckRequest(c) /\ type[at[c].req] = "message"
      <4>1. at'[c].step = "wait" /\ at'[c].req = at[c].req /\ UNCHANGED type
        BY <3>1, GoesPlace DEF CheckRequest
      <4> QED
        BY <3>1, <4>1 DEF Warned
    <3>2. CASE LookAtPort(c)
      <4>1. CASE mpMsgList[ReplyPort[at[c].req]] = << >>
        <5>1. at'[c].step = "sleep" /\ at'[c].req = at[c].req /\ UNCHANGED mpMsgList
          BY <3>2, <4>1, GoesPlace DEF LookAtPort
        <5> QED
          BY <4>1, <5>1 DEF Warned
      <4>2. CASE mpMsgList[ReplyPort[at[c].req]] # << >>
        BY <3>2, <4>2, ReturnsPlace DEF LookAtPort, Warned
      <4> QED
        BY <4>1, <4>2
    <3>3. CASE SignalUnit(c)
      <4>1. at[c].call \in {"SendIO", "DoIO"} /\ Begun(c, at[c].call, at[c].req)
        BY <2>1, <3>3 DEF Continues, SignalUnit, Step, Places
      <4> QED
        BY <4>1, BegunPlace DEF Warned
    <3>4. CASE Returns(c)
      BY <3>4, ReturnsPlace DEF Warned
    <3>5. ASSUME NEW step \in {"check", "remove", "look", "late", "abort", "clear"}, Goes(c, step)
          PROVE  Warned(c)'
      BY <3>5, GoesPlace DEF Warned
    <3> QED
      BY <1>3, <3>1, <3>2, <3>3, <3>4, <3>5
      DEF GoesOn, CheckRequest, Wakes, RemoveRequest, TimeoutOrSignal, CheckTimer, AbortTimer,
          ClearSignal
  <2>3. ASSUME NEW d \in Tasks, d # c PROVE Warned(d)'
    <3>1. at[d].step # "run" => Heard(at[d].req)
      BY <1>0, <1>3, <2>3, GoesOnHeard
    <3> QED
      BY <2>1, <2>3, <3>1, WarnedStays DEF AllWarned, Continues
  <2> QED
    BY <2>2, <2>3 DEF AllWarned
<1>4. CASE UNCHANGED vars
  BY <1>4 DEF vars, AllWarned, Warned, Told, Coming
<1> QED
  BY <1>1, <1>2, <1>3, <1>4 DEF Next, BusActs

(* WaitIO(), WaitPort() and the timeout of sdcard_WaitTO() never sleep on  *)
(* an answer that is there: with any number of tasks, ports and requests   *)
(* in flight the signal of the port is set, or the bus task is about to    *)
(* set it.  It rests on every call being about the caller's own request,   *)
(* so that no task clears the signal of another.                           *)
THEOREM SpecNoMissedReply == Spec => []NoMissedReply
<1>1. Init => OwnCalls /\ AllWarned
  BY DEF Init, OwnCalls, AllWarned, Warned, Program
<1> QED
  BY <1>1, NoMissedWarned, InitType, NextType, OwnCallsStep, NoMissedStep, PTL DEF Spec

-----------------------------------------------------------------------------
(* Where the requests are, if no program that uses an SD card can run      *)
(* while the bus task is ready (the run device_reply shows what happens    *)
(* otherwise).  The inductive invariant says where a request is and what   *)
(* its type is there, what a call that waits for it relies on, that        *)
(* nothing is left of a timeout that is over, and that the lists of the    *)
(* timer are in order.                                                     *)
BusTaskFirst == \A r \in UnitRequests : TaskOf(r) \notin Preempts

AtPort(p) == Entries(mpMsgList[p])

InList(l) == Entries(timeList[l])

(* A request is in one list or with the bus task exactly while it is sent, *)
(* and its type says on which side of the reply it is.                     *)
Place(r) ==
  /\ \A p \in Ports : r \in AtPort(p) =>
       p = ReplyPort[r] /\ type[r] = "reply" /\ r \in sent /\ ~AtBusTask(r)
  /\ r \in AtPort(UnitPort) => type[r] = "message" /\ r \in sent /\ ~AtBusTask(r)
  /\ \A l \in Lists : r \in InList(l) =>
       type[r] = "message" /\ r \in sent /\ \A k \in Lists : r \in InList(k) => k = l
  /\ AtBusTask(r) => r \in sent /\ type[r] = IF bus.step = "link" THEN "reply" ELSE "message"
  /\ r \in sent => \/ AtBusTask(r) \/ r \in AtPort(UnitPort)
                   \/ r \in AtPort(ReplyPort[r]) \/ \E l \in Lists : r \in InList(l)

ListsOnce ==
  /\ \A p \in Ports \cup {UnitPort} : Once(mpMsgList[p])
  /\ \A l \in Lists : Once(timeList[l])

PlaceInv == ListsOnce /\ \A r \in Requests : Place(r)

(* A call is about a request of its own task, which stays sent until the   *)
(* call takes it back; when it is about to, the request is back.           *)
Held(c) ==
  /\ at[c].step \in {"signal", "check", "wait", "remove", "timeout", "late", "abort"}
       => at[c].req \in sent
  /\ at[c].step = "remove" => type[at[c].req] = "reply" /\ ~AtBusTask(at[c].req)

CallInv == \A c \in Tasks : Held(c)

(* The timer request of a timeout is used by sdcard_WaitTO() alone.        *)
InTimeout(r) == at[TaskOf(r)].call = "WaitTO" /\ at[TaskOf(r)].req = r

Timer(r) ==
  /\ ~InTimeout(r) \/ at[TaskOf(r)].step = "clear" => r \notin sent
  /\ ~InTimeout(r) => ~sigRecvd[ReplyPort[r]]

TimerInv == \A r \in Timeouts : Timer(r)

SortInv == \A l \in Lists : Sorted(timeList[l], left)

IInv == TypeOK /\ OwnCalls /\ PlaceInv /\ CallInv /\ TimerInv /\ SortInv

---------------------------------------------------------------------------
(* Where the requests are *)

(* A step that does not move request r.                                    *)
SamePlace(r) ==
  /\ \A p \in Ports \cup {UnitPort} : r \in AtPort(p)' <=> r \in AtPort(p)
  /\ \A l \in Lists : r \in InList(l)' <=> r \in InList(l)
  /\ AtBusTask(r)' <=> AtBusTask(r)
  /\ AtBusTask(r) => (bus'.step = "link" <=> bus.step = "link")
  /\ type'[r] = type[r]
  /\ r \in sent' <=> r \in sent

LEMMA StaysPlaced ==
  ASSUME NEW r \in Requests, Place(r), SamePlace(r)
  PROVE  Place(r)'
<1>1. ReplyPort[r] \in Ports
  BY ConstantFacts
<1> QED
  BY <1>1 DEF Place, SamePlace

LEMMA PlaceFacts ==
  ASSUME TypeOK, PlaceInv, NEW r \in Requests
  PROVE  /\ r \notin sent => /\ \A p \in Ports \cup {UnitPort} : r \notin AtPort(p)
                             /\ \A l \in Lists : r \notin InList(l)
                             /\ ~AtBusTask(r)
         /\ r \in sent => type[r] \in {"message", "reply"}
         /\ r \in AtPort(UnitPort) \/ AtBusTask(r) => r \in UnitRequests
         /\ \A l \in Lists : r \in InList(l) => r \in TimerRequests
<1>1. ReplyPort[r] \in Ports
  BY ConstantFacts
<1>2. r \in AtPort(UnitPort) => r \in UnitRequests
  BY EntriesFacts DEF TypeOK, AtPort
<1>3. AtBusTask(r) => r \in UnitRequests
  BY ConstantFacts DEF TypeOK, AtBusTask
<1>4. \A l \in Lists : r \in InList(l) => r \in TimerRequests
  BY EntriesFacts DEF TypeOK, InList
<1> QED
  BY <1>1, <1>2, <1>3, <1>4 DEF PlaceInv, Place

(* ReplyMsg() of r and the lists.                                          *)
LEMMA RepliedPlace ==
  ASSUME TypeOK, NEW r \in Requests
  PROVE  /\ Entries(Replied(r)[ReplyPort[r]]) = AtPort(ReplyPort[r]) \cup {r}
         /\ Once(mpMsgList[ReplyPort[r]]) /\ r \notin AtPort(ReplyPort[r])
              => Once(Replied(r)[ReplyPort[r]])
         /\ \A p \in Ports \cup {UnitPort} :
              p # ReplyPort[r] => Replied(r)[p] = mpMsgList[p]
<1>1. /\ ReplyPort[r] \in Ports \cup {UnitPort}
      /\ mpMsgList[ReplyPort[r]] \in Seq(Requests)
      /\ mpMsgList \in [Ports \cup {UnitPort} -> Seq(Requests)]
  BY ConstantFacts DEF TypeOK
<1>2. /\ Replied(r)[ReplyPort[r]] = Append(mpMsgList[ReplyPort[r]], r)
      /\ \A p \in Ports \cup {UnitPort} : p # ReplyPort[r] => Replied(r)[p] = mpMsgList[p]
  BY <1>1 DEF Replied
<1> QED
  BY <1>1, <1>2, AppendFacts DEF AtPort

LEMMA QuietPlace ==
  ASSUME PlaceInv, UNCHANGED <<type, mpMsgList, timeList, sent>>,
         \A r \in Requests : /\ AtBusTask(r)' <=> AtBusTask(r)
                             /\ AtBusTask(r) => (bus'.step = "link" <=> bus.step = "link")
  PROVE  PlaceInv'
<1>1. ListsOnce'
  BY DEF PlaceInv, ListsOnce
<1>2. ASSUME NEW r \in Requests PROVE Place(r)'
  <2>1. SamePlace(r)
    BY DEF SamePlace, AtPort, InList
  <2> QED
    BY <2>1, StaysPlaced DEF PlaceInv
<1> QED
  BY <1>1, <1>2 DEF PlaceInv

LEMMA ExpirePlace ==
  ASSUME TypeOK, PlaceInv, NEW l \in Lists, Expire(l)
  PROVE  PlaceInv'
<1>1. timeList[l] \in Seq(TimerRequests) /\ timeList[l] # << >>
  BY DEF Expire, Due, TypeOK
<1>2. PICK r \in TimerRequests : r = Head(timeList[l]) /\ r \in Requests /\ r \in InList(l)
  BY <1>1, EntriesFacts, ConstantFacts DEF InList
<1>3. /\ type' = [type EXCEPT ![r] = "reply"] /\ mpMsgList' = Replied(r)
      /\ timeList' = [timeList EXCEPT ![l] = Tail(timeList[l])]
      /\ UNCHANGED <<bus, sent>>
  BY <1>2 DEF Expire, Reply
<1>4. /\ Once(timeList[l]) /\ type[r] = "message" /\ r \in sent
      /\ \A p \in Ports \cup {UnitPort} : r \notin AtPort(p)
      /\ ~AtBusTask(r) /\ \A k \in Lists : r \in InList(k) => k = l
      /\ ReplyPort[r] \in Ports \cup {UnitPort} /\ ReplyPort[r] \in Ports
  BY <1>2, PlaceFacts, ConstantFacts DEF PlaceInv, Place, ListsOnce
<1>5. /\ Once(Tail(timeList[l])) /\ Entries(Tail(timeList[l])) = InList(l) \ {r}
      /\ timeList'[l] = Tail(timeList[l])
      /\ \A k \in Lists : k # l => timeList'[k] = timeList[k]
  BY <1>1, <1>2, <1>3, <1>4, TailFacts DEF InList, TypeOK
<1>6. /\ AtPort(ReplyPort[r])' = AtPort(ReplyPort[r]) \cup {r}
      /\ \A p \in Ports \cup {UnitPort} : p # ReplyPort[r] => mpMsgList'[p] = mpMsgList[p]
      /\ Once(mpMsgList'[ReplyPort[r]])
  BY <1>2, <1>3, <1>4, RepliedPlace DEF PlaceInv, ListsOnce, AtPort
<1>7. ListsOnce'
  BY <1>5, <1>6 DEF PlaceInv, ListsOnce
<1>8. Place(r)'
  <2>1. /\ type'[r] = "reply" /\ ~AtBusTask(r)' /\ r \in sent'
        /\ \A k \in Lists : r \notin InList(k)'
        /\ \A p \in Ports \cup {UnitPort} : r \in AtPort(p)' <=> p = ReplyPort[r]
    BY <1>2, <1>3, <1>4, <1>5, <1>6 DEF TypeOK, AtPort, InList, AtBusTask
  <2> QED
    BY <1>4, <2>1, ConstantFacts DEF Place
<1>9. ASSUME NEW s \in Requests, s # r PROVE Place(s)'
  <2>1. SamePlace(s)
    BY <1>2, <1>3, <1>5, <1>6, <1>9 DEF TypeOK, SamePlace, AtPort, InList, AtBusTask
  <2> QED
    BY <2>1, StaysPlaced DEF PlaceInv
<1> QED
  BY <1>7, <1>8, <1>9 DEF PlaceInv

(* The first request of the bus task's port.                               *)
LEMMA UnitHead ==
  ASSUME TypeOK, PlaceInv, mpMsgList[UnitPort] # << >>, NEW r, r = Head(mpMsgList[UnitPort])
  PROVE  /\ r \in UnitRequests /\ r \in Requests /\ r \in AtPort(UnitPort)
         /\ type[r] = "message" /\ r \in sent /\ ~AtBusTask(r)
         /\ \A p \in Ports : r \notin AtPort(p)
         /\ \A l \in Lists : r \notin InList(l)
         /\ Once(Tail(mpMsgList[UnitPort]))
         /\ Entries(Tail(mpMsgList[UnitPort])) = AtPort(UnitPort) \ {r}
<1>1. mpMsgList[UnitPort] \in Seq(UnitRequests) /\ Once(mpMsgList[UnitPort])
  BY DEF TypeOK, PlaceInv, ListsOnce
<1>2. r \in UnitRequests /\ r \in Requests /\ r \in AtPort(UnitPort)
  BY <1>1, EntriesFacts, ConstantFacts DEF AtPort
<1>3. /\ type[r] = "message" /\ r \in sent /\ ~AtBusTask(r)
      /\ \A p \in Ports : r \notin AtPort(p)
      /\ \A l \in Lists : r \notin InList(l)
  BY <1>2, PlaceFacts, ConstantFacts DEF PlaceInv, Place
<1> QED
  BY <1>1, <1>2, <1>3, TailFacts DEF AtPort

LEMMA BusGetPlace ==
  ASSUME TypeOK, PlaceInv, BusGet
  PROVE  PlaceInv'
<1>1. CASE mpMsgList[UnitPort] = << >>
  <2>1. /\ bus.step = "get" /\ bus'.req = bus.req /\ bus'.step = "wait"
        /\ UNCHANGED <<type, mpMsgList, timeList, sent>> /\ bus.req = None
    BY <1>1 DEF BusGet, BusAt, BusTo, TypeOK, BusSteps, Hardware
  <2> QED
    BY <2>1, QuietPlace, ConstantFacts DEF AtBusTask
<1>2. CASE mpMsgList[UnitPort] # << >>
  <2>1. PICK r \in UnitRequests : r = Head(mpMsgList[UnitPort])
    BY <1>2, UnitHead
  <2>2. /\ bus'.step \in {"flush", "work"} /\ bus'.req = r /\ bus.req = None
        /\ mpMsgList' = [mpMsgList EXCEPT ![UnitPort] = Tail(mpMsgList[UnitPort])]
        /\ UNCHANGED <<type, timeList, sent>>
    BY <1>2, <2>1 DEF BusGet, BusAt, TypeOK, BusSteps, Hardware
  <2>3. /\ mpMsgList'[UnitPort] = Tail(mpMsgList[UnitPort])
        /\ \A p \in Ports : mpMsgList'[p] = mpMsgList[p]
    BY <2>2, ConstantFacts DEF TypeOK
  <2>4. ListsOnce'
    BY <1>2, <2>1, <2>2, <2>3, UnitHead DEF PlaceInv, ListsOnce
  <2>5. Place(r)'
    <3>1. /\ type'[r] = "message" /\ AtBusTask(r)' /\ r \in sent' /\ bus'.step # "link"
          /\ \A k \in Lists : r \notin InList(k)'
          /\ \A p \in Ports \cup {UnitPort} : r \notin AtPort(p)'
      BY <1>2, <2>1, <2>2, <2>3, UnitHead DEF AtPort, InList, AtBusTask
    <3> QED
      BY <3>1 DEF Place
  <2>6. ASSUME NEW s \in Requests, s # r PROVE Place(s)'
    <3>1. SamePlace(s)
      BY <1>2, <2>1, <2>2, <2>3, <2>6, UnitHead, ConstantFacts
      DEF SamePlace, AtPort, InList, AtBusTask
    <3> QED
      BY <3>1, StaysPlaced DEF PlaceInv
  <2> QED
    BY <2>4, <2>5, <2>6 DEF PlaceInv
<1> QED
  BY <1>1, <1>2

LEMMA BusFlushPlace ==
  ASSUME TypeOK, PlaceInv, BusFlush
  PROVE  PlaceInv'
<1>0. bus.step = "flush"
  BY DEF BusFlush, BusAt
<1>1. CASE mpMsgList[UnitPort] = << >>
  <2>1. /\ bus'.req = bus.req /\ bus'.step = "reply"
        /\ UNCHANGED <<type, mpMsgList, timeList, sent>>
    BY <1>0, <1>1 DEF BusFlush, BusTo, TypeOK
  <2> QED
    BY <1>0, <2>1, QuietPlace DEF AtBusTask
<1>2. CASE mpMsgList[UnitPort] # << >>
  <2>1. PICK r \in UnitRequests : r = Head(mpMsgList[UnitPort])
    BY <1>2, UnitHead
  <2>2. /\ r \in Requests /\ ReplyPort[r] \in Ports /\ ReplyPort[r] # UnitPort
    BY <2>1, ConstantFacts
  <2>3. /\ type' = [type EXCEPT ![r] = "reply"]
        /\ mpMsgList' = [Replied(r) EXCEPT ![UnitPort] = Tail(mpMsgList[UnitPort])]
        /\ UNCHANGED <<timeList, sent, bus>>
    BY <1>2, <2>1, <2>2 DEF BusFlush, Reply, Replied, TypeOK
  <2>4. /\ mpMsgList'[UnitPort] = Tail(mpMsgList[UnitPort])
        /\ mpMsgList'[ReplyPort[r]] = Replied(r)[ReplyPort[r]]
        /\ \A p \in Ports : p # ReplyPort[r] => mpMsgList'[p] = mpMsgList[p]
    <3>1. Replied(r) \in [Ports \cup {UnitPort} -> Seq(Requests)]
      BY <2>2, AppendFacts DEF TypeOK, Replied
    <3> QED
      BY <2>2, <2>3, <3>1, RepliedPlace, ConstantFacts
  <2>5. /\ AtPort(UnitPort)' = AtPort(UnitPort) \ {r} /\ Once(mpMsgList'[UnitPort])
        /\ AtPort(ReplyPort[r])' = AtPort(ReplyPort[r]) \cup {r}
        /\ Once(mpMsgList'[ReplyPort[r]])
    BY <1>2, <2>1, <2>2, <2>4, UnitHead, RepliedPlace DEF AtPort, PlaceInv, ListsOnce
  <2>6. ListsOnce'
    BY <2>3, <2>4, <2>5 DEF PlaceInv, ListsOnce
  <2>7. Place(r)'
    <3>1. /\ type'[r] = "reply" /\ ~AtBusTask(r)' /\ r \in sent'
          /\ \A k \in Lists : r \notin InList(k)'
          /\ \A p \in Ports : r \in AtPort(p)' <=> p = ReplyPort[r]
          /\ r \notin AtPort(UnitPort)'
      BY <1>2, <2>1, <2>2, <2>3, <2>4, <2>5, UnitHead DEF TypeOK, AtPort, InList, AtBusTask
    <3> QED
      BY <2>2, <3>1 DEF Place
  <2>8. ASSUME NEW s \in Requests, s # r PROVE Place(s)'
    <3>1. SamePlace(s)
      BY <2>2, <2>3, <2>4, <2>5, <2>8 DEF TypeOK, SamePlace, AtPort, InList, AtBusTask
    <3> QED
      BY <3>1, StaysPlaced DEF PlaceInv
  <2> QED
    BY <2>6, <2>7, <2>8 DEF PlaceInv
<1> QED
  BY <1>1, <1>2

LEMMA BusMarkPlace ==
  ASSUME TypeOK, PlaceInv, BusMark
  PROVE  PlaceInv'
<1>1. PICK r \in UnitRequests : r = bus.req
  BY DEF BusMark, BusAt, TypeOK
<1>2. /\ r \in Requests /\ bus.step = "reply" /\ bus'.step = "link" /\ bus'.req = r
      /\ type' = [type EXCEPT ![r] = "reply"] /\ UNCHANGED <<mpMsgList, timeList, sent>>
  BY <1>1, ConstantFacts DEF BusMark, BusAt, BusTo, TypeOK
<1>3. AtBusTask(r) /\ AtBusTask(r)'
  BY <1>1, <1>2 DEF AtBusTask
<1>4. ListsOnce'
  BY <1>2 DEF PlaceInv, ListsOnce
<1>5. Place(r)'
  <2>1. /\ type'[r] = "reply" /\ r \in sent'
        /\ \A k \in Lists : r \notin InList(k)'
        /\ \A p \in Ports \cup {UnitPort} : r \notin AtPort(p)'
    BY <1>2, <1>3, PlaceFacts, ConstantFacts DEF TypeOK, PlaceInv, Place, AtPort, InList
  <2> QED
    BY <1>2, <1>3, <2>1 DEF Place
<1>6. ASSUME NEW s \in Requests, s # r PROVE Place(s)'
  <2>1. SamePlace(s)
    BY <1>1, <1>2, <1>6 DEF TypeOK, SamePlace, AtPort, InList, AtBusTask
  <2> QED
    BY <2>1, StaysPlaced DEF PlaceInv
<1> QED
  BY <1>4, <1>5, <1>6 DEF PlaceInv

LEMMA BusLinkPlace ==
  ASSUME TypeOK, PlaceInv, BusLink
  PROVE  PlaceInv'
<1>1. PICK r \in UnitRequests : r = bus.req
  BY DEF BusLink, BusAt, TypeOK
<1>2. /\ r \in Requests /\ bus.step = "link" /\ bus'.step = "signal"
      /\ mpMsgList' = Replied(r) /\ UNCHANGED <<type, timeList, sent>>
      /\ ReplyPort[r] \in Ports /\ ReplyPort[r] # UnitPort
  BY <1>1, ConstantFacts DEF BusLink, BusAt, BusTo, TypeOK
<1>3. /\ AtBusTask(r) /\ ~AtBusTask(r)'
      /\ \A s \in Requests : s # r => ~AtBusTask(s) /\ ~AtBusTask(s)'
  BY <1>1, <1>2 DEF AtBusTask
<1>4. /\ type[r] = "reply" /\ r \in sent
      /\ \A k \in Lists : r \notin InList(k)
      /\ \A p \in Ports \cup {UnitPort} : r \notin AtPort(p)
  BY <1>2, <1>3, ConstantFacts DEF PlaceInv, Place
<1>5. /\ AtPort(ReplyPort[r])' = AtPort(ReplyPort[r]) \cup {r}
      /\ \A p \in Ports \cup {UnitPort} : p # ReplyPort[r] => mpMsgList'[p] = mpMsgList[p]
      /\ Once(mpMsgList'[ReplyPort[r]])
  BY <1>2, <1>4, RepliedPlace DEF PlaceInv, ListsOnce, AtPort
<1>6. ListsOnce'
  BY <1>2, <1>5 DEF PlaceInv, ListsOnce
<1>7. Place(r)'
  <2>1. /\ type'[r] = "reply" /\ r \in sent'
        /\ \A k \in Lists : r \notin InList(k)'
        /\ \A p \in Ports \cup {UnitPort} : r \in AtPort(p)' <=> p = ReplyPort[r]
    BY <1>2, <1>4, <1>5 DEF AtPort, InList
  <2> QED
    BY <1>2, <1>3, <2>1 DEF Place
<1>8. ASSUME NEW s \in Requests, s # r PROVE Place(s)'
  <2>1. SamePlace(s)
    BY <1>2, <1>3, <1>5, <1>8 DEF SamePlace, AtPort, InList
  <2> QED
    BY <2>1, StaysPlaced DEF PlaceInv
<1> QED
  BY <1>6, <1>7, <1>8 DEF PlaceInv

LEMMA DevicesPlace ==
  ASSUME TypeOK, PlaceInv, VBlank \/ Handler \/ BusActs
  PROVE  PlaceInv'
<1>1. CASE VBlank \/ HandlerEnds
  BY <1>1, QuietPlace DEF VBlank, HandlerEnds, AtBusTask
<1>2. CASE BusWait \/ BusHardware
  BY <1>2, QuietPlace DEF BusWait, BusHardware, BusSendCmd, BusIRQ, BusFinish,
                           BusAt, BusTo, AtBusTask, TypeOK
<1>3. CASE BusSignal
  <2>1. /\ bus.step = "signal" /\ bus'.step = "get" /\ bus'.req = None
        /\ UNCHANGED <<type, mpMsgList, timeList, sent>>
    BY <1>3 DEF BusSignal, BusAt
  <2> QED
    BY <2>1, QuietPlace, ConstantFacts DEF AtBusTask
<1> QED
  BY <1>1, <1>2, <1>3, ExpirePlace, BusGetPlace, BusFlushPlace, BusMarkPlace, BusLinkPlace
  DEF Handler, BusActs, BusStep, BusHardware

LEMMA BeginUnitPlace ==
  ASSUME TypeOK, PlaceInv, NEW c, NEW r \in UnitRequests, NEW cmd, NEW call,
         BeginUnit(c, r, cmd, call)
  PROVE  PlaceInv'
<1>1. /\ r \in Requests /\ r \notin sent /\ sent' = sent \cup {r}
      /\ type' = [type EXCEPT ![r] = "message"]
      /\ mpMsgList' = [mpMsgList EXCEPT ![UnitPort] = Append(mpMsgList[UnitPort], r)]
      /\ UNCHANGED <<timeList, bus>>
  BY ConstantFacts DEF BeginUnit, MaySend
<1>2. /\ mpMsgList'[UnitPort] = Append(mpMsgList[UnitPort], r)
      /\ \A p \in Ports : mpMsgList'[p] = mpMsgList[p]
  BY <1>1, ConstantFacts DEF TypeOK
<1>3. /\ \A p \in Ports \cup {UnitPort} : r \notin AtPort(p)
      /\ \A l \in Lists : r \notin InList(l)
      /\ ~AtBusTask(r)
  BY <1>1, PlaceFacts
<1>4. AtPort(UnitPort)' = AtPort(UnitPort) \cup {r} /\ Once(mpMsgList'[UnitPort])
  BY <1>1, <1>2, <1>3, AppendFacts DEF TypeOK, PlaceInv, ListsOnce, AtPort
<1>5. ListsOnce'
  BY <1>1, <1>2, <1>4 DEF PlaceInv, ListsOnce
<1>6. Place(r)'
  <2>1. /\ type'[r] = "message" /\ r \in sent' /\ ~AtBusTask(r)'
        /\ \A k \in Lists : r \notin InList(k)'
        /\ \A p \in Ports : r \notin AtPort(p)'
        /\ r \in AtPort(UnitPort)'
    BY <1>1, <1>2, <1>3, <1>4 DEF TypeOK, AtPort, InList, AtBusTask
  <2> QED
    BY <2>1 DEF Place
<1>7. ASSUME NEW s \in Requests, s # r PROVE Place(s)'
  <2>1. SamePlace(s)
    BY <1>1, <1>2, <1>4, <1>7 DEF TypeOK, SamePlace, AtPort, InList, AtBusTask
  <2> QED
    BY <2>1, StaysPlaced DEF PlaceInv
<1> QED
  BY <1>5, <1>6, <1>7 DEF PlaceInv

LEMMA AddRequestPlace ==
  ASSUME TypeOK, PlaceInv, NEW c, NEW r \in TimerRequests, NEW l \in Lists,
         NEW time \in 0 .. MaxTime, NEW call, AddRequest(c, r, l, time, call)
  PROVE  PlaceInv'
<1>1. /\ r \in Requests /\ r \notin sent /\ sent' = sent \cup {r}
      /\ type' = [type EXCEPT ![r] = "message"]
      /\ timeList' = [timeList EXCEPT ![l] = Insert(timeList[l], r, time)]
      /\ UNCHANGED <<mpMsgList, bus>>
  BY ConstantFacts DEF AddRequest, MaySend
<1>2. /\ \A p \in Ports \cup {UnitPort} : r \notin AtPort(p)
      /\ \A k \in Lists : r \notin InList(k)
      /\ ~AtBusTask(r) /\ ReplyPort[r] \in Ports
  BY <1>1, PlaceFacts, ConstantFacts
<1>3. /\ timeList'[l] = Insert(timeList[l], r, time)
      /\ \A k \in Lists : k # l => timeList'[k] = timeList[k]
  BY <1>1 DEF TypeOK
<1>4. InList(l)' = InList(l) \cup {r} /\ Once(timeList'[l])
  <2>1. /\ left \in [TimerRequests -> 0 .. MaxTime] /\ timeList[l] \in Seq(TimerRequests)
        /\ r \notin Entries(timeList[l]) /\ Once(timeList[l])
    BY <1>2 DEF TypeOK, PlaceInv, ListsOnce, InList
  <2>2. /\ Entries(Insert(timeList[l], r, time)) = Entries(timeList[l]) \cup {r}
        /\ Once(Insert(timeList[l], r, time))
    BY <2>1, InsertFacts
  <2> QED
    BY <1>3, <2>2 DEF InList
<1>5. ListsOnce'
  BY <1>1, <1>3, <1>4 DEF PlaceInv, ListsOnce
<1>6. Place(r)'
  <2>1. /\ type'[r] = "message" /\ r \in sent' /\ ~AtBusTask(r)'
        /\ \A k \in Lists : r \in InList(k)' <=> k = l
        /\ \A p \in Ports \cup {UnitPort} : r \notin AtPort(p)'
    BY <1>1, <1>2, <1>3, <1>4 DEF TypeOK, AtPort, InList, AtBusTask
  <2> QED
    BY <1>2, <2>1 DEF Place
<1>7. ASSUME NEW s \in Requests, s # r PROVE Place(s)'
  <2>1. SamePlace(s)
    BY <1>1, <1>3, <1>4, <1>7 DEF TypeOK, SamePlace, AtPort, InList, AtBusTask
  <2> QED
    BY <2>1, StaysPlaced DEF PlaceInv
<1> QED
  BY <1>5, <1>6, <1>7 DEF PlaceInv

LEMMA ImmediatePlace ==
  ASSUME TypeOK, PlaceInv, NEW c, NEW r \in TimerRequests, NEW ahead, NEW call,
         Immediate(c, r, ahead, call)
  PROVE  PlaceInv'
<1>1. /\ r \in Requests /\ r \notin sent /\ UNCHANGED <<timeList, bus>>
      /\ ReplyPort[r] \in Ports
  BY ConstantFacts DEF Immediate, MaySend
<1>2. /\ \A p \in Ports \cup {UnitPort} : r \notin AtPort(p)
      /\ \A k \in Lists : r \notin InList(k)
      /\ ~AtBusTask(r)
  BY <1>1, PlaceFacts
<1>3. CASE call = "SendIO"
  <2>1. /\ sent' = sent \cup {r} /\ type' = [type EXCEPT ![r] = "reply"]
        /\ mpMsgList' = Replied(r)
    BY <1>3 DEF Immediate, Reply
  <2>2. /\ AtPort(ReplyPort[r])' = AtPort(ReplyPort[r]) \cup {r}
        /\ \A p \in Ports \cup {UnitPort} : p # ReplyPort[r] => mpMsgList'[p] = mpMsgList[p]
        /\ Once(mpMsgList'[ReplyPort[r]])
    BY <1>1, <1>2, <2>1, RepliedPlace DEF PlaceInv, ListsOnce, AtPort
  <2>3. ListsOnce'
    BY <1>1, <2>2 DEF PlaceInv, ListsOnce
  <2>4. Place(r)'
    <3>1. /\ type'[r] = "reply" /\ r \in sent' /\ ~AtBusTask(r)'
          /\ \A k \in Lists : r \notin InList(k)'
          /\ \A p \in Ports \cup {UnitPort} : r \in AtPort(p)' <=> p = ReplyPort[r]
      BY <1>1, <1>2, <2>1, <2>2 DEF TypeOK, AtPort, InList, AtBusTask
    <3> QED
      BY <1>1, <3>1, ConstantFacts DEF Place
  <2>5. ASSUME NEW s \in Requests, s # r PROVE Place(s)'
    <3>1. SamePlace(s)
      BY <1>1, <2>1, <2>2, <2>5 DEF TypeOK, SamePlace, AtPort, InList, AtBusTask
    <3> QED
      BY <3>1, StaysPlaced DEF PlaceInv
  <2> QED
    BY <2>3, <2>4, <2>5 DEF PlaceInv
<1>4. CASE call # "SendIO"
  <2>1. type' = [type EXCEPT ![r] = "message"] /\ UNCHANGED <<sent, mpMsgList>>
    BY <1>4 DEF Immediate
  <2>2. ListsOnce'
    BY <1>1, <2>1 DEF PlaceInv, ListsOnce
  <2>3. Place(r)'
    BY <1>1, <1>2, <2>1 DEF Place, AtPort, InList, AtBusTask
  <2>4. ASSUME NEW s \in Requests, s # r PROVE Place(s)'
    <3>1. SamePlace(s)
      BY <1>1, <2>1, <2>4 DEF TypeOK, SamePlace, AtPort, InList, AtBusTask
    <3> QED
      BY <3>1, StaysPlaced DEF PlaceInv
  <2> QED
    BY <2>2, <2>3, <2>4 DEF PlaceInv
<1> QED
  BY <1>3, <1>4

LEMMA AbortPlace ==
  ASSUME TypeOK, PlaceInv, NEW r \in TimerRequests, r \in sent, AbortRequest(r),
         UNCHANGED <<sent, bus>>
  PROVE  PlaceInv'
<1>1. CASE type[r] = "reply"
  BY <1>1, QuietPlace DEF AbortRequest, AtBusTask
<1>2. CASE type[r] # "reply"
  <2>1. /\ type' = [type EXCEPT ![r] = "reply"] /\ mpMsgList' = Replied(r)
        /\ timeList' = [l \in Lists |-> Unlink(timeList[l], r)]
    BY <1>2 DEF AbortRequest, Reply
  <2>2. r \in Requests /\ ReplyPort[r] \in Ports /\ ReplyPort[r] # UnitPort
    BY ConstantFacts
  <2>3. ~AtBusTask(r) /\ \A p \in Ports \cup {UnitPort} : r \notin AtPort(p)
    BY <1>2, <2>2, PlaceFacts, ConstantFacts DEF PlaceInv, Place
  <2>4. /\ AtPort(ReplyPort[r])' = AtPort(ReplyPort[r]) \cup {r}
        /\ \A p \in Ports \cup {UnitPort} : p # ReplyPort[r] => mpMsgList'[p] = mpMsgList[p]
        /\ Once(mpMsgList'[ReplyPort[r]])
    BY <2>1, <2>2, <2>3, RepliedPlace DEF PlaceInv, ListsOnce, AtPort
  <2>5. \A l \in Lists : InList(l)' = InList(l) \ {r} /\ Once(timeList'[l])
    BY <2>1, UnlinkFacts DEF TypeOK, PlaceInv, ListsOnce, InList
  <2>6. ListsOnce'
    BY <2>4, <2>5 DEF PlaceInv, ListsOnce
  <2>7. Place(r)'
    <3>1. /\ type'[r] = "reply" /\ ~AtBusTask(r)' /\ r \in sent'
          /\ \A k \in Lists : r \notin InList(k)'
          /\ \A p \in Ports \cup {UnitPort} : r \in AtPort(p)' <=> p = ReplyPort[r]
      BY <2>1, <2>2, <2>3, <2>4, <2>5 DEF TypeOK, AtPort, AtBusTask
    <3> QED
      BY <2>2, <3>1, ConstantFacts DEF Place
  <2>8. ASSUME NEW s \in Requests, s # r PROVE Place(s)'
    <3>1. SamePlace(s)
      BY <2>1, <2>4, <2>5, <2>8 DEF TypeOK, SamePlace, AtPort, AtBusTask
    <3> QED
      BY <3>1, StaysPlaced DEF PlaceInv
  <2> QED
    BY <2>6, <2>7, <2>8 DEF PlaceInv
<1> QED
  BY <1>1, <1>2

(* A program takes request r from its port.                                *)
LEMMA TakenPlace ==
  ASSUME TypeOK, PlaceInv, NEW r \in Requests, r \in AtPort(ReplyPort[r]),
         sent' = sent \ {r}, UNCHANGED <<type, timeList, bus>>,
         AtPort(ReplyPort[r])' = AtPort(ReplyPort[r]) \ {r}, Once(mpMsgList'[ReplyPort[r]]),
         \A p \in Ports \cup {UnitPort} : p # ReplyPort[r] => mpMsgList'[p] = mpMsgList[p]
  PROVE  PlaceInv'
<1>1. /\ \A p \in Ports \cup {UnitPort} : r \in AtPort(p) => p = ReplyPort[r]
      /\ ~AtBusTask(r) /\ \A k \in Lists : r \notin InList(k)
  BY ConstantFacts DEF PlaceInv, Place
<1>2. ListsOnce'
  BY DEF PlaceInv, ListsOnce
<1>3. Place(r)'
  <2>1. /\ ~AtBusTask(r)' /\ r \notin sent'
        /\ \A k \in Lists : r \notin InList(k)'
        /\ \A p \in Ports \cup {UnitPort} : r \notin AtPort(p)'
    BY <1>1 DEF AtPort, InList, AtBusTask
  <2> QED
    BY <2>1 DEF Place
<1>4. ASSUME NEW s \in Requests, s # r PROVE Place(s)'
  <2>1. SamePlace(s)
    BY <1>4 DEF SamePlace, AtPort, InList, AtBusTask
  <2> QED
    BY <2>1, StaysPlaced DEF PlaceInv
<1> QED
  BY <1>2, <1>3, <1>4 DEF PlaceInv

LEMMA AsksPlace ==
  ASSUME TypeOK, PlaceInv, NEW c \in Tasks, Asks(c)
  PROVE  PlaceInv'
<1>1. ASSUME NEW r \in TimerRequests, AbortIO(c, r) PROVE PlaceInv'
  BY <1>1, AbortPlace DEF AbortIO
<1>2. ASSUME NEW r, WaitIO(c, r) \/ WaitPort(c, r) PROVE PlaceInv'
  BY <1>2, QuietPlace DEF WaitIO, WaitPort, AtBusTask
<1>3. ASSUME NEW p \in Ports, GetMsg(c, p) PROVE PlaceInv'
  <2>1. mpMsgList[p] \in Seq(Requests) /\ mpMsgList[p] # << >> /\ Once(mpMsgList[p])
    BY <1>3 DEF GetMsg, TypeOK, PlaceInv, ListsOnce
  <2>2. PICK r \in Requests : r = Head(mpMsgList[p]) /\ r \in AtPort(p)
    BY <2>1, EntriesFacts DEF AtPort
  <2>3. p = ReplyPort[r]
    BY <2>2 DEF PlaceInv, Place
  <2>4. /\ mpMsgList'[p] = Tail(mpMsgList[p]) /\ sent' = sent \ {r}
        /\ \A q \in Ports \cup {UnitPort} : q # p => mpMsgList'[q] = mpMsgList[q]
        /\ UNCHANGED <<type, timeList, bus>>
    BY <1>3, <2>2 DEF GetMsg, TypeOK
  <2>5. AtPort(p)' = AtPort(p) \ {r} /\ Once(mpMsgList'[p])
    BY <2>1, <2>2, <2>4, TailFacts DEF AtPort
  <2> QED
    BY <2>2, <2>3, <2>4, <2>5, TakenPlace
<1> QED
  BY <1>1, <1>2, <1>3, BeginUnitPlace, AddRequestPlace, ImmediatePlace, ConstantFacts DEF Asks

LEMMA GoesOnPlace ==
  ASSUME TypeOK, PlaceInv, CallInv, NEW c \in Tasks, GoesOn(c)
  PROVE  PlaceInv'
<1>1. at[c] \in Places
  BY GoesOnContinues DEF Continues
<1>2. PICK r \in Requests : r = at[c].req
  BY <1>1, ConstantFacts DEF Places
<1>3. CASE RemoveRequest(c)
  <2>1. ReplyPort[r] \in Ports
    BY ConstantFacts
  <2>2. r \in sent /\ type[r] = "reply" /\ ~AtBusTask(r)
    BY <1>2, <1>3 DEF RemoveRequest, Step, CallInv, Held
  <2>3. r \in AtPort(ReplyPort[r])
    BY <2>1, <2>2 DEF PlaceInv, Place
  <2>4. /\ mpMsgList'[ReplyPort[r]] = Unlink(mpMsgList[ReplyPort[r]], r) /\ sent' = sent \ {r}
        /\ \A q \in Ports \cup {UnitPort} : q # ReplyPort[r] => mpMsgList'[q] = mpMsgList[q]
        /\ UNCHANGED <<type, timeList, bus>>
    BY <1>2, <1>3, <2>1 DEF RemoveRequest, TypeOK
  <2>5. AtPort(ReplyPort[r])' = AtPort(ReplyPort[r]) \ {r} /\ Once(mpMsgList'[ReplyPort[r]])
    BY <2>1, <2>4, UnlinkFacts DEF AtPort, TypeOK, PlaceInv, ListsOnce
  <2> QED
    BY <2>3, <2>4, <2>5, TakenPlace
<1>4. CASE AbortTimer(c)
  <2>1. r \in TimerRequests
    BY <1>1, <1>2, <1>4, ConstantFacts DEF AbortTimer, Step, Places
  <2>2. r \in sent /\ AbortRequest(r) /\ UNCHANGED <<sent, bus>>
    BY <1>2, <1>4 DEF AbortTimer, Step, CallInv, Held
  <2> QED
    BY <2>1, <2>2, AbortPlace
<1>5. CASE ~RemoveRequest(c) /\ ~AbortTimer(c)
  <2>1. UNCHANGED <<type, mpMsgList, timeList, sent, bus>>
    BY <1>5 DEF GoesOn, SignalUnit, CheckRequest, Wakes, LookAtPort, TimeoutOrSignal, CheckTimer,
                ClearSignal
  <2> QED
    BY <2>1, QuietPlace DEF AtBusTask
<1> QED
  BY <1>3, <1>4, <1>5

---------------------------------------------------------------------------
(* What the calls rely on *)

(* A request that is sent and back remains so.                             *)
Kept(r) ==
  /\ r \in sent => r \in sent'
  /\ r \in sent /\ type[r] = "reply" /\ ~AtBusTask(r) => type'[r] = "reply" /\ ~AtBusTask(r)'

LEMMA HeldStays ==
  ASSUME TypeOK, NEW d \in Tasks, Held(d), at'[d] = at[d], at[d].step # "run" => Kept(at[d].req)
  PROVE  Held(d)'
  BY DEF Held, Kept, AtBusTask

LEMMA DevicesKept ==
  ASSUME TypeOK, PlaceInv, VBlank \/ Handler \/ BusActs, NEW r \in Requests
  PROVE  Kept(r)
<1>0. UNCHANGED sent
  BY DEF VBlank, Handler, HandlerEnds, Expire, BusActs, BusStep, BusWait, BusGet,
         BusHardware, BusSendCmd, BusIRQ, BusFinish, BusFlush,
         BusMark, BusLink, BusSignal
<1>1. type[r] = "reply" => type'[r] = "reply"
  BY DEF TypeOK, VBlank, Handler, HandlerEnds, Expire, BusActs, BusStep, BusWait, BusGet,
         BusHardware, BusSendCmd, BusIRQ, BusFinish,
         BusFlush, BusMark, BusLink, BusSignal, Reply
<1>2. CASE ~BusGet
  <2>1. AtBusTask(r)' => AtBusTask(r)
    BY <1>2, ConstantFacts
    DEF TypeOK, VBlank, Handler, HandlerEnds, Expire, BusActs, BusStep, BusWait,
        BusHardware, BusSendCmd, BusIRQ, BusFinish, BusFlush,
        BusMark, BusLink, BusSignal, BusAt, BusTo, AtBusTask
  <2> QED
    BY <1>0, <1>1, <2>1 DEF Kept
<1>3. CASE BusGet
  <2>1. CASE mpMsgList[UnitPort] = << >>
    <3>1. bus'.req = None
      BY <1>3, <2>1 DEF BusGet, BusAt, BusTo, TypeOK, BusSteps, Hardware
    <3> QED
      BY <1>0, <1>1, <3>1, ConstantFacts DEF Kept, AtBusTask
  <2>2. CASE mpMsgList[UnitPort] # << >>
    <3>1. bus'.req = Head(mpMsgList[UnitPort]) /\ type[Head(mpMsgList[UnitPort])] = "message"
      BY <1>3, <2>2, UnitHead DEF BusGet
    <3> QED
      BY <1>0, <1>1, <3>1 DEF Kept, AtBusTask
  <2> QED
    BY <2>1, <2>2
<1> QED
  BY <1>2, <1>3

LEMMA AsksKept ==
  ASSUME TypeOK, PlaceInv, NEW c \in Tasks, Asks(c), NEW r \in Requests, TaskOf(r) # c
  PROVE  Kept(r)
<1>1. UNCHANGED bus
  BY DEF Asks, BeginUnit, AddRequest, Immediate, AbortIO, WaitIO, WaitPort, GetMsg
<1>2. r \in sent => r \in sent'
  <2>1. ASSUME NEW p \in Ports, GetMsg(c, p) PROVE r \in sent => r \in sent'
    <3>1. mpMsgList[p] \in Seq(Requests) /\ mpMsgList[p] # << >> /\ sent' = sent \ {Head(mpMsgList[p])}
      BY <2>1 DEF GetMsg, TypeOK
    <3>2. Head(mpMsgList[p]) \in Requests /\ ReplyPort[Head(mpMsgList[p])] = p
      BY <3>1, EntriesFacts DEF AtPort, PlaceInv, Place
    <3>3. TaskOf(Head(mpMsgList[p])) = c
      BY <2>1, <3>2 DEF GetMsg, TaskOf
    <3> QED
      BY <3>1, <3>3
  <2> QED
    BY <2>1 DEF Asks, BeginUnit, AddRequest, Immediate, AbortIO, WaitIO, WaitPort
<1>3. r \in sent /\ type[r] = "reply" => type'[r] = "reply"
  BY DEF TypeOK, Asks, BeginUnit, AddRequest, Immediate, AbortIO, AbortRequest, Reply, WaitIO,
         WaitPort, GetMsg, MaySend
<1> QED
  BY <1>1, <1>2, <1>3 DEF Kept, AtBusTask

LEMMA GoesOnKept ==
  ASSUME TypeOK, OwnCalls, NEW c \in Tasks, GoesOn(c), NEW r \in Requests, TaskOf(r) # c
  PROVE  Kept(r)
<1>1. at[c].req # r
  BY GoesOnContinues DEF Continues, OwnCalls, Places
<1>2. r \in sent => r \in sent'
  BY <1>1 DEF GoesOn, SignalUnit, CheckRequest, Wakes, RemoveRequest, LookAtPort,
              TimeoutOrSignal, CheckTimer, AbortTimer, ClearSignal
<1>3. type'[r] = type[r]
  BY <1>1 DEF GoesOn, SignalUnit, CheckRequest, Wakes, RemoveRequest, LookAtPort,
              TimeoutOrSignal, CheckTimer, AbortTimer, ClearSignal, AbortRequest, Reply, TypeOK
<1>4. UNCHANGED bus
  BY DEF GoesOn, SignalUnit, CheckRequest, Wakes, RemoveRequest, LookAtPort,
         TimeoutOrSignal, CheckTimer, AbortTimer, ClearSignal
<1> QED
  BY <1>2, <1>3, <1>4 DEF Kept, AtBusTask

(* WaitIO() finds its request answered only when it is back: the bus task  *)
(* would run first.                                                        *)
LEMMA CheckedIsBack ==
  ASSUME BusTaskFirst, TypeOK, OwnCalls, PlaceInv, CallInv, NEW c \in Tasks, CheckRequest(c),
         type[at[c].req] # "message"
  PROVE  type[at[c].req] = "reply" /\ ~AtBusTask(at[c].req)
<1>1. at[c].step = "check" /\ Runs(c)
  BY DEF CheckRequest, Step
<1>2. PICK r \in Requests : r = at[c].req /\ TaskOf(r) = c /\ r \in sent
  BY <1>1, StepType DEF Program, OwnCalls, CallInv, Held
<1>3. type[r] = "reply"
  BY <1>2, PlaceFacts
<1>4. ASSUME AtBusTask(r) PROVE FALSE
  <2>1. bus.step = "link" /\ r \in UnitRequests
    BY <1>3, <1>4, PlaceFacts DEF PlaceInv, Place
  <2>2. c \in Preempts
    BY <1>1, <2>1 DEF Runs, BusReady
  <2> QED
    BY <1>2, <2>1, <2>2 DEF BusTaskFirst
<1> QED
  BY <1>2, <1>3, <1>4

LEMMA GoesOnHeld ==
  ASSUME BusTaskFirst, TypeOK, OwnCalls, PlaceInv, CallInv, NEW c \in Tasks, GoesOn(c)
  PROVE  Held(c)'
<1>1. at[c] \in Places
  BY GoesOnContinues DEF Continues
<1>2. CASE SignalUnit(c)
  <2>1. /\ at[c].call \in {"SendIO", "DoIO"} /\ Begun(c, at[c].call, at[c].req)
        /\ at[c].req \in sent'
    BY <1>1, <1>2 DEF SignalUnit, Step, Places, CallInv, Held
  <2> QED
    BY <2>1, BegunPlace DEF Held
<1>3. CASE CheckRequest(c)
  <2>1. at[c].req \in sent' /\ UNCHANGED <<type, bus>>
    BY <1>3 DEF CheckRequest, Step, CallInv, Held
  <2>2. CASE type[at[c].req] = "message"
    BY <1>3, <2>1, <2>2, GoesPlace DEF CheckRequest, Held
  <2>3. CASE type[at[c].req] # "message"
    <3>1. at'[c].step = "remove" /\ at'[c].req = at[c].req
      BY <1>3, <2>3, GoesPlace DEF CheckRequest
    <3> QED
      BY <1>3, <2>1, <2>3, <3>1, CheckedIsBack DEF Held, AtBusTask
  <2> QED
    BY <2>2, <2>3
<1>4. CASE Wakes(c, "wait", "check") \/ TimeoutOrSignal(c) \/ CheckTimer(c) \/ AbortTimer(c)
  <2>1. at[c].req \in sent'
    BY <1>4 DEF Wakes, TimeoutOrSignal, CheckTimer, AbortTimer, Step, CallInv, Held
  <2>2. \E step \in {"check", "late", "abort"} : Goes(c, step)
    BY <1>4 DEF Wakes, TimeoutOrSignal, CheckTimer, AbortTimer
  <2> QED
    BY <2>1, <2>2, GoesPlace DEF Held
<1>5. CASE Wakes(c, "sleep", "look") \/ RemoveRequest(c) \/ LookAtPort(c) \/ ClearSignal(c)
  <2>1. Returns(c) \/ \E step \in {"look", "sleep", "clear"} : Goes(c, step)
    BY <1>5 DEF Wakes, RemoveRequest, LookAtPort, ClearSignal
  <2> QED
    BY <2>1, GoesPlace, ReturnsPlace DEF Held
<1> QED
  BY <1>2, <1>3, <1>4, <1>5 DEF GoesOn

LEMMA CallStep ==
  ASSUME BusTaskFirst, TypeOK, OwnCalls, PlaceInv, CallInv, [Next]_vars
  PROVE  CallInv'
<1>0. \A d \in Tasks : at[d].step # "run" => at[d].req \in Requests /\ TaskOf(at[d].req) = d
  BY StepType DEF OwnCalls, Program
<1>1. CASE VBlank \/ Handler \/ BusActs
  <2>1. UNCHANGED at
    BY <1>1 DEF VBlank, Handler, HandlerEnds, Expire, BusActs, BusStep, BusWait, BusGet,
                BusHardware, BusSendCmd, BusIRQ, BusFinish,
                BusFlush, BusMark, BusLink, BusSignal
  <2> QED
    BY <1>0, <1>1, <2>1, DevicesKept, HeldStays DEF CallInv
<1>2. ASSUME NEW c \in Tasks, Asks(c) PROVE CallInv'
  <2>1. Begins(c)
    BY <1>2, AsksBegins
  <2>2. Held(c)'
    BY <2>1 DEF Begins, Held
  <2>3. ASSUME NEW d \in Tasks, d # c PROVE Held(d)'
    BY <1>0, <1>2, <2>1, <2>3, AsksKept, HeldStays DEF CallInv, Begins
  <2> QED
    BY <2>2, <2>3 DEF CallInv
<1>3. ASSUME NEW c \in Tasks, GoesOn(c) PROVE CallInv'
  <2>1. Continues(c) /\ Held(c)'
    BY <1>3, GoesOnContinues, GoesOnHeld
  <2>2. ASSUME NEW d \in Tasks, d # c PROVE Held(d)'
    BY <1>0, <1>3, <2>1, <2>2, GoesOnKept, HeldStays DEF CallInv, Continues
  <2> QED
    BY <2>1, <2>2 DEF CallInv
<1>4. CASE UNCHANGED vars
  BY <1>4 DEF vars, CallInv, Held, AtBusTask
<1> QED
  BY <1>1, <1>2, <1>3, <1>4 DEF Next, BusActs

---------------------------------------------------------------------------
(* The timer of sdcard_WaitTO() *)

(* A step that neither sends the timer request r nor sets its signal.      *)
Spared(r) ==
  /\ r \in sent' => r \in sent
  /\ sigRecvd'[ReplyPort[r]] => sigRecvd[ReplyPort[r]]

LEMMA ReplySpares ==
  ASSUME TypeOK, NEW r \in Timeouts, NEW s \in Requests, s # r, Reply(s)
  PROVE  sigRecvd'[ReplyPort[r]] = sigRecvd[ReplyPort[r]]
BY ConstantFacts DEF Reply, TypeOK

LEMMA TimerStays ==
  ASSUME NEW r \in Timeouts, Timer(r), Spared(r), at'[TaskOf(r)] = at[TaskOf(r)]
  PROVE  Timer(r)'
<1>1. TaskOf(r)' = TaskOf(r)
  BY DEF TaskOf
<1> QED
  BY <1>1 DEF Timer, Spared, InTimeout

LEMMA DevicesTimer ==
  ASSUME TypeOK, PlaceInv, VBlank \/ Handler \/ BusActs, NEW r \in Timeouts, Timer(r)
  PROVE  Timer(r)'
<1>0. UNCHANGED <<at, sent>> /\ r \in Requests /\ r \notin UnitRequests
      /\ ReplyPort[r] # UnitPort /\ TaskOf(r)' = TaskOf(r)
  BY ConstantFacts
  DEF VBlank, Handler, HandlerEnds, Expire, BusActs, BusStep, BusWait, BusGet, BusHardware,
      BusSendCmd, BusIRQ, BusFinish, BusFlush,
      BusMark, BusLink, BusSignal, TaskOf
<1>1. ASSUME NEW l \in Lists, Expire(l) PROVE Timer(r)'
  <2>1. PICK s \in Requests : s = Head(timeList[l]) /\ s \in InList(l)
    BY <1>1, EntriesFacts, ConstantFacts DEF Expire, Due, TypeOK, InList
  <2>2. Reply(s)
    BY <1>1, <2>1 DEF Expire
  <2>3. CASE s = r
    <3>1. r \in sent
      BY <2>1, <2>3, PlaceFacts
    <3> QED
      BY <1>0, <3>1 DEF Timer, InTimeout
  <2>4. CASE s # r
    BY <1>0, <2>2, <2>4, ReplySpares, TimerStays DEF Spared
  <2> QED
    BY <2>3, <2>4
<1>2. CASE ~Handler \/ HandlerEnds
  <2>1. CASE BusFlush
    <3>1. CASE mpMsgList[UnitPort] = << >>
      BY <1>0, <2>1, <3>1, TimerStays DEF BusFlush, Spared
    <3>2. CASE mpMsgList[UnitPort] # << >>
      <4>1. PICK s \in UnitRequests : s = Head(mpMsgList[UnitPort]) /\ s \in Requests
        BY <3>2, UnitHead
      <4>2. Reply(s)
        BY <2>1, <3>2, <4>1 DEF BusFlush
      <4> QED
        BY <1>0, <4>1, <4>2, ReplySpares, TimerStays DEF Spared
    <3> QED
      BY <3>1, <3>2
  <2>2. CASE BusSignal
    <3>1. /\ bus.req \in UnitRequests /\ bus.req \in Requests
          /\ sigRecvd' = [sigRecvd EXCEPT ![ReplyPort[bus.req]] = TRUE]
      BY <2>2, ConstantFacts DEF BusSignal, BusAt, TypeOK
    <3>2. ReplyPort[bus.req] # ReplyPort[r]
      BY <1>0, <3>1, ConstantFacts
    <3> QED
      BY <1>0, <3>1, <3>2, TimerStays DEF Spared, TypeOK
  <2>3. CASE BusWait
    BY <1>0, <2>3, TimerStays DEF BusWait, Spared, TypeOK
  <2>4. CASE VBlank \/ HandlerEnds \/ BusGet \/ BusHardware \/ BusMark \/ BusLink
    BY <1>0, <2>4, TimerStays
    DEF VBlank, HandlerEnds, BusGet, BusHardware, BusSendCmd, BusIRQ, BusFinish, BusMark,
        BusLink, Spared
  <2> QED
    BY <1>2, <2>1, <2>2, <2>3, <2>4 DEF BusActs, BusStep, BusHardware
<1> QED
  BY <1>1, <1>2 DEF Handler

LEMMA AsksTimer ==
  ASSUME TypeOK, NEW c \in Tasks, Asks(c), NEW r \in Timeouts, Timer(r)
  PROVE  Timer(r)'
<1>0. /\ r \in Requests /\ r \notin UnitRequests /\ TaskOf(r) \in Tasks
      /\ ReplyPort[r] # UnitPort /\ TaskOf(r)' = TaskOf(r)
  BY ConstantFacts DEF TaskOf
<1>1. ASSUME Spared(r) PROVE Timer(r)'
  <2>1. CASE TaskOf(r) # c
    BY <1>0, <1>1, <2>1, AsksBegins, TimerStays DEF Begins
  <2>2. CASE TaskOf(r) = c
    <3>1. at[c] = Program
      BY AsksBegins DEF Begins
    <3>2. r \notin sent' /\ ~sigRecvd'[ReplyPort[r]]
      BY <1>1, <2>2, <3>1 DEF Timer, InTimeout, Program, Spared
    <3> QED
      BY <3>2 DEF Timer
  <2> QED
    BY <2>1, <2>2
<1>2. ASSUME NEW s \in UnitRequests, NEW cmd, NEW call, BeginUnit(c, s, cmd, call)
      PROVE  Spared(r)
  BY <1>0, <1>2 DEF BeginUnit, Spared
<1>3. ASSUME NEW s \in TimerRequests \ Timeouts, NEW ahead, NEW call, Immediate(c, s, ahead, call)
      PROVE  Spared(r)
  <2>1. s \in Requests /\ s # r
    BY ConstantFacts
  <2> QED
    BY <1>3, <2>1, ReplySpares DEF Immediate, Spared
<1>4. ASSUME NEW s \in TimerRequests \ Timeouts, AbortIO(c, s) PROVE Spared(r)
  <2>1. s \in Requests /\ s # r
    BY ConstantFacts
  <2> QED
    BY <1>4, <2>1, ReplySpares DEF AbortIO, AbortRequest, Spared
<1>5. ASSUME NEW s, WaitIO(c, s) \/ WaitPort(c, s) PROVE Spared(r)
  BY <1>5 DEF WaitIO, WaitPort, Spared
<1>6. ASSUME NEW p \in Ports, GetMsg(c, p) PROVE Spared(r)
  BY <1>6 DEF GetMsg, Spared
<1>7. ASSUME NEW s \in TimerRequests, NEW l, NEW time, NEW call \in {"SendIO", "DoIO", "WaitTO"},
             AddRequest(c, s, l, time, call)
      PROVE  Timer(r)'
  <2>1. CASE s # r
    BY <1>1, <1>7, <2>1 DEF AddRequest, Spared
  <2>2. CASE s = r
    <3>1. call = "WaitTO" /\ TaskOf(r) = c /\ Begun(c, call, r)
      BY <1>7, <2>2 DEF AddRequest, MaySend
    <3>2. at'[c].call = "WaitTO" /\ at'[c].req = r /\ at'[c].step = "timeout"
      BY <3>1, BegunPlace
    <3> QED
      BY <1>0, <3>1, <3>2 DEF Timer, InTimeout
  <2> QED
    BY <2>1, <2>2
<1> QED
  BY <1>1, <1>2, <1>3, <1>4, <1>5, <1>6, <1>7, ConstantFacts DEF Asks

LEMMA GoesOnTimer ==
  ASSUME TypeOK, OwnCalls, NEW c \in Tasks, GoesOn(c), NEW r \in Timeouts, Timer(r)
  PROVE  Timer(r)'
<1>0. /\ r \in Requests /\ TaskOf(r) \in Tasks /\ ReplyPort[r] # UnitPort
      /\ ReplyPort[r] \in Ports /\ TaskOf(r)' = TaskOf(r)
  BY ConstantFacts DEF TaskOf
<1>1. Continues(c)
  BY GoesOnContinues
<1>2. PICK s \in Requests : /\ s = at[c].req /\ TaskOf(s) = c /\ ReplyPort[s] \in Ports
                            /\ at[c].step = "abort" => at[c].call = "WaitTO" /\ s \in Timeouts
  BY <1>1, ConstantFacts DEF Continues, Places, OwnCalls
<1>3. r \in sent' => r \in sent
  BY DEF GoesOn, SignalUnit, CheckRequest, Wakes, RemoveRequest, LookAtPort, TimeoutOrSignal,
         CheckTimer, AbortTimer, ClearSignal
<1>4. ASSUME ~AbortTimer(c) \/ s # r PROVE sigRecvd'[ReplyPort[r]] => sigRecvd[ReplyPort[r]]
  <2>1. CASE AbortTimer(c)
    BY <1>2, <1>4, <2>1, ReplySpares DEF AbortTimer, AbortRequest
  <2>2. CASE SignalUnit(c) \/ Wakes(c, "wait", "check") \/ Wakes(c, "sleep", "look") \/ ClearSignal(c)
    BY <1>0, <1>2, <2>2 DEF SignalUnit, Wakes, ClearSignal, TypeOK
  <2>3. CASE TimeoutOrSignal(c)
    BY <1>0, <2>3 DEF TimeoutOrSignal, TypeOK
  <2>4. CASE CheckRequest(c) \/ RemoveRequest(c) \/ LookAtPort(c) \/ CheckTimer(c)
    BY <2>4 DEF CheckRequest, RemoveRequest, LookAtPort, CheckTimer
  <2> QED
    BY <2>1, <2>2, <2>3, <2>4 DEF GoesOn
<1>5. CASE TaskOf(r) # c
  BY <1>0, <1>1, <1>2, <1>3, <1>4, <1>5, TimerStays DEF Continues, Spared
<1>6. CASE TaskOf(r) = c /\ ~InTimeout(r)
  <2>1. r \notin sent' /\ ~sigRecvd'[ReplyPort[r]]
    BY <1>2, <1>3, <1>4, <1>6 DEF Timer, InTimeout, AbortTimer, Step
  <2> QED
    BY <2>1 DEF Timer
<1>7. CASE TaskOf(r) = c /\ InTimeout(r)
  <2>1. at[c].call = "WaitTO" /\ s = r
    BY <1>2, <1>7 DEF InTimeout
  <2>2. CASE RemoveRequest(c)
    <3>1. Goes(c, "clear") /\ r \notin sent'
      BY <1>2, <2>1, <2>2 DEF RemoveRequest
    <3>2. InTimeout(r)'
      BY <1>0, <1>7, <2>1, <1>2, <3>1, GoesPlace DEF InTimeout
    <3> QED
      BY <3>1, <3>2 DEF Timer
  <2>3. CASE ClearSignal(c)
    <3>1. /\ sigRecvd' = [sigRecvd EXCEPT ![ReplyPort[r]] = FALSE] /\ at[c].step = "clear"
      BY <1>2, <2>1, <2>3 DEF ClearSignal, Step
    <3>2. ~sigRecvd'[ReplyPort[r]] /\ r \notin sent'
      BY <1>0, <1>3, <1>7, <3>1 DEF Timer, TypeOK
    <3> QED
      BY <3>2 DEF Timer
  <2>4. CASE \E step \in {"check", "wait", "remove", "look", "late", "abort"} : Goes(c, step)
    <3>1. at'[c].call = "WaitTO" /\ at'[c].req = r /\ at'[c].step # "clear"
      BY <1>2, <2>1, <2>4, GoesPlace
    <3> QED
      BY <1>0, <1>7, <3>1 DEF Timer, InTimeout
  <2>5. ~SignalUnit(c) /\ ~LookAtPort(c)
    BY <1>1, <2>1 DEF Continues, Places, SignalUnit, LookAtPort, Step
  <2> QED
    BY <2>2, <2>3, <2>4, <2>5
    DEF GoesOn, CheckRequest, Wakes, TimeoutOrSignal, CheckTimer, AbortTimer
<1> QED
  BY <1>5, <1>6, <1>7

LEMMA TimerStep ==
  ASSUME TypeOK, OwnCalls, PlaceInv, TimerInv, [Next]_vars
  PROVE  TimerInv'
<1>1. ASSUME NEW r \in Timeouts, UNCHANGED vars PROVE Timer(r)'
  BY <1>1 DEF vars, TimerInv, Timer, InTimeout, TaskOf
<1> QED
  BY <1>1, DevicesTimer, AsksTimer, GoesOnTimer DEF TimerInv, Next, BusActs

---------------------------------------------------------------------------
(* The order of the timer's lists *)

LEMMA SortedAs ==
  ASSUME TypeOK, NEW l \in Lists, Sorted(timeList[l], left),
         NEW key, \A r \in InList(l) : key[r] = left[r]
  PROVE  Sorted(timeList[l], key)
  BY DEF Sorted, InList, Entries

(* When the clocks go on or are set, the order stays.                      *)
LEMMA SortedLess ==
  ASSUME TypeOK, NEW l \in Lists, Sorted(timeList[l], left), NEW n \in Int,
         NEW key, \A r \in InList(l) : key[r] = Less(left[r], n)
  PROVE  Sorted(timeList[l], key)
<1>1. \A r \in InList(l) : left[r] \in 0 .. MaxTime
  BY EntriesFacts DEF TypeOK, InList
<1>2. ASSUME NEW i \in 1 .. Len(timeList[l]), NEW j \in 1 .. Len(timeList[l]), i <= j
      PROVE  key[timeList[l][i]] <= key[timeList[l][j]]
  <2>1. PICK r \in InList(l), s \in InList(l) :
          r = timeList[l][i] /\ s = timeList[l][j] /\ left[r] <= left[s]
    BY <1>2 DEF Sorted, InList, Entries
  <2>2. Less(left[r], n) <= Less(left[s], n)
    BY <1>1, <2>1, ConstantFacts DEF Less
  <2> QED
    BY <2>1, <2>2
<1> QED
  BY <1>2 DEF Sorted

LEMMA SortStep ==
  ASSUME TypeOK, PlaceInv, SortInv, [Next]_vars
  PROVE  SortInv'
<1>1. CASE VBlank
  <2>1. ASSUME NEW l \in Lists PROVE Sorted(timeList[l], left')
    <3>1. \A r \in InList(l) : r \in TimerRequests /\ r \in Listed(l)
      BY EntriesFacts DEF TypeOK, InList, Entries, Listed
    <3>2. \A r \in InList(l) : left'[r] = Less(left[r], 1)
      BY <1>1, <3>1 DEF VBlank
    <3> QED
      BY <3>2, SortedLess DEF SortInv
  <2> QED
    BY <1>1, <2>1 DEF VBlank, SortInv
<1>2. ASSUME NEW l \in Lists, Expire(l) PROVE SortInv'
  <2>1. timeList[l] \in Seq(TimerRequests) /\ timeList[l] # << >>
    BY <1>2 DEF Expire, Due, TypeOK
  <2>2. /\ timeList'[l] = Tail(timeList[l]) /\ UNCHANGED left
        /\ \A k \in Lists : k # l => timeList'[k] = timeList[k]
    BY <1>2 DEF Expire, TypeOK
  <2> QED
    BY <2>1, <2>2, TailFacts DEF SortInv
<1>3. ASSUME NEW c, NEW r \in TimerRequests, NEW l \in Lists, NEW time \in 0 .. MaxTime, NEW call,
             AddRequest(c, r, l, time, call)
      PROVE  SortInv'
  <2>1. /\ r \in Requests /\ r \notin sent /\ left' = [left EXCEPT ![r] = time]
        /\ timeList'[l] = Insert(timeList[l], r, time)
        /\ \A k \in Lists : k # l => timeList'[k] = timeList[k]
    BY <1>3, ConstantFacts DEF AddRequest, MaySend, TypeOK
  <2>2. \A k \in Lists : r \notin InList(k)
    BY <2>1, PlaceFacts
  <2>3. Sorted(timeList'[l], left')
    <3>1. /\ left \in [TimerRequests -> 0 .. MaxTime] /\ timeList[l] \in Seq(TimerRequests)
          /\ r \notin Entries(timeList[l]) /\ Sorted(timeList[l], left)
      BY <2>2 DEF TypeOK, SortInv, InList
    <3>2. Sorted(Insert(timeList[l], r, time), [left EXCEPT ![r] = time])
      BY <3>1, InsertFacts
    <3> QED
      BY <2>1, <3>2
  <2>4. ASSUME NEW k \in Lists, k # l PROVE Sorted(timeList'[k], left')
    <3>1. \A s \in InList(k) : left'[s] = left[s]
      BY <2>1, <2>2, EntriesFacts DEF TypeOK, InList
    <3>2. Sorted(timeList[k], left')
      BY <3>1, SortedAs DEF SortInv
    <3> QED
      BY <2>1, <2>4, <3>2
  <2> QED
    BY <2>3, <2>4 DEF SortInv
<1>4. ASSUME NEW c, NEW r \in TimerRequests, NEW ahead \in Int, NEW call,
             Immediate(c, r, ahead, call)
      PROVE  SortInv'
  <2>1. UNCHANGED timeList /\ \A s \in TimerRequests :
          left'[s] = IF s \in Listed("WAITUNTIL") THEN Less(left[s], ahead) ELSE left[s]
    BY <1>4 DEF Immediate
  <2>2. ASSUME NEW l \in Lists PROVE Sorted(timeList[l], left')
    <3>1. \A s \in InList(l) : /\ s \in TimerRequests /\ s \in Requests
                               /\ s \in Listed("WAITUNTIL") => l = "WAITUNTIL"
                               /\ l = "WAITUNTIL" => s \in Listed("WAITUNTIL")
      <4>1. \A s \in InList(l) : s \in TimerRequests /\ s \in Requests
        BY EntriesFacts, ConstantFacts DEF TypeOK, InList
      <4>2. \A k \in Lists : Listed(k) = InList(k)
        BY EntriesFacts DEF TypeOK, InList, Entries, Listed
      <4> QED
        BY <4>1, <4>2, ConstantFacts DEF PlaceInv, Place
    <3>2. CASE l = "WAITUNTIL"
      BY <2>1, <3>1, <3>2, SortedLess DEF SortInv
    <3>3. CASE l # "WAITUNTIL"
      BY <2>1, <3>1, <3>3, SortedAs DEF SortInv
    <3> QED
      BY <3>2, <3>3
  <2> QED
    BY <2>1, <2>2 DEF SortInv
<1>5. ASSUME NEW r \in TimerRequests, AbortRequest(r) PROVE SortInv'
  <2>1. CASE type[r] = "reply"
    BY <1>5, <2>1 DEF AbortRequest, SortInv
  <2>2. CASE type[r] # "reply"
    <3>1. /\ left' = [left EXCEPT ![r] = 0]
          /\ timeList' = [l \in Lists |-> Unlink(timeList[l], r)]
      BY <1>5, <2>2 DEF AbortRequest
    <3>2. ASSUME NEW l \in Lists PROVE Sorted(timeList'[l], left')
      <4>1. /\ Sorted(timeList'[l], left) /\ r \notin Entries(timeList'[l])
            /\ Entries(timeList'[l]) \subseteq TimerRequests
        BY <3>1, UnlinkFacts, EntriesFacts DEF TypeOK, SortInv, PlaceInv, ListsOnce
      <4>2. \A s \in Entries(timeList'[l]) : left'[s] = left[s]
        BY <3>1, <4>1 DEF TypeOK
      <4> QED
        BY <4>1, <4>2 DEF Sorted, Entries
    <3> QED
      BY <3>2 DEF SortInv
  <2> QED
    BY <2>1, <2>2
<1>6. ASSUME UNCHANGED <<left, timeList>> PROVE SortInv'
  BY <1>6 DEF SortInv
<1>7. ASSUME BusActs \/ HandlerEnds \/ UNCHANGED vars PROVE UNCHANGED <<left, timeList>>
  BY <1>7 DEF HandlerEnds, BusActs, BusStep, BusWait, BusGet, BusHardware, BusSendCmd,
              BusIRQ, BusFinish, BusFlush, BusMark, BusLink, BusSignal,
              vars
<1>8. ASSUME NEW c \in Tasks, Asks(c) PROVE SortInv'
  <2>1. ASSUME NEW r, NEW cmd, NEW call, BeginUnit(c, r, cmd, call) PROVE SortInv'
    BY <1>6, <2>1 DEF BeginUnit
  <2>2. ASSUME NEW r \in TimerRequests, AbortIO(c, r) PROVE SortInv'
    BY <1>5, <2>2 DEF AbortIO
  <2>3. ASSUME NEW r, WaitIO(c, r) \/ WaitPort(c, r) PROVE SortInv'
    BY <1>6, <2>3 DEF WaitIO, WaitPort
  <2>4. ASSUME NEW p, GetMsg(c, p) PROVE SortInv'
    BY <1>6, <2>4 DEF GetMsg
  <2>5. -MaxTime .. MaxTime \subseteq Int
    BY ConstantFacts
  <2> QED
    BY <1>3, <1>4, <1>8, <2>1, <2>2, <2>3, <2>4, <2>5, ConstantFacts DEF Asks
<1>9. ASSUME NEW c \in Tasks, GoesOn(c) PROVE SortInv'
  <2>1. CASE AbortTimer(c)
    <3>1. at[c].req \in TimerRequests /\ AbortRequest(at[c].req)
      BY <1>9, <2>1, GoesOnContinues, ConstantFacts DEF AbortTimer, Step, Continues, Places
    <3> QED
      BY <1>5, <3>1
  <2>2. CASE ~AbortTimer(c)
    BY <1>6, <1>9, <2>2
    DEF GoesOn, SignalUnit, CheckRequest, Wakes, RemoveRequest, LookAtPort, TimeoutOrSignal,
        CheckTimer, ClearSignal
  <2> QED
    BY <2>1, <2>2
<1> QED
  BY <1>1, <1>2, <1>6, <1>7, <1>8, <1>9 DEF Next, BusActs, Handler

---------------------------------------------------------------------------
(* The theorems *)

LEMMA InitInv == Init => IInv
<1> SUFFICES ASSUME Init PROVE IInv
  OBVIOUS
<1>1. TypeOK
  BY InitType
<1>2. /\ \A p \in Ports \cup {UnitPort} : mpMsgList[p] = << >>
      /\ \A l \in Lists : timeList[l] = << >>
      /\ \A p \in Ports \cup {UnitPort} : ~sigRecvd[p]
      /\ \A c \in Tasks : at[c] = Program
      /\ bus.req = None /\ bus.step = "wait" /\ sent = {}
  BY DEF Init
<1>3. PlaceInv
  <2>1. ListsOnce
    BY <1>2, EmptyFacts DEF ListsOnce
  <2>2. \A r \in Requests : Place(r)
    BY <1>2, EmptyFacts, ConstantFacts DEF Place, AtPort, InList, AtBusTask
  <2> QED
    BY <2>1, <2>2 DEF PlaceInv
<1>4. OwnCalls /\ CallInv
  BY <1>2 DEF OwnCalls, CallInv, Held, Program
<1>5. TimerInv
  BY <1>2, ConstantFacts DEF TimerInv, Timer, InTimeout, Program
<1>6. SortInv
  BY <1>2, EmptyFacts DEF SortInv
<1> QED
  BY <1>1, <1>3, <1>4, <1>5, <1>6 DEF IInv

LEMMA PlaceStep ==
  ASSUME TypeOK, PlaceInv, CallInv, [Next]_vars
  PROVE  PlaceInv'
<1>1. CASE UNCHANGED vars
  BY <1>1, QuietPlace DEF vars, AtBusTask
<1> QED
  BY <1>1, DevicesPlace, AsksPlace, GoesOnPlace DEF Next, BusActs

LEMMA StepInv == BusTaskFirst /\ IInv /\ [Next]_vars => IInv'
  BY NextType, OwnCallsStep, PlaceStep, CallStep, TimerStep, SortStep DEF IInv

LEMMA SpecInv ==
  ASSUME BusTaskFirst
  PROVE  Spec => []IInv
<1>1. IInv /\ [Next]_vars => IInv'
  BY StepInv
<1> QED
  BY <1>1, InitInv, PTL DEF Spec

(* How many places a request has in a family of lists.                     *)
LEMMA NodesFacts ==
  ASSUME NEW L, NEW S, NEW lists \in [L -> Seq(S)], NEW r
  PROVE  /\ (\A l \in L : r \notin Entries(lists[l])) => Cardinality(Nodes(lists, r)) = 0
         /\ \A l \in L : /\ r \in Entries(lists[l]) /\ Once(lists[l])
                         /\ \A k \in L : r \in Entries(lists[k]) => k = l
                         => Cardinality(Nodes(lists, r)) = 1
<1>1. ASSUME \A l \in L : r \notin Entries(lists[l]) PROVE Cardinality(Nodes(lists, r)) = 0
  <2>1. Nodes(lists, r) = {}
    BY <1>1 DEF Nodes, Entries
  <2> QED
    BY <2>1, FS_EmptySet
<1>2. ASSUME NEW l \in L, r \in Entries(lists[l]), Once(lists[l]),
             \A k \in L : r \in Entries(lists[k]) => k = l
      PROVE  Cardinality(Nodes(lists, r)) = 1
  <2>1. PICK i \in 1 .. Len(lists[l]) : lists[l][i] = r
    BY <1>2 DEF Entries
  <2>2. {j \in 1 .. Len(lists[l]) : lists[l][j] = r} = {i}
    BY <1>2, <2>1 DEF Once
  <2>3. \A k \in L : k # l => {j \in 1 .. Len(lists[k]) : lists[k][j] = r} = {}
    BY <1>2 DEF Entries
  <2>4. Nodes(lists, r) = {<<l, i>>}
    <3>1. \A x : x \in Nodes(lists, r) <=>
                   \E k \in L : x \in {k} \X {j \in 1 .. Len(lists[k]) : lists[k][j] = r}
      BY DEF Nodes
    <3>2. \A x : x \in Nodes(lists, r) <=> x \in {l} \X {i}
      BY <2>2, <2>3, <3>1
    <3>3. \A x : x \in {l} \X {i} <=> x = <<l, i>>
      OBVIOUS
    <3> QED
      BY <3>2, <3>3
  <2> QED
    BY <2>4, FS_Singleton
<1> QED
  BY <1>1, <1>2

LEMMA PlaceOne == IInv => RequestInOnePlace
<1> SUFFICES ASSUME IInv, NEW r \in Requests
             PROVE  Cardinality(Nodes(mpMsgList, r)) + Cardinality(Nodes(timeList, r))
                      + (IF AtBusTask(r) THEN 1 ELSE 0) = IF r \in sent THEN 1 ELSE 0
  BY DEF RequestInOnePlace
<1>1. /\ mpMsgList \in [Ports \cup {UnitPort} -> Seq(Requests)]
      /\ timeList \in [Lists -> Seq(TimerRequests)]
      /\ ListsOnce /\ Place(r) /\ PlaceInv /\ TypeOK
      /\ ReplyPort[r] \in Ports /\ UnitPort \notin Ports
  BY ConstantFacts DEF IInv, TypeOK, PlaceInv
<1> DEFINE messages == Cardinality(Nodes(mpMsgList, r))
           waiting == Cardinality(Nodes(timeList, r))
<1>2. /\ (\A p \in Ports \cup {UnitPort} : r \notin AtPort(p)) => messages = 0
      /\ \A p \in Ports \cup {UnitPort} :
           r \in AtPort(p) /\ (\A q \in Ports \cup {UnitPort} : r \in AtPort(q) => q = p)
             => messages = 1
  <2>1. \A p \in Ports \cup {UnitPort} : Once(mpMsgList[p])
    BY <1>1 DEF ListsOnce
  <2> QED
    BY <1>1, <2>1, NodesFacts DEF AtPort
<1>3. /\ (\A l \in Lists : r \notin InList(l)) => waiting = 0
      /\ \A l \in Lists :
           r \in InList(l) /\ (\A k \in Lists : r \in InList(k) => k = l) => waiting = 1
  <2>1. \A l \in Lists : Once(timeList[l])
    BY <1>1 DEF ListsOnce
  <2> QED
    BY <1>1, <2>1, NodesFacts DEF InList
<1> HIDE DEF messages, waiting
<1>4. CASE r \notin sent
  BY <1>1, <1>2, <1>3, <1>4, PlaceFacts DEF messages, waiting
<1>5. CASE AtBusTask(r)
  <2>1. /\ \A p \in Ports \cup {UnitPort} : r \notin AtPort(p)
        /\ \A l \in Lists : r \notin InList(l)
        /\ r \in sent
    BY <1>1, <1>5, PlaceFacts, ConstantFacts DEF Place
  <2> QED
    BY <1>2, <1>3, <1>5, <2>1 DEF messages, waiting
<1>6. CASE r \in AtPort(UnitPort)
  <2>1. /\ \A p \in Ports : r \notin AtPort(p)
        /\ \A l \in Lists : r \notin InList(l)
        /\ r \in sent /\ ~AtBusTask(r)
    BY <1>1, <1>6, PlaceFacts, ConstantFacts DEF Place
  <2> QED
    BY <1>2, <1>3, <1>6, <2>1 DEF messages, waiting
<1>7. CASE r \in AtPort(ReplyPort[r])
  <2>1. /\ \A p \in Ports \cup {UnitPort} : r \in AtPort(p) => p = ReplyPort[r]
        /\ \A l \in Lists : r \notin InList(l)
        /\ r \in sent /\ ~AtBusTask(r)
    BY <1>1, <1>7 DEF Place
  <2> QED
    BY <1>1, <1>2, <1>3, <1>7, <2>1 DEF messages, waiting
<1>8. ASSUME NEW l \in Lists, r \in InList(l)
      PROVE  messages + waiting + (IF AtBusTask(r) THEN 1 ELSE 0) = IF r \in sent THEN 1 ELSE 0
  <2>1. /\ \A p \in Ports \cup {UnitPort} : r \notin AtPort(p)
        /\ \A k \in Lists : r \in InList(k) => k = l
        /\ r \in sent /\ ~AtBusTask(r)
    <3>1. type[r] = "message" /\ r \in TimerRequests /\ r \notin UnitRequests
      BY <1>1, <1>8, PlaceFacts, ConstantFacts DEF Place
    <3> QED
      BY <1>1, <1>8, <3>1, PlaceFacts DEF Place
  <2> QED
    BY <1>2, <1>3, <1>8, <2>1 DEF messages, waiting
<1> QED
  BY <1>1, <1>4, <1>5, <1>6, <1>7, <1>8 DEF Place, messages, waiting

LEMMA RemovedLinked == IInv => RemovedIsLinked
<1> SUFFICES ASSUME IInv, NEW c \in Tasks, at[c].step = "remove"
             PROVE  \E i \in DOMAIN mpMsgList[ReplyPort[at[c].req]] :
                      mpMsgList[ReplyPort[at[c].req]][i] = at[c].req
  BY DEF RemovedIsLinked
<1>1. PICK r \in Requests : r = at[c].req
  BY StepType DEF IInv, Program
<1>2. r \in sent /\ type[r] = "reply" /\ ~AtBusTask(r) /\ Place(r)
  BY <1>1 DEF IInv, CallInv, Held, PlaceInv
<1>3. r \in AtPort(ReplyPort[r])
  BY <1>2 DEF Place
<1>4. DOMAIN mpMsgList[ReplyPort[r]] = 1 .. Len(mpMsgList[ReplyPort[r]])
  BY EntriesFacts, ConstantFacts DEF IInv, TypeOK
<1> QED
  BY <1>1, <1>3, <1>4 DEF AtPort, Entries

LEMMA NothingLeft == IInv => TimeoutLeavesNothing
<1> SUFFICES ASSUME IInv, NEW r \in Timeouts, at[TaskOf(r)].call # "WaitTO"
             PROVE  /\ r \notin sent /\ ~sigRecvd[ReplyPort[r]]
                    /\ mpMsgList[ReplyPort[r]] = << >>
  BY DEF TimeoutLeavesNothing
<1>1. r \notin sent /\ ~sigRecvd[ReplyPort[r]]
  BY DEF IInv, TimerInv, Timer, InTimeout
<1>2. ReplyPort[r] \in Ports /\ mpMsgList[ReplyPort[r]] \in Seq(Requests)
  BY ConstantFacts DEF IInv, TypeOK
<1>3. ASSUME NEW s \in Requests, s \in AtPort(ReplyPort[r]) PROVE FALSE
  <2>1. ReplyPort[s] = ReplyPort[r] /\ s \in sent
    BY <1>2, <1>3 DEF IInv, PlaceInv, Place
  <2> QED
    BY <1>1, <2>1, ConstantFacts
<1>4. Entries(mpMsgList[ReplyPort[r]]) = {}
  BY <1>2, <1>3, EntriesFacts DEF AtPort
<1> QED
  BY <1>1, <1>2, <1>4, EntriesFacts

LEMMA NoneOverdueStep ==
  ASSUME TypeOK, SortInv, [Next]_vars, handling, ~handling'
  PROVE  \A l \in Lists : \A r \in Listed(l) : left[r] > 0
<1>1. HandlerEnds
  <2>1. BusActs => UNCHANGED handling
    BY DEF BusActs, BusStep, BusWait, BusGet, BusHardware, BusSendCmd, BusIRQ, BusFinish,
           BusFlush, BusMark, BusLink, BusSignal
  <2>2. ASSUME NEW c \in Tasks, Asks(c) PROVE UNCHANGED handling
    <3>1. \A r, cmd, call : BeginUnit(c, r, cmd, call) => UNCHANGED handling
      BY DEF BeginUnit
    <3>2. \A r, l, time, call : AddRequest(c, r, l, time, call) => UNCHANGED handling
      BY DEF AddRequest
    <3>3. \A r, ahead, call : Immediate(c, r, ahead, call) => UNCHANGED handling
      BY DEF Immediate
    <3>4. \A r : AbortIO(c, r) \/ WaitIO(c, r) \/ WaitPort(c, r) => UNCHANGED handling
      BY DEF AbortIO, WaitIO, WaitPort
    <3>5. \A p : GetMsg(c, p) => UNCHANGED handling
      BY DEF GetMsg
    <3> QED
      BY <2>2, <3>1, <3>2, <3>3, <3>4, <3>5, Zenon DEF Asks
  <2>3. \A c \in Tasks : GoesOn(c) => UNCHANGED handling
    BY DEF GoesOn, SignalUnit, CheckRequest, Wakes, RemoveRequest, LookAtPort, TimeoutOrSignal,
           CheckTimer, AbortTimer, ClearSignal
  <2>4. VBlank \/ UNCHANGED vars \/ (\E l \in Lists : Expire(l)) => (handling => handling')
    BY DEF VBlank, vars, Expire
  <2> QED
    BY <2>1, <2>2, <2>3, <2>4 DEF Next, BusActs, Handler
<1>2. ASSUME NEW l \in Lists, NEW r \in Listed(l) PROVE left[r] > 0
  <2>1. timeList[l] \in Seq(TimerRequests) /\ DOMAIN timeList[l] = 1 .. Len(timeList[l])
    BY EntriesFacts DEF TypeOK
  <2>2. PICK i \in 1 .. Len(timeList[l]) : r = timeList[l][i]
    BY <2>1 DEF Listed
  <2>3. timeList[l] # << >> /\ 1 \in 1 .. Len(timeList[l]) /\ Head(timeList[l]) = timeList[l][1]
    BY <2>1, <2>2, EntriesFacts DEF Entries
  <2>4. left[timeList[l][1]] # 0
    BY <1>1, <2>3 DEF HandlerEnds, Due
  <2>5. left[timeList[l][1]] <= left[r]
    BY <2>1, <2>2, <2>3 DEF SortInv, Sorted
  <2>6. r \in TimerRequests /\ timeList[l][1] \in TimerRequests
    BY <2>1, <2>2, <2>3, EntriesFacts DEF Entries
  <2> QED
    BY <2>4, <2>5, <2>6, ConstantFacts DEF TypeOK
<1> QED
  BY <1>2

(* If no program that uses an SD card can run while the bus task is ready, *)
(* a request always has exactly one node or is with the bus task while it  *)
(* is sent, and none before and after: neither AbortIO() as the timer      *)
(* expires nor CMD_FLUSH links a request twice or loses it.                *)
THEOREM SpecRequestInOnePlace ==
  ASSUME BusTaskFirst
  PROVE  Spec => []RequestInOnePlace
  BY SpecInv, PlaceOne, PTL

(* Under the same assumption WaitIO() removes only what is in the list of  *)
(* the reply port.                                                         *)
THEOREM SpecRemovedIsLinked ==
  ASSUME BusTaskFirst
  PROVE  Spec => []RemovedIsLinked
  BY SpecInv, RemovedLinked, PTL

(* Under the same assumption sdcard_WaitTO() leaves neither answer nor     *)
(* signal of its timer to the next call, however the two raced.            *)
THEOREM SpecTimeoutLeavesNothing ==
  ASSUME BusTaskFirst
  PROVE  Spec => []TimeoutLeavesNothing
  BY SpecInv, NothingLeft, PTL

(* Under the same assumption no request in a list of the timer has had its *)
(* time when the VBlank handler is through.                                *)
THEOREM SpecNoneOverdue ==
  ASSUME BusTaskFirst
  PROVE  Spec => NoneOverdue
<1>1. IInv /\ [Next]_vars
        => [handling /\ ~handling' => \A l \in Lists : \A r \in Listed(l) : left[r] > 0]_vars
  BY NoneOverdueStep DEF IInv
<1> QED
  BY <1>1, SpecInv, PTL DEF Spec, NoneOverdue
=============================================================================
