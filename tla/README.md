# Verification of the AROS-based Amiga ROM: exec, device I/O and SFS transactions

This directory holds TLA+ models of the part of the ROM that everything else
stands on: how `exec.library` and `kernel.resource` share one processor between
tasks and interrupts, how tasks share data through signal semaphores, how an I/O
request travels between a program and a device, and how the Smart Filesystem
keeps a volume whole when the machine crashes. The models follow the C code of
`src/ROM`, in the uniprocessor build (without `__AROSEXEC_SMP__`). TLC checks them
on small instances; for the semaphores and their lists, the condition variables, the
scheduler, device I/O and the transactions TLAPS proves the safety results for every
number of tasks, semaphores, ports, requests and blocks.

## 1. The system

The ROM has some 2500 source files. The parts with logic of their own:

| part | state it keeps | operations | interacts with |
|---|---|---|---|
| exec scheduler (`exec/wait.c`, `signal.c`, `kernel/kernel_scheduler.c`, ...) | `SysBase`: `ThisTask`, `TaskReady`, `TaskWait`, `IDNestCnt`, `TDNestCnt`, `Elapsed`, `AttnResched`; per task state, priority, signals | Forbid/Permit, Disable/Enable, Wait, Signal, SetTaskPri, Reschedule, NewAddTask, RemTask, Cause, interrupts | everything; interrupts call Signal and Cause |
| exec signal semaphores (`exec/semaphores.c`, `releasesemaphore.c`, `procure.c`, `vacate.c`) | owner, nest count, queue count, queue of requests | Obtain, ObtainShared, Attempt, AttemptShared, Release, Procure, Vacate | sleeps on and sends `SIGF_SINGLE`; replies messages to ports |
| exec semaphore lists (`exec/obtainsemaphorelist.c`) | `ss_MultipleLink` in each semaphore, a counter on the stack | ObtainSemaphoreList, ReleaseSemaphoreList | the semaphores |
| dbus threads (`dbus/amiga_threads.c`) | list of waiting threads | mutexes, condition variables | the semaphores and the same `SIGF_SINGLE` |
| exec message ports and device I/O (`exec/putmsg.c`, `sendio.c`, `waitio.c`, `abortio.c`, ...) | message list of a port; type and flags of a request | PutMsg, GetMsg, ReplyMsg, WaitPort, DoIO, SendIO, WaitIO, CheckIO, AbortIO, OpenDevice, CloseDevice | signals; devices run in their own task or interrupt |
| sdcard.device (`devs/sdcard/`) | unit port, bus task | BeginIO, the bus task's loop, CMD_FLUSH, sdcard_WaitTO | ports, timer.device, the hardware |
| SFS transactions and block caches (`filesys/SFS/FS/transactions.c`, `cachebuffers.c`, `cachedio.c`, ...) | two levels of operations, cache buffers, dirty blocks below them, the log and the TransactionFailure block on the disk | newtransaction, storecachebuffer, addfreeoperation, endtransaction, deletetransaction, flushtransaction, checkfortransaction | the file system's operations, its activity timer, the device |
| exec extended tasks (`exec/exec_util.c`, `childwait.c`, ...) | lists of children and of exited children | InitETask, CleanupETask, ExpungeETask, ChildWait/Free/Orphan/Status | task creation and removal, `SIGF_CHILD` |
| exec memory (`exec/memory.c`, `allocate.c`, ...) | free list of each MemHeader, pools, handlers | Allocate, Deallocate, pools, low-memory handlers | Forbid or a semaphore around it |
| dos.library (`dos/`) | DosList and its locks, processes, packets | CreateNewProc, LockDosList, record locks, packets | ports, semaphores, file systems |
| lddemon (`lddemon/`) | its server process | loads libraries for clients | ports, OpenLibrary |
| timer.device (`timer/`) | one list of requests per unit, kept in order | BeginIO, AbortIO, the VBlank interrupt | Disable, ReplyMsg |
| dosboot (the root directory and `ROM/dosboot/`) | the mount list, the boot menu | choosing and waiting for a boot node | expansion, dos |
| file systems (`filesys/`), devices (`devs/`), USB (`usb/`), graphics, intuition, layers, hidds, small resources | on-disk and hardware state | | ports, interrupts, semaphores |

What is hard in it: preemption at any instruction outside Forbid/Disable;
interrupts that signal tasks; deferral of a switch over nested Forbid and Disable;
one signal bit (`SIGF_SINGLE`) that several mechanisms share; counters that mean
two things at once (`ss_QueueCount`); semaphores granted asynchronously to a
message; partial success of a call on a list; a request that is aborted while an
interrupt answers it; a timeout racing its answer; a signal that stands for another
message; a crash between any two blocks of a flush, or while the log is replayed;
several versions of a block in memory; starvation.

`PROJECT.json` lists every component, with the reason where nothing is modelled.
The large ones that are left out are data formats (file systems, partition
tables), drawing, hardware drivers, and vendored projects (USB, PFS3, AFS, and SFS
but for its transactions).

What makes the parts correct:

- *semaphores*: exclusion; every lock given is released once; nobody is forgotten
  in a queue; a sleeper wakes exactly when it has its lock; service goes on.
- *lists*: all or nothing from the caller's point of view, no lock lost while it
  sleeps for the rest.
- *condition variables*: no wake-up lost, none invented, mutex held on return.
- *scheduler*: the best ready task runs whenever a switch is permitted, never
  when it is not; counts follow their task; no signal is slept over.
- *ports and I/O*: a request is in one place only and answered once; WaitIO returns
  after the answer, also when AbortIO comes at the same time; a timeout leaves
  nothing behind; the timer answers all that is due.
- *SFS transactions*: the buffer taken for the latest version of a block is that;
  a transaction is seen, and survives a crash, as a whole or not at all; what was
  changed reaches the disk.
- *children*: each exit is collected once, and by the parent only.
- *memory*: free list sorted, disjoint, coalesced; nothing handed out twice.

## 2. Plan

| order | module | of | state |
|---|---|---|---|
| 1 | `SignalSemaphore` | the semaphores | done, safety proved |
| 2 | `SemaphoreList`, `ConditionVariable` | clients composed with 1 | done, safety proved |
| 3 | `ReadersWriterLock`, `SemaphoreRefinement` | the abstract lock that 1 implements | done, proved |
| 4 | `ExecScheduler` | tasks, signals, interrupts | done, safety proved |
| 5 | `SfsTransactions`, `AtomicVolume` | crash recovery of the Smart Filesystem and the volume it promises | done; safety and the refinement proved |
| 6 | `DeviceIO` | ports and I/O requests, with timer.device and sdcard.device behind them | done, safety proved |
| 7 | `TaskLists` | `ln_Succ`/`ln_Pred` surgery against interrupts (`RemTask` unlinks under Forbid only) | planned |
| 8 | `ETaskChildren` | parents, children, orphans | planned |
| 9 | `MemHeader` | Allocate/Deallocate against a reference set of free bytes; pools and handlers | planned |
| 10 | `DosListLocks`, `LDDemon`, `BootScan`, `WaitTOF` | as far as they go | planned |

The safety properties of the modules that are done are proved (section 5); theorems
planned are those of the modules still to come.

## 3. The modules

### SignalSemaphore

One variable per field: `ssOwner`, `ssNestCount`, `ssQueueCount`, `ssWaitQueue`
for the semaphore, `sigSingle` for the one signal bit that matters,
`ssmSemaphore` and `msgAt` for messages. `waitingFor`, `obtained` and `bid` are
what the *programs* know: the call a task sleeps in, the locks they were given,
the bids they have not taken back. The properties compare the two.

Each call runs between Forbid() and Permit(), so it is one step with respect to
other tasks, except that a call that has to queue ends in Wait(SIGF_SINGLE):
`ObtainSleep` is the part before, `ObtainAwake` the part after. A program that
calls Release for a lock need not be the task that obtained it. `StraySingle` is
any use of SIGF_SINGLE by other code that leaves the bit set in a running task.

Left out: the tests for no `ThisTask` and for a removed task (start-up and the end
of a task), the check of the node type, and the alert on a release too many,
which the model does not make. `MaxNest` bounds nested locks.

The rule `MaySleep` is the one restriction on programs: a task does not ask for
the exclusive lock over its own shared one, nor for a lock while a bid of its own
on the same semaphore is queued. It would sleep on itself, and the code does not
claim otherwise.

### SemaphoreList

Adds `lister` (the task in ObtainSemaphoreList), `at` (the place of its wait loop)
and `failedObtain` to SignalSemaphore, whose other calls go on meanwhile. The
documentation asks the programs to arbitrate, since `ss_MultipleLink` belongs to
the semaphore; the module has one lister at a time. `CHECK_DEADLOCK FALSE` in its
runs: tasks that take two semaphores in opposite orders really stop.

### ConditionVariable

`_condvar_wait` in its steps: enlist, unlock, clear SIGF_SINGLE, Wait, relock
(perhaps asleep in ObtainSemaphore), leave. `due` is a ghost: the threads that
were woken and have not left. `forbid` is the Forbid() around the unlock. With
`Patient` a waker leaves alone a thread that was woken and has not left; without
it, the violation run shows what happens. `CHECK_DEADLOCK FALSE`: all may wait.

### ReadersWriterLock and SemaphoreRefinement

`ReadersWriterLock` is what a program may expect: tokens `held` and `asked`; a
lock that becomes free while anybody asks goes, in the same step, to one writer
or to all the readers. `SemaphoreRefinement` maps the semaphore to it; the
counters, the queue order and the signals disappear. A lock counts as held from
the release that gave it, before the sleeper runs.

### ExecScheduler

`exec` is the record of what `SysBase` and the task structures hold, and the
operators are the functions of the code as maps on it: `Signal`, `Enable`,
`KrnSchedule` = `core_Schedule`, `core_Switch`, `core_Dispatch`, and so on. `at`
says where a task is inside a call, `own` is a ghost with the Forbids and
Disables it has open, `exec.lowered` another one (see `PriorityHonoured`).

What runs under Disable() is one step. Enable() and Permit() end in a step of
their own, the test of SCHEDSWITCH, since interrupts come before it. An interrupt
(VBlank, a handler that signals, a handler that causes a software interrupt) is
one step with its software interrupts and the scheduling of `core_ExitInterrupt`.
RemTask is two steps, with signals in between, because it holds only Forbid().

External: `cpu_Switch` and `cpu_Dispatch` are processor code outside this tree.
The model takes from their use that `cpu_Switch` saves the context and calls
`core_Switch`, and that `cpu_Dispatch` calls `core_Dispatch` again after every
interrupt until there is a task. Left out: task exceptions, stack checks,
SetSignal, the order of TaskWait (nobody looks at it).

### SfsTransactions and AtomicVolume

`disk` is what the device holds and `io` the same under the dirty blocks of the
write-back cache (`cachedio.c`). `cache` has, for each administration block, the
buffer with `CB_ORIGINAL` and the one with `CB_LATEST`, which are one buffer if
`shared`; `ops` the operations of the two levels of the transaction buffer, `phase`
where `flushtransaction` is. A difference between two versions of a block is the
contents it gives. The AdminSpaceContainer is a block like the others and says
which of them are in use, so allocating and freeing change two blocks.

The handler is one process: a call on a block is one step. In a flush every block
handed to the cache below is a step, and every block that cache copies back is
another, which may come whenever it runs out of space; `Crash` may come between any
two of them and keeps only `disk`, and the mount that follows loads the log
(`Loaded`, with its end at an operation of length 0) and replays it. `trouble` says
that the open transaction failed, or that it freed a block it had changed before;
unless `FailAfterFree`, such a transaction does not fail, since what happens then
is the subject of the run `sfs_abort`.

`AtomicVolume` is the promise to the rest of the file system: `latest` changes only
when a transaction ends, `work` starts from it and goes back to it, `stable` takes
its value when a flush is past the point of no return, and a crash makes all three
equal. `SfsTransactions` implements it with `stable`, `latest` and `work` computed from the disk,
the operations and the buffers. An operation of length 0, which a freed block without an
older operation leaves, ends the log for the mount; if contents for other blocks come behind
it (`WholeLog` is false), a crash during this flush may leave any part of what is flushed.
The abstract specification says so: its `Lose` moves `stable` while its input `whole`
is false, and moves nothing else. `EndFlush` removes the log, so it is whole again.

Left out: errors of the device (the code itself leaves their outcome open), the
contents of files, where `findspace` puts the log (a block of its own for each
operation), the checksums, defragmentation, a change that fails for want of memory on the
container of the space (`ChangeFails` is about the other blocks), and one that fails
after the older operation of its block was taken out (`transactions.c:518-540`).

### DeviceIO

`type` is `ln_Type`, `mpMsgList` and `sigRecvd` a port and its signal, `timeList`
the lists of the timer (MICROHZ, VBLANK and WAITUNTIL), `bus` the place of the SD
card's bus task, `at` the place of each program in its call, `sent` the requests
that a program has sent and not taken back. A time is what is left of it, in
VBlanks, up to `MaxTime`; setting the clock makes it longer or shorter.

The handler of timer.device starts with a VBlank and answers one request per step;
programs and the bus task stand still meanwhile, but it may come between any two of
their steps. Everything a caller does under Disable() or Forbid() is one step.
`ReplyMsg` of the bus task is three: the type, the list, the signal; `BeginIO` of
sdcard.device two. The bus task has priority 10, so a program runs while it is
ready only if it is in `Preempts`. `WaitIO`, `DoIO`, `WaitPort` and `sdcard_WaitTO` go on
step by step, with the test of the type, the sleep and the removal apart.

A command to the card is sent by the bus task, which then sleeps in `WaitCmd` until
`BusIRQ` signals it. An interrupt with a response does; one with an error resets the
controller and does not, and neither does a card that says nothing, so the task may
stay there for ever (`lost`). A transfer of several blocks sends a stop command
after it, and waits for the answer to that also when it could not be sent. A task
that is asleep there leaves the processor to the programs.

`IOF_QUICK` decides only whether `DoIO` waits, and `io_Error` is not read by any of
this code, so neither is a variable. Left out: ports that cause a software
interrupt or call a function, OpenDevice and CloseDevice, the EClock units,
NSCMD_DEVICEQUERY, change interrupts, what the commands to the SD card say and the data
they move, the initialisation of a card, and times more than 2^31 seconds apart, for
which the comparison in `CMPTIME` wraps.

## 4. The runs

| run | instance | states | shows |
|---|---|---|---|
| `semaphore_safety` | 3 tasks, 2 messages, nesting 2 | 11 676 | counters, exclusion, wake-ups, messages |
| `semaphore_service` | 3 tasks, 1 message, nesting 1 | 4 370 | implements `ReadersWriterLock`; readers are always served, writers unless readers overlap for ever |
| `list_obtain` | 2 tasks, 2 semaphores, 1 message, nesting 2 | 119 576 | no lock lost or shared while part of a list is held; ObtainSemaphoreList returns |
| `condvar_woken` | 4 tasks, patient | 40 136 | no wake-up lost or invented, the mutex excludes, a woken thread returns |
| `condvar_exclusion` | 3 tasks | | *violation*: two owners after a second wake-up |
| `scheduler_safety` | 3 tasks, 2 priorities, no nesting by tasks | 307 202 | ready list, types, signals |
| `scheduler_nesting` | 2 tasks, 2 priorities; one of them nests one level of Forbid and of Disable | 107 738 | priorities, deferral, counts, no switch in a forbidden section, turns |
| `sfs_crash` | 3 blocks, one of them the space container; one that can be freed, below one that stays | 329 984 | crash at any point, caches, refinement of `AtomicVolume`, whole logs survive, flushes end |
| `sfs_free` | a block that can be freed below one that changes | | *violation*: part of a transaction is lost at a replay |
| `sfs_abort` | a transaction that frees what it changed and fails | | *violation*: the change stays visible |
| `device_io` | 1 program, 2 ports, 2 requests of each device | 355 847 | requests, answers, timeouts, the order of the timer, errors of the card; which calls return |
| `device_reply` | the same, above the bus task | | *violation*: WaitIO removes a request that is not linked yet |

Why the bounds are enough. Three tasks are an owner, a reader and a writer in the
queue, or two readers around a writer; two messages allow a reply that is not
collected beside a queued bid. Nesting 2 distinguishes the last release from
another. In the scheduler, three tasks make a ready list of two whose order
matters; two tasks and one level of each nesting make every order of undoing
Forbid and Disable, with an interrupt at every point. A quantum of one VBlank
meets its end in every state. One signal suffices, since signals of a mask are
treated alike. Three blocks of SFS are the container, one that stays and one that
comes and goes, which gives each kind of operation on top of each other and a log of
up to three blocks to be cut by a crash; as the one that goes is the lower, its operation
of length 0 may come before another and end the log. Two requests to each device are a head
and a follower in each list; one port gets the answers of both devices, so that a
signal may stand for the wrong message; times up to 2 tell a request that is due,
one that is next, and one behind it. One program suffices there, as programs meet
only in the devices; the theorems are about any number of them.

Fairness. Semaphores: only that a task that was signalled runs in the end
(`WF` of `ObtainAwake`); programs may keep a lock for ever, and the liveness
properties say under which behaviour of the owners they hold. Lists and
condition variables: the same for the steps inside the call. Scheduler: a task
inside a call goes on; a task does not hold Forbid or Disable for ever, nor one
or the other by turns for ever while it runs (a program that does stops the
machine); and VBlank comes if interrupts are enabled again and again, strongly
fair because the hardware latches the request. SFS: the handler goes on with what
it has begun, one fairness condition for the single process; the message of the
activity timer waits in its port until the handler looks, so a flush that could
start again and again does (`SF` of `StartFlush`); `IsFlushed` supposes that crashes
end. Device I/O: VBlanks come and are handled; the interrupt leaves the bus
task time, and both the programs, which is strong fairness since the steps of the one
disable those of the other for a moment. Nothing is assumed of the SD card: `BusIRQ`
has no fairness. `IoReturns` supposes that the clock is not
set back for ever (`ClockNotSetBack`), as a request for a point in time would then
rightly wait. It says that every call that waits for nothing but the timer returns,
also when the card has failed; only for the calls that wait for an SD card it
supposes `CardAnswers`, that the bus task is not left asleep in `WaitCmd` for ever. The
code does not guarantee this (see below), and without it they do not return.

### What disagrees

- `condvar_exclusion`: a woken thread stays in the list of the
  condition variable, asleep for the mutex on the same signal; another wake-up
  goes to it again, and lets it run without the mutex.
- `sfs_free`: the operation for a freed block that had none before goes to the log
  with length 0, which the mount takes for the end of the log.
- `sfs_abort`: `deletetransaction` does not restore the buffer of a block that the
  transaction changed and then freed.
- `device_reply`: `ReplyMsg` marks the message before it links it.

Seen while modelling, and not the subject of a run:

- `exec/semaphores.c:123` says that the last to request is the last to get the
  semaphore; a release to a shared head serves all shared requests, ahead of older
  exclusive ones.
- `exec/obtainsemaphorelist.c:133-141`: `failedObtain` is raised for each semaphore
  queued for and lowered for each one passed, so the consistency check fires in a
  correct call. (`failedObtain` is in `SemaphoreList`, as the code has it.)
- `kernel/kernel_scheduler.c:43-51`: if the quantum ends while no task is ready, the
  request to switch is dropped and the count stays at zero; a task of equal
  priority added later waits until the running one calls something that
  reschedules. `TurnComes` is therefore about a quantum that still counts.
- `timer/lowlevel.c:226` and `:97-117`: a request for an EClock or unknown unit, and
  NSCMD_DEVICEQUERY, are not replied when they come by SendIO().
- `devs/sdcard/sdcard_bus.c:838`: `WaitCmd` uses its timeout only after a `Wait` that
  has none, and `BusIRQ` (953-975) does not signal an error, so that after one the
  request and all behind it are never answered; `sdcard_ioops.c:158-162` calls it
  even when the stop command was not sent. No text of the repository promises
  otherwise; in `device_io` this is the step to `lost`, and why `IoReturns` needs
  `CardAnswers`.

## 5. What is proved

`SignalSemaphoreProofs` proves that `IInv` is inductive: the types; every queued
request is the claim of a sleeping task or of a message with a bid, in one place
of one queue (`QueueInv`); `ss_QueueCount` is the nest count plus the length of
the queue, less one (`Balanced`); a sleeper is signalled exactly when it is not in
the queue (`WakeInv`). `QueueInv` is what the rest needs: to know that serving a
node takes exactly one request out and gives exactly one client a lock.

`SemaphoreLockProofs` adds `LInv`: the nest count is the number of locks given
(`CountInv`, over the finite set `Locks(s)`), a free semaphore has no queue and
no owner, every lock is one that the owner field allows (`OwnerInv`), and readers
do not queue behind readers. From it follow `MutualExclusion`,
`NestCountIsLocks`, `NoForgottenWaiter` and `SharedNeverQueuesBehindShared`.
The first part of `SignalSemaphoreProofs` has the facts about the operators on queues:
what `Served`, `Unserved` and `Without` keep, and how many.

These hold for arbitrary `Tasks`, `Sems`, `Msgs` and `MaxNest` under
`ConstantsAssumption`, which only keeps names and `NULL` apart. A release in a
state of `IInv` is treated once as a change of the set of locks, by the three
cases of `ReleaseSemaphore` (not the last lock; the last one with nobody waiting;
a hand-over). `ReplyTellsOutcome` follows from the same facts: a message is replied
only with the semaphore when a release serves it or `Procure` gets it at once, and
without when a bid is vacated.

The second part of `SemaphoreLockProofs` proves `ImplementsLock`: every step of the calls is a
step of `ReadersWriterLock` or changes nothing of it. A call that gets a lock is
`Get`, one that queues is `Ask`, a release is `Return`, a vacated bid `GiveBack` or
`Withdraw`, and a wake-up is no step, since the lock was held from the release on.
The heart of it is the last release: what `Served` takes from the queue is one
writer or all the readers, which is what the abstract lock calls a turn. `LInv` is
needed for the guards, and one more invariant, `NestInv`: a client holds at most as
many locks as `MaxNest` allows, so that each of them has a token of its own.

Both invariants have a parameter `X`, the pairs of a task and a semaphore that the task
has asked for otherwise than by ObtainSemaphore: none in `SignalSemaphore` and
`ConditionVariable`, those of the sleeping ObtainSemaphoreList in `SemaphoreList`. A
task of `X` that is not in the queue has been given the semaphore (`GivenAll`), and that
lock counts like any other.

`SemaphoreListProofs` proves the safety of `SemaphoreList`, for any list of different
semaphores (`ListAssumption`). A step of another task is a step of `SignalSemaphore`, so
`IInv` and `LInv` are kept with `X` = `Asked`. `ListerInv` adds what the call
relies on while it sleeps (`SleepsAt`): it is queued nowhere before its place in the
list; if it is not queued at its place either, its signal is set; it does not own what
it is queued for; and no queued bid of its own is on the list. By the last two the
loop's test of `ss_Owner` tells whether the task is still queued: a bid of its own that
is granted meanwhile would make it the owner of a semaphore that it still queues for. The
steps of the call itself take several semaphores at once, so they have lemmas of their
own, about all of the list (`GainAllLInv`, `AwakeReturnsLocks`). `ListMutualExclusion`
is then `LockedAlone` of `SemaphoreLockProofs` with that `X`. TLC checked `ListIInv`
on the instance of `list_obtain`.

`ConditionVariableProofs` proves the safety of the condition variables for any threads,
under `Patient`: nobody is woken again before it has the mutex back (the run
`condvar_exclusion` shows that this is needed). A step of a thread is a step of
`SignalSemaphore`, so that `IInv` and `LInv` carry over, or it changes `SIGF_SINGLE` of
threads that are not asleep for a semaphore, which these invariants do not mind
(`SignalsOnly`). The rest is `CvInv`: a thread in the list is not outside
_condvar_wait; one that is there and not on the way out has not been woken before
Forbid() is over, because a waker has the mutex and so cannot run before the unlock
(mutual exclusion, used inside its own proof of preservation) nor before Permit(); from
then on the signal is set exactly if the thread was woken. TLC checked `CvInv` on
the instance of `condvar_woken`.

`ListLemmas` has what exec's list operations do to the members of a list and to its
order: `Tail` (REMHEAD), `Append` (AddTail), `RemoveFirst` (Remove) and insertion at
the first place that an order allows (Enqueue and the timer's addToWaitList).
The proofs about the scheduler, devices and condition variables rest on it.

`ExecSchedulerProofs` proves the safety of the scheduler, under `SchedulerAssumption`
only: any tasks, signals, integer priorities and quantum. `exec` is one record that
the functions of exec.library hand on, so there is one lemma for each function
(Enqueue, Dispatch, KrnSchedule, Signal, SoftInts, Enable, ...), about any record it may
be called with, and then one for each action. The inductive invariant `IInv` has three
parts. `Fit`, about the machine alone: the ready list has each ready task once and in
order, no sleeper has a signal it waits for, only `ThisTask` runs, and if a ready task
outranks it then `AttnSwitch` says so. `Nested`: the counts in `SysBase` are those the
running task knows of, one off in Wait() and RemTask(), and what a task that does not
run will find is in its structure or on its stack. And the highest task runs when
nothing puts a switch off (`Highest` under `Good`). None of them stands alone: a switch
keeps the counts right only because a task is switched away in Wait() or with
both counts at the lowest, and `PriorityHonoured` needs that every way back to a
program passes a test of `AttnSwitch`. TLC checked `IInv` on both
instances before it was proved. `KeepsProcessor` is an action property and is proved from the same lemmas
(`Kept`).

`DeviceIOProofs` proves the types of `DeviceIO` and `NoMissedReply`, under
`DeviceAssumption` alone: ports belong to tasks, requests to ports and to one
device each, and the port of a timeout has no other request. The argument has two
halves: no step of another task or of a device takes back what the sleeper relies
on (`Heard`), because calls are about requests of the caller (`OwnCalls`); and
the sleeper itself looks before it sleeps.

Its second part adds the assumption `BusTaskFirst`, that a program with
requests for an SD card has a lower priority than the bus task; the run
`device_reply` shows that it is needed. Its inductive invariant is that a request
is in one list or with the bus task exactly while it is sent, with the type that
belongs to the place (`PlaceInv`), that a call that will remove its request has it
in the list of the port (`CallInv`), that a timer request of sdcard_WaitTO() and its
signal are used by that call only (`TimerInv`), and that the timer's lists are in
order (`SortInv`). `PlaceInv` is needed everywhere: an insertion keeps the order, and
an abort answers once, only because the request is in no other list. From it
follow `RequestInOnePlace`, `RemovedIsLinked`, `TimeoutLeavesNothing` and
`NoneOverdue`.

`SfsTransactionsProofs` proves that `Inv` is inductive for `SfsTransactions`.
`LatestIsLatest` alone is not: whether a buffer is right after `deletetransaction`
depends on what the transaction found when it began. `BlockOK` therefore relates, for each block on its own,
the buffers, both operations and the data below to whether the block is in use
now and was when the transaction began: the rules for buffers (`Sound`), the
right contents if in use (`Right`), and what giving up needs (`Revertible`,
`Restorable`). The container of the space ties the blocks together, so an
allocation is proved once for the container and once for the block. `Flush` says
phase by phase where the cache below may differ from the disk. It follows
that the types, `LatestIsLatest`, `CacheBufferRules` and `GivenUpLeavesNothing`
hold for every area, under `FailAfterFree = FALSE`: no transaction fails after it
has freed a block it had changed. The run `sfs_abort` shows that this is needed.

Its second part adds `Replay`: from the TransactionFailure block on, for every
block in use the operations left over the cache below give the same as the
operations in the log over the disk. Writing a block, copying one back and
crashing each change one side only, in a way that keeps the two equal. Any block may be
freed; `Replay` speaks of logs that are whole, and `WholeLog` itself never changes from the
TransactionFailure block to the end of the flush, also across crashes. From this follow
`WholeLogSurvivesCrash` and, action by action, `ImplementsAtomicVolume`. While a log is
cut short, the copy of a block to the disk is the step `Lose` of `AtomicVolume`, and all
others, the crash and the mount included, are what they are with a whole log: readers
may see part of a flush after such a crash, and never otherwise. `FlushSurvivesCrash` without the premise is false,
as the run `sfs_free` shows.

Model-checked only: liveness, which is out of TLAPS's reach here, like ENABLED
(`ListIsServed`, `TurnComes`, `IoReturns`, `IsFlushed` and the others of the kind).

## 6. Not modelled

Most of the 600 000 lines of the tree are data and hardware: tables and drivers of
USB devices, file system formats, drawing, fonts, locale data. There is little state
to explore in them without a model of the hardware. Of the parts with a protocol of
their own the following are left for later: the pointers of a list while an
interrupt uses it (`TaskLists`), parents and children of tasks, memory lists and
pools, the locks of the DosList, the loader process, the boot menu. `PROJECT.json`
gives the reason for each component.
