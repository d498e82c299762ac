# uthreads: a TLA+ model of the user-level thread library

The repository implements user-level threads on one CPU: a program calls
`uthread_init` and then creates, blocks, resumes, puts to sleep and terminates
threads; a virtual timer preempts the running thread at the end of its quantum.
This directory holds models of that library, of the program that comes with it
and of the course's samples, TLC runs that check them on small instances, and
proofs that TLAPS checks for every size.

## 1. The system

| Component | Source | State | Operations |
|---|---|---|---|
| Thread control block | `thread.h`, `thread.cpp` | `_state`, `_quantoms_left_to_sleep`, `_running_quantoms_num`, `_env`, `_stack` | constructor, `set_running`, `set_ready`, `set_block`, `set_sleep`, `update_sleep_value`, `wake_up`, `unblock`, `save_env`, `do_jump`, `setup_env` |
| Scheduler | `scheduler.h`, `scheduler.cpp` | `_active_threads`, `_ready_queue`, `_sleeping_threads`, `_running_thread_id`, `_total_quantoms` | create, terminate, block, resume, sleep, the timer handler, `run_topmost_thread_in_ready_queue`, destructor |
| Thread ids | `scheduler.cpp:20-30` | `_unused_threads_id` (a heap), `_largest_thread_id` | `generate_thread_id`, the `push` in `terminate_thread` |
| uthreads API | `uthreads.h`, `uthreads.cpp` | none | the library's functions: each blocks SIGVTALRM, checks its argument, calls the scheduler and unblocks |
| Timer and signal mask | `scheduler.cpp:32-53, 222-248` | interval timer, process mask, pending signal | arm for one quantum, block, unblock, deliver |
| Context switching | `thread.cpp:20-22, 79-98`, `utils.h` | saved contexts, stacks | save, jump, make the first context |
| Demo client | `main.cpp` | two counters per thread | calls the library at chosen quantums |
| Course samples | `demos/` | a flag, a timer, two contexts | coroutines by `siglongjmp`, a loop that waits for a timer, a SIGINT handler |
| Compiler probes | `cmake-build-debug/.../CompilerId*` | strings in a binary | derive compiler, version, target and standard from predefined macros |
| Build and IDE files | `.idea/`, `Makefile`, `CMakeLists.txt`, caches and logs | | data |

How they interact. Everything runs in one process. The RUNNING thread calls the
API, the API calls the one `Scheduler` object, the scheduler calls the methods
of `Thread`. Control passes between threads only inside
`run_topmost_thread_in_ready_queue`, by `siglongjmp` into the context the next
thread saved when it last lost the CPU. SIGVTALRM interrupts the RUNNING thread
wherever the signal is not blocked and enters `internal_time_handler`. The
samples and the probes are programs of their own.

What is hard about it:

* preemption can fall between any two calls of any thread, so every call meets
  queues in any legal combination;
* one fact is kept in several places: a thread's state, its place in the ready
  queue or in the set of sleepers, `_running_thread_id`, the map, the heap of
  ids. A single path that updates one of them and not another leaves a pointer
  to a deleted thread or a READY thread nobody will run;
* the sleepers that wake together are queued in the order of an
  `unordered_set` of pointers, different in every run;
* callers ignore what `run_topmost_thread_in_ready_queue` returns: an empty
  queue would let a blocked thread go on;
* liveness: nobody may starve in the queue and every sleep must end;
* below the level of the calls: a jump carries its own signal mask, a new
  context is made while the signal is blocked, the timer is one-shot, a thread
  deletes the stack it stands on, and a signal that is pending when the
  dispatcher unblocks it arrives before the jump, on the wrong stack.

What makes each component correct: the scheduler's structures agree
(`Consistent`), no assert fails (`NoAssertionFails`), the queue is served in
order (`RoundRobin`, `ReadyThreadsRun`), nobody waits through two quantums of
the same thread nor through `MAX_THREAD_NUM` quantums (`NobodyPassesTwice`,
`WaitIsBounded`), threads live the lives they should (`LivesFollowLifecycle`),
sleeps last exactly as long as asked and end (`SleepsExactly`, `SleepersWake`),
a block lasts until it is undone (`BlockLastsUntilResume`,
`BlockedThreadsNeverRun`), quantums are counted once (`QuantumsAddUp`), ids are
the smallest free ones (`IdsAreSmallestFree`); the mask is right wherever the
CPU is (`MaskFollowsPoint`), code runs on the stack of the thread it belongs to
(`CallerIsRunning`), contexts lead back to their threads
(`StrayOnlyThroughWindow`, `ReadyThreadsComeBack`, `MainUsesRegularStack`) and
preemption never stops (`PreemptionIsPrepared`, `SignalHandled`, `Preemption`).

`PROJECT.json` lists the hazards line by line, each with the properties that
would catch it going wrong, or with the reason why none does: some of them the
code simply meets, and nothing it says of itself forbids the outcome.

## 2. The modules

| Module | Models | Built on |
|---|---|---|
| `Thread` | `class Thread`: control block and methods, as operators on records | |
| `Scheduler` | `class Scheduler` behind `uthreads.cpp`: the state machine | `Thread` |
| `SmallestFreeId` | abstract specification of thread ids, as a program sees them | |
| `ThreadLifecycle` | abstract specification of the states of threads and of the CPU | |
| `UThreadsContract` | the promises of `uthreads.h`, with history variables over the steps of `Scheduler` | `Scheduler` |
| `Signals` | mask, timer, pending signal, handler, contexts and stacks | `Scheduler` |
| `DemoClient` | `main.cpp`, statement by statement | `Scheduler` |
| `PointerGuard` | `translate_address`, on words of bits | |
| `JumpDemo` | `demos/demo_jmp.c` | `PointerGuard` |
| `TimerDemo` | `demos/demo_itimer.c` | |
| `CompilerId` | the two compiler probes | |
| `QueueLemmas`, `SchedulerProofs` | facts about queues; the invariant of `Scheduler` and its theorems | `Scheduler` |
| `SchedulingProofs` | the order of the queue and the lives of threads, from one step to the next | `SchedulerProofs` |
| `ContractProofs` | the promises about blocks, sleeps and the count of quantums | `UThreadsContract`, `SchedulingProofs` |
| `DemoProofs` | the threads of `main.cpp` and their timetable | `DemoClient`, `SchedulingProofs` |
| `SignalsProofs` | the invariant of `Signals` and its theorems | `Signals`, `SchedulerProofs` |
| `JumpDemoProofs` | the round trip of the pointer guard; where the jumps lead and whose turn it is | `JumpDemo` |
| `TimerDemoProofs` | reports and expiries | `TimerDemo` |
| `MC...` | instances for TLC | |

### Thread

A control block is a record of `_state`, `_quantoms_left_to_sleep` and
`_running_quantoms_num` (`age`). A method is an operator from a control block
to a control block; the assertion at the head of `update_sleep_value` is the
operator `MayUpdateSleepValue`, which the scheduler consults before the update.
The two counters that only grow are residues modulo `CounterModulus`, the
number of values of an int; nothing in the library compares them. Beyond the
largest int C++ leaves the result open. The builds of the repository
(`Makefile:9-10` with `-g`, a Debug build in `cmake-build-debug`) compile the
increment to the machine's, which wraps, and that is what `Increment` does.

### Scheduler

The variables are the fields of the class. `active_threads` is a function from
the ids of living threads to their control blocks; a pointer in the ready queue
or in the set of sleepers is the id of the thread it points to, and the
invariant shows that no such pointer outlives its thread. The heap of ids is a
set, read through its minimum. `process` tells whether the process still runs
and how it ended: `exit(0)` after terminating the main thread, `exit(1)` when an
allocation fails, or a failed assert.

One action is one library call, from its entry to the point where some
thread's own code runs again, or one run of the timer's handler:

| Action | Code |
|---|---|
| `uthread_spawn`, `SpawnOutOfMemory` | `create_thread_and_push_to_ready`, `create_thread` |
| `TerminateMain` | `exit(0)` in `uthread_terminate`, with the scheduler's destructor |
| `TerminateSelf`, `TerminateOther` | the two branches of `terminate_thread` |
| `BlockSelf`, `BlockOther` | the two branches of `block_thread` |
| `uthread_resume` | `resume_thread` |
| `uthread_sleep` | `sleep_thread` |
| `internal_time_handler` | the handler of SIGVTALRM |

A call that only reports an error or reads a value leaves every variable as it
is, which `[Next]_vars` allows anyway, so it has no action. Every call is made
by the RUNNING thread, with any id of a living thread as its argument.

`run_topmost_thread_in_ready_queue(threads, queue, sleeping)` takes the
structures as its caller leaves them and constrains the next state: it counts
the quantum, updates every sleeper once, appends those that wake in any order,
and makes the front of the queue RUNNING. A failed assert on the way ends the
process.

### SmallestFreeId, ThreadLifecycle

Two views of `Scheduler` that leave everything else out. `SmallestFreeId` is the
set of ids in use. `ThreadLifecycle` maps each id to its state or to GONE; it
says that nobody is ever blocked and asleep at once, that a woken or resumed
thread waits for its turn, that the main thread only ever waits or runs, and
that in one step the CPU goes to a thread that was READY before it, if there is
one. Both are refined by `Scheduler` (`IdsAreSmallestFree`,
`LivesFollowLifecycle`).

### UThreadsContract

History variables record what the program asked for: which threads were blocked
and not resumed (`held`), which of these were asleep at the time (`ignored`),
until which quantum each thread sleeps (`until`), the quantums that deleted
threads had used (`retired`) and, for each thread that waits for the CPU, who
had a quantum since it began to wait (`passed`). The steps assign them and never test them.
Blocking or resuming a thread that the library leaves as it is does succeed, so
these calls, mere stuttering in `Scheduler`, are steps here
(`BlockWithoutEffect`, `ResumeWithoutEffect`).

### Signals

Here a call is cut at its mask operations. `cpu` is where the CPU is: in program
code, in a call behind its SIG_BLOCK, before the SIG_UNBLOCK at its end, in the
dispatcher after the timer is set, in the *window* between the dispatcher's
SIG_UNBLOCK (`scheduler.cpp:120`) and its jump, or in a handler about to return;
and on whose stack. What a call does to the scheduler's structures in between is
the action of `Scheduler` of the same name, so `Signals` implements `Scheduler`
(proved, section 5), and the atomicity of `Scheduler` is justified.

`context` gives for every thread the place, the stack and the mask its `_env`
leads to. `setup_env` makes one that leads to the entry point on the thread's
own stack with an empty mask; `save_env` saves where the caller stands; the
handler saves itself, on whatever stack it runs, in the context of the thread
that `_running_thread_id` names. `do_jump` goes where the context leads. If the
context was saved on a stack that is not the thread's own, or above frames that
have returned, what it finds there is undefined in C++: the jump may succeed or
lead to `"undefined"`, where the model stops. Stacks of deleted threads become
`Deleted`; a thread that terminates itself goes on to the jump on such a stack.

The kernel is external: `TimerExpires` turns the armed one-shot timer into a
pending signal at any moment, and a pending signal is delivered before the
process executes anything else with its mask open.

The program may call anything first. `uthread_init` builds the scheduler with a
quantum; any other first call builds it with a quantum of 0, which leaves the
timer off for good.

### DemoClient

A thread's frame is its function, its `i` and its place in its loop
(`catch_up`, `compare`, `act`). The calls are the actions of `Scheduler`, with
the conditions under which they fail. A run is `hasty` if the timer may end a
quantum between any two statements; otherwise only when its thread has looked at
the number of the quantum and acted on it, as with the 100 ms of `main.cpp`.

### PointerGuard, JumpDemo

The C library keeps the stack pointer and program counter of a `sigjmp_buf`
xored with a secret key and rotated; `translate_address` does the same for the
words that `setup_env` and `setup_thread` write by hand. Words are functions
from bit positions to bits. `JumpDemo` is `demo_jmp.c` with contexts of such
words: a jump demangles them and looks up which place and which stack they name.

### TimerDemo

`demo_itimer.c` with time in seconds. The flag `gotit` is a plain int written by
a handler, so what the loop reads is undefined; the model takes both kinds of
compiled code, one that reads it in every round and one that reads it once
(`hoisted`).

### CompilerId

Everything the probes report follows from the predefined macros through chains
of `#elif`. A chain is a sequence of conditions and results of which the first
that holds is taken. The compilers, the macros they add to pose as others,
targets and standards are constants, external to the repository.

## 3. The runs

| Run | Instance | Checks |
|---|---|---|
| `scheduler` | 5 threads, sleeps of -2, 0, 1, 2 quantums | `TypeOK`, `Consistent`, `NoAssertionFails`, and that `Scheduler` implements `SmallestFreeId` |
| `liveness` | 4 threads, `LiveSpec` | `RoundRobin`; that `Scheduler` implements `ThreadLifecycle`; `ReadyThreadsRun`, `SleepersWake`, `MainRunsAgain` |
| `contract` | 3 threads | `SleepsExactly`, `BlockLastsUntilResume`, `QuantumsAddUp`, `NobodyPassesTwice`, `WaitIsBounded` |
| `block_promise` | 3 threads | `BlockedThreadsNeverRun`, which is violated |
| `sleep_assertion` | 2 threads, sleeps of -2, -1, 0, 1 | `NoAssertionFails`, which is violated |
| `signals` | 3 threads, sleeps of 0 and 1, `SignalsLiveSpec` | types; mask, stack and contexts everywhere; `LostThreadsStayLost`; preemption and delivery, also as liveness; `ReadyThreadsComeBack` |
| `regular_stack` | 2 threads | `MainUsesRegularStack`, which is violated |
| `demo` | `main.cpp`, 40 quantums, 25 in a hasty run | `Timetable` of the unhurried run; `ThreadsAreWhoTheyAre`, `NobodyRunsAhead` |
| `demo_resume` | `main.cpp`, 40 quantums | `ResumedInQuantum25`, which is violated |
| `jump_demo` | words of 4 bits, every key | every jump lands, each coroutine keeps to its stack, turns alternate, `main` is not come back to |
| `timer_demo` | the values of the code | no expiry is reported twice; every expiry is followed by a report |
| `compiler_id` | some fifty compilers, posing as others, for several targets and standards | all four strings of the probe are right |

The passing runs of the library use every argument of `uthread_sleep` in
miniature except -1, which makes it abort; `sleep_assertion` is about that one.

`CHECK_DEADLOCK` stays on in every run: the main thread can always run or be
preempted, and a process that has ended, or a run that has reached its bound,
stutters.

### Bounds, and why they are enough

* `MAX_THREAD_NUM` is 100 in the code. With 5 there are enough threads for a
  full table with a RUNNING thread, a queue of two, a sleeper and a blocked
  thread at once, several free ids to choose from, and spawns that meet the
  limit. Order in the queue needs three queued threads and starvation a victim,
  an overtaker and the main thread (4 in `liveness`); each promise of the
  contract concerns one thread and somebody who acts on it while a third runs
  (3 in `contract`). In `signals` a context goes astray between two threads and
  a third one can delete, block or outlive either (3). `main.cpp` has three
  threads; 4 leaves room for a spawn too many, which would show. What is checked
  for 5 and for 3 is proved for every limit (section 5).
* `CounterModulus` is 2^32 in the code. It is 1 where the counters do not
  matter (`scheduler`, `signals`: nothing reads them), 2 where the start of a
  quantum must show in the state (`liveness`; `NewQuantum`, by which `RoundRobin`
  and `passed` tell it, needs at least 2), and 4 in `contract`, one more
  than the longest sleep: that one ends a whole period of the counter after the
  quantum of its call, the last end that cannot be confused with another. The
  code keeps far from that limit, an int argument being below 2^31. The
  wrap-around is reached in each of these runs. In `demo`, where the program
  compares the count, it is 64 and never wraps: the run is over before.
* Sleep arguments: -2 for the negative ones, 0, 1 and 2, so that a counter is
  decremented twice before it wakes its thread; 3 too in `contract`, for the
  reason above; 0 and 1 in `signals`, where only what a switch does to the
  contexts matters.
* `MaxQuantums` is 40 in `demo`, beyond the last quantum `main.cpp` names (25)
  by several rounds of the pattern that has set in by then. `MaxHasty` is 25:
  every call of the program has been made or missed.
* `WordSize` is 4 and `Rotation` 1 in `jump_demo`: enough for seven distinct
  addresses, under all sixteen keys. `MaxCount` is 15, a multiple of both
  periods, so that either coroutine ends a turn there.
* `MaxOwed` is 4 in `timer_demo`: reports owed beyond that are not counted, and
  the property is about the other end, below zero. It has to be at least 1, or
  no expiry would count (`TimerDemoAssumption`).

### Fairness

`LiveSpec` adds weak fairness of `QuantumEnds`: the RUNNING thread loses the CPU
through the timer or through a call of its own. The code justifies it by arming
the timer at the start of every quantum (`scheduler.cpp:119`) for a thread that
uses CPU time; a thread that waits in the kernel uses none and is outside the
model, as it is outside what ITIMER_VIRTUAL can preempt. No fairness is assumed
of any particular call: threads need not resume, terminate or sleep, and they
may end every quantum themselves.

`SignalsLiveSpec` takes that apart: weak fairness of `Continues`, a process on
the CPU executes its next step, and of `TimerExpires`, an armed virtual timer
runs out. Entering a call is not part of `Continues`: a
thread need never call the library. That quantums end is then a result
(`Preemption`), and so is that the turns the scheduler deals out reach the
threads' own code (`ReadyThreadsComeBack`).

`TimerDemo`: weak fairness of the clock and of the handler, once its signal is
pending; strong fairness of the loop, which the handler interrupts again and
again but which is where the three seconds between two expiries are spent.

## 4. What was found

* **Blocking a sleeping thread does nothing** (`block_promise`). `block_thread`
  handles a RUNNING and a READY thread and returns SUCCESS for any other.
  `uthreads.h:62` promises "Blocks the thread with ID tid. The thread may be
  resumed later using uthread_resume." The thread wakes at the end of its sleep
  and runs. In consequence the state BLOCKED_AND_SLEEPING is never reached
  (`FifthStateUnreachable`). Nothing else breaks the promise: it holds as long as
  nobody is blocked in its sleep (`BlockIsBrokenBySleepOnly`).
* **`uthread_sleep(-1)` aborts the process** (`sleep_assertion`). The argument
  is stored as the sleep counter, where -1 is NOT_SLEEPING, and the assert at
  `thread.cpp:44` fails within the same call. Any other negative argument makes
  the caller wake at the next quantum, and a program that never passes -1 never
  sees an assert fail (`AssertionsHold`).
* **A timer in the window before the jump loses a thread** (`regular_stack`).
  `run_topmost_thread_in_ready_queue` names the next thread as the running one,
  unblocks SIGVTALRM at `scheduler.cpp:120` and then jumps. A signal that
  expired during the call is delivered in between; the handler saves its own
  place, inside the library, as the context of the new thread. Its stack is that
  of the old thread or, when the window is hit again, the new thread's own, with
  a program counter in an earlier handler; either way what the thread had saved
  is lost. `StrayOnlyThroughWindow` shows that a context goes astray in no other
  way, `LostThreadsStayLost` that the thread concerned never comes back to its
  own code, and `MainComesBack` that without a handler in the window the main
  thread keeps to its regular stack.
* **The demo never resumes thread 2** (`demo_resume`). Thread 1 is to do it in
  quantum 25, but its own sleep in quantum 17 moves it to the even quantums
  (`BlockedForGood`).

## 5. What is proved

All proofs are checked by TLAPS. The assumptions are named in the modules, and
TLC evaluates them in the runs.

**The library**, for every `MAX_THREAD_NUM` and `CounterModulus` above zero and
every set of integers `SleepArguments` (`SchedulerAssumption`,
`CounterModulusIsPositive`):

| Theorem | States |
|---|---|
| `TypeCorrect` | `Spec => []TypeOK` |
| `SchedulerConsistent` | `Spec => []Consistent` |
| `AssertionsHold` | `Spec => []NoAssertionFails`, if -1 is not among the arguments of `uthread_sleep` |
| `IdsRefinement` | `Spec => IdsAreSmallestFree`, that is, `Scheduler` implements `SmallestFreeId` |
| `RoundRobinHolds` | `Spec => RoundRobin` |
| `LifecycleRefinement` | `Spec => LivesFollowLifecycle`: `Scheduler` implements `ThreadLifecycle` |
| `FifthStateUnreachable` | no thread is ever BLOCKED_AND_SLEEPING |
| `SignalsImplementScheduler` | `SignalsSpec => Spec`: `Signals` implements `Scheduler` |
| `SignalsTypeCorrect` | `SignalsSpec => []SignalsTypeOK` |
| `MaskIsRight` | `SignalsSpec => []MaskFollowsPoint` |
| `CallerIsAtHome` | `SignalsSpec => []CallerIsRunning` |
| `OnlyTheWindowStrays` | `SignalsSpec => []StrayOnlyThroughWindow` |
| `TimerIsPrepared` | `SignalsSpec => []PreemptionIsPrepared` |
| `LostForGood` | `SignalsSpec => LostThreadsStayLost` |
| `MainComesBack` | `SignalsSpec /\ [][~ HandlerInWindow]_allVars => []MainUsesRegularStack` |

**The promises of `uthreads.h`**, if besides no sleep is as long as the period of
the counters (`SleepsFitCounter`: an int is at most 2^31 - 1, and the counters
have 2^32 values):

| Theorem | States |
|---|---|
| `BlockLasts` | `ContractSpec => []BlockLastsUntilResume` |
| `SleepIsExact` | `ContractSpec => []SleepsExactly` |
| `QuantumsCounted` | `ContractSpec => []QuantumsAddUp` |
| `NobodyPasses` | `ContractSpec => []NobodyPassesTwice` |
| `WaitBounded` | `ContractSpec => []WaitIsBounded` |
| `BlockIsBrokenBySleepOnly` | `ContractSpec /\ [](ignored = {}) => []BlockedThreadsNeverRun` |

**`main.cpp`**, for every number of quantums below the period of the counters and
every table of threads with room for its three (`DemoAssumption`):

| Theorem | States |
|---|---|
| `DemoIsScheduler` | `DemoSpec => Spec` |
| `FramesAreKept` | `DemoSpec => []DemoTypeOK` |
| `EachIsSpawnedOnce` | `DemoSpec => []ThreadsAreWhoTheyAre` |
| `NobodyActsEarly` | `DemoSpec => []NobodyRunsAhead` |
| `KeepsTimetable` | `DemoSpec => []Timetable` |
| `BlockedForGood` | in an unhurried run thread 2 stays BLOCKED from quantum 15 on |

**`demo_itimer.c`**, for every interval, and **`demo_jmp.c`**, for every word
size, rotation, key and choice of distinct addresses (`TimerDemoAssumption`;
`RotationIsProper`, `AddressesAreDistinct`, `MaxCountIsNatural`):

| Theorem | States |
|---|---|
| `ReportedOnce` | `Spec => []NeverReportedTwice` of `TimerDemo` |
| `RoundTrip` | what `siglongjmp` makes of a word from `translate_address` is the address |
| `JumpsLand`, `OwnStackOnly`, `NeverHello` | `Spec => []TypeOK`, `[]EachOnItsStack`, `[]HelloIsNeverPrinted` of `JumpDemo` |
| `TurnsAlternateAlways` | `Spec => []TurnsAlternate` of `JumpDemo` |

### How the proofs go

**Scheduler.** The inductive invariant is `IInv == Types /\ Consistent`. It is
needed as a whole: that the ready queue stays exact after a terminate needs the
states to be exact; that the dispatcher finds somebody to run needs the main
thread to be READY or RUNNING and the queue to be exact; that a new id is not in
use needs the heap and the map to be disjoint and together to fill `0 ..
largest_thread_id`. `Consistent` is an invariant of the run `scheduler`.

Five actions end in the dispatcher. At that moment nobody is RUNNING; otherwise
the structures agree, which is the predicate `WellFormed`. Lemma `Dispatch`
shows that from well-formed structures the dispatcher either aborts, and only
because of a counter `update_sleep_value` rejects, or leaves a consistent
scheduler. Lemma `LeaveCPU` and its three corollaries, and `TerminateHandsOver`,
show that the callers hand over well-formed structures. The calls that do not
dispatch have a lemma each. `StepConsistent` puts the cases together.
`TypeCorrect` adds the limit on ids, which a process that has ended still keeps:
`LimitStep` reads it off the accounts of the ids while the process lives, and
follows the steps that end it (`AbortKeeps`).
`AssertionsHold` uses the same lemmas: the only counter ever rejected is the one
that `uthread_sleep(-1)` stores. `IdsRefinement` uses `TakeId`: what
`generate_thread_id` hands out is the smallest id not in use, and below the
limit. `QueueLemmas` holds the facts about `push_back`, `pop_front`, `erase` and
the joining of a batch of elements, for queues without repetitions.

**The queue and the lives of threads** (`SchedulingProofs`). The four ways to
leave the CPU differ only in what they hand to the dispatcher. `HandsOver` is
what they have in common: nobody but the running thread is touched, and the
queue is the old one, with that thread at its end or not at all
(`QuantumHandsOver`). `QuantumStarts` says what the dispatcher makes of it,
thread by thread. `RoundRobinHolds` then needs where a thread is in a queue
(`PositionIs`, `OnePlaceEach`: a queue without repetitions has one place for
each) and that a pop moves everybody up by one place, an erase moves nobody
back, and pushes move nobody at all. `PlacesMoveUp` says it for both parts of
`QueueMovesUp`: a thread's place, and who is ahead of it, where only threads may
stand that stood there before. `LifecycleRefinement` compares the states
of each thread before and after: `LivesAfterQuantum` for the steps that
dispatch, `OneLifeChanges` for the others. Here `NeverBoth`, that nobody is
BLOCKED_AND_SLEEPING, has to be part of the invariant: `update_sleep_value` and
`resume_thread` handle that state, and a thread in it would wake up BLOCKED,
which `ThreadLifecycle` does not know.

**The contract.** Every step is a step of `Scheduler` that also writes down what
was asked for, or leaves `Scheduler` alone, so that its theorems carry over.
What is left to show is that the structures remember as much as the history. For
`BlockLasts` it is enough that the threads in `held` and not in `ignored` are
alive and in the state BLOCKED (`HeldBlocked`), together with `NeverBoth`:
`is_blocked` also holds in the fifth state, which a new quantum can end. With
`ignored` empty the same invariant is about every thread in `held`, which is
`BlockIsBrokenBySleepOnly`.

For `SleepIsExact` the invariant ties the sleep counter of each sleeper to the
end of its sleep (`SleepsKnown`): the quantum in `until` is the one after as
many more as the counter says, modulo the period (`EndOfSleep`).
`SleepEndsAfter` is where `SleepsFitCounter` is used: a sleep of a whole period
would look over at the first quantum after the call.

For `QuantumsCounted` the ages of the living and `retired` are sums
over finite sets, whose folds the provers cannot unfold. `SumsUp` characterises
such a sum by its value on every subset; that one exists, and only one, is shown
by well-founded induction over the subsets of a finite set, in the form of a
statement about sets of subsets (`SubsetInduction`). `SumOf` then identifies it
with the operator of the community modules, and the steps add and remove one
thread at a time.

`NobodyPasses` and `WaitBounded` share an invariant. For every thread `t` in the
queue those that passed it, those that are ahead of it and `t` itself are
different threads, and nobody passed it twice (`InLine`, inductive as `Queued`).
A new quantum moves the head of the queue from the ones ahead to the ones that
passed, and nobody else gets ahead (`LineIsSound`); this is where the second
half of `QueueMovesUp` is needed. All of them are ids below `MAX_THREAD_NUM`, so
that there are fewer than `MAX_THREAD_NUM` besides `t` (`InLineIsBounded`);
`passed[t]` is as long as the set of its members is large, as it has no
repetitions (`LengthIsCardinality`). This is what of `ReadyThreadsRun` and
`MainRunsAgain` needs no fairness: the quantums may be long, but there are at
most `MAX_THREAD_NUM - 1` of them before a READY thread runs, and the bound is
met by a thread that is preempted while all the others are READY.

**DemoClient.** `DemoInv` is the invariant behind `FramesAreKept`,
`EachIsSpawnedOnce` and `NobodyActsEarly`.
Main's `i` remembers whom main has spawned (`WhoTheyAre`): it never meets
quantum 3 or 11 again, so that each spawn happens once, and as nobody terminates
no id comes back. That also keeps `NobodyRunsAhead`. The proof needs only two
kinds of steps: those that move one frame on (`MayMove`, `ThreadsStay`), and the
two spawns (`SpawnKeepsDemo`).

`KeepsTimetable` rests on `OnPlan`, which says of every quantum of an unhurried
run who runs (`Runner`), who lives (`Living`), who waits in which order
(`Waiting`) and who sleeps. Nothing less is inductive: the queue decides who runs
next. Within quantums 3, 11 and 14 main's call changes these answers, and main's
`i` tells whether the call has been made. `FramesOnPlan` adds that only the
running thread can be about to act, and in the present quantum: then it acts in
each of its quantums before the timer may end it, so that thread 1 cannot pass
quantum 17 without its sleep. `NextInTurn` is the arithmetic of the timer's step
on these tables; `TimerOnPlan`, `SpawnOnPlan`, `BlockOnPlan` and `SleepOnPlan`
are the steps that move on in it. The same invariant gives `BlockedForGood`,
what is behind the violation of the run `demo_resume`: from quantum 20 on thread
1 runs in the even quantums, so that quantum 25 is never its own.

**Signals.** The invariant `SigInv` joins `IInv`, which carries over because
every step of `Signals` is one of `Scheduler` or stutters there, with the
properties themselves and two strengthenings. `ContextsWait`: the context of
whoever does not have the CPU, and of the one about to get it, leads to its own
code or into the window, and carries the mask that place expects; without the
mask, nothing could be said of the state after a jump. `AtHome`: while the CPU
is in program code or in a call, it is on the stack of the running thread, and
that thread's context has not gone astray; the second half is what
`LostForGood` rests on. The steps fall into those that touch neither scheduler
nor contexts (`SameThreadsInv`), the calls that dispatch (`DispatchedInv`), and
the rest; `ContextsMove` says once what deleting stacks and making new contexts
does to the contexts of the others.

`MainComesBack` is about the behaviours without a handler in the window
(`HandlerInWindow`). It adds `Straight` to `SigInv`: no context has gone astray,
and a handler only ever stands over program code. A handler can only be called
where the mask is open, in program code or in the window, and the second is
excluded; each other step either keeps the contexts (`SameContextsStraight`) or
moves them as a call does (`MovedContextsStraight`). By `StraightWaits` the main
thread's context then leads back.

**JumpDemo.** `RotateBack` and `XorTwice` give `RoundTrip`. With it `Landing`:
a jump to a context made of the mangled words of a place and a stack goes to
that place and that stack. The invariant `ContextsLeadHome` says that after
`main` has jumped every context is of that kind. `TurnsTaken` adds how far each
coroutine has counted: the one on the CPU is in the turn that its count says,
and the other waits exactly at the end of one (`WaitsItsTurn`), with a context
that leads behind its `sigsetjmp`, or to its entry if it has not begun.

**TimerDemo.** `ReportsAreOwed`: whenever a report is still on its way, because a
signal is pending, the handler has not set the flag, or the loop has seen it or
is going to, an expiry is owed. Between the `printf` and `gotit = 0` the flag
announces nothing, which is what makes the invariant go through. It holds with
the flag read in every round and with the read hoisted.

## 6. What is only model-checked

* The liveness properties (`ReadyThreadsRun`, `SleepersWake`, `MainRunsAgain`,
  `SignalHandled`, `Preemption`, `ReadyThreadsComeBack`,
  `ExpiryIsFollowedByReport`): they rest on fairness and `ENABLED`, which are
  out of the prover's reach.
* The four properties of `CompilerId`. Each behaviour is one evaluation of a
  chain on given macros, and what makes the properties true is which macros each
  compiler defines, data of the instance: the run says what there is to say. The
  digits of version numbers are powers of ten and of sixteen besides, which the
  provers do not take.
* That the code violates four properties, naturally. The theorems say how far
  each violation goes: `FifthStateUnreachable` and `BlockIsBrokenBySleepOnly`
  for `block_promise`, `AssertionsHold` for `sleep_assertion`, `MainComesBack`
  for `regular_stack`, `BlockedForGood` for `demo_resume`.

Every other invariant and action property of a passing run has a theorem.

## 7. What is not modelled, and the plan

Not modelled:

* what a stack holds and how deep it is: `Signals` says where a context leads,
  not what the frame there contains. Two things of every run that C++ leaves
  undefined are counted as carried out: a thread that terminates itself calls
  the dispatcher and jumps from a stack that has been freed
  (`scheduler.cpp:76-77`), and each context leads into the frame of a `save_env`
  that has returned (`thread.cpp:79-82`). So the theorems about `Signals` say
  where the CPU and the contexts go if these two work, as they do while nothing
  reuses that memory, and not that no jump is undefined. An entry function that
  returns and the overflow of 4096 bytes are outside the model too;
* what `exit` does after the destructor has deleted the stack it runs on;
* `demo_singInt_handler.c`, one `sigaction` and a loop of `pause`;
* of the probes, the compiler that is simulated, the internal versions of IAR
  and others, and `main`, which only keeps the strings alive;
* build and IDE files, and the texts of messages.

Left to do:

* `WaitIsBounded` counts quantums from the moment a thread is READY. Together
  with `SleepsExactly` it bounds the quantums from a call of `uthread_sleep` to
  the thread's next one, which no single property states yet;
* that quantums end is assumed in `LiveSpec` and a result in `Signals`, for the
  same steps; a liveness refinement of one by the other would join the two runs,
  and stays with TLC.
