----------------------------- MODULE TaskRunner -----------------------------
(***************************************************************************)
(* ForegroundTaskRunner: V8's tasks, posted by any thread, run on the main *)
(* thread's event loop.  A post wakes the loop with uv_async_send; delayed *)
(* tasks wait for a timer that RunTasks arms when it has drained the       *)
(* queues.  A task may be paused by the debugger, whose nested loop runs   *)
(* RunTasks again.                                                         *)
(*                                                                         *)
(* Time is in milliseconds, as in now_in_ms(), and kept relative to the    *)
(* present: left[d] is d's deadline minus now.  Tasks are numbered in the  *)
(* order they are posted.                                                  *)
(***************************************************************************)
EXTENDS Integers, Sequences, FiniteSets, Functions

CONSTANTS MaxTasks,  \* number of PostTask calls
          Delayed,   \* delayed tasks, each posted at most once
          Delays,    \* their delays
          MaxLag,    \* longest time between reading the clock and using it;
                     \* if 0, no time passes in callbacks at all
          MaxDepth   \* nesting of the event loop

ASSUME TaskAssumption == MaxTasks \in Nat /\ MaxLag \in Nat /\ MaxDepth \in Nat \ {0}
ASSUME DelayAssumption == Delays \subseteq Nat /\ IsFiniteSet(Delays) /\ Delayed \cap Int = {}

VARIABLES
  posted,   \* number of tasks posted
  tasks,    \* tasks_
  delayed,  \* delayed_tasks_
  left,     \* deadline of a delayed task, relative to now
  sending,  \* tasks pushed whose uv_async_send has not happened yet
  async,    \* async_ is signalled
  timer,    \* time until timer_ fires, or Off, or Never
  frames,   \* calls of RunTasks on the main thread's stack, innermost first
  ran,      \* tasks that have run, in order
  built     \* SnapshotBuilder has drained the queues

taskVars == <<posted, tasks, delayed, left, sending, async, timer, frames, ran, built>>

Off == -1
\* A timeout near 2^64: uv_timer_start clamps the sum with the loop's time.
Never == -2

\* RunTasks: where it is, the age of the time it is about to use, the tasks it
\* has taken, and whether it arms the timer (DrainTasks alone does not).
Frame(arms) == [pc |-> "drain", age |-> 0, batch |-> <<>>, arms |-> arms]

TaskInit ==
  /\ posted = 0 /\ tasks = <<>> /\ delayed = {}
  /\ left = [d \in Delayed |-> 0]
  /\ sending = {} /\ async = FALSE /\ timer = Off
  /\ frames = <<>> /\ ran = <<>> /\ built = FALSE

-----------------------------------------------------------------------------
(* Posting: any thread *)

\* PostTask, under the lock.
PushTask ==
  /\ posted < MaxTasks
  /\ posted' = posted + 1
  /\ tasks' = Append(tasks, posted + 1)
  /\ sending' = sending \cup {posted + 1}
  /\ UNCHANGED <<delayed, left, async, timer, frames, ran, built>>

\* PostDelayedTask, under the lock; the clock was read before it was taken.
PushDelayed(d) ==
  /\ d \notin delayed \cup sending \cup Range(ran)
  /\ \A f \in Range(frames) : d \notin Range(f.batch)
  /\ delayed' = delayed \cup {d}
  /\ \E delay \in Delays, lag \in 0..MaxLag : left' = [left EXCEPT ![d] = delay - lag]
  /\ sending' = sending \cup {d}
  /\ UNCHANGED <<posted, tasks, async, timer, frames, ran, built>>

\* Mutant: no signal while the main thread is busy.
SendWhenIdle(x) ==
  /\ x \in sending
  /\ sending' = sending \ {x}
  /\ async' = (async \/ frames = <<>>)
  /\ UNCHANGED <<posted, tasks, delayed, left, timer, frames, ran, built>>

\* ... and uv_async_send, after the lock is released.
Send(x) ==
  /\ x \in sending
  /\ sending' = sending \ {x}
  /\ async' = TRUE
  /\ UNCHANGED <<posted, tasks, delayed, left, timer, frames, ran, built>>

-----------------------------------------------------------------------------
(* The main thread *)

Top == frames[1]
Push(f) == frames' = <<f>> \o frames
SetTop(f) == frames' = [frames EXCEPT ![1] = f]

\* The event loop polls: no callback is running, or the debugger has paused a
\* task and runs the loop from within.
Polls == frames # <<>> => Len(frames) < MaxDepth /\ Top.pc = "task"

ImmediateProcessor ==
  /\ Polls /\ async
  /\ async' = FALSE
  /\ Push(Frame(TRUE))
  /\ UNCHANGED <<posted, tasks, delayed, left, sending, timer, ran, built>>

TimerProcessor ==
  /\ Polls /\ timer = 0
  /\ timer' = Off
  /\ Push(Frame(TRUE))
  /\ UNCHANGED <<posted, tasks, delayed, left, sending, async, ran, built>>

\* SnapshotBuilder drains the queues once itself, between two runs of the loop.
SnapshotDrain ==
  /\ frames = <<>> /\ ~built
  /\ built' = TRUE
  /\ Push(Frame(FALSE))
  /\ UNCHANGED <<posted, tasks, delayed, left, sending, async, timer, ran>>

\* The delayed tasks whose deadline was met when the clock was read.
Due(f) == {d \in delayed : left[d] + f.age <= 0}

\* The sequences that hold each member of a set once.
Orders(S) == Injection(1 .. Cardinality(S), S)
ByDeadline(s) == \A i, j \in DOMAIN s : i < j => left[s[i]] <= left[s[j]]

\* DrainTasks, under the lock: take all tasks and the delayed ones that are
\* due, in the order of their deadlines.
Drain ==
  /\ frames # <<>> /\ Top.pc = "drain"
  /\ \E due \in Orders(Due(Top)) :
       /\ ByDeadline(due)
       /\ SetTop([Top EXCEPT !.pc = "run", !.age = 0, !.batch = tasks \o due])
  /\ tasks' = <<>>
  /\ delayed' = delayed \ Due(Top)
  /\ UNCHANGED <<posted, left, sending, async, timer, ran, built>>

\* ... then run them, one after the other.
RunTask ==
  /\ frames # <<>> /\ Top.pc = "run" /\ Top.batch # <<>>
  /\ SetTop([Top EXCEPT !.pc = "task", !.batch = Tail(Top.batch)])
  /\ ran' = Append(ran, Head(Top.batch))
  /\ UNCHANGED <<posted, tasks, delayed, left, sending, async, timer, built>>

TaskReturns ==
  /\ frames # <<>> /\ Top.pc = "task"
  /\ SetTop([Top EXCEPT !.pc = "run"])
  /\ UNCHANGED <<posted, tasks, delayed, left, sending, async, timer, ran, built>>

\* RunTasks reads the clock again; DrainTasks on its own returns.
Drained ==
  /\ frames # <<>> /\ Top.pc = "run" /\ Top.batch = <<>>
  /\ IF Top.arms THEN SetTop([Top EXCEPT !.pc = "arm"])
                 ELSE frames' = Tail(frames)
  /\ UNCHANGED <<posted, tasks, delayed, left, sending, async, timer, ran, built>>

\* std::max(deadline - now, 1), in unsigned arithmetic: a deadline in the past
\* gives a timeout near 2^64.
NextTimeout(f) ==
  LET d == CHOOSE d \in delayed : \A e \in delayed : left[d] <= left[e]
      t == left[d] + f.age
  IN IF t < 0 THEN Never ELSE IF t = 0 THEN 1 ELSE t

\* ... and arms or stops the timer.  The timeout counts from the loop's own
\* reading of the clock, which lags.
Arm ==
  /\ frames # <<>> /\ Top.pc = "arm"
  /\ IF delayed = {} THEN timer' = Off
     ELSE \E lag \in 0..MaxLag :
            timer' = LET t == NextTimeout(Top)
                     IN IF t = Never THEN t ELSE IF t > lag THEN t - lag ELSE 0
  /\ frames' = Tail(frames)
  /\ UNCHANGED <<posted, tasks, delayed, left, sending, async, ran, built>>

ReadsClock(f) == f.pc \in {"drain", "arm"}

\* A millisecond passes.
Tick ==
  /\ \A f \in Range(frames) : IF ReadsClock(f) THEN f.age < MaxLag ELSE MaxLag > 0
  /\ frames' = [i \in DOMAIN frames |->
                  IF ReadsClock(frames[i]) THEN [frames[i] EXCEPT !.age = @ + 1]
                                           ELSE frames[i]]
  /\ left' = [d \in Delayed |-> IF d \in delayed /\ left[d] > -MaxLag - 1
                                THEN left[d] - 1 ELSE left[d]]
  /\ timer' = IF timer > 0 THEN timer - 1 ELSE timer
  /\ UNCHANGED <<posted, tasks, delayed, sending, async, ran, built>>

MainStep == Drain \/ RunTask \/ TaskReturns \/ Drained \/ Arm

TaskNext ==
  \/ PushTask
  \/ \E d \in Delayed : PushDelayed(d)
  \/ \E x \in Delayed \cup 1..MaxTasks : Send(x)
  \/ ImmediateProcessor \/ TimerProcessor \/ SnapshotDrain
  \/ MainStep
  \/ Tick

TaskSpec == TaskInit /\ [][TaskNext]_taskVars

\* Callbacks return, posts are completed, the loop serves its handles and
\* time passes.
TaskFairness ==
  /\ WF_taskVars(MainStep)
  /\ WF_taskVars(ImmediateProcessor)
  /\ WF_taskVars(TimerProcessor)
  /\ WF_taskVars(Tick)
  /\ \A x \in Delayed \cup 1..MaxTasks : WF_taskVars(Send(x))

TaskFairSpec == TaskSpec /\ TaskFairness

-----------------------------------------------------------------------------
(* Properties *)

\* What the i-th call of RunTasks has taken and not run.
Taken(i) == Range(frames[i].batch)

Waits(x) == x \in Range(tasks) \cup delayed \/ \E i \in DOMAIN frames : x \in Taken(i)

\* No task is lost and none runs twice: each posted task is in one queue, in
\* one call's batch, or has run (the swap in DrainTasks).
Conserved ==
  /\ IsInjective(tasks) /\ IsInjective(ran)
  /\ Range(tasks) \cap delayed = {}
  /\ Range(ran) \cap (Range(tasks) \cup delayed) = {}
  /\ \A i \in DOMAIN frames :
       /\ IsInjective(frames[i].batch)
       /\ Taken(i) \cap (Range(tasks) \cup delayed \cup Range(ran)) = {}
       /\ \A j \in DOMAIN frames : i # j => Taken(i) \cap Taken(j) = {}
  /\ \A x \in 1..posted \cup sending : Waits(x) \/ x \in Range(ran)

InOrder(s) ==
  \A i, j \in DOMAIN s : i < j /\ s[i] \notin Delayed /\ s[j] \notin Delayed => s[i] < s[j]

Before(S, T) == \A x \in S \ Delayed, y \in T \ Delayed : x < y

\* Tasks wait in the order they were posted: those of an outer, paused
\* RunTasks before those of an inner one, before those still queued.
PostOrder ==
  /\ InOrder(tasks)
  /\ \A i \in DOMAIN frames :
       /\ InOrder(frames[i].batch)
       /\ Before(Taken(i), Range(tasks))
       /\ \A j \in DOMAIN frames : i < j => Before(Taken(j), Taken(i))

\* A queued task is always followed by a wakeup: a post that has still to
\* signal, a signal, or a call of RunTasks that has still to drain; a delayed
\* task may also have the timer, or a call that has still to arm it.
WakeupPending ==
  /\ tasks # <<>> =>
       \/ sending # {} \/ async
       \/ \E f \in Range(frames) : f.pc = "drain"
  /\ delayed # {} =>
       \/ sending # {} \/ async \/ timer # Off
       \/ \E f \in Range(frames) : f.arms

\* Every posted task is in one place, queued, taken or run, tasks wait in the
\* order they were posted, and a queue that holds one has its wake-up pending
\* (ForegroundTaskRunner::PostTask, DrainTasks, RunTasks).
TasksKept == Conserved /\ PostOrder /\ WakeupPending

\* Posted tasks run: time and again, all that were posted have (PostTask and
\* ImmediateProcessor).
TasksRun == []<>(1..posted \subseteq Range(ran))

\* "At ForegroundTaskRunner::ImmediateProcessor, drain deadline met delayed
\* tasks queue items": a delayed task runs.
DelayedRun == \A d \in Delayed : (d \in delayed) ~> (d \in Range(ran))
=============================================================================
