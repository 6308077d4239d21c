----------------------------- MODULE ZlibStreams -----------------------------
(***************************************************************************)
(* The compression streams (zlib/) and the macro task queue that runs      *)
(* them.  A push becomes a task; a wrapper keeps its tasks in _task_queue  *)
(* and hands them one at a time to the macro task queue, which works on    *)
(* them one chunk of output per turn from an idle handle of the event      *)
(* loop.  All tasks of a wrapper share its z_stream and its chunk buffer.  *)
(*                                                                         *)
(* The caller is arbitrary: it may push while an answer is on its way, and *)
(* from inside a callback.  lib/zlib.js never creates a synchronous        *)
(* wrapper, so the synchronous paths of Push are left out.                 *)
(***************************************************************************)
EXTENDS Integers, Sequences, Functions

CONSTANTS Zips, Unzips, \* the wrappers of each class
          MaxPush,      \* bound: the pushes of a behaviour
          MaxTick,      \* max_tick_per_loop_
          MaxChunk      \* bound: the full chunks one push may produce

\* A wrapper is of one class.
ASSUME WrappersApart == Zips \cap Unzips = {}

Wrappers == Zips \cup Unzips
Pushes == 1..MaxPush
NoTask == 0

\* What a push holds: nothing, the byte 0x1f alone, bytes that start (or go
\* on) with the gzip magic number, other bytes.
Data == {"empty", "id1", "magic", "bytes"}
DataOf(w) == IF w \in Unzips THEN Data ELSE {"empty", "bytes"}
Flush == {"NO_FLUSH", "FINISH"}

VARIABLES
  wrapper,    \* the members of each wrapper
  task,       \* the pushes made: wrapper, flush mode, chunks of output so far
  outcome,    \* what each push came to
  log,        \* the pushes answered from the macro task queue, in order
  macro,      \* MacroTaskQueue::queue_
  active,     \* active_, and the idle handle is started
  tick,       \* the turn of the queue in progress
  aborted     \* a CHECK failed

zlibVars == <<wrapper, task, outcome, log, macro, active, tick, aborted>>

\* The constructors of ZlibWrapper, ZipWrapper and UnzipWrapper.
NewWrapper(w) ==
  [type |-> IF w \in Unzips THEN "UNZIP" ELSE "ZIP", sniffed |-> 0, head |-> NoTask,
   queue |-> <<>>, inited |-> FALSE, open |-> FALSE, running |-> FALSE,
   finished |-> FALSE, errored |-> FALSE, ended |-> FALSE,
   held |-> TRUE, collected |-> FALSE]

NoTurn == [stage |-> "none", processed |-> 0, cur |-> NoTask]

ZlibInit ==
  /\ wrapper = [w \in Wrappers |-> NewWrapper(w)]
  /\ task = <<>>
  /\ outcome = <<>>
  /\ log = <<>>
  /\ macro = <<>>
  /\ active = FALSE
  /\ tick = NoTurn
  /\ aborted = FALSE

\* JavaScript runs between the turns of the queue, and in a callback.
JsRuns == ~aborted /\ tick.stage \in {"none", "callback"}

Owner(k) == task[k].w
InFlight(w) == {k \in Range(macro) \cup ({tick.cur} \ {NoTask}) : Owner(k) = w}

\* MacroTaskQueue::Enqueue: the idle handle starts with the first task.
Enqueue(k) == macro' = Append(macro, k) /\ active' = TRUE

-----------------------------------------------------------------------------
(* Pushes *)

\* The task of a push is built whatever becomes of it.
NewPush(w, f, o) ==
  /\ JsRuns
  /\ wrapper[w].held
  /\ Len(task) < MaxPush
  /\ task' = Append(task, [w |-> w, flush |-> f, chunks |-> 0])
  /\ outcome' = Append(outcome, o)

\* Nothing to do: ReturnEmptyResultSyncOrAsync calls back at once.
PushEmpty(w, f) ==
  /\ NewPush(w, f, "ok")
  /\ UNCHANGED <<wrapper, log, macro, active, tick, aborted>>

\* UnzipWrapper::Push looks at the first two bytes of an UNZIP stream.  A
\* single 0x1f is kept as _head_task until the second byte arrives, and
\* answered at once.
PushHead(w, f) ==
  /\ wrapper[w].type = "UNZIP" /\ wrapper[w].sniffed = 0
  /\ NewPush(w, f, "ok")
  /\ wrapper' = [wrapper EXCEPT ![w].sniffed = 1, ![w].head = Len(task) + 1]
  /\ UNCHANGED <<log, macro, active, tick, aborted>>

\* ... and the type is settled by the byte after it.
Sniff(w, d) ==
  IF wrapper[w].type # "UNZIP" THEN wrapper[w]
  ELSE [wrapper[w] EXCEPT
          !.type = IF d = "magic" THEN "GUNZIP" ELSE "INFLATE",
          !.sniffed = IF d = "magic" \/ @ = 1 THEN 2 ELSE @]

\* ZipWrapper::Init and UnzipWrapper::Init set _inited even when zlib refuses
\* (it has no memory): the push throws.
ZipInit(u, ok) == [u EXCEPT !.inited = TRUE, !.open = ok]
UnzipInit(u, ok) == [u EXCEPT !.inited = TRUE, !.open = ok]

PushThrows(w, f, u) ==
  /\ NewPush(w, f, "thrown")
  /\ wrapper' = [wrapper EXCEPT ![w] = u]
  /\ UNCHANGED <<log, macro, active, tick, aborted>>

\* The head task and the new one are queued, and the oldest task is handed
\* over unless one is being worked on.
QueueTask(w, f, u) ==
  LET q == u.queue \o (IF u.head = NoTask THEN <<>> ELSE <<u.head>>)
                   \o <<Len(task) + 1>>
  IN /\ NewPush(w, f, "queued")
     /\ IF u.running THEN /\ wrapper' = [wrapper EXCEPT ![w] =
                                [u EXCEPT !.head = NoTask, !.queue = q]]
                          /\ UNCHANGED <<macro, active>>
        ELSE /\ wrapper' = [wrapper EXCEPT ![w] =
                   [u EXCEPT !.head = NoTask, !.queue = Tail(q), !.running = TRUE]]
             /\ Enqueue(Head(q))
     /\ UNCHANGED <<log, tick, aborted>>

ZipPush(w, d, f) ==
  LET u == wrapper[w] IN
  IF d = "empty" /\ f # "FINISH" THEN PushEmpty(w, f)
  ELSE \/ QueueTask(w, f, IF u.inited THEN u ELSE ZipInit(u, TRUE))
       \/ ~u.inited /\ PushThrows(w, f, ZipInit(u, FALSE))

UnzipPush(w, d, f) ==
  LET u == Sniff(w, d) IN
  IF d = "empty" THEN PushEmpty(w, f)
  ELSE IF d = "id1" /\ wrapper[w].type = "UNZIP" /\ wrapper[w].sniffed = 0
    THEN PushHead(w, f)
  ELSE \/ QueueTask(w, f, IF u.inited THEN u ELSE UnzipInit(u, TRUE))
       \/ ~u.inited /\ PushThrows(w, f, UnzipInit(u, FALSE))

\* ZlibWrapper::Push, as lib/zlib.js calls it.
Push(w, d, f) == IF w \in Zips THEN ZipPush(w, d, f) ELSE UnzipPush(w, d, f)

-----------------------------------------------------------------------------
(* Turns of the macro task queue *)

\* The idle callback starts TickMacroTaskQueue.
TickBegin ==
  /\ ~aborted /\ tick.stage = "none" /\ active
  /\ tick' = [NoTurn EXCEPT !.stage = "loop"]
  /\ UNCHANGED <<wrapper, task, outcome, log, macro, active, aborted>>

\* zlib's inflate() and deflate(), by what OnWorkTick tells apart: the stream
\* ended, all output fitted, the chunk is full, the chunk is full but the
\* status is not Z_OK (inflate with Z_FINISH), an error.
More(k) == IF task[k].chunks < MaxChunk THEN {"more"} ELSE {}
Inflate(k) ==
  IF ~wrapper[Owner(k)].open THEN {"fail"}
  ELSE {"end", "fit", "fail"} \cup
       (IF task[k].flush = "FINISH" THEN {"full"} ELSE More(k))
Deflate(k) ==
  IF ~wrapper[Owner(k)].open THEN {"fail"}
  ELSE {IF task[k].flush = "FINISH" THEN "end" ELSE "fit", "fail"} \cup More(k)

Over(w) == wrapper[w].finished \/ wrapper[w].errored

\* UnzipTask::OnWorkTick and ZipTask::OnWorkTick: what one round comes to.
UnzipOnWorkTick(k) == IF Over(Owner(k)) THEN {"fail"} ELSE Inflate(k)
ZipOnWorkTick(k) == IF Over(Owner(k)) THEN {"fail"} ELSE Deflate(k)
OnWorkTick(k) == IF Owner(k) \in Zips THEN ZipOnWorkTick(k) ELSE UnzipOnWorkTick(k)

\* DoZlibEnd CHECKs that zlib had a stream to end.
DoZlibEnd(w) == aborted' = ~wrapper[w].open

\* ZlibTask::Done after the last chunk of a stream: ZlibWrapper::End.
End(w) ==
  /\ wrapper' = [wrapper EXCEPT ![w] =
       [@ EXCEPT !.running = FALSE, !.ended = TRUE, !.open = FALSE, !.finished = TRUE]]
  /\ DoZlibEnd(w)

\* ZlibTask::OnDone of a failed task: OccurError, unless the stream has ended.
OccurError(w) ==
  IF wrapper[w].ended THEN UNCHANGED <<wrapper, aborted>>
  ELSE /\ wrapper' = [wrapper EXCEPT ![w] =
            [@ EXCEPT !.running = FALSE, !.ended = TRUE, !.open = FALSE, !.errored = TRUE]]
       /\ DoZlibEnd(w)

\* ZlibWrapper::DoTaskCallback: the answer goes to the callback of the task; a
\* head task has none left.
DoTaskCallback(k, how) ==
  IF outcome[k] # "queued" THEN UNCHANGED <<outcome, log>>
  ELSE outcome' = [outcome EXCEPT ![k] = how] /\ log' = Append(log, k)

\* One round of the loop: work on the oldest task; requeue it if its chunk is
\* full, else call back (DoTaskCallback).
TickWork ==
  /\ ~aborted /\ tick.stage = "loop" /\ tick.processed < MaxTick /\ macro # <<>>
  /\ LET k == Head(macro) IN \E o \in OnWorkTick(k) :
       \/ /\ o = "full"
          /\ aborted' = TRUE
          /\ UNCHANGED <<wrapper, task, outcome, log, macro, active, tick>>
       \/ /\ o = "more"
          /\ macro' = Append(Tail(macro), k)
          /\ task' = [task EXCEPT ![k].chunks = @ + 1]
          /\ tick' = [tick EXCEPT !.processed = @ + 1]
          /\ UNCHANGED <<wrapper, outcome, log, active, aborted>>
       \/ /\ o \in {"end", "fit", "fail"}
          /\ CASE o = "fit" -> UNCHANGED <<wrapper, aborted>>
               [] o = "end" -> End(Owner(k))
               [] o = "fail" -> OccurError(Owner(k))
          /\ macro' = Tail(macro)
          /\ tick' = [tick EXCEPT !.stage = "callback", !.cur = k]
          /\ DoTaskCallback(k, IF o = "fail" THEN "error" ELSE "ok")
          /\ UNCHANGED <<task, active>>

\* Mutant: a wrapper counts as idle once its task is answered.
TryTriggerIdle(w) ==
  IF wrapper[w].queue = <<>>
    THEN /\ wrapper' = [wrapper EXCEPT ![w].running = FALSE]
         /\ UNCHANGED <<macro, active>>
    ELSE /\ wrapper' = [wrapper EXCEPT ![w].queue = Tail(@), ![w].running = FALSE]
         /\ Enqueue(Head(wrapper[w].queue))

\* ZlibWrapper::TryTriggerNextTask.
TryTriggerNextTask(w) ==
  IF wrapper[w].queue = <<>>
    THEN /\ wrapper' = [wrapper EXCEPT ![w].running = FALSE]
         /\ UNCHANGED <<macro, active>>
    ELSE /\ wrapper' = [wrapper EXCEPT ![w].queue = Tail(@)]
         /\ Enqueue(Head(wrapper[w].queue))

\* The callback has returned: the rest of OnDone.
TickDone ==
  /\ ~aborted /\ tick.stage = "callback"
  /\ TryTriggerNextTask(Owner(tick.cur))
  /\ tick' = [stage |-> "loop", processed |-> tick.processed + 1, cur |-> NoTask]
  /\ UNCHANGED <<task, outcome, log, aborted>>

\* The end of TickMacroTaskQueue: the idle handle stops with the last task.
TickEnd ==
  /\ ~aborted /\ tick.stage = "loop"
  /\ tick.processed = MaxTick \/ macro = <<>>
  /\ active' = (macro # <<>>)
  /\ tick' = NoTurn
  /\ UNCHANGED <<wrapper, task, outcome, log, macro, aborted>>

-----------------------------------------------------------------------------
(* Lifetimes *)

\* JavaScript forgets a wrapper.
Drop(w) ==
  /\ JsRuns /\ wrapper[w].held
  /\ wrapper' = [wrapper EXCEPT ![w].held = FALSE]
  /\ UNCHANGED <<task, outcome, log, macro, active, tick, aborted>>

\* Every task holds its wrapper's object strongly (_life_object), the head
\* task included, which the wrapper itself owns.
Reachable(w) == wrapper[w].held \/ InFlight(w) # {} \/ wrapper[w].queue # <<>>
                \/ wrapper[w].head # NoTask

\* The collector runs ~ZipWrapper or ~UnzipWrapper.
Collect(w) ==
  /\ ~aborted /\ ~Reachable(w) /\ ~wrapper[w].collected
  /\ wrapper' = [wrapper EXCEPT ![w].collected = TRUE, ![w].open = FALSE, ![w].ended = TRUE]
  /\ aborted' = (wrapper[w].inited /\ ~wrapper[w].ended /\ ~wrapper[w].open)
  /\ UNCHANGED <<task, outcome, log, macro, active, tick>>

Loop == TickBegin \/ TickWork \/ TickDone \/ TickEnd

ZlibNext == \/ \E w \in Wrappers, f \in Flush : \E d \in DataOf(w) : Push(w, d, f)
            \/ \E w \in Wrappers : Drop(w) \/ Collect(w)
            \/ Loop

\* Idle callbacks run on every iteration of the event loop.
ZlibFairness == WF_zlibVars(Loop)

ZlibSpec == ZlibInit /\ [][ZlibNext]_zlibVars /\ ZlibFairness

-----------------------------------------------------------------------------
(* Properties *)

ZlibTypeOK ==
  /\ \A w \in Wrappers : /\ wrapper[w].queue \in Seq(Pushes)
                         /\ wrapper[w].head \in Pushes \cup {NoTask}
  /\ outcome \in Seq({"queued", "ok", "error", "thrown"})
  /\ macro \in Seq(Pushes)

\* The shared z_stream has one user: while a stream has not ended, at most one
\* of its tasks is with the macro task queue, exactly one if any is waiting;
\* and inflate never starts before the kind of stream is known
\* (UnzipWrapper::Push, ZlibWrapper::TryTriggerNextTask).
StreamExclusive ==
  \A w \in Wrappers :
    ~wrapper[w].ended /\ ~aborted =>
      /\ \A j, k \in InFlight(w) : j = k
      /\ wrapper[w].queue # <<>> => InFlight(w) # {}
      /\ wrapper[w].inited => wrapper[w].type # "UNZIP"

\* The queued pushes of a wrapper are answered in the order they were made,
\* each once, even after an error inside a callback restarted the wrapper
\* (ZlibTask::OnDone, ZlibWrapper::DoTaskCallback).
AnsweredInOrder ==
  \A i, j \in 1..Len(log) : i < j /\ Owner(log[i]) = Owner(log[j]) => log[i] < log[j]

\* A CHECK fails only where zlib could not be initialised, or inflate was
\* asked to finish and filled its chunk: no stream is ended twice
\* (DoZlibEnd, UnzipTask::OnWorkTick).
EndedOnce ==
  aborted => \/ \E k \in DOMAIN outcome : outcome[k] = "thrown"
             \/ \E k \in DOMAIN task : Owner(k) \in Unzips /\ task[k].flush = "FINISH"

\* The shared z_stream has one user, pushes are answered in the order they
\* were made, each once, also when an error in a callback restarts the
\* wrapper, and no stream is ended twice (UnzipWrapper::Push,
\* ZlibWrapper::TryTriggerNextTask, ZlibTask::OnDone, DoZlibEnd).
StreamsKept == StreamExclusive /\ AnsweredInOrder /\ EndedOnce

\* No push is waiting for its answer.
AllAnswered == aborted \/ \A k \in DOMAIN outcome : outcome[k] # "queued"

\* Every queued push is answered in the end, whatever other streams do, since
\* the idle handle stays started while a task waits
\* (MacroTaskQueue::TickMacroTaskQueue).
PushesAnswered == []<>AllAnswered
=============================================================================
