--------------------------- MODULE InspectorQueue ---------------------------
(***************************************************************************)
(* How the front end's requests reach the main thread: the diagnostics     *)
(* thread posts them to MainThreadInterface, whose first request asks the  *)
(* main thread for an interrupt; the interrupt (Immortal's interrupt       *)
(* queue, served by the event loop or by V8 between two statements) calls  *)
(* DispatchMessages.  A request may run JavaScript that hits a breakpoint: *)
(* runMessageLoop then waits for requests and runs the event loop from     *)
(* within the request.                                                     *)
(***************************************************************************)
EXTENDS Naturals, Sequences, Functions

CONSTANTS MaxRequests,  \* requests posted, numbered in order
          Others,       \* other interrupts (tracing, reports, latency)
          Breakpoints   \* JavaScript may pause

VARIABLES
  requested,    \* number of requests posted
  resumes,      \* the requests that end a pause: resume, or the last disconnect
  requests,     \* requests_
  lock,         \* requests_lock_ is held by a Post that has still to notify
  dispatching,  \* dispatching_messages_
  batch,        \* dispatching_message_queue_
  interrupts,   \* interrupt_requests_: "dispatch" or a member of Others
  wake,         \* interrupt_async_ is signalled
  v8flag,       \* V8 has an interrupt to serve
  waiting,      \* waiting_for_resume_
  js,           \* outside all of this, the main thread runs JavaScript
  stack,        \* calls on the main thread, innermost first
  called,       \* requests called, in order
  served,       \* other interrupts served, in order
  pausedOnce    \* some request has paused

queueVars == <<requested, resumes, requests, lock, dispatching, batch, interrupts, wake,
               v8flag, waiting, js, stack, called, served, pausedOnce>>
postVars == <<requested, resumes, lock>>
signalVars == <<wake, v8flag>>
logVars == <<called, served, pausedOnce>>

Exhaust(list) == [at |-> "exhaust", list |-> list]
Dispatch(pc, had) == [at |-> pc, had |-> had]
Call(r) == [at |-> "call", request |-> r]
Pause(pc) == [at |-> pc]

At(pc) == stack # <<>> /\ stack[1].at = pc
PushFrame(f) == stack' = <<f>> \o stack
SetFrame(f) == stack' = [stack EXCEPT ![1] = f]
Pop == stack' = Tail(stack)
Paused == \E f \in Range(stack) : f.at \in {"check", "wait", "poll"}

QueueInit ==
  /\ requested = 0 /\ resumes = {} /\ requests = <<>> /\ lock = FALSE
  /\ dispatching = FALSE /\ batch = <<>>
  /\ interrupts = <<>> /\ wake = FALSE /\ v8flag = FALSE
  /\ waiting = FALSE /\ js = TRUE /\ stack = <<>>
  /\ called = <<>> /\ served = <<>> /\ pausedOnce = FALSE

-----------------------------------------------------------------------------
(* Other threads *)

\* Mutant: an interrupt is asked for only by a request that finds the main
\* thread not dispatching.
PostUnlessDispatching(resume) ==
  /\ ~lock /\ requested < MaxRequests
  /\ requested' = requested + 1
  /\ resumes' = IF resume THEN resumes \cup {requested + 1} ELSE resumes
  /\ requests' = Append(requests, requested + 1)
  /\ lock' = (~dispatching /\ requests = <<>>)
  /\ interrupts' = IF lock' THEN Append(interrupts, "dispatch") ELSE interrupts
  /\ UNCHANGED <<dispatching, batch, signalVars, waiting, js, stack, logVars>>

\* Post: push; the first request asks for an interrupt.
Post(resume) ==
  /\ ~lock /\ requested < MaxRequests
  /\ requested' = requested + 1
  /\ resumes' = IF resume THEN resumes \cup {requested + 1} ELSE resumes
  /\ requests' = Append(requests, requested + 1)
  /\ lock' = (requests = <<>>)
  /\ interrupts' = IF requests = <<>> THEN Append(interrupts, "dispatch") ELSE interrupts
  /\ UNCHANGED <<dispatching, batch, signalVars, waiting, js, stack, logVars>>

\* ... RequestInterrupt signals the event loop and V8; the lock is released.
PostNotifies ==
  /\ lock
  /\ lock' = FALSE /\ wake' = TRUE /\ v8flag' = TRUE
  /\ UNCHANGED <<requested, resumes, requests, dispatching, batch, interrupts, waiting, js,
                 stack, logVars>>

\* RequestInterrupt for something else.
RequestInterrupt(o) ==
  /\ o \notin Range(interrupts) \cup Range(served)
  /\ \A f \in Range(stack) : f.at = "exhaust" => o \notin Range(f.list)
  /\ interrupts' = Append(interrupts, o)
  /\ wake' = TRUE /\ v8flag' = TRUE
  /\ UNCHANGED <<postVars, requests, dispatching, batch, waiting, js, stack, logVars>>

-----------------------------------------------------------------------------
(* The main thread: interrupts *)

RunsJs == IF stack = <<>> THEN js ELSE stack[1].at = "call"
PollsLoop == IF stack = <<>> THEN ~js ELSE stack[1].at = "poll"

\* ExhaustInterruptRequests swaps the list.
Take == PushFrame(Exhaust(interrupts)) /\ interrupts' = <<>>

\* V8 serves its interrupt between two statements.
JavaScriptInterrupt ==
  /\ RunsJs /\ v8flag
  /\ v8flag' = FALSE
  /\ Take
  /\ UNCHANGED <<postVars, requests, dispatching, batch, wake, waiting, js, logVars>>

\* The event loop serves interrupt_async_.
IdleInterrupt ==
  /\ PollsLoop /\ wake
  /\ wake' = FALSE
  /\ Take
  /\ UNCHANGED <<postVars, requests, dispatching, batch, v8flag, waiting, js, logVars>>

\* The next interrupt of the list is DispatchMessages, which returns at once
\* if it is running already.
ExhaustDispatch ==
  /\ At("exhaust") /\ stack[1].list # <<>> /\ Head(stack[1].list) = "dispatch"
  /\ LET rest == Exhaust(Tail(stack[1].list))
     IN stack' = IF dispatching THEN <<rest>> \o Tail(stack)
                 ELSE <<Dispatch("swap", FALSE), rest>> \o Tail(stack)
  /\ dispatching' = TRUE
  /\ UNCHANGED <<postVars, requests, batch, interrupts, signalVars, waiting, js, logVars>>

\* ... or something else.
ExhaustOther ==
  /\ At("exhaust") /\ stack[1].list # <<>> /\ Head(stack[1].list) # "dispatch"
  /\ SetFrame(Exhaust(Tail(stack[1].list)))
  /\ served' = Append(served, Head(stack[1].list))
  /\ UNCHANGED <<postVars, requests, dispatching, batch, interrupts, signalVars, waiting,
                 js, called, pausedOnce>>

\* The list is done: back to the script, or to the event loop, whose
\* UV_RUN_ONCE returns.
ExhaustDone ==
  /\ At("exhaust") /\ stack[1].list = <<>>
  /\ stack' = IF Len(stack) > 1 /\ stack[2].at = "poll"
              THEN <<Pause("check")>> \o SubSeq(stack, 3, Len(stack))
              ELSE Tail(stack)
  /\ UNCHANGED <<postVars, requests, dispatching, batch, interrupts, signalVars, waiting,
                 js, logVars>>

-----------------------------------------------------------------------------
(* The main thread: DispatchMessages *)

Swap ==
  /\ At("swap")
  /\ IF batch = <<>> THEN ~lock /\ batch' = requests /\ requests' = <<>>
                     ELSE UNCHANGED <<batch, requests>>
  /\ SetFrame(Dispatch("drain", batch' # <<>>))
  /\ UNCHANGED <<postVars, dispatching, interrupts, signalVars, waiting, js, logVars>>

DispatchOne ==
  /\ At("drain") /\ batch # <<>>
  /\ PushFrame(Call(Head(batch)))
  /\ batch' = Tail(batch)
  /\ called' = Append(called, Head(batch))
  /\ UNCHANGED <<postVars, requests, dispatching, interrupts, signalVars, waiting, js,
                 served, pausedOnce>>

\* Mutant: a drained batch ends the dispatch.
DispatchOnce ==
  /\ At("drain") /\ batch = <<>>
  /\ dispatching' = FALSE
  /\ Pop
  /\ UNCHANGED <<postVars, requests, batch, interrupts, signalVars, waiting, js, logVars>>

\* The batch is done: look for more, until there was none.
DispatchAgain ==
  /\ At("drain") /\ batch = <<>>
  /\ IF stack[1].had THEN SetFrame(Dispatch("swap", TRUE)) /\ UNCHANGED dispatching
                     ELSE Pop /\ dispatching' = FALSE
  /\ UNCHANGED <<postVars, requests, batch, interrupts, signalVars, waiting, js, logVars>>

\* A request's Call ends; one that resumes has called quitMessageLoopOnPause.
CallReturns ==
  /\ At("call")
  /\ waiting' = (waiting /\ stack[1].request \notin resumes)
  /\ Pop
  /\ UNCHANGED <<postVars, requests, dispatching, batch, interrupts, signalVars, js, logVars>>

-----------------------------------------------------------------------------
(* The main thread: pauses *)

\* The script, or JavaScript a request evaluates, hits a breakpoint: V8 does
\* not pause while it is paused.
RunMessageLoopOnPause ==
  /\ Breakpoints /\ RunsJs /\ ~Paused
  /\ stack # <<>> => stack[1].request \notin resumes
  /\ waiting' = TRUE /\ pausedOnce' = TRUE
  /\ PushFrame(Pause("check"))
  /\ UNCHANGED <<postVars, requests, dispatching, batch, interrupts, signalVars, js,
                 called, served>>

\* runMessageLoop: leave, or WaitForFrontendEvent.
PauseCheck ==
  /\ At("check")
  /\ IF waiting THEN SetFrame(Pause("wait")) /\ dispatching' = FALSE
                ELSE Pop /\ UNCHANGED dispatching
  /\ UNCHANGED <<postVars, requests, batch, interrupts, signalVars, waiting, js, logVars>>

PauseWaited ==
  /\ At("wait")
  /\ batch # <<>> \/ (~lock /\ requests # <<>>)
  /\ SetFrame(Pause("poll"))
  /\ UNCHANGED <<postVars, requests, dispatching, batch, interrupts, signalVars, waiting,
                 js, logVars>>

\* UV_RUN_ONCE returns for an event that is none of this.
OtherEvent ==
  /\ At("poll")
  /\ SetFrame(Pause("check"))
  /\ UNCHANGED <<postVars, requests, dispatching, batch, interrupts, signalVars, waiting,
                 js, logVars>>

\* Outside all of this the main thread runs the script or polls.
ScriptSteps ==
  /\ stack = <<>>
  /\ js' = ~js
  /\ UNCHANGED <<postVars, requests, dispatching, batch, interrupts, signalVars, waiting,
                 stack, logVars>>

Progress == \/ ExhaustDispatch \/ ExhaustOther \/ ExhaustDone
            \/ Swap \/ DispatchOne \/ DispatchAgain \/ CallReturns
            \/ PauseCheck \/ PauseWaited

QueueNext ==
  \/ \E resume \in BOOLEAN : Post(resume)
  \/ PostNotifies
  \/ \E o \in Others : RequestInterrupt(o)
  \/ JavaScriptInterrupt \/ IdleInterrupt
  \/ Progress
  \/ RunMessageLoopOnPause \/ OtherEvent \/ ScriptSteps

QueueSpec == QueueInit /\ [][QueueNext]_queueVars

\* Calls return and the event loop serves what is signalled; the script gives
\* way to the event loop again and again.
QueueFairness ==
  /\ WF_queueVars(PostNotifies)
  /\ WF_queueVars(Progress)
  /\ SF_queueVars(IdleInterrupt)
  /\ WF_queueVars(ScriptSteps)

QueueFairSpec == QueueSpec /\ QueueFairness

-----------------------------------------------------------------------------
(* Properties *)

\* "This queue is to maintain the order of the messages for the cases when we
\* reenter the DispatchMessages function": requests are called in the order
\* they were posted, and none is lost or called twice.
CalledInOrder == called \o batch \o requests = [n \in 1..requested |-> n]

\* A request that has not been called will be looked for: an interrupt is
\* queued, or one that is being served will dispatch, or DispatchMessages is
\* on the stack.
RequestsCovered ==
  batch \o requests # <<>> =>
    \/ "dispatch" \in Range(interrupts)
    \/ \E f \in Range(stack) : \/ f.at \in {"swap", "drain"}
                               \/ f.at = "exhaust" /\ "dispatch" \in Range(f.list)

\* Requests are called in the order they were posted, none lost or twice, and one
\* that has not been called will be looked for (MainThreadInterface::Post,
\* DispatchMessages).
RequestsKept == CalledInOrder /\ RequestsCovered

\* Posted requests are called, unless JavaScript pauses: time and again, all that
\* were posted have been.
ServedUnlessPaused == []<>(1..requested \subseteq Range(called) \/ pausedOnce)

\* "We allow DispatchMessages reentry as we enter the pause.  This is important
\* to support debugging the code invoked by an inspector call": a request
\* posted is called, also while one is paused.
ServedWhilePaused == \A r \in 1..MaxRequests : (requested >= r) ~> (r \in Range(called))
=============================================================================
