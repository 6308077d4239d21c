------------------------------ MODULE JsTimers ------------------------------
(***************************************************************************)
(* Timeouts, intervals and immediates of scripts: the objects of the timer *)
(* library, their handle wraps and the handles in the main thread's event  *)
(* loop, through callbacks, clearing, garbage collection and the loop runs *)
(* that a debugger's pause nests in a callback.                            *)
(***************************************************************************)
EXTENDS Naturals, Sequences, Functions

CONSTANTS Timeouts, Immediates,  \* the objects scripts create
          Spans,                 \* what scripts ask for, in milliseconds
          TIMEOUT_MAX,           \* 2 ** 31 - 1
          MaxTime, MaxFired,     \* bounds on the clock and on an interval's callbacks
          MaxNested              \* bound on the event loop's runs within each other

Objects == Timeouts \cup Immediates

ASSUME TimersConstants == Timeouts \cap Immediates = {} /\ {"none", "script"} \cap Objects = {}

VARIABLES
  now,      \* the loop's time
  js,       \* of each object: "unused", "set" (in its map), "destroyed"
  repeats,  \* the timeouts with _loop
  delay,    \* _delay of each timeout
  due,      \* when each timer's handle expires
  timers,   \* the active timer handles
  checks,   \* the loop's queue of check handles
  weak,     \* wraps after MakeWeak
  state,    \* HandleWrap::_state, and "kClosed" when the wrap is deleted
  closing,  \* the loop's list of closing handles, last closed first
  loops,    \* the runs of the event loop, the innermost first: the phase,
            \* the check handles left in it and whose callback runs
  fired     \* how often each object's callback began

timersVars == <<now, js, repeats, delay, due, timers, checks, weak, state, closing, loops, fired>>

TimersInit ==
  /\ now = 0 /\ js = [o \in Objects |-> "unused"]
  /\ repeats = {} /\ delay = [t \in Timeouts |-> 1] /\ due = [t \in Timeouts |-> 0]
  /\ timers = {} /\ checks = <<>> /\ weak = {}
  /\ state = [o \in Objects |-> "kInitialized"] /\ closing = <<>>
  /\ loops = <<[phase |-> "timers", queue |-> <<>>, running |-> "script"]>>
  /\ fired = [o \in Objects |-> 0]

Inner == loops[1]
OnStack(o) == \E l \in DOMAIN loops : loops[l].running = o
Runs == Inner.running # "none"

\* formatDelay.
FormatDelay(d) == IF d >= 1 /\ d <= TIMEOUT_MAX THEN d ELSE 1

\* setTimeout and setInterval: SPIN, and the TimerWrap it starts.
Spin(t, d, loop) ==
  /\ Runs /\ js[t] = "unused"
  /\ js' = [js EXCEPT ![t] = "set"]
  /\ repeats' = IF loop THEN repeats \cup {t} ELSE repeats
  /\ delay' = [delay EXCEPT ![t] = FormatDelay(d)]
  /\ due' = [due EXCEPT ![t] = now + FormatDelay(d)]
  /\ timers' = timers \cup {t}
  /\ UNCHANGED <<now, checks, weak, state, closing, loops, fired>>

\* setImmediate: RUN; a check handle that starts goes to the head of the
\* loop's queue.
RunImmediate(i) ==
  /\ Runs /\ js[i] = "unused"
  /\ js' = [js EXCEPT ![i] = "set"]
  /\ checks' = <<i>> \o checks
  /\ UNCHANGED <<now, repeats, delay, due, timers, weak, state, closing, loops, fired>>

\* A queue without the handle, which is in it once if at all.
Unlinked(q, i) ==
  IF i \in Range(q)
    THEN LET at == CHOOSE k \in DOMAIN q : q[k] = i
         IN  SubSeq(q, 1, at - 1) \o SubSeq(q, at + 1, Len(q))
    ELSE q

\* uv_check_stop: from the loop's queue and from those of its runs.
Unqueued(runs, i) == [l \in DOMAIN runs |-> [runs[l] EXCEPT !.queue = Unlinked(@, i)]]

\* Mutant: the handle is not stopped.
DestroyActive(o, runs) ==
  /\ js' = [js EXCEPT ![o] = "destroyed"]
  /\ weak' = weak \cup {o}
  /\ loops' = runs
  /\ UNCHANGED <<timers, checks>>

\* DESTROY of an object that is set, and remove() of its wrap: the handle
\* stops and the wrap may be collected.
Destroy(o, runs) ==
  /\ js' = [js EXCEPT ![o] = "destroyed"]
  /\ weak' = weak \cup {o}
  /\ timers' = timers \ {o}
  /\ checks' = Unlinked(checks, o)
  /\ loops' = Unqueued(runs, o)

\* clearTimeout, clearInterval and clearImmediate of an object that is set;
\* for any other they do nothing.
Clear(o) ==
  /\ Runs /\ js[o] = "set"
  /\ Destroy(o, loops)
  /\ UNCHANGED <<now, repeats, delay, due, state, closing, fired>>

Returned == [loops EXCEPT ![1].running = "none"]

\* The callback returns or throws: the finally of ontimeout and onimmediate,
\* and TriggerImmediate's stop.
CallbackReturns ==
  /\ Runs
  /\ IF Inner.running \in Objects \ repeats /\ js[Inner.running] = "set"
       THEN Destroy(Inner.running, Returned)
       ELSE /\ loops' = Returned
            /\ UNCHANGED <<js, weak, timers, checks>>
  /\ UNCHANGED <<now, repeats, delay, due, state, closing, fired>>

Calls(o) ==
  /\ fired[o] < MaxFired /\ fired' = [fired EXCEPT ![o] = @ + 1]

\* The loop runs the next timer that is due: TriggerTimer.  The handle of an
\* interval is started again first.
RunTimers(t) ==
  /\ ~Runs /\ Inner.phase = "timers" /\ t \in timers /\ due[t] <= now
  /\ \A u \in timers : due[t] <= due[u]
  /\ IF t \in repeats THEN due' = [due EXCEPT ![t] = now + delay[t]] /\ UNCHANGED timers
                      ELSE timers' = timers \ {t} /\ UNCHANGED due
  /\ loops' = [loops EXCEPT ![1].running = t]
  /\ Calls(t)
  /\ UNCHANGED <<now, js, repeats, delay, checks, weak, state, closing>>

\* The loop polls: time passes, and the check handles are due.
Poll ==
  /\ ~Runs /\ Inner.phase = "timers" /\ \A t \in timers : due[t] > now
  /\ \E n \in now .. MaxTime : now' = n
  /\ loops' = [loops EXCEPT ![1].phase = "check", ![1].queue = checks]
  /\ checks' = <<>>
  /\ UNCHANGED <<js, repeats, delay, due, timers, weak, state, closing, fired>>

\* The loop runs the next check handle: TriggerImmediate, to its callback.
\* The handle stays active until the callback has returned.
RunCheck ==
  /\ ~Runs /\ Inner.phase = "check" /\ Inner.queue # <<>>
  /\ LET i == Head(Inner.queue)
     IN  /\ loops' = [loops EXCEPT ![1].queue = Tail(@), ![1].running = i]
         /\ checks' = Append(checks, i)
         /\ Calls(i)
  /\ UNCHANGED <<now, js, repeats, delay, due, timers, weak, state, closing>>

\* The loop closes the next handle; with the wrap's own, OnClose deletes it.
RunClosing ==
  /\ ~Runs /\ Inner.phase = "check" /\ Inner.queue = <<>> /\ closing # <<>>
  /\ LET h == Head(closing)
     IN  state' = IF h.own THEN [state EXCEPT ![h.of] = "kClosed"] ELSE state
  /\ closing' = Tail(closing)
  /\ UNCHANGED <<now, js, repeats, delay, due, timers, checks, weak, loops, fired>>

\* The run of the loop ends: the outermost and a paused debugger's begin
\* another, or the debugger resumes and the callback goes on.
RunEnds ==
  /\ ~Runs /\ Inner.phase = "check" /\ Inner.queue = <<>> /\ closing = <<>>
  /\ \/ loops' = [loops EXCEPT ![1].phase = "timers"]
     \/ Len(loops) > 1 /\ loops' = Tail(loops)
  /\ UNCHANGED <<now, js, repeats, delay, due, timers, checks, weak, state, closing, fired>>

\* A debugger pauses the script or the callback that runs: runMessageLoop.
Pause ==
  /\ Runs /\ Len(loops) < MaxNested
  /\ loops' = <<[phase |-> "timers", queue |-> <<>>, running |-> "none"]>> \o loops
  /\ UNCHANGED <<now, js, repeats, delay, due, timers, checks, weak, state, closing, fired>>

Own(o) == <<[of |-> o, own |-> TRUE]>>
IdleHandle(o) == IF o \in Immediates THEN <<[of |-> o, own |-> FALSE]>> ELSE <<>>

\* Mutant: ImmediateWrap::Close closes its second handle first.
CloseIdleFirst(o) == Own(o) \o IdleHandle(o)

\* Close: the wrap's own handle, then an immediate's idle handle; the loop
\* closes the last first.
Close(o) == IdleHandle(o) \o Own(o)

\* A weak wrap that no callback on the stack holds is collected: OnGCCollect.
Collect(o) ==
  /\ o \in weak /\ ~OnStack(o) /\ state[o] = "kInitialized"
  /\ state' = [state EXCEPT ![o] = "kClosing"]
  /\ closing' = Close(o) \o closing
  /\ UNCHANGED <<now, js, repeats, delay, due, timers, checks, weak, loops, fired>>

TimersNext ==
  \/ \E t \in Timeouts, d \in Spans, loop \in BOOLEAN : Spin(t, d, loop)
  \/ \E i \in Immediates : RunImmediate(i)
  \/ \E o \in Objects : Clear(o) \/ Collect(o)
  \/ \E t \in Timeouts : RunTimers(t)
  \/ CallbackReturns \/ Poll \/ RunCheck \/ RunClosing \/ RunEnds \/ Pause

TimersSpec == TimersInit /\ [][TimersNext]_timersVars
-----------------------------------------------------------------------------
Queued(i) == i \in Range(checks) \/ \E l \in DOMAIN loops : i \in Range(loops[l].queue)

\* What a script has set is alive in the event loop, its wrap is not closed
\* under it, and what was cleared or has run is not in the loop: the maps of
\* the timer library and the handles agree.
SetIsActive ==
  \A o \in Objects :
    /\ js[o] = "set" => /\ state[o] = "kInitialized"
                        /\ o \in timers \/ Queued(o) \/ OnStack(o)
    /\ js[o] = "destroyed" => o \notin timers /\ ~Queued(o)

\* No callback begins for an object that was cleared, within the pass of the
\* loop that found it due included: its callback is null by then.
ClearedStaysQuiet ==
  [][\A o \in Objects : fired'[o] > fired[o] => js[o] = "set"]_timersVars

\* A wrap is deleted after its callback has returned and after the loop has
\* closed each of its handles: an immediate's idle handle is part of the wrap
\* that the check handle's OnClose deletes.
WrapOutlivesHandles ==
  /\ \A o \in Objects : OnStack(o) => state[o] # "kClosed"
  /\ \A h \in DOMAIN closing : state[closing[h].of] # "kClosed"

\* A timer or immediate that JavaScript has set is active, and the wrapper of an
\* open handle is not collected (Timeout, Immediate, TimerWrap, HandleWrap).
TimersKept == SetIsActive /\ WrapOutlivesHandles
=============================================================================
