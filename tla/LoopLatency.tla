----------------------------- MODULE LoopLatency -----------------------------
(***************************************************************************)
(* The latency watchdog, an entry of the watchdog thread: the main thread  *)
(* marks the beginning and the end of its callbacks, the watchdog thread   *)
(* restarts a timer for each beginning and, when it fires with a callback  *)
(* running, asks for the interrupt that aborts the process (or prints the  *)
(* stack).  Time is in ticks; the thread reacts within MaxLag ticks while  *)
(* its event loop runs.                                                    *)
(***************************************************************************)
EXTENDS Watchdog

CONSTANTS Latency,  \* the entry, loop_latency_watchdog_
          Limit,    \* fatal_latency_limit_ms_
          MaxLag    \* bound: how late the watchdog thread may run

ASSUME LatencyAssumption == Latency \in Entries \ Lingering /\ Limit \in Nat \ {0} /\ MaxLag \in Nat

Off == Limit + 1  \* the timer is not armed

VARIABLES
  running,    \* what the main thread runs: "none", "callback", "event"
  elapsed,    \* for how long, up to MaxElapsed
  idle,       \* idle_, uninitialised at first
  async,      \* async_ is signalled
  timer,      \* ticks to the timer, or Off
  lag,        \* ticks since the thread has something to do
  firing,     \* the timer's callback has begun
  interrupt   \* the abort is asked for

callbackVars == <<running, elapsed, idle>>
timerVars == <<async, timer, lag, firing, interrupt>>
latencyVars == <<watchdogVars, callbackVars, timerVars>>
MaxElapsed == Limit + 2 * MaxLag + 2  \* bound: longer is no different

LatencyInit ==
  /\ WatchdogInit
  /\ running = "none" /\ elapsed = 0 /\ idle \in BOOLEAN /\ async = FALSE /\ timer = Off
  /\ lag = 0 /\ firing = FALSE /\ interrupt = FALSE

-----------------------------------------------------------------------------
(* The main thread *)

\* StartLoopLatencyWatchdogIfNeeded has returned and StopAgent not begun.
Watched == main = "runs" /\ started /\ Latency \in registered

\* Mutant: the thread is woken only by a callback that finds it idle.
PrologueWhenIdle ==
  /\ Watched /\ running = "none"
  /\ running' = "callback" /\ elapsed' = 0
  /\ idle' = FALSE /\ async' = (async \/ idle)
  /\ UNCHANGED <<watchdogVars, timer, lag, firing, interrupt>>

CallbackPrologue ==
  /\ Watched /\ running = "none"
  /\ running' = "callback" /\ elapsed' = 0
  /\ idle' = FALSE /\ async' = TRUE
  /\ UNCHANGED <<watchdogVars, timer, lag, firing, interrupt>>

CallbackEpilogue ==
  /\ main = "runs" /\ running = "callback"
  /\ running' = "none"
  /\ idle' = TRUE
  /\ UNCHANGED <<watchdogVars, elapsed, timerVars>>

\* NoslatedDataChannel::Emit calls the handler without the watchdog.
EmitBegins ==
  /\ main = "runs" /\ running = "none"
  /\ running' = "event" /\ elapsed' = 0
  /\ UNCHANGED <<watchdogVars, idle, timerVars>>

EmitEnds ==
  /\ main = "runs" /\ running = "event"
  /\ running' = "none"
  /\ UNCHANGED <<watchdogVars, elapsed, idle, timerVars>>

\* Entries are registered, and StopAgent is called, outside events and
\* callbacks or inside them.
MainRegisters ==
  /\ \/ \E e \in Entries : RegisterEntry(e)
     \/ StartIfNeeded \/ Wakes \/ Destroy \/ Joined
  /\ UNCHANGED <<callbackVars, timerVars>>

-----------------------------------------------------------------------------
(* The watchdog thread *)

\* Its event loop serves the handles that ThreadEntry opened.
Served == thread = "loop" /\ Latency \in handles

AsyncCallback ==
  /\ Served /\ async /\ ~firing
  /\ async' = FALSE /\ timer' = Limit /\ lag' = 0
  /\ UNCHANGED <<watchdogVars, callbackVars, firing, interrupt>>

\* The poll of the event loop times out with the timer due (it serves the
\* async first if that is signalled) ...
TimerDue ==
  /\ Served /\ timer = 0 /\ ~async /\ ~firing
  /\ timer' = Off /\ firing' = TRUE
  /\ UNCHANGED <<watchdogVars, callbackVars, async, lag, interrupt>>

\* Mutant: the callback does not look at idle_.
TimerCallbackAlways ==
  /\ firing
  /\ firing' = FALSE
  /\ interrupt' = TRUE
  /\ UNCHANGED <<watchdogVars, callbackVars, async, timer, lag>>

\* ... and its callback takes the mutex.
FatalTimerCallback ==
  /\ firing
  /\ firing' = FALSE
  /\ interrupt' = (interrupt \/ ~idle)
  /\ UNCHANGED <<watchdogVars, callbackVars, async, timer, lag>>

\* The watchdog's own steps, between two callbacks of the loop; ThreadAtExit
\* closes the async and the timer.
ThreadServes ==
  /\ ~firing
  /\ \/ (ThreadMain \/ StartRequest \/ ThreadEnds) /\ UNCHANGED timerVars
     \/ (\E e \in Entries : LastHandle(e)) /\ UNCHANGED timerVars
     \/ /\ StopRequest
        /\ async' = FALSE /\ timer' = Off /\ lag' = 0
        /\ UNCHANGED <<firing, interrupt>>
  /\ UNCHANGED callbackVars

\* A tick passes; a thread whose loop runs is not late by more than MaxLag.
Tick ==
  LET busy == Served /\ (async \/ timer = 0 \/ firing)
  IN  /\ lag < MaxLag \/ ~busy
      /\ elapsed' = IF running # "none" /\ elapsed < MaxElapsed THEN elapsed + 1 ELSE elapsed
      /\ timer' = IF timer \in 1..Limit THEN timer - 1 ELSE timer
      /\ lag' = IF busy THEN lag + 1 ELSE 0
      /\ UNCHANGED <<watchdogVars, running, idle, async, firing, interrupt>>

LatencyNext == \/ CallbackPrologue \/ CallbackEpilogue \/ EmitBegins \/ EmitEnds \/ MainRegisters
               \/ AsyncCallback \/ TimerDue \/ FatalTimerCallback \/ ThreadServes \/ Tick

\* The thread and the waits of the main thread go on.
LatencyFairSpec ==
  /\ LatencyInit /\ [][LatencyNext]_latencyVars
  /\ WF_latencyVars(ThreadServes) /\ WF_latencyVars(FatalTimerCallback)
  /\ WF_latencyVars((Wakes \/ Joined) /\ UNCHANGED <<callbackVars, timerVars>>)

-----------------------------------------------------------------------------
(* Properties *)

\* A callback that has run for the limit, and for as long as the watchdog
\* thread may take to arm and to serve its timer, is aborted, also while
\* other entries are registered; StopAgent ends the supervision.
BusyAborted ==
  running = "callback" /\ elapsed > Limit + 2 * MaxLag /\ main \notin {"joining", "gone"}
    => interrupt

\* A worker that is idle when the timer's callback looks is left alone: the
\* abort is asked for only while some callback runs, even if idle_ starts
\* with any value.
IdleSpared == [][interrupt' /\ ~interrupt => running = "callback"]_latencyVars
=============================================================================
