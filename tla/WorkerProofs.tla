---------------------------- MODULE WorkerProofs ----------------------------
(***************************************************************************)
(* The watchdog thread, the latency watchdog that is one of its entries,   *)
(* and the life of a worker.                                               *)
(***************************************************************************)
EXTENDS LoopLatency, WorkerLife, SequenceTheorems, TLAPS

-----------------------------------------------------------------------------
(***************************************************************************)
(* The main thread finds its entries begun, for any set of entries.  The   *)
(* inductive invariant relates the two threads: the main thread sleeps     *)
(* with started_ set or the thread in its first steps, a notification      *)
(* means that nothing is pending, and a started watchdog that the main     *)
(* thread is not waiting for has nothing pending.  The latency watchdog,   *)
(* an entry of that thread, is proved on top of it: a callback that runs   *)
(* too long is aborted, for any limit and any lag of the thread.           *)
(***************************************************************************)

WInv ==
  /\ WatchdogTypeOK
  /\ BegunOnce
  /\ notified => main \in {"starting", "registering"} /\ pending = {}
  /\ main = "runs" /\ started => pending = {}
  /\ main = "runs" /\ ~started => thread = "none"
  /\ thread \in {"none", "init"} => pending = registered
  /\ thread = "loop" => handles = registered \ pending
  /\ started /\ main \notin {"joining", "gone"} => thread = "loop"
  /\ stopAsync => main \in {"joining", "gone"}
  /\ main = "starting" => thread \in {"init", "loop"}
  /\ main = "starting" /\ notified => thread = "loop"
  /\ main = "registering" => started

\* Init establishes the invariant: nothing is registered.
LEMMA InitWInv == WatchdogInit => WInv
<1> SUFFICES ASSUME WatchdogInit PROVE WInv
  OBVIOUS
<1>1. begun = [e \in Entries |-> 0] /\ begun \in [Entries -> Nat]
  BY DEF WatchdogInit
<1>2. WatchdogTypeOK
  BY <1>1, Zenon DEF WatchdogInit, WatchdogTypeOK
<1>3. BegunOnce
  BY <1>1 DEF WatchdogInit, BegunOnce
<1> QED
  BY <1>2, <1>3 DEF WatchdogInit, WInv

\* Begin moves every pending entry to the begun ones, exactly once.
LEMMA BeginOnce ==
  ASSUME WInv, Begin, UNCHANGED registered
  PROVE  /\ pending' = {} /\ handles' \subseteq registered
         /\ begun' \in [Entries -> Nat] /\ BegunOnce'
BY DEF WInv, WatchdogTypeOK, BegunOnce, Begin

\* Every step of either thread preserves the invariant.
LEMMA StepWInv == WInv /\ [WatchdogNext]_watchdogVars => WInv'
<1> SUFFICES ASSUME WInv, [WatchdogNext]_watchdogVars PROVE WInv'
  OBVIOUS
<1> USE DEF WInv, WatchdogTypeOK, BegunOnce
<1>1. ASSUME NEW e \in Entries, RegisterEntry(e) PROVE WInv'
  <2>1. CASE started
    BY <1>1, <2>1, Zenon DEF RegisterEntry
  <2>2. CASE ~started
    BY <1>1, <2>2 DEF RegisterEntry
  <2> QED
    BY <2>1, <2>2
<1>2. CASE StartIfNeeded
  BY <1>2, Zenon DEF StartIfNeeded
<1>3. CASE Wakes
  BY <1>3, Zenon DEF Wakes
<1>4. CASE Destroy
  BY <1>4, Zenon DEF Destroy
<1>5. CASE Joined
  BY <1>5, Zenon DEF Joined
<1>6. CASE ThreadMain
  <2>1. /\ pending' = {} /\ handles' \subseteq registered
        /\ begun' \in [Entries -> Nat] /\ BegunOnce'
    BY <1>6, BeginOnce DEF ThreadMain
  <2> QED
    BY <1>6, <2>1 DEF ThreadMain, Begin
<1>7. CASE StartRequest
  <2>1. /\ pending' = {} /\ handles' \subseteq registered
        /\ begun' \in [Entries -> Nat] /\ BegunOnce'
    BY <1>7, BeginOnce DEF StartRequest
  <2>2. notified' \in BOOLEAN /\ (notified' => main \in {"starting", "registering"})
    BY <1>7 DEF StartRequest, Begin
  <2>3. thread' \notin {"none", "init", "done"}
    BY <1>7 DEF StartRequest
  <2>4. handles' = registered' \ pending'
    BY <1>7, <2>1 DEF StartRequest, Begin
  <2> QED
    BY <1>7, <2>1, <2>2, <2>3, <2>4, Zenon DEF StartRequest
<1>8. CASE StopRequest
  BY <1>8, Zenon DEF StopRequest
<1>9. CASE ThreadEnds
  BY <1>9 DEF ThreadEnds
<1>10. ASSUME NEW e \in Entries, LastHandle(e) PROVE WInv'
  BY <1>10 DEF LastHandle
<1>11. CASE UNCHANGED watchdogVars
  BY <1>11 DEF watchdogVars
<1> QED
  BY <1>1, <1>2, <1>3, <1>4, <1>5, <1>6, <1>7, <1>8, <1>9, <1>10, <1>11
  DEF WatchdogNext, ThreadStep

\* The invariant holds in every behaviour of the two threads.
THEOREM WatchdogInvariance == WatchdogSpec => []WInv
BY InitWInv, StepWInv, PTL DEF WatchdogSpec

\* RegisterEntry and StartIfNeeded return to entries that have begun, and no
\* entry's ThreadEntry runs twice.
THEOREM EntriesDoBegin == WatchdogSpec => []EntriesBegun
<1>1. WInv => EntriesReady
  BY DEF WInv, WatchdogTypeOK, BegunOnce, EntriesReady
<1>2. WInv => EntriesBegun
  BY <1>1 DEF WInv, EntriesBegun
<1> QED
  BY <1>2, WatchdogInvariance, PTL

-----------------------------------------------------------------------------
(* The latency watchdog *)

\* A callback under supervision: StopAgent has not begun.
Supervised == running = "callback" /\ main \notin {"joining", "gone"}

\* The members of the latency watchdog, and the clocks of the two threads.
FlagsOK == idle \in BOOLEAN /\ async \in BOOLEAN /\ firing \in BOOLEAN /\ interrupt \in BOOLEAN
ClocksOK == elapsed \in Nat /\ timer \in 0..Off /\ lag \in 0..MaxLag

\* What the thread has to do was asked for by a callback, so idle_ is known; a
\* supervised callback is served by the thread.
Asked ==
  /\ firing => timer = Off
  /\ async \/ timer # Off \/ firing => idle \/ running = "callback"
  /\ Supervised => ~idle /\ started /\ Latency \in handles

\* The time a supervised callback has run for is bounded by how far the thread
\* is: it has not seen the async, its timer runs, the timer is due or firing, or
\* the interrupt is asked for.
Timed ==
  Supervised =>
    \/ async /\ elapsed <= lag
    \/ ~async /\ timer \in 1..Limit /\ elapsed + timer <= Limit + MaxLag /\ lag = 0
    \/ ~async /\ (timer = 0 \/ firing) /\ elapsed <= Limit + MaxLag + lag
    \/ interrupt

TInv == FlagsOK /\ ClocksOK /\ Asked /\ Timed

\* A step of the latency model is a step of the watchdog, or leaves it alone.
LEMMA LatencyStepsWatchdog == [LatencyNext]_latencyVars => [WatchdogNext]_watchdogVars
BY DEF LatencyNext, latencyVars, WatchdogNext, ThreadStep, CallbackPrologue, CallbackEpilogue,
       EmitBegins, EmitEnds, MainRegisters, AsyncCallback, TimerDue, FatalTimerCallback,
       ThreadServes, Tick

\* A tick moves a unit from the timer to the time the callback has run.
LEMMA TickMoves ==
  ASSUME NEW e \in Nat, NEW f \in Nat, NEW t \in Nat, NEW m \in Nat, NEW l \in Nat,
         f <= e + 1, t # 0, t <= l, e + t <= m
  PROVE  t - 1 \in 0..l /\ f + (t - 1) <= m /\ (t - 1 = 0 => f <= m + 0)
OBVIOUS

\* Nothing runs at first, whatever idle_ holds.
LEMMA InitTInv == LatencyInit => WInv /\ TInv
<1> SUFFICES ASSUME LatencyInit PROVE WInv /\ TInv
  OBVIOUS
<1>1. WInv
  BY InitWInv DEF LatencyInit
<1>2. FlagsOK
  BY Zenon DEF LatencyInit, FlagsOK
<1>3. ClocksOK
  BY LatencyAssumption DEF LatencyInit, ClocksOK, Off
<1>4. Asked /\ Timed
  BY DEF LatencyInit, Asked, Timed, Supervised
<1> QED
  BY <1>1, <1>2, <1>3, <1>4 DEF TInv

\* Every step of the two threads, and of time, preserves the invariant.
LEMMA StepTInv == WInv /\ TInv /\ [LatencyNext]_latencyVars => WInv' /\ TInv'
<1> SUFFICES ASSUME WInv, TInv, [LatencyNext]_latencyVars PROVE WInv' /\ TInv'
  OBVIOUS
<1>0. WInv'
  BY StepWInv, LatencyStepsWatchdog
<1>a. FlagsOK /\ ClocksOK /\ Asked /\ Timed
  BY DEF TInv
<1>1. CASE CallbackPrologue
  <2>1. Latency \in handles
    BY <1>1 DEF CallbackPrologue, Watched, WInv
  <2>2. FlagsOK'
    BY <1>a, <1>1, Zenon DEF CallbackPrologue, FlagsOK
  <2>3. ClocksOK'
    BY <1>a, <1>1 DEF CallbackPrologue, ClocksOK, Off
  <2>4. Asked'
    BY <1>a, <1>1, <2>1 DEF CallbackPrologue, Watched, watchdogVars, Asked, Supervised, Off
  <2>5. Timed'
    BY <1>a, <1>1, LatencyAssumption DEF CallbackPrologue, Timed, ClocksOK, Off
  <2> QED
    BY <1>0, <2>2, <2>3, <2>4, <2>5 DEF TInv
<1>2. CASE CallbackEpilogue
  BY <1>0, <1>a, <1>2
  DEF CallbackEpilogue, timerVars, TInv, FlagsOK, ClocksOK, Asked, Timed, Supervised, Off
<1>3. CASE EmitBegins
  <2>1. FlagsOK' /\ ClocksOK' /\ ~Supervised'
    BY <1>a, <1>3 DEF EmitBegins, timerVars, FlagsOK, ClocksOK, Supervised, Off
  <2> QED
    BY <1>0, <1>a, <1>3, <2>1 DEF EmitBegins, timerVars, TInv, Asked, Timed, Off
<1>4. CASE EmitEnds
  <2>1. FlagsOK' /\ ClocksOK' /\ ~Supervised'
    BY <1>a, <1>4 DEF EmitEnds, timerVars, FlagsOK, ClocksOK, Supervised, Off
  <2> QED
    BY <1>0, <1>a, <1>4, <2>1 DEF EmitEnds, timerVars, TInv, Asked, Timed, Off
<1>5. CASE MainRegisters
  <2>1. UNCHANGED <<running, elapsed, idle, async, timer, lag, firing, interrupt>>
    BY <1>5 DEF MainRegisters, callbackVars, timerVars
  <2>2. handles' = handles
    BY <1>5 DEF MainRegisters, RegisterEntry, StartIfNeeded, Wakes, Destroy, Joined
  <2>3. main' \notin {"joining", "gone"} =>
          main \notin {"joining", "gone"} /\ (started => started')
    BY <1>5 DEF MainRegisters, RegisterEntry, StartIfNeeded, Wakes, Destroy, Joined
  <2>4. Supervised' => Supervised /\ (started => started')
    BY <2>1, <2>3 DEF Supervised
  <2> QED
    BY <1>0, <1>a, <2>1, <2>2, <2>4 DEF TInv, FlagsOK, ClocksOK, Asked, Timed, Off
<1>6. CASE AsyncCallback
  <2>1. UNCHANGED <<main, started, handles, running, elapsed, idle>> /\ (Supervised' <=> Supervised)
    BY <1>6 DEF AsyncCallback, watchdogVars, callbackVars, Supervised
  <2>2. FlagsOK'
    BY <1>a, <1>6, <2>1, Zenon DEF AsyncCallback, FlagsOK
  <2>3. ClocksOK'
    BY <1>a, <1>6, <2>1, LatencyAssumption DEF AsyncCallback, ClocksOK, Off
  <2>4. Asked'
    BY <1>a, <1>6, <2>1 DEF AsyncCallback, Asked, Off
  <2>5. Timed'
    BY <1>a, <1>6, <2>1, LatencyAssumption DEF AsyncCallback, Timed, ClocksOK, Off
  <2> QED
    BY <1>0, <2>2, <2>3, <2>4, <2>5 DEF TInv
<1>7. CASE TimerDue
  <2>1. UNCHANGED <<main, started, handles, running, elapsed, idle>> /\ (Supervised' <=> Supervised)
    BY <1>7 DEF TimerDue, watchdogVars, callbackVars, Supervised
  <2>2. FlagsOK'
    BY <1>a, <1>7, <2>1 DEF TimerDue, FlagsOK
  <2>3. ClocksOK'
    BY <1>a, <1>7, <2>1, LatencyAssumption DEF TimerDue, ClocksOK, Off
  <2>4. Asked'
    BY <1>a, <1>7, <2>1, LatencyAssumption DEF TimerDue, Asked, Off
  <2>5. Timed'
    BY <1>a, <1>7, <2>1, LatencyAssumption DEF TimerDue, Timed, ClocksOK, Off
  <2> QED
    BY <1>0, <2>2, <2>3, <2>4, <2>5 DEF TInv
<1>8. CASE FatalTimerCallback
  <2>1. UNCHANGED <<main, started, handles, running, elapsed, idle>> /\ (Supervised' <=> Supervised)
    BY <1>8 DEF FatalTimerCallback, watchdogVars, callbackVars, Supervised
  <2>2. FlagsOK'
    BY <1>a, <1>8, <2>1, Zenon DEF FatalTimerCallback, FlagsOK
  <2>3. ClocksOK'
    BY <1>a, <1>8, <2>1 DEF FatalTimerCallback, ClocksOK, Off
  <2>4. Asked'
    BY <1>a, <1>8, <2>1 DEF FatalTimerCallback, Asked, Off
  <2>5. Timed'
    <3>1. Supervised => interrupt'
      BY <1>a, <1>8, Zenon DEF FatalTimerCallback, Asked, FlagsOK
    <3> QED
      BY <2>1, <3>1 DEF Timed
  <2> QED
    BY <1>0, <2>2, <2>3, <2>4, <2>5 DEF TInv
<1>9. CASE ThreadServes
  <2>1. UNCHANGED <<running, elapsed, idle, firing, interrupt, main, started>>
    BY <1>9 DEF ThreadServes, callbackVars, timerVars, ThreadMain, StartRequest, ThreadEnds,
                LastHandle, StopRequest, Begin
  <2>2. Supervised' <=> Supervised
    BY <2>1 DEF Supervised
  <2>3. \/ UNCHANGED <<async, timer, lag>>
        \/ StopRequest /\ async' = FALSE /\ timer' = Off /\ lag' = 0
    BY <1>9 DEF ThreadServes, timerVars
  <2>4. Supervised => ~StopRequest /\ Latency \in handles'
    <3> SUFFICES ASSUME Supervised PROVE ~StopRequest /\ Latency \in handles'
      OBVIOUS
    <3>1. thread = "loop" /\ ~stopAsync /\ Latency \in handles
      BY <1>a DEF Asked, Supervised, WInv
    <3>2. ~StopRequest
      BY <3>1 DEF StopRequest
    <3> QED
      BY <1>9, <3>1, <3>2
      DEF ThreadServes, ThreadMain, StartRequest, ThreadEnds, LastHandle, Begin
  <2>5. FlagsOK'
    BY <1>a, <2>1, <2>3, Zenon DEF FlagsOK
  <2>6. ClocksOK'
    BY <1>a, <2>1, <2>3, LatencyAssumption DEF ClocksOK, Off
  <2>7. Asked'
    BY <1>a, <1>9, <2>1, <2>2, <2>3, <2>4 DEF ThreadServes, Asked, Off
  <2>8. Timed'
    BY <1>a, <2>1, <2>2, <2>3, <2>4 DEF Timed
  <2> QED
    BY <1>0, <2>5, <2>6, <2>7, <2>8 DEF TInv
<1>10. CASE Tick
  <2>1. Supervised => Served
    BY <1>a DEF WInv, Served, Supervised, Asked
  <2>2. elapsed' \in Nat /\ elapsed' <= elapsed + 1
    BY <1>10, <1>a, LatencyAssumption DEF Tick, MaxElapsed, ClocksOK
  <2>3. /\ UNCHANGED <<main, started, handles, running, idle, async, firing, interrupt>>
        /\ Supervised' <=> Supervised
    BY <1>10 DEF Tick, watchdogVars, Supervised
  <2>4. timer' = IF timer \in 1..Limit THEN timer - 1 ELSE timer
    BY <1>10 DEF Tick
  <2>5. /\ lag' \in 0..MaxLag
        /\ Served /\ (async \/ timer = 0 \/ firing) => lag' = lag + 1
        /\ ~(Served /\ (async \/ timer = 0 \/ firing)) => lag' = 0
    BY <1>10, <1>a, LatencyAssumption DEF Tick, ClocksOK
  <2>6. FlagsOK'
    BY <1>a, <2>3 DEF FlagsOK
  <2>7. ClocksOK'
    BY <1>a, <2>2, <2>4, <2>5, LatencyAssumption DEF ClocksOK, Off
  <2>8. Asked'
    BY <1>a, <2>3, <2>4, LatencyAssumption DEF ClocksOK, Asked, Off
  <2>9. Timed'
    <3> SUFFICES ASSUME Supervised PROVE Timed'
      BY <2>3 DEF Timed
    <3>1. CASE async /\ elapsed <= lag
      BY <3>1, <1>a, <2>1, <2>2, <2>3, <2>5, LatencyAssumption DEF Timed, ClocksOK
    <3>2. CASE ~async /\ timer \in 1..Limit /\ elapsed + timer <= Limit + MaxLag /\ lag = 0
      <4>1. ~firing /\ lag' = 0
        BY <3>2, <1>a, <2>5, LatencyAssumption DEF Asked, Off
      <4>2. timer' = timer - 1
        BY <3>2, <2>4
      <4>3. /\ timer' \in 0..Limit /\ elapsed' + timer' <= Limit + MaxLag
            /\ timer' = 0 => elapsed' <= Limit + MaxLag + 0
        <5>1. timer \in Nat /\ timer # 0 /\ timer <= Limit /\ elapsed \in Nat
          BY <3>2, <1>a, LatencyAssumption DEF ClocksOK
        <5>2. Limit \in Nat /\ Limit + MaxLag \in Nat
          BY LatencyAssumption
        <5> QED
          BY <4>2, <5>1, <5>2, <2>2, <3>2, TickMoves, Zenon
      <4>4. ~async'
        BY <3>2, <2>3
      <4>5. CASE timer' = 0
        <5>1. elapsed' <= Limit + MaxLag + lag'
          BY <4>1, <4>3, <4>5
        <5> QED
          BY <4>4, <4>5, <5>1 DEF Timed
      <4>6. CASE timer' # 0
        <5>1. timer' \in 1..Limit
          BY <4>3, <4>6, LatencyAssumption
        <5> QED
          BY <4>1, <4>3, <4>4, <5>1 DEF Timed
      <4> QED
        BY <4>5, <4>6
    <3>3. CASE ~async /\ (timer = 0 \/ firing) /\ elapsed <= Limit + MaxLag + lag
      <4>1. lag' = lag + 1
        BY <3>3, <2>1, <2>5
      <4>2. timer' = timer
        BY <3>3, <1>a, <2>4, LatencyAssumption DEF Asked, Off
      <4>3. elapsed' <= Limit + MaxLag + lag'
        BY <3>3, <4>1, <1>a, <2>2, LatencyAssumption DEF ClocksOK
      <4>4. ~async' /\ (timer' = 0 \/ firing')
        BY <3>3, <4>2, <2>3
      <4> QED
        BY <4>3, <4>4 DEF Timed
    <3>4. CASE interrupt
      BY <3>4, <2>3 DEF Timed
    <3> QED
      BY <3>1, <3>2, <3>3, <3>4, <1>a DEF Timed
  <2> QED
    BY <1>0, <2>6, <2>7, <2>8, <2>9 DEF TInv
<1>11. CASE UNCHANGED latencyVars
  <2>1. UNCHANGED <<main, started, handles, running, elapsed, idle, async, timer, lag, firing,
                    interrupt>>
    BY <1>11 DEF latencyVars, watchdogVars, callbackVars, timerVars
  <2> QED
    BY <1>0, <1>a, <2>1 DEF TInv, FlagsOK, ClocksOK, Asked, Timed, Supervised, Off
<1> QED
  BY <1>1, <1>2, <1>3, <1>4, <1>5, <1>6, <1>7, <1>8, <1>9, <1>10, <1>11 DEF LatencyNext

\* The invariant holds in every behaviour, fair or not.
THEOREM LatencyInvariance == LatencyInit /\ [][LatencyNext]_latencyVars => [](WInv /\ TInv)
BY InitTInv, StepTInv, PTL

\* A callback that has run for the limit and twice the lag of the watchdog
\* thread is aborted, whatever other entries are registered meanwhile.
THEOREM BusyIsAborted == LatencyFairSpec => []BusyAborted
<1>1. WInv /\ TInv => BusyAborted
  BY LatencyAssumption DEF TInv, FlagsOK, ClocksOK, Timed, Supervised, BusyAborted, Off
<1> QED
  BY <1>1, LatencyInvariance, PTL DEF LatencyFairSpec

\* The abort is asked for only while a callback runs.
THEOREM IdleIsSpared == LatencyFairSpec => IdleSpared
<1>1. TInv /\ [LatencyNext]_latencyVars =>
        [interrupt' /\ ~interrupt => running = "callback"]_latencyVars
  <2> SUFFICES ASSUME TInv, LatencyNext, interrupt', ~interrupt PROVE running = "callback"
    BY DEF latencyVars
  <2>1. CASE FatalTimerCallback
    BY <2>1 DEF FatalTimerCallback, TInv, FlagsOK, Asked
  <2>2. CASE ~FatalTimerCallback
    BY <2>2, Zenon DEF LatencyNext, CallbackPrologue, CallbackEpilogue, EmitBegins, EmitEnds,
                MainRegisters, AsyncCallback, TimerDue, ThreadServes, Tick, timerVars
  <2> QED
    BY <2>1, <2>2
<1> QED
  BY <1>1, LatencyInvariance, PTL DEF LatencyFairSpec, IdleSpared

\* The entries are ready and begun once in the composition too: the latency
\* watchdog implements the plain one.
THEOREM LatencyRefinesWatchdog == LatencyFairSpec => WatchdogSpec
<1>1. LatencyInit => WatchdogInit
  BY DEF LatencyInit
<1> QED
  BY <1>1, LatencyStepsWatchdog, PTL DEF LatencyFairSpec, WatchdogSpec

-----------------------------------------------------------------------------
(***************************************************************************)
(* How a worker's life may end, for any command lines, modes and promises  *)
(* and any amount of work.  The states that the main scripts will still    *)
(* set are what decides: LInv says where they lie above worker_state_.     *)
(***************************************************************************)

Userland == mode = "seed-userland"

SeedPlans == {<<>>, <<3>>, <<2, 3>>}
MainPlans == {<<>>, <<4>>, <<2, 4>>}

\* Before the clone, and before StartExecution has evaluated the main script.
Before == {"new", "bootstrap", "agentSeed", "mainSeed", "loopSeed", "fork"}
Fresh == pc \in {"new", "bootstrap", "fork", "agent"} \/ (pc = "main" /\ turn = "none")

LTypes ==
  /\ plan \in [seed : SeedPlans, main : MainPlans]
  /\ state \in {0, 2, 3, 4} /\ forked \in {-1, 0, 2, 3, 4}
  /\ work \in Nat /\ stop \in BOOLEAN
  /\ pc \in Before \cup {"agent", "main", "loop", "destroy", "exited", "aborted"}

\* Where the main thread is, and what is on its stack.
Places ==
  /\ pc \in {"new", "bootstrap", "agentSeed", "fork", "agent", "destroy"} => turn = "none"
  /\ pc \in {"new", "bootstrap"} => live = {}
  /\ pc \in Before => plan.main = <<>> /\ forked = NotForked
  /\ ~opts.snapshot => plan.seed # <<2, 3>> /\ plan.main # <<2, 4>>

\* A worker that is no userland seed sets rising states.
PlainRises ==
  ~Userland =>
    /\ plan.seed = <<>> /\ pc \notin {"agentSeed", "mainSeed", "loopSeed"}
    /\ Fresh => state = 0 /\ plan.main = <<>>
    /\ plan.main = <<2, 4>> => state = 0
    /\ plan.main = <<4>> => state < 4

\* So does a userland seed, and its child if the seed was prepared and no
\* snapshot makes the child set kDeserialized again.
SeedRises ==
  Userland =>
    /\ pc \in {"new", "bootstrap", "agentSeed"} \/ (pc = "mainSeed" /\ turn = "none") =>
         state = 0 /\ plan.seed = <<>>
    /\ pc \in {"agent", "main", "loop", "destroy"} => forked # NotForked
    /\ forked = NotForked => /\ state < 4 /\ plan.main = <<>>
                             /\ plan.seed = <<2, 3>> => state = 0
                             /\ plan.seed = <<3>> => state < 3
    /\ forked >= 3 => /\ plan.seed = <<>>
                      /\ Fresh => state < 4 /\ plan.main = <<>>
                      /\ plan.main # <<>> => state < 4

\* The loop of a worker is stopped early only below an unprepared seed.
Stops ==
  /\ stop => ForkedUnprepared \/ pc = "aborted"
  /\ pc = "destroy" => work = 0 \/ stop
  /\ code = 0 => pc = "exited"

LInv == /\ LTypes /\ Places /\ PlainRises /\ SeedRises /\ Stops
        /\ ForkAlone /\ AbortExplained /\ EndsWhenIdle

\* The plans of the main scripts, and what is left of each after a state.
LEMMA PlanFacts ==
  /\ Head(<<3>>) = 3 /\ Tail(<<3>>) = <<>> /\ Head(<<4>>) = 4 /\ Tail(<<4>>) = <<>>
  /\ Head(<<2, 3>>) = 2 /\ Tail(<<2, 3>>) = <<3>> /\ Head(<<2, 4>>) = 2 /\ Tail(<<2, 4>>) = <<4>>
  /\ <<>> # <<3>> /\ <<>> # <<4>> /\ <<>> # <<2, 3>> /\ <<>> # <<2, 4>>
  /\ <<3>> # <<2, 3>> /\ <<4>> # <<2, 4>>
OBVIOUS

\* The initial states.
LEMMA InitLInv == LifeInit => LInv
<1> SUFFICES ASSUME LifeInit PROVE LInv
  OBVIOUS
<1> USE PlanFacts DEF LifeInit, SeedPlans, MainPlans, Before, Fresh, NotForked, kBootstrapping
<1>1. stop = FALSE /\ stop \in BOOLEAN
  BY Zenon
<1>2. LTypes /\ Places
  BY <1>1 DEF LTypes, Places
<1>3. PlainRises /\ SeedRises /\ Stops
  BY <1>1 DEF PlainRises, SeedRises, Stops, Userland
<1> QED
  BY <1>2, <1>3 DEF LInv, ForkAlone, AbortExplained, EndsWhenIdle

\* Steps that change neither the state nor the plans.
LEMMA QuietKeeps ==
  ASSUME LInv,
         \/ Initialize \/ Start \/ BootstrapAgent \/ AddWork \/ Return \/ TickTaskQueue
         \/ RejectionsDone \/ LoopTurn \/ RequestInterrupt \/ ExhaustInterruptRequests
         \/ StopAgent \/ RunCleanupHooks \/ AgentLeaves \/ DestroyImmortal
         \/ \E b \in BOOLEAN : ProcessUnhandledRejection(b) \/ Throw(b)
         \/ \E p \in Promises : RejectPromise(p) \/ HandlePromise(p)
         \/ UNCHANGED lifeVars
  PROVE  LInv'
<1> USE DEF LInv, LTypes, Places, PlainRises, SeedRises, Stops, ForkAlone, AbortExplained,
        EndsWhenIdle, Userland, Before, Fresh, ForkedUnprepared, config, NotForked, kForkPrepared,
        kDeserialized
<1>1. CASE Initialize
  BY <1>1 DEF Initialize, Goto
<1>2. CASE Start
  BY <1>2 DEF Start, Goto
<1>3. CASE BootstrapAgent
  BY <1>3 DEF BootstrapAgent, Exit
<1>4. CASE AddWork
  BY <1>4 DEF AddWork, InCode, Over
<1>5. CASE Return
  BY <1>5 DEF Return, Over
<1>6. CASE TickTaskQueue
  BY <1>6 DEF TickTaskQueue, Over
<1>7. CASE RejectionsDone
  BY <1>7 DEF RejectionsDone, Over
<1>8. CASE LoopTurn
  BY <1>8 DEF LoopTurn
<1>9. CASE RequestInterrupt \/ ExhaustInterruptRequests
  BY <1>9 DEF RequestInterrupt, ExhaustInterruptRequests
<1>10. CASE StopAgent
  BY <1>10 DEF StopAgent, Goto
<1>11. CASE RunCleanupHooks
  BY <1>11 DEF RunCleanupHooks, Goto, LoopAlive
<1>12. CASE AgentLeaves
  BY <1>12 DEF AgentLeaves
<1>13. CASE DestroyImmortal
  BY <1>13 DEF DestroyImmortal, Exit
<1>14. ASSUME NEW b \in BOOLEAN, ProcessUnhandledRejection(b) PROVE LInv'
  BY <1>14 DEF ProcessUnhandledRejection, Exit, Over
<1>15. ASSUME NEW b \in BOOLEAN, Throw(b) PROVE LInv'
  BY <1>15 DEF Throw, Exit, Abort, InCode, Over
<1>16. ASSUME NEW p \in Promises, RejectPromise(p) \/ HandlePromise(p) PROVE LInv'
  BY <1>16 DEF RejectPromise, HandlePromise, InCode, Over
<1>17. CASE UNCHANGED lifeVars
  BY <1>17 DEF lifeVars
<1> QED
  BY <1>1, <1>2, <1>3, <1>4, <1>5, <1>6, <1>7, <1>8, <1>9, <1>10, <1>11, <1>12, <1>13,
     <1>14, <1>15, <1>16, <1>17

\* Evaluate and the clone: what the scripts will set is above the state.
LEMMA ScriptKeeps == ASSUME LInv, StartExecution \/ WarmFork PROVE LInv'
<1> USE DEF LInv, LTypes, Places, PlainRises, SeedRises, Stops, ForkAlone, AbortExplained,
        EndsWhenIdle, Userland, Before, Fresh, ForkedUnprepared, config, NotForked, kForkPrepared,
        kDeserialized
<1>1. CASE StartExecution
  <2>1. SeedPlan \in SeedPlans /\ (~opts.snapshot => SeedPlan = <<3>>)
        /\ (opts.snapshot => SeedPlan = <<2, 3>>)
    BY DEF SeedPlan, SeedPlans
  <2>2. MainPlan \in MainPlans /\ (~opts.snapshot => MainPlan = <<4>>)
        /\ (opts.snapshot => MainPlan = <<2, 4>>)
    BY DEF MainPlan, MainPlans, kInstalled
  <2>3. CASE pc = "main"
    <3>1. plan' = [plan EXCEPT !.main = MainPlan] /\ plan'.seed = plan.seed /\ plan'.main = MainPlan
          /\ turn = "none" /\ turn' = "main"
      BY <1>1, <2>3 DEF StartExecution
    <3> QED
      BY <1>1, <2>2, <2>3, <3>1, PlanFacts DEF StartExecution
  <2>4. CASE pc = "mainSeed"
    <3>1. plan' = [plan EXCEPT !.seed = SeedPlan] /\ plan'.main = plan.main /\ plan'.seed = SeedPlan
          /\ turn = "none" /\ turn' = "main"
      BY <1>1, <2>4 DEF StartExecution
    <3> QED
      BY <1>1, <2>1, <2>4, <3>1, PlanFacts DEF StartExecution
  <2> QED
    BY <1>1, <2>3, <2>4 DEF StartExecution
<1>2. CASE WarmFork
  BY <1>2, PlanFacts DEF WarmFork, Goto, SeedPlans
<1> QED
  BY <1>1, <1>2

\* SetWorkerState: the state rises, or the CHECK fails and is explained.
LEMMA StateKeeps == ASSUME LInv, NEW who \in {"seed", "main"}, SetWorkerState(who) PROVE LInv'
<1> USE DEF LInv, LTypes, Places, PlainRises, SeedRises, Stops, ForkAlone, AbortExplained,
        EndsWhenIdle, Userland, Before, Fresh, ForkedUnprepared, config, NotForked, kForkPrepared,
        kDeserialized
<1>1. /\ InCode /\ plan[who] # <<>> /\ plan' = [plan EXCEPT ![who] = Tail(plan[who])]
      /\ stop' = (stop \/ (state' = 3 /\ pc \in {"main", "loop"} /\ LoopAlive))
      /\ UNCHANGED <<mode, opts, live, forked, turn, work>>
      /\ UNCHANGED code
      /\ \/ state < Head(plan[who]) /\ state' = Head(plan[who]) /\ pc' = pc
         \/ ~(state < Head(plan[who])) /\ state' = state /\ pc' = "aborted"
  BY DEF SetWorkerState, Abort
<1>2. stop' => stop \/ (state' = 3 /\ pc \in {"main", "loop"})
  BY <1>1
<1>3. CASE who = "seed"
  <2>1. Userland /\ plan.seed \in {<<3>>, <<2, 3>>}
    BY <1>1, <1>3 DEF SeedPlans
  <2>2. plan'.main = plan.main /\ plan'.seed = Tail(plan.seed) /\ turn # "none"
    BY <1>1, <1>3 DEF InCode
  <2>3. plan' \in [seed : SeedPlans, main : MainPlans]
    BY <1>1, <1>3, <2>1, PlanFacts, Zenon DEF SeedPlans, MainPlans
  <2>4. CASE plan.seed = <<3>>
    <3>1. /\ plan'.seed = <<>>
          /\ \/ state < 3 /\ state' = 3 /\ pc' = pc
             \/ ~(state < 3) /\ state' = state /\ pc' = "aborted"
          /\ pc \notin {"exited", "aborted"}
      BY <1>1, <1>3, <2>2, <2>4, PlanFacts DEF InCode, Over
    <3>2. LTypes' /\ Places'
      BY <1>1, <2>1, <2>2, <2>3, <2>4, <3>1, PlanFacts
    <3>3. PlainRises' /\ SeedRises'
      BY <1>1, <2>1, <2>2, <2>4, <3>1, PlanFacts
    <3>4. Stops' /\ ForkAlone' /\ AbortExplained' /\ EndsWhenIdle'
      BY <1>1, <2>1, <2>2, <2>4, <3>1, PlanFacts, <1>2
    <3> QED
      BY <3>2, <3>3, <3>4
  <2>5. CASE plan.seed = <<2, 3>>
    <3>1. /\ plan'.seed = <<3>>
          /\ \/ state < 2 /\ state' = 2 /\ pc' = pc
             \/ ~(state < 2) /\ state' = state /\ pc' = "aborted"
          /\ pc \notin {"exited", "aborted"}
      BY <1>1, <1>3, <2>2, <2>5, PlanFacts DEF InCode, Over
    <3>2. LTypes' /\ Places'
      BY <1>1, <2>1, <2>2, <2>3, <2>5, <3>1, PlanFacts
    <3>3. PlainRises' /\ SeedRises'
      BY <1>1, <2>1, <2>2, <2>5, <3>1, PlanFacts
    <3>4. Stops' /\ ForkAlone' /\ AbortExplained' /\ EndsWhenIdle'
      BY <1>1, <2>1, <2>2, <2>5, <3>1, PlanFacts, <1>2
    <3> QED
      BY <3>2, <3>3, <3>4
  <2> QED
    BY <2>1, <2>4, <2>5
<1>4. CASE who = "main"
  <2>1. plan.main \in {<<4>>, <<2, 4>>} /\ pc \notin Before
    BY <1>1, <1>4 DEF MainPlans
  <2>2. plan'.seed = plan.seed /\ plan'.main = Tail(plan.main) /\ turn # "none"
    BY <1>1, <1>4 DEF InCode
  <2>3. plan' \in [seed : SeedPlans, main : MainPlans]
    BY <1>1, <1>4, <2>1, PlanFacts, Zenon DEF SeedPlans, MainPlans
  <2>4. CASE plan.main = <<4>>
    <3>1. /\ plan'.main = <<>>
          /\ \/ state < 4 /\ state' = 4 /\ pc' = pc
             \/ ~(state < 4) /\ state' = state /\ pc' = "aborted"
          /\ pc \notin {"exited", "aborted"}
      BY <1>1, <1>4, <2>2, <2>4, PlanFacts DEF InCode, Over
    <3>2. LTypes' /\ Places'
      BY <1>1, <2>1, <2>2, <2>3, <2>4, <3>1, PlanFacts
    <3>3. PlainRises' /\ SeedRises'
      BY <1>1, <2>1, <2>2, <2>4, <3>1, PlanFacts
    <3>4. Stops' /\ ForkAlone' /\ AbortExplained' /\ EndsWhenIdle'
      BY <1>1, <2>1, <2>2, <2>4, <3>1, PlanFacts, <1>2
    <3> QED
      BY <3>2, <3>3, <3>4
  <2>5. CASE plan.main = <<2, 4>>
    <3>1. /\ plan'.main = <<4>>
          /\ \/ state < 2 /\ state' = 2 /\ pc' = pc
             \/ ~(state < 2) /\ state' = state /\ pc' = "aborted"
          /\ pc \notin {"exited", "aborted"}
      BY <1>1, <1>4, <2>2, <2>5, PlanFacts DEF InCode, Over
    <3>2. LTypes' /\ Places'
      BY <1>1, <2>1, <2>2, <2>3, <2>5, <3>1, PlanFacts
    <3>3. PlainRises' /\ SeedRises'
      BY <1>1, <2>1, <2>2, <2>5, <3>1, PlanFacts
    <3>4. Stops' /\ ForkAlone' /\ AbortExplained' /\ EndsWhenIdle'
      BY <1>1, <2>1, <2>2, <2>5, <3>1, PlanFacts, <1>2
    <3> QED
      BY <3>2, <3>3, <3>4
  <2> QED
    BY <2>1, <2>4, <2>5
<1> QED
  BY <1>3, <1>4

\* LInv holds throughout the life of a worker.
THEOREM LifeInvariance == LifeSpec => []LInv
<1>1. LInv /\ [LifeNext]_lifeVars => LInv'
  BY QuietKeeps, ScriptKeeps, StateKeeps DEF LifeNext, LifeStep
<1> QED
  BY InitLInv, <1>1, PTL DEF LifeSpec

\* The process that WarmFork clones has no thread and no channel beside its
\* main thread, SetWorkerState's CHECK and Start's ToChecked fail only as
\* AbortExplained lists, and a worker whose seed was prepared exits with 0 only
\* when its loop has nothing left to call.
THEOREM LifeIsExplained == LifeSpec => []LifeExplained
<1>1. LInv => LifeExplained
  BY DEF LInv, LifeExplained
<1> QED
  BY LifeInvariance, <1>1, PTL

-----------------------------------------------------------------------------
(* Rejections *)

U == "unhandledrejection"
H == "rejectionhandled"
Kinds == {U, H}
Event == Promises \X Kinds

Has(s, p, k) == \E i \in DOMAIN s : s[i] = <<p, k>>
Free(s, p) == \A i \in DOMAIN s : s[i][1] # p
Keyed(s) == \A i, j \in DOMAIN s : s[i][1] = s[j][1] => i = j
Alike(s, t, q) == (Free(t, q) <=> Free(s, q)) /\ \A k \in Kinds : Has(t, q, k) <=> Has(s, q, k)

\* An event for a promise that has none.
LEMMA AppendEvent ==
  ASSUME NEW s \in Seq(Event), Keyed(s), NEW p \in Promises, NEW k \in Kinds, Free(s, p)
  PROVE  LET t == Append(s, <<p, k>>)
         IN /\ t \in Seq(Event) /\ Keyed(t) /\ Has(t, p, k)
            /\ \A q \in Promises \ {p} : Alike(s, t, q)
<1> DEFINE t == Append(s, <<p, k>>)
<1>1. t \in Seq(Event) /\ Len(t) = Len(s) + 1
  BY DEF Event
<1>2. t[Len(s) + 1] = <<p, k>> /\ \A i \in 1..Len(s) : t[i] = s[i]
  OBVIOUS
<1>3. DOMAIN s = 1..Len(s) /\ DOMAIN t = 1..(Len(s) + 1) /\ Len(s) \in Nat
  BY <1>1
<1> HIDE DEF t
<1>4. \A i \in DOMAIN t : (i \in DOMAIN s /\ t[i] = s[i]) \/ (i = Len(s) + 1 /\ t[i] = <<p, k>>)
  BY <1>2, <1>3
<1>5. \A i \in DOMAIN s : i \in DOMAIN t /\ t[i] = s[i]
  BY <1>2, <1>3
<1>6. Keyed(t)
  BY <1>3, <1>4 DEF Keyed, Free
<1>7. Has(t, p, k)
  BY <1>2, <1>3 DEF Has
<1>8. ASSUME NEW q \in Promises \ {p} PROVE Alike(s, t, q)
  BY <1>4, <1>5 DEF Alike, Free, Has, Kinds
<1> QED
  BY <1>1, <1>6, <1>7, <1>8 DEF t

\* What is left of a sequence without its i-th element.
LEMMA RemovedAt ==
  ASSUME NEW S, NEW s \in Seq(S), NEW i \in 1..Len(s)
  PROVE  LET t == Without(s, i)
         IN /\ t \in Seq(S) /\ Len(t) = Len(s) - 1
            /\ \A j \in 1..(Len(s) - 1) : t[j] = IF j < i THEN s[j] ELSE s[j + 1]
<1> DEFINE a == SubSeq(s, 1, i - 1)
           b == SubSeq(s, i + 1, Len(s))
<1>1. Len(s) \in Nat /\ i \in Nat /\ 1 <= i /\ i <= Len(s)
  OBVIOUS
<1>2. a \in Seq(S) /\ Len(a) = i - 1 /\ \A j \in 1..(i - 1) : a[j] = s[j]
  BY <1>1
<1>3. b \in Seq(S) /\ Len(b) = Len(s) - i /\ \A j \in 1..(Len(s) - i) : b[j] = s[i + j]
  BY <1>1
<1> HIDE DEF a, b
<1>4. /\ a \o b \in Seq(S) /\ Len(a \o b) = Len(a) + Len(b)
      /\ \A j \in 1..(Len(a) + Len(b)) : (a \o b)[j] = IF j <= Len(a) THEN a[j] ELSE b[j - Len(a)]
  BY <1>2, <1>3, ConcatProperties, Zenon
<1>5. Len(a) + Len(b) = Len(s) - 1
  BY <1>1, <1>2, <1>3
<1>6. \A j \in 1..(Len(s) - 1) : (a \o b)[j] = IF j < i THEN s[j] ELSE s[j + 1]
  <2> SUFFICES ASSUME NEW j \in 1..(Len(s) - 1)
               PROVE  (a \o b)[j] = IF j < i THEN s[j] ELSE s[j + 1]
    BY Zenon
  <2>1. CASE j < i
    BY <1>1, <1>2, <1>4, <1>5, <2>1
  <2>2. CASE ~(j < i)
    <3>1. (a \o b)[j] = b[j - (i - 1)]
      BY <1>1, <1>2, <1>4, <1>5, <2>2
    <3>2. j - (i - 1) \in 1..(Len(s) - i) /\ i + (j - (i - 1)) = j + 1
      BY <1>1, <2>2
    <3> QED
      BY <1>3, <2>2, <3>1, <3>2
  <2> QED
    BY <2>1, <2>2, Zenon
<1>7. Without(s, i) = a \o b
  BY DEF Without, a, b
<1> QED
  BY <1>4, <1>5, <1>6, <1>7

\* The event of a promise is deleted.
LEMMA DeletedEvent ==
  ASSUME NEW s \in Seq(Event), Keyed(s), NEW i \in DOMAIN s
  PROVE  LET t == Without(s, i)
         IN /\ t \in Seq(Event) /\ Keyed(t) /\ Free(t, s[i][1])
            /\ \A q \in Promises \ {s[i][1]} : Alike(s, t, q)
<1> DEFINE t == Without(s, i)
<1>1. Len(s) \in Nat /\ DOMAIN s = 1..Len(s) /\ i \in 1..Len(s)
  OBVIOUS
<1>2. /\ t \in Seq(Event) /\ Len(t) = Len(s) - 1
      /\ \A j \in 1..(Len(s) - 1) : t[j] = IF j < i THEN s[j] ELSE s[j + 1]
  BY <1>1, RemovedAt
<1> HIDE DEF t
<1> DEFINE back(j) == IF j < i THEN j ELSE j + 1
<1>6. DOMAIN t = 1..(Len(s) - 1)
  BY <1>2
<1>7. \A j \in DOMAIN t : back(j) \in DOMAIN s /\ back(j) # i /\ t[j] = s[back(j)]
  BY <1>1, <1>2, <1>6
<1>8. \A j, l \in DOMAIN t : back(j) = back(l) => j = l
  BY <1>1, <1>6
<1>9. \A j \in DOMAIN s : j # i => \E l \in DOMAIN t : t[l] = s[j]
  <2> SUFFICES ASSUME NEW j \in DOMAIN s, j # i PROVE \E l \in DOMAIN t : t[l] = s[j]
    OBVIOUS
  <2>1. CASE j < i
    BY <1>1, <1>2, <1>6, <2>1
  <2>2. CASE j > i
    <3>1. j - 1 \in DOMAIN t /\ t[j - 1] = s[j]
      BY <1>1, <1>2, <1>6, <2>2
    <3> QED
      BY <3>1
  <2> QED
    BY <1>1, <2>1, <2>2
<1> HIDE DEF back
<1>10. Keyed(t)
  BY <1>7, <1>8 DEF Keyed
<1>11. Free(t, s[i][1])
  BY <1>7 DEF Free, Keyed
<1>12. ASSUME NEW q \in Promises \ {s[i][1]} PROVE Alike(s, t, q)
  <2>1. Free(t, q) <=> Free(s, q)
    BY <1>7, <1>9 DEF Free
  <2>2. ASSUME NEW k \in Kinds PROVE Has(t, q, k) <=> Has(s, q, k)
    BY <1>7, <1>9 DEF Has
  <2> QED
    BY <2>1, <2>2 DEF Alike
<1> QED
  BY <1>2, <1>10, <1>11, <1>12 DEF t

\* The first event is dispatched.
LEMMA FirstEvent ==
  ASSUME NEW s \in Seq(Event), Keyed(s), s # <<>>
  PROVE  /\ Head(s) \in Event /\ Has(s, Head(s)[1], Head(s)[2])
         /\ Tail(s) \in Seq(Event) /\ Keyed(Tail(s)) /\ Free(Tail(s), Head(s)[1])
         /\ \A q \in Promises \ {Head(s)[1]} : Alike(s, Tail(s), q)
<1>1. Len(s) \in Nat \ {0} /\ DOMAIN s = 1..Len(s) /\ Head(s) = s[1] /\ s[1] \in Event
  OBVIOUS
<1>2. /\ Tail(s) \in Seq(Event) /\ DOMAIN Tail(s) = 1..(Len(s) - 1)
      /\ \A j \in 1..(Len(s) - 1) : Tail(s)[j] = s[j + 1]
  OBVIOUS
<1> DEFINE t == Tail(s)
<1> HIDE DEF t
<1>3. t \in Seq(Event) /\ \A j \in DOMAIN t : j + 1 \in DOMAIN s /\ j + 1 # 1 /\ t[j] = s[j + 1]
  BY <1>1, <1>2 DEF t
<1>4. \A j \in DOMAIN s : j # 1 => \E l \in DOMAIN t : t[l] = s[j]
  <2> SUFFICES ASSUME NEW j \in DOMAIN s, j # 1 PROVE \E l \in DOMAIN t : t[l] = s[j]
    OBVIOUS
  <2>1. j - 1 \in DOMAIN t /\ t[j - 1] = s[j]
    BY <1>1, <1>2 DEF t
  <2> QED
    BY <2>1
<1>5. Keyed(t)
  <2> SUFFICES ASSUME NEW i \in DOMAIN t, NEW j \in DOMAIN t, t[i][1] = t[j][1] PROVE i = j
    BY DEF Keyed
  <2>1. i + 1 = j + 1
    BY <1>3 DEF Keyed
  <2> QED
    BY <2>1, <1>2 DEF t
<1>6. Free(t, Head(s)[1])
  BY <1>1, <1>3 DEF Free, Keyed
<1>7. ASSUME NEW q \in Promises \ {Head(s)[1]} PROVE Alike(s, t, q)
  <2>1. Free(t, q) <=> Free(s, q)
    BY <1>1, <1>3, <1>4 DEF Free
  <2>2. ASSUME NEW k \in Kinds PROVE Has(t, q, k) <=> Has(s, q, k)
    <3>1. s[1] # <<q, k>>
      BY <1>1
    <3> QED
      BY <1>3, <1>4, <3>1, Zenon DEF Has
  <2> QED
    BY <2>1, <2>2 DEF Alike
<1>8. Has(s, Head(s)[1], Head(s)[2])
  BY <1>1 DEF Has, Event
<1> QED
  BY <1>1, <1>3, <1>5, <1>6, <1>7, <1>8 DEF t

\* What is known of a promise from where its events are: not rejected; rejected
\* and to be reported in this round or the next, or reported; handled before it
\* was reported, while the round that reports it goes on, or after it.
Where(p) ==
  \/ promise[p] = "open" /\ told[p] = <<>> /\ Free(events, p) /\ Free(batch, p)
  \/ promise[p] = "rejected" /\ told[p] = <<>> /\ Has(events, p, U) /\ Free(batch, p)
  \/ promise[p] = "rejected" /\ told[p] = <<>> /\ Free(events, p) /\ Has(batch, p, U)
  \/ promise[p] = "rejected" /\ told[p] = <<U>> /\ Free(events, p) /\ Free(batch, p)
  \/ promise[p] = "handled" /\ told[p] = <<>> /\ Free(events, p) /\ Free(batch, p)
  \/ promise[p] = "handled" /\ told[p] = <<>> /\ Has(events, p, H) /\ Has(batch, p, U)
  \/ promise[p] = "handled" /\ told[p] = <<U>> /\ Has(events, p, H) /\ Free(batch, p)
  \/ promise[p] = "handled" /\ told[p] = <<U>> /\ Free(events, p) /\ Has(batch, p, H)
  \/ promise[p] = "handled" /\ told[p] = <<U, H>> /\ Free(events, p) /\ Free(batch, p)

\* The inductive invariant of the rejections.
RTypes ==
  /\ promise \in [Promises -> {"open", "rejected", "handled"}]
  /\ told \in [Promises -> {<<>>, <<U>>, <<U, H>>}]

RInv ==
  /\ RTypes
  /\ events \in Seq(Event) /\ Keyed(events)
  /\ batch \in Seq(Event) /\ Keyed(batch)
  /\ turn # "reject" => batch = <<>>
  /\ turn = "none" /\ ~Over => events = <<>>
  /\ \A p \in Promises : Where(p)

\* Nothing is rejected at first.
LEMMA InitRInv == LifeInit => RInv
<1> SUFFICES ASSUME LifeInit PROVE RInv
  OBVIOUS
<1>1. /\ promise = [p \in Promises |-> "open"] /\ told = [p \in Promises |-> <<>>]
      /\ events = <<>> /\ batch = <<>>
  BY DEF LifeInit
<1>2. \A p \in Promises : Free(<<>>, p)
  BY DEF Free
<1>3. <<>> \in Seq(Event) /\ Keyed(<<>>)
  BY DEF Keyed
<1> QED
  BY <1>1, <1>2, <1>3 DEF RInv, RTypes, Where

\* A promise whose events stay where they are.
LEMMA WhereKept ==
  ASSUME NEW q \in Promises, Where(q), promise'[q] = promise[q], told'[q] = told[q],
         Alike(events, events', q), Alike(batch, batch', q)
  PROVE  Where(q)'
BY DEF Where, Alike, Kinds

\* A keyed sequence has one kind of event for a promise, or none.
LEMMA OneKind ==
  ASSUME NEW s \in Seq(Event), Keyed(s), NEW p \in Promises, NEW k \in Kinds, Has(s, p, k)
  PROVE  /\ ~Free(s, p)
         /\ \A l \in Kinds : Has(s, p, l) => l = k
BY DEF Keyed, Has, Free

\* Two events are told one after the other.
LEMMA Appended == Append(<<>>, U) = <<U>> /\ Append(<<U>>, H) = <<U, H>>
<1>1. Append(<<>>, U) = <<U>>
  OBVIOUS
<1>2. /\ <<U>> \in Seq(Kinds) /\ H \in Kinds /\ <<U, H>> \in Seq(Kinds)
      /\ Len(<<U>>) = 1 /\ Len(<<U, H>>) = 2 /\ <<U>>[1] = U
      /\ <<U, H>>[1] = U /\ <<U, H>>[2] = H
  BY DEF Kinds
<1>3. /\ Append(<<U>>, H) \in Seq(Kinds) /\ Len(Append(<<U>>, H)) = 2
      /\ Append(<<U>>, H)[1] = U /\ Append(<<U>>, H)[2] = H
  BY <1>2, AppendProperties
<1>4. \A i \in 1..2 : Append(<<U>>, H)[i] = <<U, H>>[i]
  <2> SUFFICES ASSUME NEW i \in 1..2 PROVE Append(<<U>>, H)[i] = <<U, H>>[i]
    OBVIOUS
  <2>1. i = 1 \/ i = 2
    OBVIOUS
  <2> QED
    BY <1>2, <1>3, <2>1
<1> QED
  BY <1>1, <1>2, <1>3, <1>4, SeqEqual, Zenon

\* Every step of the worker preserves the invariant.
LEMMA StepRInv == RInv /\ [LifeNext]_lifeVars => RInv'
<1> SUFFICES ASSUME RInv, [LifeNext]_lifeVars PROVE RInv'
  OBVIOUS
<1>a. \A s, q : Alike(s, s, q)
  BY DEF Alike
<1>b. U \in Kinds /\ H \in Kinds /\ U # H
  BY DEF Kinds, U, H
<1>c. /\ \A q \in Promises : Where(q)
      /\ promise \in [Promises -> {"open", "rejected", "handled"}]
      /\ told \in [Promises -> {<<>>, <<U>>, <<U, H>>}]
  BY DEF RInv, RTypes
<1>1. ASSUME NEW p \in Promises, RejectPromise(p) PROVE RInv'
  <2>1. /\ promise[p] = "open" /\ promise' = [promise EXCEPT ![p] = "rejected"]
        /\ events' = Append(events, <<p, U>>) /\ UNCHANGED <<batch, told, turn, pc>>
        /\ turn # "none"
    BY <1>1 DEF RejectPromise, InCode, U
  <2>2. told[p] = <<>> /\ Free(events, p) /\ Free(batch, p)
    BY <2>1 DEF RInv, Where
  <2>3. /\ events' \in Seq(Event) /\ Keyed(events') /\ Has(events', p, U)
        /\ \A q \in Promises \ {p} : Alike(events, events', q)
    BY <2>1, <2>2, <1>b, AppendEvent DEF RInv
  <2>4. promise'[p] = "rejected" /\ \A q \in Promises \ {p} : promise'[q] = promise[q]
    BY <1>c, <2>1
  <2>t. RTypes'
    BY <1>c, <2>1 DEF RTypes
  <2>5. ASSUME NEW q \in Promises PROVE Where(q)'
    <3>1. CASE q = p
      BY <2>1, <2>2, <2>3, <2>4, <3>1 DEF Where
    <3>2. CASE q # p
      BY <1>a, <1>c, <2>1, <2>3, <2>4, <3>2, WhereKept
    <3> QED
      BY <3>1, <3>2
  <2> QED
    BY <2>1, <2>3, <2>5, <2>t DEF RInv, Over
<1>2. ASSUME NEW p \in Promises, HandlePromise(p) PROVE RInv'
  <2>1. /\ promise[p] = "rejected" /\ promise' = [promise EXCEPT ![p] = "handled"]
        /\ UNCHANGED <<batch, told, turn, pc>> /\ turn # "none"
    BY <1>2 DEF HandlePromise, InCode
  <2>2. promise'[p] = "handled" /\ \A q \in Promises \ {p} : promise'[q] = promise[q]
    BY <1>c, <2>1
  <2>t. RTypes'
    BY <1>c, <2>1 DEF RTypes
  <2>3. CASE InPending(p)
    <3>1. PICK i \in DOMAIN events : events[i][1] = p /\ events' = Without(events, i)
      BY <1>2, <2>3 DEF HandlePromise, DeleteEvent
    <3>2. /\ events' \in Seq(Event) /\ Keyed(events') /\ Free(events', p)
          /\ \A q \in Promises \ {p} : Alike(events, events', q)
      BY <3>1, DeletedEvent DEF RInv
    <3>3. ~Free(events, p)
      BY <3>1 DEF Free
    <3>4. told[p] = <<>> /\ Free(batch, p)
      BY <2>1, <3>3 DEF RInv, Where
    <3>5. ASSUME NEW q \in Promises PROVE Where(q)'
      <4>1. CASE q = p
        BY <2>1, <2>2, <3>2, <3>4, <4>1 DEF Where
      <4>2. CASE q # p
        BY <1>a, <1>c, <2>1, <2>2, <3>2, <4>2, WhereKept
      <4> QED
        BY <4>1, <4>2
    <3> QED
      BY <2>1, <2>t, <3>2, <3>5 DEF RInv, Over
  <2>4. CASE ~InPending(p)
    <3>1. Free(events, p) /\ events' = Append(events, <<p, H>>)
      BY <1>2, <2>4 DEF HandlePromise, InPending, Free, H
    <3>2. /\ events' \in Seq(Event) /\ Keyed(events') /\ Has(events', p, H)
          /\ \A q \in Promises \ {p} : Alike(events, events', q)
      BY <3>1, <1>b, AppendEvent DEF RInv
    <3>3. \/ told[p] = <<>> /\ Has(batch, p, U)
          \/ told[p] = <<U>> /\ Free(batch, p)
      <4>1. ~Has(events, p, U)
        BY <3>1 DEF Free, Has
      <4> QED
        BY <1>c, <2>1, <3>1, <4>1 DEF Where
    <3>4. ASSUME NEW q \in Promises PROVE Where(q)'
      <4>1. CASE q = p
        BY <2>1, <2>2, <3>2, <3>3, <4>1 DEF Where
      <4>2. CASE q # p
        BY <1>a, <1>c, <2>1, <2>2, <3>2, <4>2, WhereKept
      <4> QED
        BY <4>1, <4>2
    <3> QED
      BY <2>1, <2>t, <3>2, <3>4 DEF RInv, Over
  <2> QED
    BY <2>3, <2>4
<1>3. CASE TickTaskQueue
  <2>1. UNCHANGED <<promise, told>> /\ batch = <<>>
    BY <1>3 DEF TickTaskQueue, RInv
  <2>t. RTypes'
    BY <1>c, <2>1 DEF RTypes
  <2>2. CASE events # <<>>
    <3>1. batch' = events /\ events' = <<>> /\ turn' = "reject"
      BY <1>3, <2>2 DEF TickTaskQueue
    <3>2. <<>> \in Seq(Event) /\ Keyed(<<>>) /\ \A q : Free(<<>>, q) /\ \A k : ~Has(<<>>, q, k)
      BY DEF Keyed, Free, Has
    <3>3. ASSUME NEW q \in Promises PROVE Where(q)'
      BY <1>c, <2>1, <3>1, <3>2, Zenon DEF Where
    <3> QED
      BY <2>1, <2>t, <3>1, <3>2, <3>3 DEF RInv
  <2>3. CASE events = <<>>
    <3>1. UNCHANGED <<events, batch>> /\ turn' = "none"
      BY <1>3, <2>3 DEF TickTaskQueue
    <3>2. ASSUME NEW q \in Promises PROVE Where(q)'
      BY <1>a, <1>c, <2>1, <3>1, WhereKept
    <3> QED
      BY <2>1, <2>t, <2>3, <3>1, <3>2 DEF RInv
  <2> QED
    BY <2>2, <2>3
<1>4. ASSUME NEW b \in BOOLEAN, ProcessUnhandledRejection(b) PROVE RInv'
  <2>1. /\ turn = "reject" /\ batch # <<>> /\ batch' = Tail(batch)
        /\ told' = [told EXCEPT ![Head(batch)[1]] = Append(told[Head(batch)[1]], Head(batch)[2])]
        /\ UNCHANGED <<promise, events, turn>>
    BY <1>4 DEF ProcessUnhandledRejection
  <2> DEFINE p == Head(batch)[1]
             k == Head(batch)[2]
  <2>2. /\ p \in Promises /\ k \in Kinds /\ Has(batch, p, k)
        /\ batch' \in Seq(Event) /\ Keyed(batch') /\ Free(batch', p)
        /\ \A q \in Promises \ {p} : Alike(batch, batch', q)
    BY <2>1, FirstEvent DEF RInv, Event
  <2>3. told'[p] = Append(told[p], k) /\ \A q \in Promises \ {p} : told'[q] = told[q]
    BY <1>c, <2>1, <2>2
  <2>4. /\ ~Free(batch, p)
        /\ \A l \in Kinds : Has(batch, p, l) => l = k
    BY <2>2, OneKind DEF RInv
  <2> HIDE DEF p, k
  <2>5. \/ /\ promise[p] = "rejected" /\ told[p] = <<>> /\ Free(events, p) /\ k = U
        \/ /\ promise[p] = "handled" /\ told[p] = <<>> /\ Has(events, p, H) /\ k = U
        \/ /\ promise[p] = "handled" /\ told[p] = <<U>> /\ Free(events, p) /\ k = H
    BY <1>b, <1>c, <2>2, <2>4 DEF Where
  <2>6. Append(<<>>, U) = <<U>> /\ Append(<<U>>, H) = <<U, H>>
    BY Appended
  <2>t. RTypes'
    BY <1>c, <2>1, <2>2, <2>5, <2>6, <2>3 DEF RTypes, p, k
  <2>7. ASSUME NEW q \in Promises PROVE Where(q)'
    <3>1. CASE q = p
      BY <2>1, <2>2, <2>3, <2>5, <2>6, <3>1 DEF Where
    <3>2. CASE q # p
      BY <1>a, <1>c, <2>1, <2>2, <2>3, <3>2, WhereKept
    <3> QED
      BY <3>1, <3>2
  <2> QED
    BY <2>1, <2>t, <2>2, <2>7 DEF RInv
<1>5. ASSUME UNCHANGED <<promise, events, batch, told>>,
             turn' = "reject" => turn = "reject",
             turn' # "reject" => batch = <<>>,
             turn' = "none" /\ ~Over' => turn = "none" /\ ~Over
      PROVE  RInv'
  <2>1. ASSUME NEW q \in Promises PROVE Where(q)'
    BY <1>a, <1>c, <1>5, WhereKept
  <2> QED
    BY <1>5, <2>1 DEF RInv, RTypes
<1>6. ASSUME \/ Initialize \/ Start \/ BootstrapAgent \/ StartExecution \/ Return \/ RejectionsDone
             \/ StopAgent \/ WarmFork \/ LoopTurn \/ RunCleanupHooks \/ DestroyImmortal
             \/ AddWork \/ RequestInterrupt \/ ExhaustInterruptRequests \/ AgentLeaves
             \/ \E b \in BOOLEAN : Throw(b)
             \/ \E who \in {"seed", "main"} : SetWorkerState(who)
             \/ UNCHANGED lifeVars
      PROVE  /\ UNCHANGED <<promise, events, batch, told>>
             /\ turn' = "reject" => turn = "reject"
             /\ turn' # "reject" => batch = <<>>
             /\ turn' = "none" /\ ~Over' => turn = "none" /\ ~Over
  <2>1. UNCHANGED <<promise, events, batch, told>>
    BY <1>6 DEF Initialize, Start, BootstrapAgent, StartExecution, Return, RejectionsDone,
                StopAgent, WarmFork, LoopTurn, RunCleanupHooks, DestroyImmortal, AddWork,
                RequestInterrupt, ExhaustInterruptRequests, AgentLeaves, Throw, SetWorkerState,
                jsVars, lifeVars
  <2>2. \/ turn' = turn
        \/ turn' = "tick" /\ batch = <<>>
        \/ turn' \in {"main", "code"} /\ turn = "none"
    <3>1. CASE Return \/ RejectionsDone \/ StartExecution \/ LoopTurn
      BY <3>1 DEF Return, RejectionsDone, StartExecution, LoopTurn, RInv
    <3>2. ASSUME NEW b \in BOOLEAN, Throw(b) PROVE turn' = turn \/ (turn' = "tick" /\ batch = <<>>)
      <4>1. batch = <<>>
        BY <3>2 DEF Throw, RInv
      <4> QED
        BY <3>2, <4>1 DEF Throw
    <3>3. CASE \/ Initialize \/ Start \/ BootstrapAgent \/ StopAgent \/ WarmFork \/ RunCleanupHooks
               \/ DestroyImmortal \/ AddWork \/ RequestInterrupt \/ ExhaustInterruptRequests
               \/ AgentLeaves \/ (\E who \in {"seed", "main"} : SetWorkerState(who))
               \/ UNCHANGED lifeVars
      BY <3>3 DEF Initialize, Start, BootstrapAgent, StopAgent, WarmFork, RunCleanupHooks,
                  DestroyImmortal, AddWork, RequestInterrupt, ExhaustInterruptRequests,
                  AgentLeaves, SetWorkerState, lifeVars
    <3> QED
      BY <1>6, <3>1, <3>2, <3>3
  <2>3. Over => Over'
    BY <1>6 DEF Initialize, Start, BootstrapAgent, StartExecution, Return, RejectionsDone,
                StopAgent, WarmFork, LoopTurn, RunCleanupHooks, DestroyImmortal, AddWork,
                RequestInterrupt, ExhaustInterruptRequests, AgentLeaves, Throw, SetWorkerState,
                lifeVars, Over, Goto, Exit, Abort, InCode
  <2> QED
    BY <2>1, <2>2, <2>3 DEF RInv
<1> QED
  BY <1>1, <1>2, <1>3, <1>4, <1>5, <1>6 DEF LifeNext, LifeStep

\* "unhandledrejection" and "rejectionhandled" come once each and in this order,
\* a rejection handled in time is not reported, and one that is not handled is
\* reported before its turn ends, for any number of promises.
THEOREM RejectionsAreReported == LifeSpec => []RejectionsReported
<1>1. RInv => RejectionsMakeSense
  <2> SUFFICES ASSUME RInv, NEW p \in Promises
               PROVE  /\ told[p] \in {<<>>, <<U>>, <<U, H>>}
                      /\ promise[p] = "handled" /\ told[p] = <<>> =>
                           ~\E i \in DOMAIN events : events[i][1] = p /\ events[i][2] = U
    BY DEF RejectionsMakeSense, U, H
  <2>1. told[p] \in {<<>>, <<U>>, <<U, H>>}
    BY DEF RInv, RTypes
  <2>2. promise[p] = "handled" /\ told[p] = <<>> => Free(events, p) \/ Has(events, p, H)
    BY DEF RInv, Where
  <2>3. ASSUME NEW i \in DOMAIN events, events[i][1] = p, events[i][2] = U
        PROVE  ~Free(events, p) /\ ~Has(events, p, H)
    BY <2>3 DEF Free, Has, RInv, Keyed, U, H
  <2> QED
    BY <2>1, <2>2, <2>3
<1>2. RInv => NoneLeftBehind
  <2> SUFFICES ASSUME RInv, turn = "none", ~Over, NEW p \in Promises, promise[p] = "rejected"
               PROVE  told[p] = <<U>>
    BY DEF NoneLeftBehind, U
  <2>1. ~Has(<<>>, p, U)
    BY DEF Has
  <2> QED
    BY <2>1 DEF RInv, Where
<1> QED
  BY <1>1, <1>2, InitRInv, StepRInv, PTL DEF LifeSpec, RejectionsReported
=============================================================================
