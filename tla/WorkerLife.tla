----------------------------- MODULE WorkerLife -----------------------------
(***************************************************************************)
(* The life of a worker process: AworkerMainInstance drives an Immortal    *)
(* from initialisation through the warm fork, in which a seed process      *)
(* waits until it is cloned, to the event loop and the destructors.  The   *)
(* scripts of lib/bootstrap raise the worker state; user code runs in      *)
(* turns of the loop, throws, and leaves promises rejected, each of which  *)
(* may end the process.                                                    *)
(***************************************************************************)
EXTENDS Integers, Sequences, FiniteSets, Functions

CONSTANTS Promises, Modes, Options,
          MaxWork   \* bound on the callbacks that user code asks of the loop

kBootstrapping == 0
kDeserialized == 2
kForkPrepared == 3
kInstalled == 4

VARIABLES
  mode, opts,   \* the command line
  pc,           \* where AworkerMainInstance::Start is
  state,        \* worker_state_
  live,         \* the threads and channels that run beside the loop
  plan,         \* the states that each main script's promises will set
  forked,       \* the state in which the seed was cloned
  stop,         \* uv_stop was called
  turn,         \* what runs in the loop's turn: nothing, code, rejections
  work,         \* callbacks still to come
  promise,      \* user promises: open, rejected, or handled
  events,      \* pendingPromiseEvents, in order
  batch,        \* the events that processUnhandledRejection walks
  told,         \* the events dispatched for each promise
  asks,         \* interrupts requested from other threads
  ran,          \* interrupts run
  code          \* the exit code, once there is one

lifeVars == <<mode, opts, pc, state, live, plan, forked, stop, turn, work, promise, events, batch,
              told, asks, ran, code>>
jsVars == <<promise, events, batch, told>>
config == <<mode, opts>>

NotForked == -1

LifeInit ==
  /\ mode \in Modes /\ opts \in Options
  /\ pc = "new" /\ state = kBootstrapping
  /\ live = {} /\ plan = [seed |-> <<>>, main |-> <<>>] /\ forked = NotForked
  /\ stop = FALSE /\ turn = "none" /\ work = 0
  /\ promise = [p \in Promises |-> "open"]
  /\ events = <<>> /\ batch = <<>> /\ told = [p \in Promises |-> <<>>]
  /\ asks = 0 /\ ran = 0 /\ code = -1

LoopAlive == work > 0 \/ "data" \in live

Over == pc \in {"exited", "aborted"}

Exit(c) == pc' = "exited" /\ code' = c
Abort == pc' = "aborted" /\ UNCHANGED code

Goto(from, to) == pc = from /\ pc' = to /\ UNCHANGED code

-----------------------------------------------------------------------------
(* Start-up *)

\* Initialize: read the snapshot, create the isolate and the Immortal.
Initialize ==
  /\ Goto("new", "bootstrap")
  /\ UNCHANGED <<config, state, live, plan, forked, stop, turn, work, jsVars, asks, ran>>

\* Start up to the fork: Bootstrap without a snapshot, the inspector, and the
\* per-execution scripts; then as the mode says.
Start ==
  /\ Goto("bootstrap", CASE mode = "seed-userland" -> "agentSeed"
                         [] mode = "seed" -> "fork"
                         [] OTHER -> "agent")
  /\ UNCHANGED <<config, state, live, plan, forked, stop, turn, work, jsVars, asks, ran>>

\* StartAgentChannel, then WaitForAgent.
AgentChannels == IF opts.agent = "none" THEN {} ELSE {"data", "diag"}

\* What is started beside the loop; the watchdog thread runs the diag channel
\* and the report watchdog.
AgentParts == AgentChannels \cup (IF opts.inspect THEN {"io"} ELSE {})
              \cup (IF opts.report THEN {"report"} ELSE {})
              \cup (IF opts.report \/ AgentChannels # {} THEN {"watchdog"} ELSE {})

\* BootstrapAgent: without an IPC path, or an inspector without an agent,
\* exit(4).
BootstrapAgent ==
  /\ pc \in {"agentSeed", "agent"}
  /\ IF opts.agent = "noPath" \/ (opts.inspect /\ opts.agent = "none")
       THEN Exit(4) /\ UNCHANGED live
       ELSE /\ pc' = IF pc = "agent" THEN "main" ELSE "mainSeed"
            /\ live' = live \cup AgentParts
            /\ UNCHANGED code
  /\ UNCHANGED <<config, state, plan, forked, stop, turn, work, jsVars, asks, ran>>

\* The states that main_fork.js and main.js will set.
SeedPlan == IF opts.snapshot THEN <<kDeserialized, kForkPrepared>> ELSE <<kForkPrepared>>
MainPlan == IF opts.snapshot THEN <<kDeserialized, kInstalled>> ELSE <<kInstalled>>

\* StartForkExecution, StartExecution: Evaluate runs the main script.  Running
\* user code starts the loop latency watchdog, if one is asked for.
StartExecution ==
  /\ pc \in {"mainSeed", "main"} /\ turn = "none"
  /\ turn' = "main"
  /\ plan' = IF pc = "main" THEN [plan EXCEPT !.main = MainPlan] ELSE [plan EXCEPT !.seed = SeedPlan]
  /\ live' = IF opts.latency /\ ~(opts.snapshot) THEN live \cup {"latency", "watchdog"} ELSE live
  /\ UNCHANGED <<config, pc, state, forked, stop, work, jsVars, asks, ran, code>>

-----------------------------------------------------------------------------
(* User code *)

InCode == turn \in {"main", "code", "reject"} /\ ~Over

\* User code asks the loop for another callback.
AddWork ==
  /\ InCode /\ work < MaxWork
  /\ work' = work + 1
  /\ UNCHANGED <<config, pc, state, live, plan, forked, stop, turn, jsVars, asks, ran, code>>

\* pendingPromiseEvents is a map, ordered by insertion: a promise has one event.
InPending(p) == \E i \in DOMAIN events : events[i][1] = p
Without(s, i) == SubSeq(s, 1, i - 1) \o SubSeq(s, i + 1, Len(s))
DeleteEvent(p) == \E i \in DOMAIN events : events[i][1] = p /\ events' = Without(events, i)

\* OnPromiseReject, emitPromiseRejection: a promise is rejected without a
\* handler.
RejectPromise(p) ==
  /\ InCode /\ promise[p] = "open"
  /\ promise' = [promise EXCEPT ![p] = "rejected"]
  /\ events' = Append(events, <<p, "unhandledrejection">>)
  /\ UNCHANGED <<config, pc, state, live, plan, forked, stop, turn, work, batch, told, asks, ran, code>>

\* Mutant: the handler that comes in time is noted as a late one.
HandleLate(p) ==
  /\ InCode /\ promise[p] = "rejected"
  /\ promise' = [promise EXCEPT ![p] = "handled"]
  /\ events' = Append(events, <<p, "rejectionhandled">>)
  /\ UNCHANGED <<config, pc, state, live, plan, forked, stop, turn, work, batch, told, asks, ran, code>>

\* OnPromiseReject, emitPromiseRejection: a handler is added after all.
HandlePromise(p) ==
  /\ InCode /\ promise[p] = "rejected"
  /\ promise' = [promise EXCEPT ![p] = "handled"]
  /\ IF InPending(p) THEN DeleteEvent(p)
                     ELSE events' = Append(events, <<p, "rejectionhandled">>)
  /\ UNCHANGED <<config, pc, state, live, plan, forked, stop, turn, work, batch, told, asks, ran, code>>

\* OnMessage, EmitUncaughtException: an "error" listener handles it, or the
\* process exits.  Out of the main script, Evaluate then returns nothing, on
\* which ToChecked fails.
Throw(listener) ==
  /\ InCode /\ turn # "reject"
  /\ IF ~listener THEN Exit(1) /\ UNCHANGED turn
     ELSE IF turn = "main" THEN Abort /\ UNCHANGED turn
     ELSE turn' = "tick" /\ UNCHANGED <<pc, code>>
  /\ UNCHANGED <<config, state, live, plan, forked, stop, work, jsVars, asks, ran>>

\* SetWorkerState, when the promise of a main script's next event has settled:
\* CHECK(worker_state < val).  A prepared seed stops the loop if it is alive;
\* uv_run clears the flag when it returns, which in the seed's loop is at once.
SetWorkerState(who) ==
  /\ InCode /\ turn # "reject" /\ plan[who] # <<>>
  /\ IF state < Head(plan[who])
       THEN state' = Head(plan[who]) /\ UNCHANGED <<pc, code>>
       ELSE Abort /\ UNCHANGED state
  /\ stop' = (stop \/ (state' = kForkPrepared /\ pc \in {"main", "loop"} /\ LoopAlive))
  /\ plan' = [plan EXCEPT ![who] = Tail(@)]
  /\ UNCHANGED <<config, live, forked, turn, work, jsVars, asks, ran>>

\* The code returns: callbackTrampoline or Evaluate ticks the task queue.
Return ==
  /\ turn \in {"main", "code"} /\ ~Over
  /\ turn' = "tick"
  /\ UNCHANGED <<config, pc, state, live, plan, forked, stop, work, jsVars, asks, ran, code>>

\* tickTaskQueue: microtasks, then the rejections, until none is new.  Out of
\* the main script the loop is entered.
TickTaskQueue ==
  /\ turn = "tick" /\ ~Over
  /\ \/ /\ events # <<>>
        /\ batch' = events /\ events' = <<>>
        /\ turn' = "reject"
        /\ UNCHANGED <<pc, code>>
     \/ /\ events = <<>>
        /\ turn' = "none"
        /\ pc' = CASE pc = "main" -> "loop" [] pc = "mainSeed" -> "loopSeed" [] OTHER -> pc
        /\ UNCHANGED <<batch, events, code>>
  /\ UNCHANGED <<config, state, live, plan, forked, stop, work, promise, told, asks, ran>>

\* processUnhandledRejection: a rejection that no listener cancels ends the
\* process.
ProcessUnhandledRejection(canceled) ==
  /\ turn = "reject" /\ ~Over /\ batch # <<>>
  /\ told' = [told EXCEPT ![Head(batch)[1]] = Append(@, Head(batch)[2])]
  /\ batch' = Tail(batch)
  /\ IF Head(batch)[2] = "unhandledrejection" /\ ~canceled
       THEN Exit(1) ELSE UNCHANGED <<pc, code>>
  /\ UNCHANGED <<config, state, live, plan, forked, stop, turn, work, promise, events, asks, ran>>

RejectionsDone ==
  /\ turn = "reject" /\ ~Over /\ batch = <<>>
  /\ turn' = "tick"
  /\ UNCHANGED <<config, pc, state, live, plan, forked, stop, work, jsVars, asks, ran, code>>

-----------------------------------------------------------------------------
(* The loop *)

\* A callback of the loop.
LoopTurn ==
  /\ pc \in {"loopSeed", "loop"} /\ turn = "none"
  /\ LoopAlive
  /\ IF pc = "loopSeed" THEN state # kForkPrepared ELSE ~stop
  /\ turn' = "code"
  /\ work' = IF work > 0 THEN work - 1 ELSE 0
  /\ UNCHANGED <<config, pc, state, live, plan, forked, stop, jsVars, asks, ran, code>>

\* RequestInterrupt by the diagnostic channel's thread.
RequestInterrupt ==
  /\ "diag" \in live /\ ~Over /\ asks < 2
  /\ asks' = asks + 1
  /\ UNCHANGED <<config, pc, state, live, plan, forked, stop, turn, work, jsVars, ran, code>>

\* ExhaustInterruptRequests: from the loop's async handle, or in the midst of
\* JavaScript.
ExhaustInterruptRequests ==
  /\ ran < asks /\ ~Over /\ pc \in {"mainSeed", "loopSeed", "main", "loop"}
  /\ ran' = asks
  /\ UNCHANGED <<config, pc, state, live, plan, forked, stop, turn, work, jsVars, asks, code>>

\* Mutant: the agent stays.
StopAgentNot ==
  /\ Goto("loopSeed", "fork") /\ turn = "none"
  /\ state = kForkPrepared \/ ~LoopAlive
  /\ live' = live \ {"data", "diag", "io"}
  /\ UNCHANGED <<config, state, plan, forked, stop, turn, work, jsVars, asks, ran>>

\* WarmForkWithUserScript: the loop runs until the script is prepared or
\* nothing is left to do; StopAgent.
StopAgent ==
  /\ Goto("loopSeed", "fork") /\ turn = "none"
  /\ state = kForkPrepared \/ ~LoopAlive
  /\ live' = {}
  /\ UNCHANGED <<config, state, plan, forked, stop, turn, work, jsVars, asks, ran>>

\* WarmFork: the process waits and is cloned; Start goes on in the child.
WarmFork ==
  /\ Goto("fork", "agent")
  /\ forked' = state
  /\ UNCHANGED <<config, state, live, plan, stop, turn, work, jsVars, asks, ran>>

\* The loop has nothing left, or was stopped: the inspector's front ends leave, cleanup hooks.
RunCleanupHooks ==
  /\ Goto("loop", "destroy") /\ turn = "none"
  /\ ~LoopAlive \/ stop
  /\ UNCHANGED <<config, state, live, plan, forked, stop, turn, work, jsVars, asks, ran>>

\* The agent closes the connection, which held the loop.
AgentLeaves ==
  /\ "data" \in live /\ pc \in {"loopSeed", "loop"} /\ turn = "none"
  /\ live' = live \ {"data"}
  /\ UNCHANGED <<config, pc, state, plan, forked, stop, turn, work, jsVars, asks, ran, code>>

\* ~Immortal: StopAgent, close the handles, delete the objects.
DestroyImmortal ==
  /\ pc = "destroy"
  /\ Exit(0)
  /\ live' = {}
  /\ UNCHANGED <<config, state, plan, forked, stop, turn, work, jsVars, asks, ran>>

LifeStep == \/ Initialize \/ Start \/ BootstrapAgent \/ StartExecution \/ Return
            \/ TickTaskQueue \/ RejectionsDone \/ StopAgent \/ WarmFork
            \/ LoopTurn \/ RunCleanupHooks \/ DestroyImmortal
            \/ \E b \in BOOLEAN : ProcessUnhandledRejection(b)

LifeNext == \/ LifeStep \/ AddWork \/ RequestInterrupt
            \/ ExhaustInterruptRequests \/ AgentLeaves
            \/ \E p \in Promises : RejectPromise(p) \/ HandlePromise(p)
            \/ \E b \in BOOLEAN : Throw(b)
            \/ \E who \in {"seed", "main"} : SetWorkerState(who)

\* Control goes on, and the loop serves its async handle.
LifeFairness == WF_lifeVars(LifeStep) /\ WF_lifeVars(ExhaustInterruptRequests)

LifeSpec == LifeInit /\ [][LifeNext]_lifeVars /\ LifeFairness

-----------------------------------------------------------------------------
(* Properties *)

LifeTypeOK ==
  /\ state \in 0..5 /\ work \in 0..MaxWork
  /\ live \subseteq {"watchdog", "report", "latency", "data", "diag", "io"}
  /\ turn \in {"none", "main", "code", "tick", "reject"}
  /\ ran <= asks

\* The process that is cloned is alone: no thread and no channel of the agent
\* is alive when WarmFork waits, whatever the seed's script has started.
ForkAlone == pc = "fork" => live = {} /\ turn = "none"

\* The seed was cloned before its script was prepared, because its loop ran
\* out; the child may then still set kForkPrepared.
ForkedUnprepared == /\ mode = "seed-userland" /\ forked # NotForked
                    /\ forked < kForkPrepared

\* The process aborts only if the main script throws and a listener handles
\* it, if a userland seed was started from a snapshot, whose child sets the
\* state kDeserialized again, or if the seed was cloned unprepared
\* (CHECK(worker_state < val) in SetWorkerState, ToChecked in Start).
AbortExplained ==
  pc = "aborted" => \/ turn = "main"
                    \/ mode = "seed-userland" /\ opts.snapshot /\ state >= kDeserialized
                    \/ ForkedUnprepared

\* A worker that ends by itself has served every callback: uv_stop, meant for
\* the seed's loop, never stops the loop of a worker whose seed was prepared
\* ("avoid propagating the stopping flag to the next run", SetWorkerState).
EndsWhenIdle == code = 0 => work = 0 \/ ForkedUnprepared

\* What the user is told of a promise makes sense: "rejectionhandled" only
\* ever follows "unhandledrejection", each comes once, and a rejection that
\* was handled before the turn's rejections were processed is not reported
\* (emitPromiseRejection, processUnhandledRejection).
RejectionsMakeSense ==
  \A p \in Promises :
    /\ told[p] \in {<<>>, <<"unhandledrejection">>, <<"unhandledrejection", "rejectionhandled">>}
    /\ promise[p] = "handled" /\ told[p] = <<>> =>
         ~\E i \in DOMAIN events : events[i][1] = p /\ events[i][2] = "unhandledrejection"

\* A rejection that stays without handler is reported: it cannot be left
\* behind at the end of a turn, of the seed's life or of the process.
NoneLeftBehind ==
  turn = "none" /\ ~Over =>
    \A p \in Promises : promise[p] = "rejected" => told[p] = <<"unhandledrejection">>

\* The process that is cloned is alone, and every abort and end of a worker has
\* one of the reasons above (WarmFork, SetWorkerState, ToChecked in Start).
LifeExplained == ForkAlone /\ AbortExplained /\ EndsWhenIdle

\* What the user is told of a promise makes sense, and a rejection that stays
\* without handler is reported by the end of its turn (emitPromiseRejection,
\* processUnhandledRejection).
RejectionsReported == RejectionsMakeSense /\ NoneLeftBehind

\* No interrupt is waiting.
AllRun == asks = ran \/ Over \/ pc = "destroy"

\* Interrupts of the diagnostic channel are run, also when the seed is cloned
\* in between (interrupt_requests_ is kept).
InterruptsRun == []<>AllRun
=============================================================================
