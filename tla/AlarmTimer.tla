----------------------------- MODULE AlarmTimer -----------------------------
(***************************************************************************)
(* The timeouts of script executions: a set of timers ordered by expiry,   *)
(* one interval timer of the process armed for the first of them, and the  *)
(* SIGALRM handler that fires what is due.  Executions nest; each has a    *)
(* timer whose context is on its stack frame.  The steps of one call take  *)
(* no time; a call that blocks the signal is one step.                     *)
(***************************************************************************)
EXTENDS Integers, Sequences

CONSTANTS Limits,      \* what an execution may ask for, in ticks
          Micro,       \* ticks of the clock in a microsecond
          MaxLate,     \* ticks the kernel may deliver an alarm late
          MaxFrames,   \* bound on nested executions
          MaxId,       \* bound on the timers created
          MaxHrtime    \* bound on the clock

ASSUME AlarmConstants ==
  /\ Limits \subseteq Nat /\ Micro \in Nat \ {0}
  /\ MaxLate \in Nat /\ MaxFrames \in Nat /\ MaxId \in Nat /\ MaxHrtime \in Nat

Disarmed == -1

VARIABLES
  hrtime,    \* uv_hrtime
  _set,      \* AlarmTimerLathe::_set, from begin to end
  nextId,    \* _next_sequence
  itimer,    \* when ITIMER_REAL expires, or Disarmed
  raised,    \* SIGALRM was generated and not delivered
  frames,    \* the executions on the stack, the innermost first
  rounded,   \* SetNextITimer last asked for zero time
  triggers   \* how often each timer's handler ran

alarmVars == <<hrtime, _set, nextId, itimer, raised, frames, rounded, triggers>>

AlarmInit ==
  /\ hrtime = 0 /\ _set = <<>> /\ nextId = 0 /\ itimer = Disarmed /\ raised = FALSE
  /\ frames = <<>> /\ rounded = FALSE
  /\ triggers = [i \in 0 .. MaxId - 1 |-> 0]

\* AlarmTimerCompare, which is no ordering: two timers may each come before
\* the other.
AlarmTimerCompare(a, b) == a.trigger < b.trigger \/ a.id < b.id

\* The first of the positions P of s, or the one after its end.
First(P, s) == CHOOSE i \in P \cup {Len(s) + 1} : \A j \in P \cup {Len(s) + 1} : i <= j

\* std::set::insert of a timer: it goes before the first element that it
\* compares less than.
Insert(timer, s) ==
  LET at == First({i \in DOMAIN s : AlarmTimerCompare(timer, s[i])}, s)
  IN  SubSeq(s, 1, at - 1) \o <<timer>> \o SubSeq(s, at, Len(s))

\* SetNextITimer: whole microseconds; zero of them disarms.
SetNextITimer(trigger) ==
  LET micros == IF trigger >= hrtime THEN (trigger - hrtime) \div Micro ELSE 1
  IN  /\ itimer' = IF micros = 0 THEN Disarmed ELSE hrtime + micros * Micro
      /\ rounded' = (micros = 0)

\* What create_timer keeps: the timed-out timers at the front are deleted.
DropTimeouted(s) ==
  SubSeq(s, First({i \in DOMAIN s : ~s[i].timeouted}, s), Len(s))

\* DoExecute up to the script's run: create_timer, with the signal blocked.
Execute(timeout) ==
  /\ nextId < MaxId /\ Len(frames) < MaxFrames
  /\ LET timer == [id |-> nextId, trigger |-> hrtime + timeout, timeouted |-> FALSE]
     IN  _set' = Insert(timer, DropTimeouted(_set))
  /\ SetNextITimer(_set'[1].trigger)
  /\ frames' = <<[id |-> nextId, timeout |-> FALSE, pc |-> "run"]>> \o frames
  /\ nextId' = nextId + 1
  /\ UNCHANGED <<hrtime, raised, triggers>>

\* Mutant: an execution that was not timed out leaves its timer.
RunReturnsNoClose ==
  /\ frames # <<>> /\ frames[1].pc = "run"
  /\ frames' = Tail(frames)
  /\ UNCHANGED <<hrtime, _set, nextId, itimer, raised, rounded, triggers>>

\* The script returns or is terminated; DoExecute reads timeout_context.  A
\* timed-out timer stays in the set.
RunReturns ==
  /\ frames # <<>> /\ frames[1].pc = "run"
  /\ IF frames[1].timeout
       THEN frames' = Tail(frames)
       ELSE frames' = [frames EXCEPT ![1].pc = "close"]
  /\ UNCHANGED <<hrtime, _set, nextId, itimer, raised, rounded, triggers>>

\* The set without the first timer of that id.
Erase(s, id) ==
  LET at == First({i \in DOMAIN s : s[i].id = id}, s)
  IN  SubSeq(s, 1, at - 1) \o SubSeq(s, at + 1, Len(s))

\* AlarmTimerLathe::close, with the signal blocked, and DoExecute's return.
CloseTimer ==
  /\ frames # <<>> /\ frames[1].pc = "close"
  /\ _set' = Erase(_set, frames[1].id)
  /\ IF _set' = <<>> THEN itimer' = Disarmed /\ rounded' = FALSE
                     ELSE SetNextITimer(_set'[1].trigger)
  /\ frames' = Tail(frames)
  /\ UNCHANGED <<hrtime, nextId, raised, triggers>>

\* The interval timer expires.
Expire ==
  /\ itimer # Disarmed /\ hrtime >= itimer
  /\ itimer' = Disarmed /\ raised' = TRUE
  /\ UNCHANGED <<hrtime, _set, nextId, frames, rounded, triggers>>

\* The timers of the first due elements whose handlers run.
Handled(due) == {_set[i].id : i \in {j \in 1 .. due : ~_set[j].timeouted}}

\* DispatchSignal, on the main thread between two of its steps, and
\* DoExecuteTimeoutHandler for each timer that fires.
DispatchSignal ==
  /\ raised /\ raised' = FALSE
  /\ LET next == First({i \in DOMAIN _set : _set[i].trigger > hrtime}, _set)
         due == next - 1
     IN  /\ IF next > Len(_set) THEN UNCHANGED <<itimer, rounded>>
                                ELSE SetNextITimer(_set[next].trigger)
         /\ _set' = [i \in DOMAIN _set |-> IF i <= due THEN [_set[i] EXCEPT !.timeouted = TRUE]
                                                        ELSE _set[i]]
         /\ frames' = [f \in DOMAIN frames |->
              IF frames[f].id \in Handled(due) THEN [frames[f] EXCEPT !.timeout = TRUE]
                                               ELSE frames[f]]
         /\ triggers' = [i \in DOMAIN triggers |->
              triggers[i] + IF i \in Handled(due) THEN 1 ELSE 0]
  /\ UNCHANGED <<hrtime, nextId>>

\* Time passes: no signal waits, and an alarm is at most MaxLate late.
Elapse ==
  /\ hrtime < MaxHrtime /\ ~raised
  /\ itimer # Disarmed => hrtime < itimer + MaxLate
  /\ hrtime' = hrtime + 1
  /\ UNCHANGED <<_set, nextId, itimer, raised, frames, rounded, triggers>>

AlarmNext ==
  \/ \E t \in Limits : Execute(t)
  \/ RunReturns \/ CloseTimer
  \/ Expire \/ DispatchSignal \/ Elapse

AlarmSpec == AlarmInit /\ [][AlarmNext]_alarmVars
-----------------------------------------------------------------------------

\* _set is in the order of expiry, equal expiries in the order of creation:
\* AlarmTimerCompare is no ordering, and the set is in order because
\* create_timer never inserts an identifier below those it holds.
InExpiryOrder ==
  \A i, j \in DOMAIN _set : i < j =>
    _set[i].trigger < _set[j].trigger
      \/ (_set[i].trigger = _set[j].trigger /\ _set[i].id < _set[j].id)

\* A timer whose handler may still run belongs to an execution on the stack:
\* the context that DispatchSignal hands to the handler lives on that frame,
\* and DoExecute leaves timed-out timers behind in the set.
ContextAlive ==
  \A i \in DOMAIN _set : ~_set[i].timeouted =>
    \E f \in DOMAIN frames : frames[f].id = _set[i].id

\* A handler runs at most once, and an execution finds timeout_context set if
\* and only if its timer's handler ran.
TriggerOnce ==
  /\ \A i \in DOMAIN triggers : triggers[i] <= 1
  /\ \A f \in DOMAIN frames : frames[f].timeout <=> triggers[frames[f].id] = 1

\* While a timer waits, the interval timer is armed for it or for something
\* earlier, or the signal is on its way, unless SetNextITimer rounded to zero.
ArmedInTime ==
  \A i \in DOMAIN _set : ~_set[i].timeouted /\ ~rounded =>
    \/ raised
    \/ itimer # Disarmed /\ itimer <= (IF _set[i].trigger > hrtime THEN _set[i].trigger ELSE hrtime) + Micro

\* Time limits expire in order and within their bound, each triggers once, and a
\* limit that fires finds the context it belongs to (AlarmTimer, DoExecute).
AlarmsKept == InExpiryOrder /\ ContextAlive /\ TriggerOnce /\ ArmedInTime
=============================================================================
