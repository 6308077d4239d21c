------------------------------ MODULE Watchdog ------------------------------
(***************************************************************************)
(* The watchdog thread: an event loop beside the main thread that the      *)
(* diagnostics channel, the inspector, the report signal and the latency   *)
(* watchdog register entries with.  The main thread registers entries,     *)
(* starts the thread, registers more, and joins it; it sleeps on a         *)
(* condition variable, without a predicate, until its entries have begun.  *)
(***************************************************************************)
EXTENDS Naturals, FiniteSets

CONSTANTS Entries,    \* what is registered
          Lingering   \* entries whose handles outlive ThreadAtExit for a while

ASSUME WatchdogAssumption == Lingering \subseteq Entries

VARIABLES
  registered,  \* entries RegisterEntry was called for
  pending,     \* pending_entries_
  begun,       \* started_entries_, and how often ThreadEntry ran
  started,     \* started_
  thread,      \* "none", "init", "loop", "stopping", "done"
  handles,     \* entries with open handles in the thread's loop
  main,        \* "runs", "starting", "registering", "joining", "gone"
  notified,    \* thread_start_condition_ was notified since main sleeps
  startAsync, stopAsync  \* signalled

watchdogVars == <<registered, pending, begun, started, thread, handles, main, notified,
                  startAsync, stopAsync>>

WatchdogInit ==
  /\ registered = {} /\ pending = {} /\ begun = [e \in Entries |-> 0]
  /\ started = FALSE /\ thread = "none" /\ handles = {}
  /\ main = "runs" /\ notified = FALSE /\ startAsync = FALSE /\ stopAsync = FALSE

\* Mutant: the thread is told, and nobody waits for it.
RegisterEntryNoWait(e) ==
  /\ main = "runs" /\ e \notin registered
  /\ registered' = registered \cup {e}
  /\ pending' = pending \cup {e}
  /\ startAsync' = (startAsync \/ started)
  /\ UNCHANGED <<begun, started, thread, handles, main, notified, stopAsync>>

\* Mutant: the wait comes without the signal.
RegisterEntryNoSignal(e) ==
  /\ main = "runs" /\ e \notin registered
  /\ registered' = registered \cup {e}
  /\ pending' = pending \cup {e}
  /\ IF started THEN main' = "registering" /\ notified' = FALSE
                ELSE UNCHANGED <<main, notified>>
  /\ UNCHANGED <<begun, started, thread, handles, startAsync, stopAsync>>

\* RegisterEntry, and its wait once the thread runs: the lock is released by
\* the wait only.
RegisterEntry(e) ==
  /\ main = "runs" /\ e \notin registered
  /\ registered' = registered \cup {e}
  /\ pending' = pending \cup {e}
  /\ IF started THEN startAsync' = TRUE /\ main' = "registering" /\ notified' = FALSE
                ELSE UNCHANGED <<startAsync, main, notified>>
  /\ UNCHANGED <<begun, started, thread, handles, stopAsync>>

StartIfNeeded ==
  /\ main = "runs" /\ ~started /\ pending # {}
  /\ thread' = "init" /\ main' = "starting" /\ notified' = FALSE
  /\ UNCHANGED <<registered, pending, begun, started, handles, startAsync, stopAsync>>

\* The sleeper returns from its wait.
Wakes ==
  /\ main \in {"starting", "registering"} /\ notified
  /\ main' = "runs" /\ notified' = FALSE
  /\ started' = TRUE
  /\ UNCHANGED <<registered, pending, begun, thread, handles, startAsync, stopAsync>>

\* ThreadEntry of every pending entry, then notify_all.
Begin ==
  /\ begun' = [e \in Entries |-> IF e \in pending THEN begun[e] + 1 ELSE begun[e]]
  /\ handles' = handles \cup pending
  /\ pending' = {}
  /\ notified' = (main \in {"starting", "registering"})

ThreadMain ==
  /\ thread = "init"
  /\ Begin
  /\ thread' = "loop"
  /\ UNCHANGED <<registered, started, main, startAsync, stopAsync>>

StartRequest ==
  /\ thread = "loop" /\ startAsync
  /\ Begin
  /\ startAsync' = FALSE
  /\ UNCHANGED <<registered, started, thread, main, stopAsync>>

\* The destructor signals the thread and joins it.
Destroy ==
  /\ main = "runs"
  /\ IF started THEN stopAsync' = TRUE /\ main' = "joining"
                ELSE UNCHANGED stopAsync /\ main' = "gone"
  /\ UNCHANGED <<registered, pending, begun, started, thread, handles, notified, startAsync>>

\* StopRequest: ThreadAtExit of every entry; the asyncs are closed.
StopRequest ==
  /\ thread = "loop" /\ stopAsync
  /\ thread' = "stopping" /\ stopAsync' = FALSE
  /\ handles' = handles \cap Lingering
  /\ UNCHANGED <<registered, pending, begun, started, main, notified, startAsync>>

\* The kill message of the inspector's queue, or a request's timeout.
LastHandle(e) ==
  /\ thread = "stopping" /\ e \in handles \cap Lingering
  /\ handles' = handles \ {e}
  /\ UNCHANGED <<registered, pending, begun, started, thread, main, notified, startAsync,
                 stopAsync>>

\* uv_run returns when no handle is left.
ThreadEnds ==
  /\ thread = "stopping" /\ handles = {}
  /\ thread' = "done"
  /\ UNCHANGED <<registered, pending, begun, started, handles, main, notified, startAsync,
                 stopAsync>>

Joined ==
  /\ main = "joining" /\ thread = "done"
  /\ main' = "gone" /\ started' = FALSE
  /\ UNCHANGED <<registered, pending, begun, thread, handles, notified, startAsync, stopAsync>>

ThreadStep == \/ ThreadMain \/ StartRequest \/ StopRequest \/ ThreadEnds
              \/ \E e \in Entries : LastHandle(e)

WatchdogNext == \/ \E e \in Entries : RegisterEntry(e)
                \/ StartIfNeeded \/ Wakes \/ Destroy \/ Joined
                \/ ThreadStep

WatchdogSpec == WatchdogInit /\ [][WatchdogNext]_watchdogVars

-----------------------------------------------------------------------------
(* Properties *)

\* Types of the watchdog's members; the loop is closed with no handle open, as
\* CheckedUvLoopClose demands.
WatchdogTypeOK ==
  /\ registered \subseteq Entries /\ pending \subseteq registered /\ handles \subseteq registered
  /\ begun \in [Entries -> Nat]
  /\ started \in BOOLEAN /\ notified \in BOOLEAN
  /\ startAsync \in BOOLEAN /\ stopAsync \in BOOLEAN
  /\ thread \in {"none", "init", "loop", "stopping", "done"}
  /\ main \in {"runs", "starting", "registering", "joining", "gone"}
  /\ thread \in {"none", "init", "done"} => handles = {}

\* When RegisterEntry and StartIfNeeded return on a started watchdog, every
\* entry has begun on the thread: InspectorIo uses its queue without a check.
EntriesReady == main = "runs" /\ started => \A e \in registered : begun[e] = 1

\* No entry begins twice, and none that has begun is still pending.
BegunOnce == \A e \in Entries : begun[e] = IF e \in registered \ pending THEN 1 ELSE 0

\* A caller of RegisterEntry or StartIfNeeded finds its entries begun, and each
\* of them begins once, whichever of ThreadMain and StartRequest takes it.
EntriesBegun == EntriesReady /\ BegunOnce

Awake == main \in {"runs", "gone"}

\* The main thread does not sleep for ever, whether it starts the thread,
\* registers an entry or joins.
SleepEnds == []<>Awake
=============================================================================
