------------------------------ MODULE MCWorker ------------------------------
(***************************************************************************)
(* The life of a worker process and what supervises it.  The components    *)
(* share no state, and a behaviour is of one part; the variables of the    *)
(* others keep their initial values.                                       *)
(*   "watchdog"    the four entries of a worker, the channel's and the     *)
(*                 inspector's lingering                                   *)
(*   "life"        every mode and command line, with one promise           *)
(*   "rejections"  one command line, with two promises                     *)
(*   "modules"     every graph of imports between three files, in which    *)
(*                 the main file may also import a bare specifier          *)
(***************************************************************************)
EXTENDS LoopLatency, WorkerLife, SequencesExt

CONSTANTS diag, io, report, latency
MCEntries == {diag, io, report, latency}
MCLingering == {diag, io}

VARIABLES part, graph, broken, wrap, root, jobs, abort

MCOptions == [agent : {"none", "path", "noPath"}, inspect : BOOLEAN, report : BOOLEAN,
              latency : BOOLEAN, snapshot : BOOLEAN]
Plain == [agent |-> "none", inspect |-> FALSE, report |-> FALSE, latency |-> FALSE,
          snapshot |-> FALSE]

MCFiles == {"m", "a", "b"}
Orders(S) == {SetToSeq(T) : T \in SUBSET S}
MCGraphs == {g \in [MCFiles -> Orders(MCFiles \cup {"bare"})] :
               \A f \in {"a", "b"} : "bare" \notin Range(g[f])}

Modules == INSTANCE EsModules WITH
  Files <- MCFiles, Main <- "m", Bare <- "bare", Graphs <- MCGraphs,
  Broken <- {{}, {"b"}}, Dynamic <- {"i1"}

\* Two modules that share an import whose own imports are still being linked, and
\* two import() of one file.
MCDeep == {"m", "a", "b", "c", "d", "e"}
MCShared == {[f \in MCDeep |-> CASE f = "m" -> s [] f \in {"a", "b"} -> <<"c">>
                                 [] f = "c" -> <<"d">> [] f = "d" -> <<"e">> [] OTHER -> <<>>] :
               s \in {<<>>, <<"a">>, <<"a", "b">>}}
Sharing == INSTANCE EsModules WITH
  Files <- MCDeep, Main <- "m", Bare <- "bare", Graphs <- MCShared,
  Broken <- {{}, {"e"}}, Dynamic <- {"i1", "i2"}

esmVars == <<graph, broken, wrap, root, jobs, abort>>
workerVars == <<part, latencyVars, lifeVars, esmVars>>

\* The second promise is for the rejections.
OnePromise == promise["q"] = "open"

WorkerInit ==
  /\ part \in {"watchdog", "life", "rejections", "modules", "sharing"}
  /\ LatencyInit
  /\ part # "watchdog" => ~idle
  /\ LifeInit
  /\ part = "rejections" => mode \in {"normal", "seed-userland"} /\ opts = Plain
  /\ part \notin {"life", "rejections"} => mode = "normal" /\ opts = Plain
  /\ IF part = "sharing" THEN Sharing!EsmInit ELSE Modules!EsmInit
  /\ part \notin {"modules", "sharing"} => broken = {} /\ \A f \in MCFiles : graph[f] = <<>>

WorkerNext ==
  \/ part = "watchdog" /\ LatencyNext /\ UNCHANGED <<part, lifeVars, esmVars>>
  \/ part = "life" /\ LifeNext /\ OnePromise' /\ UNCHANGED <<part, latencyVars, esmVars>>
  \/ part = "rejections" /\ LifeNext /\ UNCHANGED <<part, latencyVars, esmVars>>
  \/ part = "modules" /\ Modules!EsmNext /\ UNCHANGED <<part, latencyVars, lifeVars>>
  \/ part = "sharing" /\ Sharing!EsmNext /\ UNCHANGED <<part, latencyVars, lifeVars>>

\* The fairness of each part's module, for the part the behaviour is of.
Of(p, A) == part = p /\ A

WorkerSpec ==
  /\ WorkerInit /\ [][WorkerNext]_workerVars
  /\ WF_latencyVars(Of("watchdog", ThreadServes))
  /\ WF_latencyVars(Of("watchdog", FatalTimerCallback))
  /\ WF_latencyVars(Of("watchdog", (Wakes \/ Joined) /\ UNCHANGED <<callbackVars, timerVars>>))
  /\ WF_lifeVars(Of("life", LifeStep) \/ Of("rejections", LifeStep))
  /\ WF_lifeVars(Of("life", ExhaustInterruptRequests) \/ Of("rejections", ExhaustInterruptRequests))
  /\ WF_esmVars(Of("modules", Modules!Microtask) \/ Of("sharing", Sharing!Microtask))
  /\ WF_esmVars(\/ Of("modules", Modules!Import("runMain", "m"))
                \/ Of("sharing", Sharing!Import("runMain", "m")))

\* An instantiated module is whole, and a check of ResolveCallback or of module
\* evaluation fails only in a program where two importers name one file
\* (ModuleWrap::Instantiate, ResolveCallback).
ModulesWhole == IF part = "sharing"
                THEN Sharing!InstantiatedWhole /\ Sharing!AbortsShared
                ELSE Modules!InstantiatedWhole /\ Modules!AbortsShared

\* The main thread does not sleep for ever in the watchdog, interrupts are run,
\* and the main module is evaluated or its loading reported as failed
\* (StartIfNeeded, RegisterEntry, ExhaustInterruptRequests, runMain).
WorkerGoesOn == []<>(/\ Awake /\ AllRun
                     /\ part \in {"modules", "sharing"} => Modules!MainSettled)
=============================================================================
