------------------------------ MODULE MCScripts ------------------------------
(***************************************************************************)
(* What scripts rest on: the snapshot they start from, the command line,   *)
(* their contexts, timers and time limits, and the JSON documents that     *)
(* report on them.  The components share no state, and a behaviour is of   *)
(* one part; the variables of the others keep their initial values.        *)
(***************************************************************************)
EXTENDS Snapshot, Contexts, AlarmTimer, JsTimers

VARIABLES part,
  argv, group, stage, exit,
  which, writer, traced, open, writes,
  setting, profiler, seq, opened, begun, text, todo

Arg(o, v) == [option |-> o, value |-> v]
MCArgs == {Arg(o, "") : o \in {"help", "version", "threaded_platform", "dump_arguments", "v8",
                               "unknown", "snapshot_blob"}}
            \cup {Arg("mode", v) : v \in {"normal", "seed", "other"}}
            \cup {Arg("trace_event_categories", "c"), Arg("snapshot_blob", "f"),
                  Arg("script_filename", "s")}
Cli == INSTANCE CommandLine WITH Args <- MCArgs, MaxArgs <- 2

Writers == INSTANCE JsonWriter WITH Keys <- {"a", "b"}, MaxWrites <- 5

\* The facts a report may be given: all of them, each one missing, none, and
\* every kind of trigger, handle and profile.
Facts == {"libc", "uname", "host", "time", "cwd", "names", "rusage", "environ", "open"}
Handle(t, l, r, fd, sized) ==
  [type |-> t, local |-> l, remote |-> r, fd |-> fd, sized |-> sized]
Usual ==
  [ok |-> Facts, trigger |-> "Exception", error |-> "object", props |-> <<"stack", "code", "x">>,
   throws |-> {}, frames |-> 1, lines |-> 2, native |-> 2, spaces |-> <<"new", "old">>,
   handles |-> <<>>, environ |-> <<"A", "B">>, limits |-> <<"core", "data">>, libraries |-> 1,
   tree |-> <<<<2, 3>>, <<>>, <<4>>, <<>>>>, samples |-> 2]
MCAnswers == {[Usual EXCEPT !.ok = Facts \ {x}] : x \in Facts} \cup
  {[Usual EXCEPT !.ok = {"open"},
      !.handles = <<Handle("udp", "bare", "named", "other", TRUE),
                    Handle("async", "none", "none", "none", TRUE)>>],
   [Usual EXCEPT !.trigger = "FatalError", !.frames = 0,
      !.handles = <<Handle("tty", "none", "none", "stdio", TRUE),
                    Handle("pipe", "none", "none", "none", TRUE)>>],
   [Usual EXCEPT !.trigger = "Signal", !.frames = 2,
      !.handles = <<Handle("tcp", "none", "named", "other", TRUE),
                    Handle("timer", "none", "none", "none", FALSE)>>],
   [Usual EXCEPT !.error = "other", !.lines = 0, !.native = 0, !.libraries = 0, !.samples = 0,
      !.handles = <<Handle("fs_event", "none", "none", "none", TRUE)>>],
   [Usual EXCEPT !.lines = 1, !.props = <<>>, !.spaces = <<>>, !.environ = <<>>, !.limits = <<>>],
   [Usual EXCEPT !.throws = {"code"}, !.tree = <<<<>>>>]}
Report == INSTANCE Reports WITH
  Answers <- MCAnswers, MaxReports <- 2,
  Settings <- [filename : {"", "stdout", "r.json"}, directory : {"dir"}]

cliVars == <<argv, group, stage, exit>>
jsonVars == <<which, writer, traced, open, writes>>
reportVars == <<setting, profiler, seq, opened, begun, text, todo>>
scriptsVars == <<part, snapVars, cliVars, contextVars, alarmVars, timersVars, jsonVars, reportVars>>

ScriptsInit ==
  /\ part \in {"snapshot", "cli", "contexts", "alarms", "timers", "json", "reports"}
  /\ SnapInit /\ (part # "snapshot" => ~script)
  /\ Cli!CliInit /\ (part # "cli" => argv = <<>>)
  /\ ContextInit /\ (part # "contexts" => ~sandbox.has /\ ~global.has)
  /\ AlarmInit /\ TimersInit
  /\ Writers!JsonInit /\ (part # "json" => which = "json")
  /\ Report!ReportInit /\ (part # "reports" => setting.filename = "")

ScriptsNext ==
  \/ /\ part = "snapshot" /\ SnapNext
     /\ UNCHANGED <<part, cliVars, contextVars, alarmVars, timersVars, jsonVars, reportVars>>
  \/ /\ part = "cli" /\ Cli!CliNext
     /\ UNCHANGED <<part, snapVars, contextVars, alarmVars, timersVars, jsonVars, reportVars>>
  \/ /\ part = "contexts" /\ ContextNext
     /\ UNCHANGED <<part, snapVars, cliVars, alarmVars, timersVars, jsonVars, reportVars>>
  \/ /\ part = "alarms" /\ AlarmNext
     /\ UNCHANGED <<part, snapVars, cliVars, contextVars, timersVars, jsonVars, reportVars>>
  \/ /\ part = "timers" /\ TimersNext
     /\ UNCHANGED <<part, snapVars, cliVars, contextVars, alarmVars, jsonVars, reportVars>>
  \/ /\ part = "json" /\ Writers!JsonNext
     /\ UNCHANGED <<part, snapVars, cliVars, contextVars, alarmVars, timersVars, reportVars>>
  \/ /\ part = "reports" /\ Report!ReportNext
     /\ UNCHANGED <<part, snapVars, cliVars, contextVars, alarmVars, timersVars, jsonVars>>

ScriptsSpec == ScriptsInit /\ [][ScriptsNext]_scriptsVars

\* A worker started from a snapshot has every captured handle and wrapper back or
\* rebuilds it when asked, needs no callback that is not registered, and finds the
\* code caches the builder made; the builder gives up only for a module that does
\* not compile or an object that has no way into a snapshot (Immortal::Deserialize,
\* RunDeserializeRequests, ExternalReferenceRegistry, InitializeCachedData).
SnapshotRestores == /\ HandlesRestored /\ CallbacksRegistered /\ WrappersRebuilt
                    /\ CachesArrive /\ BuildFails

\* A process that goes on past its command line sees one consistent set of
\* options: a forked child's win over its seed's, file names are absolute, and
\* trace categories have turned tracing on; setting --help aside for V8 loses no
\* other argument (TRAVERSE_RETURN, Evaluate, InitializeOncePerProcess).
OptionsSettled == Cli!OptionsSettled /\ Cli!ArgumentsKept

\* Both JSON writers place every comma and bracket, whatever legal calls are made,
\* and a report or profile is a JSON document without a repeated name, whichever
\* calls for the facts in it fail; none overwrites another unless the command line
\* names the file (JSONWriter, TracedValue, WriteDiagReport, DiagnosticFilename).
DocumentsWellFormed ==
  Writers!WritersWellFormed /\ Report!ReportsWellFormed /\ Report!NamesUnique
=============================================================================
