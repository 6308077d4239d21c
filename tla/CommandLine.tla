---------------------------- MODULE CommandLine ----------------------------
(***************************************************************************)
(* The command line: what main makes of its arguments, the parser of one   *)
(* argument vector (src/command_parser.cc) and the group of parsers a      *)
(* warm-forked child extends with its own arguments                        *)
(* (src/command_parser_group.h).  An argument is a record of the option it *)
(* names and the value it gives; option "v8" stands for every V8 flag.     *)
(***************************************************************************)
EXTENDS Naturals, Sequences, SequencesExt, FiniteSets

CONSTANTS
  Args,      \* the arguments tried
  MaxArgs    \* how many of them a command line has at most

VARIABLES
  argv,      \* the arguments of the process, without argv[0]
  group,     \* CommandlineParserGroup::_group
  stage,     \* how far main, or the child after WarmFork, has come
  exit       \* the exit code, -1 before

cliVars == <<argv, group, stage, exit>>

Lits == {"help", "version", "v8_options", "threaded_platform", "dump_arguments",
         "enable_trace_event"}
Strings == {"mode", "trace_event_categories", "script_filename"}
FileArgs == {"snapshot_blob"}
Options == Lits \cup Strings \cup FileArgs
Default(opt) == IF opt = "mode" THEN "normal" ELSE ""
CommandLines == BoundedSeq(Args, MaxArgs)

CliInit == /\ argv \in CommandLines
           /\ group = << >>
           /\ stage = "started" /\ exit = -1

-----------------------------------------------------------------------------
\* main: every --help is taken out before V8 looks at the arguments, and one
\* is put back at the end.  The loop moves each argument down by the number
\* of --help before it.
IsHelp(a) == a.option = "help"
HelpsBefore(args, i) == Cardinality({j \in 1..(i - 1) : IsHelp(args[j])})
Compacted(args) ==
  LET kept == {i \in 1..Len(args) : ~IsHelp(args[i])}
  IN  [k \in 1..Cardinality(kept) |->
         args[CHOOSE i \in kept : i - HelpsBefore(args, i) = k]]

SetFlags(args) == SelectSeq(args, LAMBDA a : a.option # "v8")

InitializeOncePerProcess(args) ==
  LET helps == {i \in 1..Len(args) : IsHelp(args[i])}
  IN  SetFlags(Compacted(args)) \o (IF helps = {} THEN << >> ELSE <<args[Min(helps)]>>)

\* SetupParser: every option may be given at most once and strings have a
\* default.  arg_parse counts an unknown option, and a second use, as errors.
SetupParser == [opt \in Options |-> [count |-> 0, value |-> Default(opt)]]

ArgParse(args) ==
  LET At(opt) == {i \in 1..Len(args) : args[i].option = opt}
  IN  [opt |-> [opt \in Options |->
                  IF At(opt) = {} THEN SetupParser[opt]
                  ELSE [count |-> 1, value |-> args[Min(At(opt))].value]],
       nerrors |-> Cardinality({i \in 1..Len(args) :
                                  \/ args[i].option \notin Options
                                  \/ \E j \in At(args[i].option) : j < i})]

NoPath == [name |-> "", absolute |-> FALSE]
NewParser(name, args) ==
  [name |-> name, nerrors |-> ArgParse(args).nerrors, opt |-> ArgParse(args).opt,
   path |-> [opt \in FileArgs |-> NoPath]]

PushCommandlineParser(g, name, args, full) ==
  Append(IF full THEN << >> ELSE g, NewParser(name, args))

\* The accessors of one parser.
Given(p, opt) == p.opt[opt].count > 0
Mode(p) == p.opt["mode"].value

-----------------------------------------------------------------------------
\* Evaluate, as far as it ends the process: -1 means it goes on.
EvaluateExit(p) ==
  CASE p.nerrors > 0 -> 4
    [] p.nerrors = 0 /\ Given(p, "help") -> 0
    [] p.nerrors = 0 /\ ~Given(p, "help") /\ Mode(p) # "normal"
         /\ Given(p, "threaded_platform") -> 4
    [] p.nerrors = 0 /\ ~Given(p, "help")
         /\ ~(Mode(p) # "normal" /\ Given(p, "threaded_platform"))
         /\ Mode(p) \notin {"normal", "seed", "seed-userland"} -> 4
    [] OTHER -> IF Given(p, "dump_arguments") THEN 0 ELSE -1

\* cwk_path_get_absolute
Absolute(path) == [name |-> path, absolute |-> TRUE]

\* Evaluate, as far as it changes the parser: file names become absolute and
\* an option raises the ones it implies.
Implies == {<<"trace_event_categories", "enable_trace_event">>}
Evaluate(p) ==
  [p EXCEPT
     !.path = [opt \in FileArgs |-> IF p.opt[opt].value = "" THEN @[opt]
                                    ELSE Absolute(p.opt[opt].value)],
     !.opt = [opt \in Options |->
                IF \E i \in Implies : i[2] = opt /\ Given(p, i[1])
                THEN [@[opt] EXCEPT !.count = 1] ELSE @[opt]]]

GetParser(g, name) ==
  LET found == {i \in 1..Len(g) : g[i].name = name}
  IN  IF found = {} THEN 0 ELSE Min(found)

\* Mutant: the first parser that was given the option wins.
TraverseFirst(g, opt) ==
  LET given == {i \in 1..Len(g) : Given(g[i], opt)}
  IN  IF given = {} THEN g[1] ELSE g[Min(given)]

\* TRAVERSE_RETURN: the last parser that was given the option, or the first.
Traverse(g, opt) ==
  LET given == {i \in 1..Len(g) : Given(g[i], opt)}
  IN  IF given = {} THEN g[1] ELSE g[Max(given)]
HasOption(g, opt) == Given(Traverse(g, opt), opt)
StringOption(g, opt) == Traverse(g, opt).opt[opt].value
FileOption(g, opt) == Traverse(g, opt).path[opt]

-----------------------------------------------------------------------------
Start ==
  /\ stage = "started"
  /\ argv' = InitializeOncePerProcess(argv)
  /\ group' = PushCommandlineParser(group, "$default", argv', TRUE)
  /\ IF HasOption(group', "v8_options") \/ HasOption(group', "version")
     THEN stage' = "exited" /\ exit' = 0
     ELSE stage' = "parsed" /\ UNCHANGED exit

EvaluateAt(i, next) ==
  /\ group' = IF EvaluateExit(group[i]) = -1 THEN [group EXCEPT ![i] = Evaluate(@)]
              ELSE group
  /\ exit' = EvaluateExit(group[i])
  /\ stage' = IF exit' = -1 THEN next ELSE "exited"

EvaluateDefault ==
  /\ stage = "parsed"
  /\ EvaluateAt(GetParser(group, "$default"), "running")
  /\ UNCHANGED argv

\* WarmFork: the child takes V8's flags out of its own arguments, pushes a
\* parser for them and evaluates that one only.
WarmFork(args) ==
  /\ stage = "running" /\ StringOption(group, "mode") # "normal"
  /\ argv' = SetFlags(args)
  /\ group' = PushCommandlineParser(group, "fork", argv', FALSE)
  /\ stage' = "forked"
  /\ UNCHANGED exit

EvaluateLast ==
  /\ stage = "forked"
  /\ EvaluateAt(Len(group), "child")
  /\ UNCHANGED argv

CliNext == Start \/ EvaluateDefault \/ (\E a \in CommandLines : WarmFork(a))
             \/ EvaluateLast
CliSpec == CliInit /\ [][CliNext]_cliVars

-----------------------------------------------------------------------------
CliTypeOK ==
  /\ stage \in {"started", "parsed", "running", "forked", "child", "exited"}
  /\ exit \in {-1, 0, 4}
  /\ \A i \in 1..Len(group) : /\ group[i].name \in {"$default", "fork"}
                              /\ DOMAIN group[i].opt = Options

\* A process that goes on past its command line sees one consistent set of
\* options: what a forked child was given wins over what its seed was given,
\* an option only the seed was given is still seen, every file name is
\* absolute, and asking for trace categories has turned tracing on
\* (TRAVERSE_RETURN of command_parser_group.h over parsers evaluated one at
\* a time by command_parser.cc).
OptionsSettled ==
  stage \in {"running", "child"} =>
    /\ \A opt \in Options \ {"enable_trace_event"} :
         LET i == IF Given(group[Len(group)], opt) THEN Len(group) ELSE 1 IN
         /\ HasOption(group, opt) = \E j \in 1..Len(group) : Given(group[j], opt)
         /\ StringOption(group, opt) = group[i].opt[opt].value
    /\ \A opt \in FileArgs : FileOption(group, opt).absolute =
                              (StringOption(group, opt) # "")
    /\ HasOption(group, "trace_event_categories") => HasOption(group, "enable_trace_event")
    /\ ~(StringOption(<<group[1]>>, "mode") # "normal"
          /\ HasOption(<<group[1]>>, "threaded_platform"))

\* Setting --help aside for V8 loses no other argument and no order: the
\* parser sees what the process was started with, less V8's flags
\* (InitializeOncePerProcess in aworker.cc).
ArgumentsKept ==
  LET Others(args) == SelectSeq(args, LAMBDA a : a.option \notin {"help", "v8"})
  IN  stage = "started" => Others(InitializeOncePerProcess(argv)) = Others(argv)
=============================================================================
