------------------------------ MODULE Reports ------------------------------
(***************************************************************************)
(* Diagnostic reports and CPU profiles (src/diag_report.cc,                *)
(* src/diag_report_utils.cc, src/aworker_profiler.cc): where each goes and *)
(* the JSON it holds.  What the operating system and V8 answer is the      *)
(* record e; values are left out, member names are kept.                   *)
(***************************************************************************)
EXTENDS JsonText

CONSTANTS
  Answers,    \* what the system and V8 may answer when a report is written
  Settings,   \* the report options of the command line
  MaxReports  \* how many reports and profiles are written

VARIABLES
  setting,    \* [filename, directory]
  profiler,   \* is the CPU profiler running?
  seq,        \* DiagnosticFilename::seq
  opened,     \* opened[name]: how often a file was opened for writing
  begun,      \* reports and profiles begun
  text,       \* the writer of the last report or profile
  todo        \* the calls still to be made for it

reportVars == <<setting, profiler, seq, opened, begun, text, todo>>

\* A call of the writer, and what it does.
Call(op, key) == [op |-> op, key |-> key]
KeyValues(keys) == [i \in 1..Len(keys) |-> Call("keyvalue", keys[i])]
Elements(n) == [i \in 1..n |-> Call("element", NoName)]
Begin == <<Call("start", NoName)>>
End == <<Call("end", NoName)>>
Object(key) == <<Call("objectstart", key)>>
ObjectEnd == <<Call("objectend", NoName)>>
Array(key) == <<Call("arraystart", key)>>
ArrayEnd == <<Call("arrayend", NoName)>>

Called(w, c) ==
  CASE c.op = "start" -> json_start(w)
    [] c.op = "end" -> json_end(w)
    [] c.op = "objectstart" -> json_objectstart(w, c.key)
    [] c.op = "objectend" -> json_objectend(w)
    [] c.op = "arraystart" -> json_arraystart(w, c.key)
    [] c.op = "arrayend" -> json_arrayend(w)
    [] c.op = "keyvalue" -> json_keyvalue(w, c.key)
    [] c.op = "element" -> json_element(w)

If(cond, calls) == IF cond THEN calls ELSE << >>
Each(Op(_), s) == FlattenSeq([i \in DOMAIN s |-> Op(s[i])])

-----------------------------------------------------------------------------
\* The calls each part of a report makes, given the answers e.
PrintComponentVersions ==
  Object("componentVersions") \o KeyValues(<<"aworker", "v8", "uv">>) \o ObjectEnd

PrintVersionInformation(e) ==
  KeyValues(<<"aworkerVersion">>)
  \o If("libc" \in e.ok, KeyValues(<<"glibcVersionRuntime">>))
  \o KeyValues(<<"glibcVersionCompiler", "wordSize", "arch", "platform">>)
  \o PrintComponentVersions
  \o If("uname" \in e.ok, KeyValues(<<"osName", "osRelease", "osVersion", "osMachine">>))
  \o If("host" \in e.ok, KeyValues(<<"host">>))

\* The own properties of the error, less the ones printed elsewhere; a key
\* that is no string or a value that throws is passed over.
PrintJavaScriptErrorProperties(e) ==
  LET printed == SelectSeq(e.props, LAMBDA k : k \notin {"stack", "message"} \cup e.throws)
  IN  Object("errorProperties")
      \o If(e.error = "object" /\ "names" \in e.ok, KeyValues(printed)) \o ObjectEnd

PrintJavaScriptErrorStackNoEval(e) ==
  KeyValues(<<"message">>) \o Array("stack")
  \o Elements(IF e.frames = 0 THEN 1 ELSE e.frames) \o ArrayEnd

\* e.lines is how many line breaks the stack string has: the loop prints the
\* text before each break, so what follows the last one is not printed.
PrintJavaScriptErrorStack(e) ==
  IF e.trigger \in {"FatalError", "Signal"} THEN PrintJavaScriptErrorStackNoEval(e)
  ELSE KeyValues(<<"message">>)
       \o If(e.lines > 0, Array("stack") \o Elements(e.lines - 1) \o ArrayEnd)

PrintNativeStack(e) ==
  LET Frame(i) == Begin \o KeyValues(<<"pc", "symbol">>) \o End
  IN  Array("nativeStack") \o Each(Frame, [i \in 1..e.native |-> i]) \o ArrayEnd

PrintGCStatistics(e) ==
  LET Space(name) ==
        Object(name) \o KeyValues(<<"memorySize", "committedMemory", "capacity", "used",
                                    "available">>) \o ObjectEnd
  IN  Object("javascriptHeap")
      \o KeyValues(<<"totalMemory", "totalCommittedMemory", "usedMemory",
                     "availableMemory", "memoryLimit">>)
      \o Object("heapSpaces") \o Each(Space, e.spaces) \o ObjectEnd \o ObjectEnd

-----------------------------------------------------------------------------
\* ReportEndpoint: no address, an address with or without a host name.
ReportEndpoint(name, addr) ==
  IF addr = "none" THEN KeyValues(<<name>>)
  ELSE Object(name) \o If(addr = "named", KeyValues(<<"host">>)) \o KeyValues(<<"port">>)
       \o ObjectEnd

ReportEndpoints(h) ==
  ReportEndpoint("localEndpoint", h.local) \o ReportEndpoint("remoteEndpoint", h.remote)

\* Either a name or null, whether or not the second call for it succeeds.
ReportPipeEndpoints == KeyValues(<<"localEndpoint", "remoteEndpoint">>)
ReportPath == KeyValues(<<"filename">>)

WalkHandle(h) ==
  Begin \o KeyValues(<<"type", "is_active", "is_referenced", "address">>)
  \o (CASE h.type \in {"fs_event", "fs_poll"} -> ReportPath
        [] h.type \in {"tcp", "udp"} -> ReportEndpoints(h)
        [] h.type = "pipe" -> ReportPipeEndpoints
        [] h.type = "timer" -> KeyValues(<<"repeat", "firesInMsFromNow", "expired">>)
        [] h.type = "tty" -> If(h.sized, KeyValues(<<"width", "height">>))
        [] OTHER -> << >>)
  \o If(h.type \in {"tcp", "udp", "pipe"}, KeyValues(<<"sendBufferSize", "recvBufferSize">>))
  \o If(h.type \in {"tcp", "pipe", "tty", "udp", "poll"} /\ h.fd # "none",
        KeyValues(<<"fd">>) \o If(h.fd = "stdio", KeyValues(<<"stdio">>)))
  \o If(h.type \in {"tcp", "pipe", "tty"},
        KeyValues(<<"writeQueueSize", "readable", "writable">>))
  \o End

PrintUvLoopResources(e) ==
  Array("libuv") \o Each(WalkHandle, e.handles)
  \o Begin \o KeyValues(<<"type", "is_active", "address">>) \o End \o ArrayEnd

PrintResourceUsage(e) ==
  Object("resourceUsage")
  \o If("rusage" \in e.ok,
        KeyValues(<<"userCpuSeconds", "kernelCpuSeconds", "cpuConsumptionPercent", "maxRss">>)
        \o Object("pageFaults") \o KeyValues(<<"IORequired", "IONotRequired">>) \o ObjectEnd
        \o Object("fsActivity") \o KeyValues(<<"reads", "writes">>) \o ObjectEnd)
  \o ObjectEnd

PrintLoadedLibraries(e) == Array("sharedObjects") \o Elements(e.libraries) \o ArrayEnd

PrintSystemInformation(e) ==
  LET Limit(name) == Object(name) \o KeyValues(<<"soft", "hard">>) \o ObjectEnd
  IN  Object("environmentVariables") \o If("environ" \in e.ok, KeyValues(e.environ))
      \o ObjectEnd
      \o Object("userLimits") \o Each(Limit, e.limits) \o ObjectEnd
      \o PrintLoadedLibraries(e)

-----------------------------------------------------------------------------
\* WriteDiagReport: the header, then the sections.
WriteHeader(e) ==
  Begin \o Object("header")
  \o KeyValues(<<"reportVersion", "event", "trigger", "filename", "dumpEventTime">>)
  \o If("time" \in e.ok, KeyValues(<<"dumpEventTimeStamp">>))
  \o KeyValues(<<"processId">>)
  \o If("cwd" \in e.ok, KeyValues(<<"cwd">>))
  \o PrintVersionInformation(e) \o ObjectEnd

WriteDiagReport(e) ==
  WriteHeader(e)
  \o Object("javascriptStack") \o PrintJavaScriptErrorStack(e)
  \o PrintJavaScriptErrorProperties(e) \o ObjectEnd
  \o PrintNativeStack(e) \o PrintGCStatistics(e) \o PrintUvLoopResources(e)
  \o PrintResourceUsage(e) \o PrintSystemInformation(e) \o ObjectEnd

-----------------------------------------------------------------------------
\* The profile's nodes are numbered; e.tree[n] are the children of node n.
RECURSIVE SerializeNode(_, _)
SerializeNode(tree, n) ==
  Begin \o KeyValues(<<"id", "hitCount">>)
  \o Object("callFrame")
  \o KeyValues(<<"functionName", "scriptId", "bailoutReason", "url", "lineNumber",
                 "columnNumber">>) \o ObjectEnd
  \o Array("children") \o Elements(Len(tree[n])) \o ArrayEnd
  \o End \o Each(LAMBDA child : SerializeNode(tree, child), tree[n])

\* The document is closed with json_end, so no line break follows it.
Serialize(e) ==
  Begin \o KeyValues(<<"typeId", "title">>)
  \o Array("nodes") \o SerializeNode(e.tree, 1) \o ArrayEnd
  \o KeyValues(<<"startTime", "endTime">>)
  \o Array("samples") \o Elements(e.samples) \o ArrayEnd
  \o Array("timeDeltas") \o Elements(e.samples) \o ArrayEnd \o End

-----------------------------------------------------------------------------
\* A name is the directory, the prefix or the name asked for, and the sequence
\* number, 0 in a name asked for.  MakeFilename also puts the time and the
\* process in, which tell no two names of one process apart within a second.
MakeFilename(dir, prefix) == <<dir, prefix, seq'>>

ReportInit ==
  /\ setting \in Settings
  /\ profiler = FALSE /\ seq = 0 /\ begun = 0
  /\ opened = << >>
  /\ text = NewWriter /\ todo = << >>

Open(name) ==
  opened' = [x \in DOMAIN opened \cup {name} |->
               (IF x \in DOMAIN opened THEN opened[x] ELSE 0) + (IF x = name THEN 1 ELSE 0)]

Ready == todo = << >> /\ begun < MaxReports
Writing(calls) == text' = NewWriter /\ todo' = calls
ToConsole == setting.filename \in {"stdout", "stderr"}

\* TriggerDiagReport, up to the document's first section.  The name of a file
\* is made up unless the command line gives one.
ReportToConsole(e) ==
  /\ Ready /\ ToConsole
  /\ begun' = begun + 1
  /\ Writing(WriteDiagReport(e))
  /\ UNCHANGED <<setting, profiler, seq, opened>>

ReportToFile(e) ==
  /\ Ready /\ ~ToConsole
  /\ begun' = begun + 1
  /\ seq' = IF setting.filename = "" THEN seq + 1 ELSE seq
  /\ LET name == IF setting.filename = "" THEN MakeFilename(setting.directory, "report")
                 ELSE <<setting.directory, setting.filename, 0>>
     IN  IF "open" \in e.ok
         THEN Open(name) /\ Writing(WriteDiagReport(e))
         ELSE UNCHANGED <<opened, text, todo>>
  /\ UNCHANGED <<setting, profiler>>

Write ==
  /\ todo # << >>
  /\ text' = Called(text, Head(todo)) /\ todo' = Tail(todo)
  /\ UNCHANGED <<setting, profiler, seq, begun, opened>>

StartCpuProfiler ==
  /\ Ready /\ ~profiler
  /\ profiler' = TRUE
  /\ UNCHANGED <<setting, seq, begun, opened, text, todo>>

\* StopCpuProfiler: the profile goes into the current directory; a file that
\* does not open loses it silently.
StopCpuProfiler(e) ==
  /\ Ready /\ profiler
  /\ profiler' = FALSE
  /\ seq' = seq + 1 /\ begun' = begun + 1
  /\ IF "open" \in e.ok
     THEN Open(MakeFilename("", "CPU")) /\ Writing(Serialize(e))
     ELSE UNCHANGED <<opened, text, todo>>
  /\ UNCHANGED setting

ReportNext == \/ \E e \in Answers : ReportToConsole(e) \/ ReportToFile(e) \/ StopCpuProfiler(e)
              \/ Write \/ StartCpuProfiler
ReportSpec == ReportInit /\ [][ReportNext]_reportVars

-----------------------------------------------------------------------------
ReportTypeOK ==
  /\ setting \in Settings /\ profiler \in BOOLEAN /\ seq \in 0..MaxReports

\* A report or profile is a JSON document in which no object has a name twice,
\* whichever of the calls for the operating system's and V8's facts fail
\* (WriteDiagReport of diag_report.cc and Serialize of aworker_profiler.cc).
ReportsWellFormed ==
  /\ text.out.ok
  /\ todo = << >> => text = NewWriter \/ (WellFormed(text.out) /\ text.indent = 0)

\* No document overwrites another unless the command line names the file:
\* reports and profiles share one sequence (DiagnosticFilename::seq).
NamesUnique == \A name \in DOMAIN opened : opened[name] > 1 => name[3] = 0
=============================================================================
