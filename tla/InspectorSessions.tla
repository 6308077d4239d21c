-------------------------- MODULE InspectorSessions --------------------------
(***************************************************************************)
(* A debugger's sessions, from the agent's calls on the diagnostics thread *)
(* (NoslatedDiagChannel, InspectorIoDelegate) to the channels of the       *)
(* inspector client on the main thread, and the three waits of the client: *)
(* for the front end (--inspect-brk), for a paused script to be resumed,   *)
(* and for the sessions to disconnect before the worker exits.  The two    *)
(* threads talk through a FIFO of requests (InspectorQueue shows that      *)
(* MainThreadInterface is one) and a FIFO of transport actions.            *)
(***************************************************************************)
EXTENDS Naturals, Sequences, FiniteSets, Functions

CONSTANTS Sessions,     \* session ids of the agent
          MaxObjects,   \* sessions ever started
          MaxCommands,  \* commands sent to sessions
          Options       \* the ways a worker is started: --inspect (or -brk),
                        \* --inspect-brk, with a script that may hit a break-
                        \* point, that may handle uncaught exceptions

ASSUME SessionsFinite == IsFiniteSet(Sessions)

VARIABLES
  options,        \* how this worker was started
  conn,           \* the diagnostics socket: "connecting", "up", "lost"
  told,           \* InspectorStarted messages sent
  delegate,       \* delegate_ of the channel is set
  stopping,       \* stopping_
  opened,         \* opened_session_count_
  sessions,       \* sessions_: the object of each session, 0 if none
  objects,        \* object ids given out
  commands,       \* commands sent
  queue,          \* requests on their way to the main thread
  transport,      \* actions on their way to the channel
  asked,          \* InspectorStart interrupts not served yet
  io,             \* io_ is set
  managed,        \* managed_objects_
  channels,       \* objects with a channel at the inspector client
  main,           \* "boot", "script", "loop" (runMessageLoop), "exit", "stopped"
  why,            \* what the loop was entered for
  forFrontend, forResume, forDisconnect,  \* the three waiting_for_ flags
  ranFrontend     \* runIfWaitingForDebugger has been received

diagVars == <<conn, told, delegate, stopping, opened, sessions, objects, commands>>
linkVars == <<queue, transport, asked>>
clientVars == <<io, managed, channels>>
waitVars == <<main, why, forFrontend, forResume, forDisconnect, ranFrontend>>
workerVars == <<diagVars, linkVars, clientVars, waitVars>>
sessionVars == <<options, workerVars>>

Req(op, o, msg) == [op |-> op, object |-> o, msg |-> msg]
MaxTransport == 2  \* bound: actions on their way
OpenSessions == {s \in Sessions : sessions[s] # 0}
Live == main \in {"script", "loop"}

SessionsInit ==
  /\ options \in Options
  /\ conn = "connecting" /\ told = 0 /\ delegate = FALSE /\ stopping = FALSE
  /\ opened = 0 /\ sessions = [s \in Sessions |-> 0] /\ objects = 0 /\ commands = 0
  /\ queue = <<>> /\ transport = <<>> /\ asked = 0
  /\ io = FALSE /\ managed = {} /\ channels = {}
  /\ main = "boot" /\ why = "none"
  /\ forFrontend = FALSE /\ forResume = FALSE /\ forDisconnect = FALSE /\ ranFrontend = FALSE

-----------------------------------------------------------------------------
(* The diagnostics thread *)

\* OnConnect and the answer to its credentials.
OnConnect ==
  /\ conn = "connecting" /\ main # "boot"
  /\ conn' = "up"
  /\ told' = IF delegate THEN told + 1 ELSE told
  /\ UNCHANGED <<delegate, stopping, opened, sessions, objects, commands, linkVars,
                 clientVars, waitVars>>

\* Disconnected: the agent is gone; no session is ended for it.
Disconnected ==
  /\ conn = "up" /\ main # "stopped"
  /\ conn' = "lost"
  /\ UNCHANGED <<told, delegate, stopping, opened, sessions, objects, commands, linkVars,
                 clientVars, waitVars>>

\* InspectorStart asks the main thread for an interrupt.
InspectorStart ==
  /\ conn = "up" /\ ~stopping /\ asked = 0
  /\ asked' = 1
  /\ UNCHANGED <<diagVars, queue, transport, clientVars, waitVars>>

\* InspectorStartSession, of an id that the agent has not opened:
\* MainThreadHandle::Connect posts the creation of an object and its Connect.
InspectorStartSession(s) ==
  /\ conn = "up" /\ ~stopping /\ delegate /\ sessions[s] = 0 /\ objects < MaxObjects
  /\ objects' = objects + 1
  /\ sessions' = [sessions EXCEPT ![s] = objects + 1]
  /\ opened' = opened + 1
  /\ queue' = queue \o <<Req("create", objects + 1, "none"), Req("connect", objects + 1, "none")>>
  /\ UNCHANGED <<conn, told, delegate, stopping, commands, transport, asked, clientVars, waitVars>>

\* Mutant: EndSession forgets the session without its destructor.
EndSessionKeepsObject(s) ==
  /\ conn = "up" /\ delegate /\ sessions[s] # 0
  /\ opened > 0
  /\ sessions' = [sessions EXCEPT ![s] = 0]
  /\ opened' = opened - 1
  /\ UNCHANGED <<conn, told, delegate, stopping, objects, commands, linkVars, clientVars,
                 waitVars>>

\* InspectorEndSession erases the session, whose destructor posts a delete;
\* nothing is erased if the channel counts none.
InspectorEndSession(s) ==
  /\ conn = "up" /\ delegate /\ sessions[s] # 0
  /\ IF opened > 0
     THEN /\ sessions' = [sessions EXCEPT ![s] = 0]
          /\ opened' = opened - 1
          /\ queue' = Append(queue, Req("delete", sessions[s], "none"))
     ELSE UNCHANGED <<sessions, opened, queue>>
  /\ UNCHANGED <<conn, told, delegate, stopping, objects, commands, transport, asked,
                 clientVars, waitVars>>

\* InspectorCommand; a session that is not there ignores it.
InspectorCommand(s, msg) ==
  /\ conn = "up" /\ delegate /\ commands < MaxCommands /\ sessions[s] # 0
  /\ commands' = commands + 1
  /\ queue' = Append(queue, Req("dispatch", sessions[s], msg))
  /\ UNCHANGED <<conn, told, delegate, stopping, opened, sessions, objects, transport, asked,
                 clientVars, waitVars>>

\* The members of a set one after the other, in some order.
Listing(S) == CHOOSE s \in Injection(1 .. Cardinality(S), S) : TRUE

\* TerminateConnections destroys the delegate, and with it the sessions.
TerminateConnections ==
  /\ delegate' = FALSE
  /\ sessions' = [s \in Sessions |-> 0]
  /\ LET gone == Listing({sessions[s] : s \in OpenSessions})
     IN queue' = queue \o [n \in DOMAIN gone |-> Req("delete", gone[n], "none")]

\* RequestQueue::DoDispatch: each action stops the channel, kKill ends the
\* sessions first.
DoDispatch ==
  /\ transport # <<>> /\ delegate
  /\ transport' = <<>> /\ stopping' = TRUE
  /\ IF "kKill" \in Range(transport) THEN TerminateConnections
                                     ELSE UNCHANGED <<delegate, sessions, queue>>
  /\ UNCHANGED <<conn, told, opened, objects, commands, asked, clientVars, waitVars>>

-----------------------------------------------------------------------------
(* The main thread *)

\* StartInspectorIo: RegisterEntry returns when the channel has its delegate.
StartInspectorIo ==
  IF io THEN UNCHANGED <<io, delegate, told>>
  ELSE io' = TRUE /\ delegate' = TRUE /\ told' = IF conn = "up" THEN told + 1 ELSE told

\* shouldRunMessageLoop; every session of the agent prevents the shutdown.
ShouldRun == forFrontend \/ ((forResume \/ forDisconnect) /\ channels # {})

\* BootstrapAgent.
BootstrapAgent ==
  /\ main = "boot"
  /\ IF options.inspect THEN StartInspectorIo ELSE UNCHANGED <<io, delegate, told>>
  /\ IF options.brk THEN main' = "loop" /\ why' = "frontend" /\ forFrontend' = TRUE
                   ELSE main' = "script" /\ UNCHANGED <<why, forFrontend>>
  /\ UNCHANGED <<conn, stopping, opened, sessions, objects, commands, linkVars, managed,
                 channels, forResume, forDisconnect, ranFrontend>>

\* The interrupt of InspectorStart.
StartInterrupt ==
  /\ Live /\ asked = 1
  /\ asked' = 0
  /\ StartInspectorIo
  /\ UNCHANGED <<conn, stopping, opened, sessions, objects, commands, queue, transport,
                 managed, channels, waitVars>>

Serves == Live /\ queue # <<>> /\ queue' = Tail(queue)

\* CreateObjectRequest, then MainThreadSessionState::Connect.
ServeCreate ==
  /\ Serves /\ Head(queue).op = "create"
  /\ managed' = managed \cup {Head(queue).object}
  /\ UNCHANGED <<diagVars, transport, asked, io, channels, waitVars>>

\* Mutant: a session that connects releases the worker.
ServeConnectReleases ==
  /\ Serves /\ Head(queue).op = "connect"
  /\ channels' = channels \cup {Head(queue).object}
  /\ forFrontend' = FALSE
  /\ UNCHANGED <<diagVars, transport, asked, io, managed, main, why, forResume,
                 forDisconnect, ranFrontend>>

ServeConnect ==
  /\ Serves /\ Head(queue).op = "connect"
  /\ channels' = channels \cup {Head(queue).object}
  /\ UNCHANGED <<diagVars, transport, asked, io, managed, waitVars>>

\* Mutant: the object goes and its channel stays.
ServeDeleteKeepsChannel ==
  /\ Serves /\ Head(queue).op = "delete"
  /\ managed' = managed \ {Head(queue).object}
  /\ UNCHANGED <<diagVars, transport, asked, io, channels, waitVars>>

\* DeleteRequest, and disconnectFrontend: the first session to leave ends the
\* wait for disconnects.  V8 quits a pause that has lost its last session.
ServeDelete ==
  /\ Serves /\ Head(queue).op = "delete"
  /\ managed' = managed \ {Head(queue).object}
  /\ channels' = channels \ {Head(queue).object}
  /\ forDisconnect' = (forDisconnect /\ Head(queue).object \notin channels)
  /\ forResume' = (forResume /\ ~(why = "pause" /\ channels' = {}))
  /\ UNCHANGED <<diagVars, transport, asked, io, main, why, forFrontend, ranFrontend>>

\* runIfWaitingForDebugger.
ServeRun ==
  /\ Serves /\ Head(queue).op = "dispatch" /\ Head(queue).msg = "run"
  /\ forFrontend' = FALSE /\ ranFrontend' = TRUE
  /\ UNCHANGED <<diagVars, transport, asked, clientVars, main, why, forResume, forDisconnect>>

\* Debugger.resume: V8 calls quitMessageLoopOnPause if it is paused.
ServeResume ==
  /\ Serves /\ Head(queue).op = "dispatch" /\ Head(queue).msg = "resume"
  /\ forResume' = (forResume /\ why # "pause")
  /\ UNCHANGED <<diagVars, transport, asked, clientVars, main, why, forFrontend,
                 forDisconnect, ranFrontend>>

\* runMessageLoop for a pause; it returns at once if it is running.
MessageLoopOnPause ==
  /\ forResume' = TRUE
  /\ IF main = "loop" THEN UNCHANGED <<main, why>>
                      ELSE main' = "loop" /\ why' = "pause"

\* Runtime.evaluate, with or without a breakpoint; V8 does not pause while
\* it is paused.
ServeEvaluate(break) ==
  /\ Serves /\ Head(queue).op = "dispatch" /\ Head(queue).msg = "eval"
  /\ break => options.breaks /\ why # "pause"
  /\ IF break THEN MessageLoopOnPause ELSE UNCHANGED <<forResume, main, why>>
  /\ UNCHANGED <<diagVars, transport, asked, clientVars, forFrontend, forDisconnect,
                 ranFrontend>>

\* The script hits a breakpoint.
ScriptBreaks ==
  /\ main = "script" /\ options.breaks /\ channels # {}
  /\ MessageLoopOnPause
  /\ UNCHANGED <<diagVars, linkVars, clientVars, forFrontend, forDisconnect, ranFrontend>>

\* The loop ends.  An exception that was reported may turn out to be handled.
LoopLeave ==
  /\ main = "loop"
  /\ ~ShouldRun
  /\ main' \in CASE why = "disconnect" -> {"exit"}
               [] why = "report" -> IF options.handles THEN {"exit", "script"} ELSE {"exit"}
               [] OTHER -> {"script"}
  /\ why' = "none"
  /\ UNCHANGED <<diagVars, linkVars, clientVars, forFrontend, forResume, forDisconnect,
                 ranFrontend>>

\* WaitForDisconnect, up to its loop.
WaitForDisconnect ==
  /\ io /\ Len(transport) < MaxTransport
  /\ transport' = Append(transport, "kStop")
  /\ forDisconnect' = TRUE

\* The event loop has nothing left to do.
ScriptEnds ==
  /\ main = "script"
  /\ IF options.inspect /\ io
     THEN WaitForDisconnect /\ main' = "loop" /\ why' = "disconnect"
     ELSE main' = "exit" /\ UNCHANGED <<transport, forDisconnect, why>>
  /\ UNCHANGED <<diagVars, queue, asked, clientVars, forFrontend, forResume, ranFrontend>>

\* EmitUncaughtException reports to the inspector, if it is active, and waits
\* for the debugger.
EmitUncaughtException ==
  /\ main = "script"
  /\ IF io THEN WaitForDisconnect /\ main' = "loop" /\ why' = "report"
           ELSE /\ main' \in {"exit"} \cup (IF options.handles THEN {"script"} ELSE {})
                /\ UNCHANGED <<transport, forDisconnect, why>>
  /\ UNCHANGED <<diagVars, queue, asked, clientVars, forFrontend, forResume, ranFrontend>>

\* In a callback that the nested loop runs, the wait returns at once.
EmitUncaughtInLoop ==
  /\ main = "loop"
  /\ WaitForDisconnect
  /\ \/ main' = "exit" /\ why' = "none"
     \/ options.handles /\ UNCHANGED <<main, why>>
  /\ UNCHANGED <<diagVars, queue, asked, clientVars, forFrontend, forResume, ranFrontend>>

\* StopAgent destroys the InspectorIo.
StopAgent ==
  /\ main = "exit"
  /\ main' = "stopped" /\ io' = FALSE
  /\ transport' = IF io THEN Append(transport, "kKill") ELSE transport
  /\ UNCHANGED <<diagVars, queue, asked, managed, channels, why, forFrontend, forResume,
                 forDisconnect, ranFrontend>>

ClientStep == \/ StartInterrupt
            \/ ServeCreate \/ ServeConnect \/ ServeDelete \/ ServeRun \/ ServeResume
            \/ \E break \in BOOLEAN : ServeEvaluate(break)

SessionsNext ==
  /\ \/ OnConnect \/ Disconnected \/ InspectorStart \/ DoDispatch
     \/ \E s \in Sessions : InspectorStartSession(s) \/ InspectorEndSession(s)
     \/ \E s \in Sessions, msg \in {"run", "resume", "eval"} : InspectorCommand(s, msg)
     \/ BootstrapAgent \/ ClientStep
     \/ ScriptBreaks \/ LoopLeave \/ ScriptEnds
     \/ EmitUncaughtException \/ EmitUncaughtInLoop \/ StopAgent
  /\ UNCHANGED options

SessionsSpec == SessionsInit /\ [][SessionsNext]_sessionVars

\* The threads go on, and the front end ends its sessions some time.
SessionsFairness ==
  /\ WF_workerVars(ClientStep) /\ WF_workerVars(LoopLeave) /\ WF_workerVars(DoDispatch)
  /\ \A s \in Sessions : WF_workerVars(InspectorEndSession(s))

-----------------------------------------------------------------------------
(* Properties *)

\* "This would mean the object is requested after it was disposed, which is a
\* coding error": GetObject and RemoveObject find their object, and a command
\* its session.
ObjectsExist ==
  queue # <<>> =>
    LET r == Head(queue)
    IN CASE r.op = "create" -> r.object \notin managed
         [] r.op = "dispatch" -> r.object \in channels
         [] OTHER -> r.object \in managed

\* What the client will have once the requests under way are served is what
\* the agent has open: no session is forgotten at either end.
SessionsFollow ==
  LET sentFor(op) == {r.object : r \in {q \in Range(queue) : q.op = op}}
  IN (channels \cup sentFor("connect")) \ sentFor("delete") = {sessions[s] : s \in OpenSessions}

\* opened_session_count_, without which EndSession does nothing, is the number
\* of sessions.
CountAgrees == delegate => opened = Cardinality(OpenSessions)

\* The agent is told of the inspector once, whichever comes first, the
\* connection or the inspector.
ToldOnce == conn = "up" /\ main # "stopped" => told = IF delegate THEN 1 ELSE 0

\* A worker whose script runs refuses sessions only after it has handled an
\* uncaught exception, whose report sent kStop; nothing clears stopping_.
RefusesExplained ==
  stopping /\ (main = "script" \/ why \in {"frontend", "pause"}) => options.handles

\* The worker exits beside a connected session only if another has disconnected,
\* which ends the wait for all, or if an exception came up inside a wait, which
\* is not waited for in turn and leaves the flag set.
LeftExplained ==
  main = "exit" /\ options.inspect /\ channels # {} /\ ~forDisconnect =>
    \E o \in 1..objects : o \notin managed /\ Req("create", o, "none") \notin Range(queue)

\* The two ends agree: requests find their objects, the agent's open sessions
\* are the client's and are counted, the agent is told of the inspector once, and
\* a session is refused or left behind only for the reasons above
\* (NoslatedDiagChannel, MainThreadInterface, AworkerInspectorClient).
SessionsAgree == /\ ObjectsExist /\ SessionsFollow /\ CountAgrees /\ ToldOnce
                 /\ RefusesExplained /\ LeftExplained

\* With --inspect-brk the script starts after runIfWaitingForDebugger, however
\* many sessions come and go before.
StartsWhenReleased == options.brk /\ main = "script" => ranFrontend

\* The worker's wait for the debugger ends when the front end ends its
\* sessions, unless the agent is lost.
ExitEnds == (why \in {"disconnect", "report"}) ~> (why \notin {"disconnect", "report"} \/ conn = "lost")
=============================================================================
