------------------------------- MODULE Tracing -------------------------------
(***************************************************************************)
(* Trace events: V8's tracing controller records into a ring buffer, which *)
(* the agent flushes on a timer and when tracing stops.  The writer wraps  *)
(* the events as JSON, PerFile events to a file, and writes the files      *)
(* through output streams; its destructor runs the event loop until the    *)
(* current file has ended.                                                 *)
(***************************************************************************)
EXTENDS Integers, Sequences, SequencesExt, FileStreams

CONSTANTS Categories,
          PerFile,     \* kTracesPerFile
          MaxEvents,   \* bound on the events of a behaviour
          MaxForks     \* bound on warm forks

VARIABLES status,   \* of the agent
          cats,     \* categories_
          timer,    \* timer_started_
          ring,     \* the events in the trace buffer
          writer,   \* AworkerTraceWriter
          files,    \* the streams, each with the writer it reports to, and whether
                    \* it was opened beside another, or ended after its writer
          phase,    \* of the process
          emitted   \* number of events so far

traceVars == <<status, cats, timer, ring, writer, files, phase, emitted>>

\* What a trace file is made of, beside the numbered events.
Prologue == -1
Epilogue == -2
Metadata == 0

NewWriter(id) == [id |-> id, total |-> 0, text |-> <<>>, meta |-> FALSE,
                  file |-> 0, complete |-> TRUE]

TraceInit ==
  /\ status = "stopped" /\ cats = {} /\ timer = FALSE
  /\ ring = <<>> /\ writer = NewWriter(1) /\ files = <<>>
  /\ phase = "running" /\ emitted = 0

-----------------------------------------------------------------------------
(* The writer, as functions of [w: the writer, f: the files] *)

\* fs_.reset(): a stream with nothing to write ends at once and says so.
ResetFile(s) ==
  IF s.w.file = 0 THEN s
  ELSE LET f == [s.f EXCEPT ![s.w.file].out = Dispose(@)]
       IN [w |-> [s.w EXCEPT !.complete = @ \/ f[s.w.file].out.ended, !.file = 0], f |-> f]

\* OpenNewFileForStreaming, and the JSON writer's prologue.
OpenNewFileForStreaming(s) ==
  LET t == ResetFile(s)
  IN [w |-> [t.w EXCEPT !.file = Len(t.f) + 1, !.complete = FALSE, !.meta = FALSE,
                        !.text = Append(@, Prologue)],
      f |-> Append(t.f, [out |-> NewStream, owner |-> s.w.id, late |-> FALSE,
                         overlaps |-> \E i \in DOMAIN t.f : t.f[i].out.waiting])]

AppendTraceEvent(s, e) ==
  LET t == IF s.w.total = 0 THEN OpenNewFileForStreaming(s) ELSE s
  IN [t EXCEPT !.w.total = @ + 1, !.w.text = Append(@, e)]

\* RequestMetadataEvents, once for a file.
WithMetadata(s) ==
  IF s.w.meta THEN s ELSE AppendTraceEvent([s EXCEPT !.w.meta = TRUE], Metadata)

\* WriteToFile: the text so far goes to the stream.
WriteToFile(s) ==
  IF s.w.text = <<>> THEN s
  ELSE [w |-> [s.w EXCEPT !.text = <<>>],
        f |-> [s.f EXCEPT ![s.w.file].out = Fill(@, s.w.text)]]

\* Mutant: a full file is not closed.
FlushOpen(s) ==
  IF s.w.total = 0 THEN s
  ELSE LET t == WithMetadata(s)
       IN WriteToFile(IF t.w.total >= PerFile THEN [t EXCEPT !.w.total = 0] ELSE t)

\* Flush: a full file is closed with the JSON writer's epilogue; the next
\* event opens another.
Flush(s) ==
  IF s.w.total = 0 THEN s
  ELSE LET t == WithMetadata(s)
       IN WriteToFile(IF t.w.total >= PerFile
                        THEN [t EXCEPT !.w.total = 0, !.w.text = Append(@, Epilogue)]
                        ELSE t)

\* FlushOnDetroy, the destructor's first half.
FlushOnDetroy(s) ==
  IF s.w.total = 0 THEN s
  ELSE ResetFile(WriteToFile([WithMetadata(s) EXCEPT !.w.text = Append(@, Epilogue)]))

\* The ring buffer's Flush (V8): every event, then the writer's Flush.
FlushRing == Flush(FoldLeft(AppendTraceEvent, [w |-> writer, f |-> files], ring))

-----------------------------------------------------------------------------
(* The agent *)

\* StopTracing: the controller flushes if it is recording.
StopTracing == IF status = "started" THEN FlushRing ELSE [w |-> writer, f |-> files]

\* An event of an enabled category.
Emit ==
  /\ phase = "running" /\ status = "started" /\ emitted < MaxEvents
  /\ emitted' = emitted + 1
  /\ ring' = Append(ring, emitted + 1)
  /\ UNCHANGED <<status, cats, timer, writer, files, phase>>

OnFlushInterval ==
  /\ phase = "running" /\ timer /\ (ring # <<>> \/ writer.text # <<>>)
  /\ writer' = FlushRing.w /\ files' = FlushRing.f
  /\ ring' = <<>>
  /\ UNCHANGED <<status, cats, timer, phase, emitted>>

\* Start, as the end of SuspendTracingScope decides it.
Resume(cs) ==
  /\ cats' = cs
  /\ status' = IF cs # {} THEN "started" ELSE "stopped"
  /\ timer' = (timer \/ cs # {})

\* NoslatedDiagChannel::TracingStart: enabling in a suspended scope only adds
\* the categories, and the end of the scope starts the controller.
TracingStart(cs) ==
  /\ phase = "running"
  /\ writer' = StopTracing.w /\ files' = StopTracing.f
  /\ ring' = <<>>
  /\ Resume(cats \cup cs)
  /\ UNCHANGED <<phase, emitted>>

\* TracingStop, TraceAgent::Stop.
TracingStop ==
  /\ phase = "running" /\ status = "started"
  /\ writer' = FlushRing.w /\ files' = FlushRing.f
  /\ ring' = <<>>
  /\ status' = "stopped"
  /\ UNCHANGED <<cats, timer, phase, emitted>>

\* A writer is destroyed: by the platform's destructor after Stop, or because
\* a warm fork sets the log directory again while tracing is suspended.
DestroyWriter(next) ==
  /\ phase = "running"
  /\ next = "fork" => writer.id <= MaxForks
  /\ LET s == FlushOnDetroy(StopTracing) IN writer' = s.w /\ files' = s.f
  /\ ring' = <<>>
  /\ status' = IF next = "fork" THEN "suspended" ELSE "stopped"
  /\ phase' = next
  /\ UNCHANGED <<cats, timer, emitted>>

LoopAlive == \E i \in DOMAIN files : Busy(files[i].out)

\* The destructor's second half: the loop has run until the file ended or
\* nothing is left to do; CHECK_EQ(flush_completed_, true); a stream that is
\* left is reset with the writer.
WriterDestroyed ==
  /\ phase \in {"fork", "exit"}
  /\ writer.complete \/ ~LoopAlive
  /\ IF writer.complete
       THEN /\ phase' = IF phase = "exit" THEN "gone" ELSE "running"
            /\ files' = ResetFile([w |-> writer, f |-> files]).f
            /\ writer' = NewWriter(writer.id + 1)
            /\ IF phase = "fork" THEN Resume(cats) ELSE UNCHANGED <<status, cats, timer>>
       ELSE /\ phase' = "aborted"
            /\ UNCHANGED <<files, writer, status, cats, timer>>
  /\ UNCHANGED <<ring, emitted>>

\* The loop turns for a stream; its end is reported to its writer.
StreamTurn(i) ==
  LET s == IF files[i].out.idle THEN Start(files[i].out) ELSE Written(files[i].out)
      ours == files[i].owner = writer.id
  IN /\ phase # "aborted" /\ Busy(files[i].out)
     /\ files' = [files EXCEPT ![i].out = s, ![i].late = s.ended /\ ~ours]
     /\ writer' = IF s.ended /\ ours THEN [writer EXCEPT !.complete = TRUE] ELSE writer
     /\ UNCHANGED <<status, cats, timer, ring, phase, emitted>>

TraceLoop == OnFlushInterval \/ WriterDestroyed \/ \E i \in DOMAIN files : StreamTurn(i)

TraceNext ==
  \/ Emit \/ TracingStop \/ TraceLoop
  \/ \E cs \in SUBSET Categories : TracingStart(cs)
  \/ \E next \in {"fork", "exit"} : DestroyWriter(next)

\* The destructors themselves run the loop.
TraceFairness == WF_traceVars(TraceLoop)

TraceSpec == TraceInit /\ [][TraceNext]_traceVars /\ TraceFairness

-----------------------------------------------------------------------------
(* Properties *)

TraceTypeOK ==
  /\ status \in {"stopped", "started", "suspended"} /\ cats \subseteq Categories
  /\ phase \in {"running", "fork", "exit", "gone", "aborted"}
  /\ writer.file \in 0..Len(files) /\ Len(ring) <= MaxEvents

Text(i) == FlattenSeq(files[i].out.written)
IsEvent(e) == e > 0

\* When the process has ended, every trace file is one whole JSON document with
\* its metadata, and the files together hold every event once and in order,
\* however flushes, rotations, stops and forks fell (AworkerTraceWriter).
TracesWhole ==
  phase = "gone" /\ ~LoopAlive =>
    /\ \A i \in DOMAIN files :
         /\ Text(i) # <<>> /\ Head(Text(i)) = Prologue /\ Last(Text(i)) = Epilogue
         /\ \E n \in 2..(Len(Text(i)) - 1) : Text(i)[n] = Metadata
         /\ \A n \in 2..(Len(Text(i)) - 1) : Text(i)[n] \notin {Prologue, Epilogue}
    /\ SelectSeq(FlattenSeq([i \in DOMAIN files |-> Text(i)]), IsEvent)
         = [n \in 1..emitted |-> n]

\* A stream reports its end to a living writer, unless the writer opened a file
\* while another was still being written: only then may the wrong file have set
\* flush_completed_ and let the writer go (OpenNewFileForStreaming).
EndReportedAlive ==
  \A i \in DOMAIN files : files[i].late =>
    \E j \in DOMAIN files : files[j].owner = files[i].owner /\ files[j].overlaps

\* The writer's destruction comes to an end: the loop it runs does not wait for
\* a file that nobody writes.
WriterGoes == []<>(phase \notin {"fork", "exit"})

\* The assertion at the end of the writer's destructor holds: the last file has
\* ended (CHECK_EQ(flush_completed_, true)).
WriterEnds == phase # "aborted"
=============================================================================
