----------------------------- MODULE FileStreams -----------------------------
(***************************************************************************)
(* UvZeroCopyOutputFileStream as operators on a record.  The writer fills  *)
(* buffers synchronously; an idle callback then writes them one at a time, *)
(* and the stream closes once it has been disposed of and all is written.  *)
(* A buffer is an abstract value; what reached the file is the sequence    *)
(* written.                                                                *)
(***************************************************************************)
LOCAL INSTANCE Sequences

NewStream == [queue |-> <<>>, written |-> <<>>, waiting |-> FALSE, idle |-> FALSE,
              writing |-> FALSE, disposed |-> FALSE, ended |-> FALSE]

\* Next with BackUp: a filled buffer is queued; set_writing_for_write starts
\* the idle handle unless writing is under way.
Fill(s, buf) ==
  [s EXCEPT !.queue = Append(@, buf), !.waiting = TRUE, !.idle = @ \/ ~s.waiting]

\* IdleCb: the first write.
Start(s) == [s EXCEPT !.idle = FALSE, !.writing = TRUE]

\* WriteCb: the oldest buffer is in the file; go on, or end if disposed.
Written(s) ==
  LET last == Len(s.queue) = 1
  IN [s EXCEPT !.queue = Tail(@), !.written = Append(@, Head(s.queue)),
               !.writing = ~last, !.waiting = ~last, !.ended = last /\ s.disposed]

\* WriteCb with an error: only logged, so that the stream never ends.
Failed(s) == [s EXCEPT !.writing = FALSE]

\* DisposeAndDelete: close now if nothing waits to be written.
Dispose(s) == [s EXCEPT !.disposed = TRUE, !.ended = ~s.waiting]

\* The event loop has something to do for the stream.
Busy(s) == s.idle \/ s.writing
=============================================================================
