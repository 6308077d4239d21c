-------------------------------- MODULE MCIo --------------------------------
(***************************************************************************)
(* The input and output of a script: compression streams, fetches, the     *)
(* cache, and the trace files.  They share no state, and a behaviour is of *)
(* one part; the variables of the others keep their initial values.        *)
(*   "zlib"    two pushes to a compressing and a decompressing stream      *)
(*   "unzip"   more pushes, to the decompressing stream alone              *)
(*   "fetch"   two downloads that share the multi handle                   *)
(*   "upload"  an upload and a request without a response body beside it   *)
(*   "cache"   the scenarios of MCCacheStore                               *)
(*   "trace"   tracing over a fork, with three events to a file            *)
(***************************************************************************)
EXTENDS MCCacheStore, CurlTransfers, ZlibStreams

VARIABLES part, status, cats, timer, ring, writer, files, phase, emitted

Trace == INSTANCE Tracing WITH
  Categories <- {"a"}, PerFile <- 3, MaxEvents <- 4, MaxForks <- 1

traceVars == <<status, cats, timer, ring, writer, files, phase, emitted>>
ioVars == <<part, cacheVars, zlibVars, curlVars, traceVars>>

\* What the caller of a part does.
Streams(A) ==
  \/ part = "zlib" /\ A /\ Len(task') <= 2
  \/ part = "unzip" /\ A /\ \A w \in Zips : wrapper'[w] = wrapper[w]
Requests(A) ==
  \/ part = "fetch" /\ A /\ \A t \in Uploads : easy'[t] = Idle
  \/ part = "upload" /\ A /\ easy'["t2"] = Idle /\ \A t \in Transfers : easy'[t].writes = 0
Of(p, A) == part = p /\ A

IoInit ==
  /\ part \in {"zlib", "unzip", "fetch", "upload", "cache", "trace"}
  /\ ZlibInit /\ CurlInit /\ Trace!TraceInit /\ CacheInit
  /\ part # "cache" => \A o \in MCOps : op[o].stage = "wait" <=> o \in {"openC", "keys"}

IoNext ==
  \/ Streams(ZlibNext) /\ UNCHANGED <<part, cacheVars, curlVars, traceVars>>
  \/ Requests(CurlNext) /\ UNCHANGED <<part, cacheVars, zlibVars, traceVars>>
  \/ Of("cache", CacheNext) /\ UNCHANGED <<part, zlibVars, curlVars, traceVars>>
  \/ Of("trace", Trace!TraceNext) /\ UNCHANGED <<part, cacheVars, zlibVars, curlVars>>

\* The fairness of each part's module, for the part the behaviour is of.
IoSpec ==
  /\ IoInit /\ [][IoNext]_ioVars
  /\ WF_zlibVars(Streams(Loop))
  /\ WF_traceVars(Of("trace", Trace!TraceLoop))
  /\ \A o \in MCOps : WF_cacheVars(Of("cache", Step(o)))
  /\ \A t \in Transfers :
       /\ WF_curlVars(Requests(Progress(t) /\ ~easy[t].paused))
       /\ WF_curlVars(Requests(OnDone(t)))
  /\ \A t \in Uploads : WF_curlVars(Requests(Drain(t))) /\ WF_curlVars(Requests(Unpause(t)))
  /\ WF_curlVars(Requests(Return \/ DoneReturns))

\* When the process has ended, every trace file is a whole JSON document and the
\* files together hold every event once and in order; a stream reports its end to
\* a living writer unless two files were open at once (AworkerTraceWriter).
TracesKept == Trace!TracesWhole /\ Trace!EndReportedAlive

\* Every push is answered, every request is answered with a header or an error,
\* every cache operation ends unless a failed write is stuck, and the trace
\* writer's destructor returns (TickMacroTaskQueue, CurlMulti::StartTimeout,
\* UvZeroCopyOutputFileStream::WriteCb, ~AworkerTraceWriter).
IoSettles ==
  []<>(AllAnswered /\ AllSettled /\ (part = "cache" => AllEnded) /\ phase \notin {"fork", "exit"})
=============================================================================
