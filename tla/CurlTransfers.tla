---------------------------- MODULE CurlTransfers ----------------------------
(***************************************************************************)
(* HTTP transfers: CurlMulti and CurlEasy (src/binding/curl) under the     *)
(* driver lib/fetch/drivers/curl.js.  libcurl is external: from a poll or  *)
(* timer callback of the event loop it calls CurlEasy's callbacks, each of *)
(* which runs JavaScript and then the microtasks, so that aborts, body     *)
(* chunks and cancellations land inside a libcurl callback as well as      *)
(* between them.  A callback is therefore two steps, and cb is the one on  *)
(* the stack.                                                              *)
(***************************************************************************)
EXTENDS Integers, FiniteSets

CONSTANTS Transfers,
          Uploads,   \* the transfers with a request body
          MaxChunks, \* bound: the chunks of a request body
          MaxWrites  \* bound: the chunks of a response body

VARIABLES
  easy,     \* each transfer: libcurl's state, CurlEasy's and the driver's
  cb,       \* the libcurl callback being run
  armed,    \* CurlMulti::timer_ is started
  polled,   \* the transfers whose socket has a CurlMultiContext
  multi,    \* "open", "closed" by the cleanup hook
  threw,    \* a callback threw: an uncaught exception
  exited    \* ... and nobody handled it

curlVars == <<easy, cb, armed, polled, multi, threw, exited>>

NoCb == [t |-> "none", kind |-> "none"]

\* A request that has not been made.
Idle == [state |-> "new", code |-> "none", weak |-> TRUE, collected |-> FALSE,
         handle |-> FALSE, header |-> "none", gotHeader |-> FALSE, response |-> "none",
         cancelled |-> FALSE, recursed |-> FALSE, writes |-> 0,
         chunks |-> 0, buffered |-> 0, bodyDone |-> FALSE, bodyPaused |-> FALSE,
         paused |-> FALSE, sent |-> FALSE, drain |-> "none"]

CurlInit ==
  /\ easy = [t \in Transfers |-> Idle]
  /\ cb = NoCb
  /\ armed = FALSE
  /\ polled = {}
  /\ multi = "open"
  /\ threw = FALSE
  /\ exited = FALSE

Up == ~exited /\ multi = "open"
LoopFree == Up /\ cb = NoCb
InCurl == cb # NoCb /\ cb.kind # "done"  \* libcurl is on the stack
Known(t) == easy[t].state \in {"running", "ended"}
Set(t, r) == easy' = [easy EXCEPT ![t] = r]

-----------------------------------------------------------------------------
(* CurlMulti *)

\* Mutant: a transfer does not keep its handle.
AddHandleWeak(r) == [r EXCEPT !.state = "running"]

\* CurlMulti::AddHandle: pending, and held strongly.
AddHandle(r) == [r EXCEPT !.state = "running", !.weak = FALSE]

\* CurlMulti::RemoveHandle, when libcurl lets go of the handle.
RemoveHandle(r) == [r EXCEPT !.state = "removed", !.weak = TRUE, !.handle = FALSE]

\* CurlMulti::StartTimeout: libcurl arms or stops its one timer; 0 means soon.
StartTimeout(ms) == armed' = (ms >= 0)

\* CurlMulti::HandleSocket with CurlMultiContext: libcurl wants t's socket
\* watched, or no longer.
HandleSocket(t, watch) ==
  polled' = IF watch THEN polled \cup {t} ELSE polled \ {t}

\* The event loop enters libcurl: CurlMultiContext::OnPoll, CurlMulti::OnPoll
\* for a ready socket, CurlMulti::OnTimeout for the timer, which libcurl
\* starts again for the transfers that still need it.
Enter(t) ==
  /\ LoopFree
  /\ easy[t].state = "running"
  /\ \/ t \in polled /\ UNCHANGED armed
     \/ /\ armed
        /\ StartTimeout(IF \E u \in Transfers \ (polled \cup {t}) : easy[u].state = "running"
                          THEN 1 ELSE -1)

\* libcurl returns to the loop, or goes on with other work: it watches the
\* socket of a transfer that can go on.
Leave(t) == HandleSocket(t, easy'[t].state = "running")

\* The cleanup hook closes the multi handle when the event loop has ended.
CloseMulti ==
  /\ LoopFree
  /\ multi' = "closed"
  /\ armed' = FALSE
  /\ UNCHANGED <<easy, cb, polled, threw, exited>>

-----------------------------------------------------------------------------
(* The driver: requests *)

\* Curl's constructor.  libcurl asks for the timer at once.
Fetch(t) ==
  /\ LoopFree
  /\ easy[t].state = "new"
  /\ Set(t, AddHandle([easy[t] EXCEPT
       !.handle = TRUE, !.header = "wait", !.response = "readable",
       !.drain = IF t \in Uploads THEN "reading" ELSE "none"]))
  /\ StartTimeout(0)
  /\ UNCHANGED <<cb, polled, multi, threw, exited>>

\* ... and called from inside a libcurl callback: libcurl refuses the handle,
\* the constructor throws to its caller.
FetchRefused(t) ==
  /\ Up /\ InCurl
  /\ easy[t].state = "new"
  /\ Set(t, [easy[t] EXCEPT !.state = "refused"])
  /\ UNCHANGED <<cb, armed, polled, multi, threw, exited>>

\* bodyReader.cancel: a read in progress ends the body, as Drain does.
CancelReader(r) ==
  IF r.drain # "reading" THEN r
  ELSE [r EXCEPT !.bodyDone = TRUE, !.drain = IF r.bodyPaused THEN "timer" ELSE "over"]

\* Curl.#abort, on an AbortSignal or a failed request body, unless the request
\* is aborted or done.  Inside a libcurl callback removeHandle throws and the
\* handle stays; otherwise libcurl drops its socket.
AbortWith(t, r) ==
  LET e == [r EXCEPT !.response = IF @ = "readable" THEN "errored" ELSE @,
                     !.header = IF @ = "wait" THEN "rejected" ELSE @]
  IN /\ Up
     /\ r.handle
     /\ Set(t, IF InCurl THEN [e EXCEPT !.recursed = TRUE] ELSE RemoveHandle(e))
     /\ HandleSocket(t, t \in polled /\ InCurl)
     /\ UNCHANGED <<cb, armed, multi, threw, exited>>

Abort(t) == AbortWith(t, CancelReader(easy[t]))

\* The user cancels the response body: the driver's stream is closed and the
\* transfer goes on.
CancelBody(t) ==
  /\ Up
  /\ easy[t].header = "resolved" /\ easy[t].response = "readable"
  /\ Set(t, [easy[t] EXCEPT !.response = "closed", !.cancelled = TRUE])
  /\ UNCHANGED <<cb, armed, polled, multi, threw, exited>>

\* drainBody's drain: the request body yields a chunk or its end.  If libcurl
\* has paused, a timer will resume it.
Drain(t) ==
  LET r == easy[t] IN
  /\ Up
  /\ r.drain = "reading"
  /\ \/ /\ r.chunks < MaxChunks
        /\ Set(t, [r EXCEPT !.chunks = @ + 1, !.buffered = @ + 1,
                            !.drain = IF r.bodyPaused THEN "timer" ELSE "reading"])
     \/ Set(t, CancelReader(r))
  /\ UNCHANGED <<cb, armed, polled, multi, threw, exited>>

\* ... and its error aborts the transfer.
DrainFails(t) ==
  /\ easy[t].drain = "reading"
  /\ AbortWith(t, [easy[t] EXCEPT !.drain = "over"])

\* The timer of drain: CurlEasy::Pause with CURLPAUSE_CONT, upon which libcurl
\* asks for its timer.
Unpause(t) ==
  LET r == easy[t] IN
  /\ LoopFree
  /\ r.drain = "timer"
  /\ Set(t, [r EXCEPT !.bodyPaused = FALSE, !.paused = @ /\ ~r.handle,
                      !.drain = IF r.bodyDone THEN "over" ELSE "reading"])
  /\ IF r.handle THEN StartTimeout(0) ELSE UNCHANGED armed
  /\ UNCHANGED <<cb, polled, multi, threw, exited>>

-----------------------------------------------------------------------------
(* libcurl's callbacks *)

Callback(t, kind, r, fails) ==
  /\ Set(t, r)
  /\ cb' = [t |-> t, kind |-> kind]
  /\ threw' = (threw \/ fails)
  /\ exited' \in {FALSE, fails}
  /\ UNCHANGED <<polled, multi>>

\* CurlEasy::OnHeader and Curl.#onHeader: the last header line of a final
\* response (an interim one, status 100, changes nothing).
OnHeader(t) ==
  LET r == easy[t] IN
  /\ Enter(t)
  /\ ~r.gotHeader
  /\ Callback(t, "header", [r EXCEPT !.gotHeader = TRUE,
                            !.header = IF @ = "wait" THEN "resolved" ELSE @], FALSE)

\* CurlEasy::OnWrite and Curl.#onWrite: enqueue throws unless the stream is
\* readable, and libcurl is told that nothing was written.
OnWrite(t) ==
  LET r == easy[t]
      fails == r.response # "readable"
  IN /\ Enter(t)
     /\ r.gotHeader
     /\ r.writes < MaxWrites
     /\ Callback(t, "write", [r EXCEPT !.writes = @ + 1,
                                    !.code = IF fails THEN "error" ELSE @], fails)

\* Mutant: the driver forgets that libcurl is paused.
ReadBodyForgets(r) ==
  IF r.buffered > 0 THEN [r EXCEPT !.buffered = 0]
  ELSE IF r.bodyDone THEN [r EXCEPT !.sent = TRUE]
  ELSE [r EXCEPT !.paused = TRUE]

\* Curl.read: what is buffered, the end of the body, or CURL_READFUNC_PAUSE.
ReadBody(r) ==
  IF r.buffered > 0 THEN [r EXCEPT !.buffered = 0]
  ELSE IF r.bodyDone THEN [r EXCEPT !.sent = TRUE]
  ELSE [r EXCEPT !.bodyPaused = TRUE, !.paused = TRUE]

\* CurlEasy::OnRead and Curl.#onRead.
OnRead(t) ==
  /\ Enter(t)
  /\ t \in Uploads /\ ~easy[t].paused /\ ~easy[t].sent
  /\ ~easy[t].gotHeader
  /\ Callback(t, "read", ReadBody(easy[t]), FALSE)

\* The transfer completes, well or badly (a paused upload may be answered
\* early): curl_multi_info_read will have a message.
Complete(t) ==
  LET r == easy[t] IN
  /\ Enter(t)
  /\ \E c \in {"OK", "error"} :
       /\ c = "OK" => r.gotHeader
       /\ Set(t, [r EXCEPT !.state = "ended", !.code = c])
  /\ HandleSocket(t, FALSE)
  /\ UNCHANGED <<cb, multi, threw, exited>>

\* A callback returns into libcurl, which goes on, or ends the transfer after
\* a short write.
Return ==
  LET t == cb.t IN
  /\ Up /\ InCurl
  /\ Set(t, IF easy[t].code = "error" /\ Known(t)
              THEN [easy[t] EXCEPT !.state = "ended"] ELSE easy[t])
  /\ Leave(t)
  /\ cb' = NoCb
  /\ UNCHANGED <<armed, multi, threw, exited>>

\* CurlMulti::ProcessMessages, CurlEasy::OnDone and Curl.#onDone: the handle is
\* removed, the request body cancelled, and the response closed, which throws
\* unless it is readable, or failed.
OnDone(t) ==
  LET r == easy[t]
      d == RemoveHandle(CancelReader(r))
      fails == r.code = "OK" /\ r.response # "readable"
  IN /\ LoopFree
     /\ r.state = "ended"
     /\ Callback(t, "done",
              IF r.code = "OK"
                THEN [d EXCEPT !.response = IF @ = "readable" THEN "closed" ELSE @]
              ELSE IF r.gotHeader
                THEN [d EXCEPT !.response = IF @ = "readable" THEN "errored" ELSE @]
              ELSE [d EXCEPT !.header = IF @ = "wait" THEN "rejected" ELSE @],
              fails)
     /\ UNCHANGED armed

DoneReturns ==
  /\ Up /\ cb.kind = "done"
  /\ cb' = NoCb
  /\ UNCHANGED <<easy, armed, polled, multi, threw, exited>>

\* The collector may take an object that is only held weakly, once the driver
\* has let go of it too; a forgotten request is only reachable from the handle.
CollectEasy(t) ==
  /\ easy[t].weak /\ easy[t].state # "new" /\ ~easy[t].collected
  /\ Set(t, [easy[t] EXCEPT !.collected = TRUE])
  /\ UNCHANGED <<cb, armed, polled, multi, threw, exited>>

-----------------------------------------------------------------------------

Progress(t) == OnHeader(t) \/ OnWrite(t) \/ OnRead(t) \/ Complete(t)

CurlNext ==
  \/ \E t \in Transfers :
       \/ Fetch(t) \/ FetchRefused(t) \/ Abort(t) \/ CancelBody(t)
       \/ Drain(t) \/ DrainFails(t) \/ Unpause(t)
       \/ Progress(t) \/ OnDone(t) \/ CollectEasy(t)
  \/ Return \/ DoneReturns \/ CloseMulti

\* The loop delivers polls and timers, callbacks return, a request body that
\* is read yields a chunk or ends, and libcurl's own timeouts end a transfer
\* that can make no progress unless it is paused.
CurlFairness ==
  /\ \A t \in Transfers : /\ WF_curlVars(Progress(t) /\ ~easy[t].paused)
                          /\ WF_curlVars(Drain(t)) /\ WF_curlVars(Unpause(t))
                          /\ WF_curlVars(OnDone(t))
  /\ WF_curlVars(Return \/ DoneReturns)

CurlSpec == CurlInit /\ [][CurlNext]_curlVars /\ CurlFairness

-----------------------------------------------------------------------------
(* Properties *)

CurlTypeOK ==
  /\ \A t \in Transfers : /\ easy[t].state \in {"new", "running", "ended", "removed", "refused"}
                          /\ easy[t].buffered \in 0..MaxChunks
  /\ cb.t \in Transfers \cup {"none"}
  /\ polled \subseteq Transfers

\* While libcurl knows a handle, its CurlEasy is not collected, though nothing
\* else may refer to it; afterwards nothing native holds it
\* (CurlMulti::AddHandle, RemoveHandle).
HeldWhileKnown == \A t \in Transfers : /\ Known(t) => ~easy[t].collected
                                       /\ ~Known(t) => easy[t].weak

\* A callback throws only if the user cancelled the response body, or an abort
\* came while libcurl was on the stack and could not remove the handle
\* (Curl.#onWrite, #onDone, #abort).
ThrowExplained ==
  threw => \E t \in Transfers : easy[t].cancelled \/ easy[t].recursed

\* While libcurl knows a handle its CurlEasy is not collected, afterwards
\* nothing native holds it, and a callback throws only after a cancelled body
\* or an abort with libcurl on the stack (CurlMulti::AddHandle, RemoveHandle,
\* Curl.#abort).
TransfersHeld == HeldWhileKnown /\ ThrowExplained

\* No request is waiting for its answer.
AllSettled == ~Up \/ \A t \in Transfers : easy[t].header # "wait"

\* Every request is answered, with a header or an error: an upload that
\* libcurl has paused is resumed by the chunk or the end that follows, also
\* when it arrives before the callback that paused returns
\* (Curl.read, drainBody, CurlMulti::StartTimeout).
RequestsSettle == []<>AllSettled
=============================================================================
