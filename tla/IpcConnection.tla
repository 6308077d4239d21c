---------------------------- MODULE IpcConnection ----------------------------
(***************************************************************************)
(* A client's connection to the agent: the delegate, the decoder and a     *)
(* well-behaved peer that answers a request at most once, in any order and *)
(* as late as it likes, sends requests of its own, and may close its end   *)
(* at any time.  The bytes we write reach the peer while its end is open.  *)
(***************************************************************************)
EXTENDS IpcDelegate, IpcDecoder

VARIABLES
  peerCalls,  \* calls the peer has received and not answered
  answers,    \* answers[k]: the code the peer gave call k, "none" before
  serving     \* requests of the peer whose closure we still hold

connectionVars == <<delegateVars, decoderVars, peerCalls, answers, serving>>
peerVars == <<peerCalls, answers, serving>>

\* An answer carries the id of its call, never the call itself: call is there
\* for the properties only.
Response(k, id, code, len) ==
  [kind |-> "response", id |-> id, code |-> code, len |-> len,
   decodable |-> TRUE, call |-> k]
PeerRequest == [kind |-> "request", id |-> 0, code |-> "OK", len |-> 0,
                decodable |-> TRUE, call |-> NoCall]

\* The id DelegateImpl wrote for call k.
IdOf(k) == (k - 1) % SeqMod

ConnectionInit ==
  /\ DelegateInit /\ DecoderInit
  /\ peerCalls = {}
  /\ answers = [k \in Calls |-> "none"]
  /\ serving = {}

-----------------------------------------------------------------------------
\* Request, and the frame on its way to the peer.
MakeCall ==
  /\ \/ RequestSent /\ peerCalls' = peerCalls \cup (IF peerOpen THEN {made + 1} ELSE {})
     \/ (RequestAborts \/ RequestDropped \/ RequestRefused) /\ UNCHANGED peerCalls
  /\ UNCHANGED <<decoderVars, answers, serving>>

PeerAnswers(k, code, len) ==
  /\ k \in peerCalls
  /\ PeerSend(Response(k, IdOf(k), code, len))
  /\ peerCalls' = peerCalls \ {k}
  /\ answers' = [answers EXCEPT ![k] = code]
  /\ UNCHANGED <<delegateVars, serving>>

PeerAsks == PeerSend(PeerRequest) /\ UNCHANGED <<delegateVars, peerVars>>

PeerEnds == PeerClose /\ UNCHANGED <<delegateVars, peerVars>>

\* The event loop may run a callback: no handler is on the stack, or one is
\* paused by the debugger.
Polling == Sane /\ (NestedLoop \/ (invoking = {} /\ readers = 0 /\ eof # "dispatched"))

\* The loop of OnReadable may go on: the closure it called has returned.
Returned == Sane /\ (NestedLoop \/ invoking = {})

Receive == /\ Polling
           /\ (\E n \in 1..Len(wire) : OnFrame(n)) \/ OnReadable \/ OnClosed
           /\ UNCHANGED <<delegateVars, peerVars>>

StopReading == Returned /\ ReadDone /\ UNCHANGED <<delegateVars, peerVars>>

\* Mutant: a response goes to whichever call was registered last.
DeliverToLatest(f) ==
  \/ /\ f.kind = "response"
     /\ OnResponse((seq + SeqMod - 1) % SeqMod, f.code)
     /\ UNCHANGED serving
  \/ /\ f.kind = "request"
     /\ serving' = serving \cup {Header}
     /\ UNCHANGED delegateVars

\* What Dispatch hands to the delegate: OnResponse, or OnRequest which leaves
\* a closure with the service.
Deliver(f) ==
  \/ /\ f.kind = "response"
     /\ OnResponse(f.id, f.code)
     /\ UNCHANGED serving
  \/ /\ f.kind = "request"
     /\ serving' = serving \cup {Header}
     /\ UNCHANGED delegateVars

DispatchMessage ==
  /\ Returned
  /\ ReadDispatch
  /\ Deliver(sent[Header])
  /\ UNCHANGED <<peerCalls, answers>>

\* The service answers a request of the peer: the closure of OnRequest writes
\* if there is a socket and is gone either way.
Reply == \E n \in serving : /\ serving' = serving \ {n}
                            /\ UNCHANGED <<delegateVars, decoderVars, peerCalls, answers>>

Timeout ==
  /\ Polling
  /\ \E id \in RequestId : OnTimeout(id)
  /\ UNCHANGED <<decoderVars, peerVars>>

ClosureReturns ==
  /\ \E id \in RequestId : EraseCallback(id)
  /\ UNCHANGED <<decoderVars, peerVars>>

\* OnEoF with a complete message dispatches it first.
EndOfFile ==
  /\ Polling
  /\ OnEoF
  /\ \/ Decode = "Ok" /\ Deliver(sent[Header])
     \/ Decode = "More" /\ Disconnect /\ UNCHANGED serving
     \/ Decode = "Error" /\ UNCHANGED <<delegateVars, serving>>
  /\ UNCHANGED <<peerCalls, answers>>

\* OnFinished comes after the closure that OnEoF dispatched to has returned.
Finish ==
  /\ Returned
  /\ OnFinished
  /\ \/ Disconnect
     \/ ~socketUp /\ UNCHANGED delegateVars
  /\ UNCHANGED peerVars

ResetSocket == Dispose /\ Disconnect /\ UNCHANGED peerVars

\* The delegate dies with the channel, after the socket has been closed.
DestroyDelegate == socket = "closed" /\ Destroy /\ UNCHANGED <<decoderVars, peerVars>>

ConnectionNext ==
  \/ MakeCall
  \/ \E k \in Calls, code \in PeerCodes, len \in 0..1 : PeerAnswers(k, code, len)
  \/ PeerAsks \/ PeerEnds \/ Receive \/ DispatchMessage \/ StopReading
  \/ Reply \/ Timeout \/ ClosureReturns \/ EndOfFile \/ Finish \/ ResetSocket \/ DestroyDelegate

ConnectionSpec == ConnectionInit /\ [][ConnectionNext]_connectionVars

-----------------------------------------------------------------------------
(* Properties *)

\* A call's outcome is its own: a code of the peer reaches a closure only as
\* the answer to that very call, in whatever order answers come
\* (the id echoed in MessageHeader, OnResponse).
ResponseMatches ==
  \A k \in Calls : outcome[k] \in PeerCodes => answers[k] = outcome[k]

\* An answer that was dispatched for a call that was waiting is what the call
\* gets; only an answer overtaken by the timer or the end is lost.
AnswerNotLost ==
  \A i \in 1..Len(dispatched) :
    LET f == sent[dispatched[i]]
    IN f.kind = "response" => outcome[f.call] \in {f.code, "TIMEOUT"}

\* Both: no call gets the answer to another, and none misses its own unless the
\* timer came first (the id echoed in MessageHeader, OnResponse).
AnswersMatch == ResponseMatches /\ AnswerNotLost
=============================================================================
