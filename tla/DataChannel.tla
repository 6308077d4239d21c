----------------------------- MODULE DataChannel -----------------------------
(***************************************************************************)
(* NoslatedDataChannel and its JavaScript half, agent_channel.js: calls to *)
(* the agent, requests from it, streams it pushes, resources it grants.    *)
(* ref_count_ decides whether the socket keeps the event loop, and so the  *)
(* worker, alive; the references are taken and given back at a dozen       *)
(* places in two languages.                                                *)
(*                                                                         *)
(* A stream is named by the fetch call or the trigger it belongs to, a     *)
(* resource token by the call that asked for it.  Messages of the agent    *)
(* arrive in the order it sent them (IpcDecoder) and a call ends at most   *)
(* once (IpcDelegate).                                                     *)
(***************************************************************************)
EXTENDS Integers, FiniteSets

CONSTANTS FetchCalls,    \* calls of fetch, each made at most once
          AcquireCalls,  \* calls of acquireResource
          Triggers,      \* requests the agent may make
          Refed,         \* refed_: the channel itself keeps the loop alive
          ErrorListener  \* the script handles uncaught errors

\* The call that aborts a fetch, and one push of a trigger's response body.
AbortOf(c) == <<c, "abort">>
PushOf(t) == <<t, "push">>
PushCalls == {PushOf(t) : t \in Triggers}
Calls == FetchCalls \cup AcquireCalls \cup {AbortOf(c) : c \in FetchCalls} \cup PushCalls
Streams == FetchCalls \cup Triggers

ASSUME FiniteAssumption == IsFiniteSet(Calls) /\ IsFiniteSet(Triggers)
ASSUME DisjointAssumption == Triggers \cap Calls = {}
ASSUME FlagsAssumption == Refed \in BOOLEAN /\ ErrorListener \in BOOLEAN

VARIABLES
  phase,      \* "connecting", "credentials", "serving"; "failed" (the CHECK
              \* after WaitForAgent), "exited" (uncaught error), "crashed"
              \* (socket_ used while null)
  socket,     \* socket_ is not null
  uvRef,      \* the socket's handle keeps the event loop alive
  refCount,   \* ref_count_
  made,       \* the calls made
  pending,    \* calls whose closure the delegate holds
  dropped,    \* calls the delegate dropped for want of a socket: they stay
              \* in #events for ever
  resolved,   \* calls answered OK whose continuation has not run yet
  ticking,    \* Callback has called JavaScript, TickTaskQueue is not done
  running,    \* callbacks_: triggers not fed back
  seen,       \* the triggers received
  open,       \* #readableControllerMap: streams their consumer may read
  cancelled,  \* ... and those it has cancelled
  waiting,    \* #resourceWaitList
  aborted,    \* fetches whose signal was aborted
  ended,      \* streams the agent has ended
  granted,    \* tokens the agent has notified
  missed      \* streams and tokens for which a message came too early

socketVars == <<phase, socket>>
refVars == <<refCount, uvRef>>
callVars == <<made, pending, dropped, resolved, ticking>>
triggerVars == <<running, seen>>
streamVars == <<open, cancelled, aborted, ended>>
resourceVars == <<waiting, granted>>
channelVars == <<socketVars, refVars, callVars, triggerVars, streamVars, resourceVars, missed>>

ChannelInit ==
  /\ phase = "connecting"
  /\ socket = FALSE /\ uvRef = FALSE /\ ticking = FALSE
  /\ refCount = 0
  /\ made = {} /\ pending = {} /\ dropped = {} /\ resolved = {}
  /\ running = {} /\ seen = {}
  /\ open = {} /\ cancelled = {} /\ aborted = {} /\ ended = {}
  /\ waiting = {} /\ granted = {} /\ missed = {}

-----------------------------------------------------------------------------
(* Connecting *)

\* The connection attempt ended; the new handle keeps the loop alive.  Without
\* a socket the loop runs dry and the CHECK after WaitForAgent fails.
OnConnect(ok) ==
  /\ phase = "connecting"
  /\ phase' = IF ok THEN "credentials" ELSE "failed"
  /\ socket' = ok
  /\ uvRef' = ok
  /\ UNCHANGED <<refCount, callVars, triggerVars, streamVars, resourceVars, missed>>

\* The agent accepted the credentials: Unref, then set_connected.
CredentialsAccepted ==
  /\ phase = "credentials" /\ socket
  /\ phase' = "serving"
  /\ refCount' = IF Refed THEN refCount + 1 ELSE refCount
  /\ uvRef' = Refed
  /\ UNCHANGED <<socket, callVars, triggerVars, streamVars, resourceVars, missed>>

\* The agent refused them or did not answer in time.
CredentialsRejected ==
  /\ phase = "credentials"
  /\ phase' = "failed"
  /\ socket' = FALSE
  /\ uvRef' = FALSE
  /\ UNCHANGED <<refCount, callVars, triggerVars, streamVars, resourceVars, missed>>

\* The event loop gets to a new event: no callback is on the stack.
Polling == phase = "serving" /\ ~ticking

\* Disconnected: the socket goes, nothing else is told.
Disconnected ==
  /\ phase = "credentials" \/ Polling
  /\ socket
  /\ socket' = FALSE
  /\ uvRef' = FALSE
  /\ UNCHANGED <<phase, refCount, callVars, triggerVars, streamVars, resourceVars, missed>>

-----------------------------------------------------------------------------
(* References *)

\* Ref and Unref use socket_ when the count leaves or reaches zero.
RefFaults == refCount = 0 /\ ~socket
UnrefFaults == refCount = 1 /\ ~socket

Ref == /\ ~RefFaults
       /\ refCount' = refCount + 1
       /\ uvRef' = (uvRef \/ refCount = 0)
       /\ UNCHANGED socketVars

\* Mutant: every Unref is passed on to the handle.
UnrefAlways == /\ ~UnrefFaults
               /\ refCount' = refCount - 1
               /\ uvRef' = FALSE
               /\ UNCHANGED socketVars

Unref == /\ ~UnrefFaults
         /\ refCount' = refCount - 1
         /\ uvRef' = (uvRef /\ refCount # 1)
         /\ UNCHANGED socketVars

\* A reference is given back and another taken in the same turn.
UnrefThenRef == /\ ~UnrefFaults
                /\ refCount' = refCount
                /\ uvRef' = (uvRef \/ refCount = 1)
                /\ UNCHANGED socketVars

\* The null socket_ is used: the process dies.
Crash == phase' = "crashed" /\ UNCHANGED <<socket, refVars, callVars, triggerVars,
                                           streamVars, resourceVars, missed>>

\* An error nobody catches ends the process unless the script listens.
Uncaught == /\ phase' = IF ErrorListener THEN phase ELSE "exited"
            /\ UNCHANGED socket

-----------------------------------------------------------------------------
(* Calls to the agent *)

\* The delegate's Request for a call whose reference has been taken.
Request(c) ==
  /\ c \notin made
  /\ made' = made \cup {c}
  /\ pending' = IF socket THEN pending \cup {c} ELSE pending
  /\ dropped' = IF socket THEN dropped ELSE dropped \cup {c}
  /\ UNCHANGED <<resolved, ticking>>

\* JsCall.  A response body is pushed after its trigger has been fed back.
JsCall(c) ==
  /\ phase = "serving"
  /\ c \in FetchCalls \cup AcquireCalls \cup {PushOf(t) : t \in seen \ running}
  /\ c \notin made
  /\ \/ Ref /\ Request(c) /\ UNCHANGED <<triggerVars, streamVars, resourceVars, missed>>
     \/ RefFaults /\ Crash

\* Callback gives the reference back, with a check for the socket.
CallbackUnref == /\ refCount' = refCount - 1
                 /\ uvRef' = (uvRef /\ refCount # 1)

\* Mutant: TickTaskQueue is left out of Callback.
CallbackUnticked(c) ==
  /\ Polling
  /\ c \in pending
  /\ CallbackUnref
  /\ pending' = pending \ {c}
  /\ resolved' = IF c \in FetchCalls \cup AcquireCalls THEN resolved \cup {c} ELSE resolved
  /\ UNCHANGED <<socketVars, made, dropped, ticking, triggerVars, streamVars,
                 resourceVars, missed>>

\* The agent answered OK: Callback resolves the promise and starts the tick.
CallbackOk(c) ==
  /\ Polling
  /\ c \in pending
  /\ CallbackUnref
  /\ pending' = pending \ {c}
  /\ resolved' = IF c \in FetchCalls \cup AcquireCalls THEN resolved \cup {c} ELSE resolved
  /\ ticking' = TRUE
  /\ UNCHANGED <<socketVars, made, dropped, triggerVars, streamVars, resourceVars, missed>>

\* Mutant: no call times out once the socket is lost.
CallbackErrorIfConnected(c) ==
  /\ Polling /\ socket
  /\ c \in pending
  /\ CallbackUnref
  /\ pending' = pending \ {c}
  /\ IF c \in PushCalls THEN Uncaught ELSE UNCHANGED socketVars
  /\ ticking' = TRUE
  /\ UNCHANGED <<made, dropped, resolved, triggerVars, streamVars, resourceVars, missed>>

\* The agent answered with an error, or the call timed out.  Nobody handles
\* the rejected promise of a streamPush.
CallbackError(c) ==
  /\ Polling
  /\ c \in pending
  /\ CallbackUnref
  /\ pending' = pending \ {c}
  /\ IF c \in PushCalls THEN Uncaught ELSE UNCHANGED socketVars
  /\ ticking' = TRUE
  /\ UNCHANGED <<made, dropped, resolved, triggerVars, streamVars, resourceVars, missed>>

\* The continuation of a fetch: unless it lost the race against its signal or
\* the response has no body, the stream is opened.
ContinueFetch(c) ==
  /\ phase = "serving"
  /\ c \in resolved \cap FetchCalls
  /\ resolved' = resolved \ {c}
  /\ \/ /\ c \notin aborted
        /\ Ref
        /\ open' = open \cup {c}
     \/ UNCHANGED <<socketVars, refVars, open>>
  /\ UNCHANGED <<made, pending, dropped, ticking, triggerVars, cancelled, aborted,
                 ended, resourceVars, missed>>

\* ... and its fault.
ContinueFetchFaults(c) ==
  /\ phase = "serving"
  /\ c \in resolved \cap FetchCalls
  /\ RefFaults
  /\ Crash

\* The continuation of acquireResource: the resource was free, or wait for it.
ContinueAcquire(c) ==
  /\ phase = "serving"
  /\ c \in resolved \cap AcquireCalls
  /\ resolved' = resolved \ {c}
  /\ waiting' \in {waiting, waiting \cup {c}}
  /\ UNCHANGED <<socketVars, refVars, made, pending, dropped, ticking, triggerVars,
                 streamVars, granted, missed>>

\* TickTaskQueue returns when no continuation is left.
TickDone ==
  /\ phase = "serving" /\ ticking
  /\ resolved = {}
  /\ ticking' = FALSE
  /\ UNCHANGED <<socketVars, refVars, made, pending, dropped, resolved, triggerVars,
                 streamVars, resourceVars, missed>>

-----------------------------------------------------------------------------
(* Requests of the agent *)

\* Trigger: Emit takes a reference; with input data the stream takes another.
Trigger(t, hasInput) ==
  /\ Polling /\ socket
  /\ t \notin seen
  /\ seen' = seen \cup {t}
  /\ running' = running \cup {t}
  /\ open' = IF hasInput THEN open \cup {t} ELSE open
  /\ refCount' = refCount + (IF hasInput THEN 2 ELSE 1)
  /\ uvRef' = TRUE
  /\ UNCHANGED <<socketVars, callVars, cancelled, aborted, ended, resourceVars, missed>>

\* Feedback, once the script's promise has settled.
Feedback(t) ==
  /\ phase = "serving"
  /\ t \in running
  /\ \/ /\ Unref
        /\ running' = running \ {t}
        /\ UNCHANGED <<callVars, seen, streamVars, resourceVars, missed>>
     \/ UnrefFaults /\ Crash

\* ... with a response without a body: its end is pushed in the same turn.
FeedbackAndPush(t) ==
  /\ phase = "serving"
  /\ t \in running
  /\ \/ /\ UnrefThenRef
        /\ running' = running \ {t}
        /\ Request(PushOf(t))
        /\ UNCHANGED <<seen, streamVars, resourceVars, missed>>
     \/ UnrefFaults /\ Crash

\* ... with the script's error, which is then thrown again.
FeedbackError(t) ==
  /\ phase = "serving"
  /\ t \in running
  /\ \/ /\ ~UnrefFaults
        /\ CallbackUnref
        /\ Uncaught
        /\ running' = running \ {t}
        /\ UNCHANGED <<callVars, seen, streamVars, resourceVars, missed>>
     \/ UnrefFaults /\ Crash

\* The agent knows a stream once it has answered the fetch or triggered us.
AgentHas(s) == s \in (made \ (pending \cup dropped)) \cup seen

\* StreamPush: the agent's chunk.  The reference of Emit goes back at once
\* (the handler feeds back first); a stream we do not have is ignored, and the
\* controller of a cancelled one throws.
PushChunk(s) ==
  /\ Polling /\ socket
  /\ AgentHas(s) /\ s \notin ended
  /\ IF s \in cancelled THEN Uncaught ELSE UNCHANGED socketVars
  /\ missed' = missed \cup ({s} \cap resolved)
  /\ UNCHANGED <<refVars, callVars, triggerVars, streamVars, resourceVars>>

\* Mutant: the stream is removed and its reference kept.
PushEndKeepsRef(s) ==
  /\ Polling /\ socket
  /\ AgentHas(s) /\ s \notin ended
  /\ ended' = ended \cup {s}
  /\ open' = open \ {s}
  /\ IF s \in cancelled THEN Uncaught ELSE UNCHANGED socketVars
  /\ missed' = missed \cup ({s} \cap resolved)
  /\ UNCHANGED <<refVars, callVars, triggerVars, cancelled, aborted, resourceVars>>

\* StreamPush with is_eos: close() throws if the consumer has cancelled, so
\* that the stream stays in the map and its reference with it.
PushEnd(s) ==
  /\ Polling /\ socket
  /\ AgentHas(s) /\ s \notin ended
  /\ ended' = ended \cup {s}
  /\ \/ /\ s \in open
        /\ open' = open \ {s}
        /\ Unref
     \/ /\ s \notin open
        /\ IF s \in cancelled THEN Uncaught ELSE UNCHANGED socketVars
        /\ UNCHANGED <<refVars, open>>
  /\ missed' = missed \cup ({s} \cap resolved)
  /\ UNCHANGED <<callVars, triggerVars, cancelled, aborted, resourceVars>>

\* StreamPush with is_error: error() is silent on a cancelled stream.
PushError(s) ==
  /\ Polling /\ socket
  /\ AgentHas(s) /\ s \notin ended
  /\ ended' = ended \cup {s}
  /\ open' = open \ {s}
  /\ cancelled' = cancelled \ {s}
  /\ IF s \in open \cup cancelled THEN Unref ELSE UNCHANGED <<socketVars, refVars>>
  /\ missed' = missed \cup ({s} \cap resolved)
  /\ UNCHANGED <<callVars, triggerVars, aborted, resourceVars>>

\* ResourceNotification: wakes the waiter, ignored if there is none.
ResourceNotification(c) ==
  /\ Polling /\ socket
  /\ c \in AcquireCalls \cap (made \ (pending \cup dropped))
  /\ c \notin granted
  /\ granted' = granted \cup {c}
  /\ waiting' = waiting \ {c}
  /\ missed' = missed \cup ({c} \cap resolved)
  /\ UNCHANGED <<socketVars, refVars, callVars, triggerVars, streamVars>>

-----------------------------------------------------------------------------
(* The consumer *)

\* The consumer cancels the stream: the agent channel is not told.
Cancel(s) ==
  /\ phase = "serving"
  /\ s \in open
  /\ open' = open \ {s}
  /\ cancelled' = cancelled \cup {s}
  /\ UNCHANGED <<socketVars, refVars, callVars, triggerVars, aborted, ended, resourceVars, missed>>

\* The fetch's signal is aborted: abortReadableStream if there is a response,
\* then the call fetchAbort.
AbortFetch(c) ==
  /\ phase = "serving"
  /\ c \in made \ aborted
  /\ LET reading == c \in open \cup cancelled
     IN \/ /\ IF reading THEN UnrefThenRef ELSE Ref
           /\ open' = open \ {c}
           /\ cancelled' = cancelled \ {c}
           /\ aborted' = aborted \cup {c}
           /\ Request(AbortOf(c))
           /\ UNCHANGED <<triggerVars, ended, resourceVars, missed>>
        \/ (IF reading THEN UnrefFaults ELSE RefFaults) /\ Crash

ChannelNext ==
  \/ \E ok \in BOOLEAN : OnConnect(ok)
  \/ CredentialsAccepted \/ CredentialsRejected \/ Disconnected \/ TickDone
  \/ \E c \in Calls : JsCall(c) \/ CallbackOk(c) \/ CallbackError(c)
  \/ \E c \in FetchCalls : ContinueFetch(c) \/ ContinueFetchFaults(c) \/ AbortFetch(c)
  \/ \E c \in AcquireCalls : ContinueAcquire(c) \/ ResourceNotification(c)
  \/ \E t \in Triggers : Feedback(t) \/ FeedbackAndPush(t) \/ FeedbackError(t)
  \/ \E t \in Triggers : \E hasInput \in BOOLEAN : Trigger(t, hasInput)
  \/ \E s \in Streams : PushChunk(s) \/ PushEnd(s) \/ PushError(s) \/ Cancel(s)

\* The agent, or a timer, answers every call; connecting ends, credentials are
\* answered or time out, and continuations run to the end.
ChannelFairness ==
  /\ WF_channelVars(\E ok \in BOOLEAN : OnConnect(ok))
  /\ WF_channelVars(CredentialsRejected)
  /\ \A c \in Calls : WF_channelVars(CallbackError(c))
  /\ \A c \in FetchCalls : WF_channelVars(ContinueFetch(c))
  /\ \A c \in AcquireCalls : WF_channelVars(ContinueAcquire(c))
  /\ WF_channelVars(TickDone)

ChannelSpec == ChannelInit /\ [][ChannelNext]_channelVars
ChannelFairSpec == ChannelSpec /\ ChannelFairness

-----------------------------------------------------------------------------
(* Properties *)

Phases == {"connecting", "credentials", "serving", "failed", "exited", "crashed"}

\* Types of the members of NoslatedDataChannel and AgentChannel; ref_count_
\* is unsigned and never wraps below zero.
ChannelTypeOK ==
  /\ phase \in Phases
  /\ socket \in BOOLEAN /\ uvRef \in BOOLEAN /\ ticking \in BOOLEAN
  /\ refCount \in Nat
  /\ made \subseteq Calls /\ pending \subseteq made /\ dropped \subseteq made
  /\ resolved \subseteq made
  /\ seen \subseteq Triggers /\ running \subseteq seen
  /\ open \subseteq Streams /\ cancelled \subseteq Streams
  /\ aborted \subseteq FetchCalls /\ ended \subseteq Streams
  /\ waiting \subseteq AcquireCalls /\ granted \subseteq AcquireCalls
  /\ missed \subseteq FetchCalls \cup AcquireCalls

\* What owns a reference: the channel if refed_, calls not called back,
\* triggers not fed back, streams in the map.
ChannelRef == IF Refed /\ phase \in {"serving", "exited", "crashed"} THEN 1 ELSE 0
OpenCalls == pending \cup dropped
OpenStreams == open \cup cancelled

\* ref_count_ is the number of outstanding pieces of work, in every order of
\* calls, answers, triggers, pushes, cancellations, aborts and disconnects.
RefsAccounted ==
  refCount = ChannelRef + Cardinality(OpenCalls) + Cardinality(running)
                        + Cardinality(OpenStreams)

\* Ref and Unref use socket_ unchecked, and it is null only in a worker that
\* has lost its agent while its last piece of work begins or ends; never with
\* --ref-agent, whose reference keeps the count off the boundary.
FaultsAtBoundary == phase = "crashed" => ~Refed /\ ~socket /\ refCount \in {0, 1}

\* A connected worker is kept alive by its socket exactly as long as there is
\* outstanding work, and the loss of the socket harms nobody but a worker at
\* the count's boundary (socket_->Ref and Unref of Ref and Unref).
KeptAliveByWork ==
  /\ phase = "serving" /\ socket =>
       (uvRef <=> Refed \/ OpenCalls # {} \/ running # {} \/ OpenStreams # {})
  /\ FaultsAtBoundary

\* A stream's push or a resource's notification never comes before the code
\* that waits for it has run (TickTaskQueue at the end of Callback).
NothingMissed == missed = {}

\* A call that reached the delegate is called back, whatever the agent does.
CallsEnd == \A c \in Calls : (c \in pending) ~> (c \notin pending \/ phase # "serving")
=============================================================================
