----------------------------- MODULE IpcDelegate -----------------------------
(***************************************************************************)
(* The client side of the RPC layer: NoslatedService (request ids) and     *)
(* DelegateImpl (the maps callbacks_ and timers_).  The peer is arbitrary: *)
(* it may answer any id with any code, late, repeatedly or unasked.        *)
(*                                                                         *)
(* A closure runs in the middle of OnResponse, after its timer is cleared  *)
(* and before its callback is erased.  It may make new calls, and while a  *)
(* debugger holds it paused, a nested event loop delivers other responses  *)
(* and timeouts (AworkerInspectorClient::runMessageLoop).  OnResponse is   *)
(* therefore two steps, and invoking is the set of ids whose closure is on *)
(* the stack.                                                              *)
(***************************************************************************)
EXTENDS Integers

CONSTANTS MaxCalls,  \* bound: the calls made in a behaviour
          SeqMod,    \* request ids are seq_ modulo this (2^32 in the code)
          NestedLoop \* a debugger may pause a closure

ASSUME MaxCallsAssumption == MaxCalls \in Nat \ {0}
ASSUME SeqModAssumption == SeqMod \in Nat \ {0}
ASSUME NestedLoopAssumption == NestedLoop \in BOOLEAN

Calls == 1..MaxCalls
RequestId == 0..(SeqMod - 1)
PeerCodes == {"OK", "CLIENT_ERROR"}
Codes == PeerCodes \cup {"TIMEOUT", "CONNECTION_RESET"}
NoCall == 0  \* not a call: an id without an entry in callbacks_

VARIABLES
  alive,      \* the delegate has not been destroyed
  socketUp,   \* socket() is not null
  seq,        \* seq_
  made,       \* the number of calls made; call k is the k-th
  callbacks,  \* callbacks_: the call whose closure an id holds, or NoCall
  timers,     \* timers_: the ids with an armed timer
  invoking,   \* the ids whose closure is running
  outcome,    \* what became of each call (see RpcCalls)
  settles,    \* how often each call's closure has been invoked
  raced,      \* an id was answered while its closure was running; the outer
              \* activation then erases an invalid iterator, so that what
              \* follows is undefined and the behaviour ends here
  aborted     \* a CHECK failed

delegateVars == <<alive, socketUp, seq, made, callbacks, timers, invoking,
                  outcome, settles, raced, aborted>>

Registered == {id \in RequestId : callbacks[id] # NoCall}

DelegateInit ==
  /\ alive = TRUE
  /\ socketUp = TRUE
  /\ seq = 0
  /\ made = 0
  /\ callbacks = [id \in RequestId |-> NoCall]
  /\ timers = {}
  /\ invoking = {}
  /\ outcome = [k \in Calls |-> "none"]
  /\ settles = [k \in Calls |-> 0]
  /\ raced = FALSE
  /\ aborted = FALSE

\* The process is in a defined state.
Sane == ~aborted /\ ~raced

\* The event loop runs: no closure is on the stack, or one is paused.
LoopRuns == Sane /\ (invoking = {} \/ NestedLoop)

-----------------------------------------------------------------------------
(* Requests *)

\* Mutant: the id counter does not advance.
NextSeqStuck == /\ Sane
                /\ made < MaxCalls
                /\ made' = made + 1
                /\ seq' = seq

\* NewControllerWithTimeout: every call takes the next id, whatever follows.
NextSeq == /\ Sane
           /\ made < MaxCalls
           /\ made' = made + 1
           /\ seq' = (seq + 1) % SeqMod

\* SetCallback's CHECKs: the id must be free in both maps.
IdFree(id) == callbacks[id] = NoCall /\ id \notin timers

\* DelegateImpl::Request with a socket: arm the timer, register, write.
RequestSent ==
  /\ NextSeq
  /\ alive /\ socketUp
  /\ IdFree(seq)
  /\ callbacks' = [callbacks EXCEPT ![seq] = made + 1]
  /\ timers' = timers \cup {seq}
  /\ outcome' = [outcome EXCEPT ![made + 1] = "pending"]
  /\ UNCHANGED <<alive, socketUp, invoking, settles, raced, aborted>>

\* ... and the id still belongs to an earlier call: the CHECK aborts.
RequestAborts ==
  /\ NextSeq
  /\ alive /\ socketUp
  /\ ~IdFree(seq)
  /\ aborted' = TRUE
  /\ UNCHANGED <<alive, socketUp, callbacks, timers, invoking, outcome, settles, raced>>

\* DelegateImpl::Request without a socket only logs: the closure is gone.
RequestDropped ==
  /\ NextSeq
  /\ alive /\ ~socketUp
  /\ outcome' = [outcome EXCEPT ![made + 1] = "dropped"]
  /\ UNCHANGED <<alive, socketUp, callbacks, timers, invoking, settles, raced, aborted>>

\* Request_ with an expired delegate answers at once.
RequestRefused ==
  /\ NextSeq
  /\ ~alive
  /\ outcome' = [outcome EXCEPT ![made + 1] = "CONNECTION_RESET"]
  /\ settles' = [settles EXCEPT ![made + 1] = @ + 1]
  /\ UNCHANGED <<alive, socketUp, callbacks, timers, invoking, raced, aborted>>

Request == RequestSent \/ RequestAborts \/ RequestDropped \/ RequestRefused

-----------------------------------------------------------------------------
(* Responses *)

\* OnResponse up to the call of the closure: clear the timer, then invoke.
InvokeCallback(id, code) ==
  /\ callbacks[id] # NoCall
  /\ timers' = timers \ {id}
  /\ invoking' = invoking \cup {id}
  /\ outcome' = [outcome EXCEPT ![callbacks[id]] = code]
  /\ settles' = [settles EXCEPT ![callbacks[id]] = @ + 1]
  /\ raced' = (id \in invoking)
  /\ UNCHANGED <<alive, socketUp, seq, made, callbacks, aborted>>

\* A response frame was dispatched.  One whose id is unknown is ignored.
OnResponse(id, code) ==
  /\ LoopRuns /\ alive
  /\ \/ InvokeCallback(id, code)
     \/ callbacks[id] = NoCall /\ UNCHANGED delegateVars

\* The timer armed by Request answers the call itself.
OnTimeout(id) ==
  /\ LoopRuns /\ alive
  /\ id \in timers
  /\ InvokeCallback(id, "TIMEOUT")

\* Mutant: the callback stays registered after its closure ran.
EraseForgotten(id) ==
  /\ Sane
  /\ id \in invoking
  /\ invoking' = invoking \ {id}
  /\ UNCHANGED <<alive, socketUp, seq, made, callbacks, timers, outcome,
                 settles, raced, aborted>>

\* The closure returned: callbacks_.erase(it).
EraseCallback(id) ==
  /\ Sane
  /\ id \in invoking
  /\ callbacks' = [callbacks EXCEPT ![id] = NoCall]
  /\ invoking' = invoking \ {id}
  /\ UNCHANGED <<alive, socketUp, seq, made, timers, outcome, settles, raced, aborted>>

\* Mutant: losing the socket also clears the timers.
DisconnectClearsTimers ==
  /\ Sane
  /\ socketUp
  /\ socketUp' = FALSE
  /\ timers' = {}
  /\ UNCHANGED <<alive, seq, made, callbacks, invoking, outcome, settles,
                 raced, aborted>>

\* Disconnected, or rejected credentials: socket_.reset().  The calls in
\* flight keep their timers.
Disconnect ==
  /\ Sane
  /\ socketUp
  /\ socketUp' = FALSE
  /\ UNCHANGED <<alive, seq, made, callbacks, timers, invoking, outcome,
                 settles, raced, aborted>>

\* ~DelegateImpl: clear every timer, then give every closure CONNECTION_RESET.
Destroy ==
  /\ Sane
  /\ alive
  /\ invoking = {}
  /\ alive' = FALSE
  /\ socketUp' = FALSE
  /\ timers' = {}
  /\ callbacks' = [id \in RequestId |-> NoCall]
  /\ LET held == {callbacks[id] : id \in Registered}
     IN /\ outcome' = [k \in Calls |-> IF k \in held THEN "CONNECTION_RESET"
                                                     ELSE outcome[k]]
        /\ settles' = [k \in Calls |-> IF k \in held THEN settles[k] + 1
                                                     ELSE settles[k]]
  /\ UNCHANGED <<seq, made, invoking, raced, aborted>>

DelegateNext ==
  \/ Request
  \/ \E id \in RequestId, code \in PeerCodes : OnResponse(id, code)
  \/ \E id \in RequestId : OnTimeout(id) \/ EraseCallback(id)
  \/ Disconnect
  \/ Destroy

\* The event loop stays alive while a timer is armed and runs its callback when
\* it is due; a closure returns.  No answer of the peer is assumed.
DelegateFairness == \A id \in RequestId : WF_delegateVars(OnTimeout(id))
                                          /\ WF_delegateVars(EraseCallback(id))

DelegateSpec == DelegateInit /\ [][DelegateNext]_delegateVars
DelegateFairSpec == DelegateSpec /\ DelegateFairness

-----------------------------------------------------------------------------
(* Properties *)

Outcomes == Codes \cup {"none", "pending", "dropped"}

\* The variables have their types: callbacks_ and timers_ are keyed by uint32
\* ids (ipc_delegate_impl.h) and seq_ wraps inside them.
TypeOK ==
  /\ alive \in BOOLEAN /\ socketUp \in BOOLEAN
  /\ raced \in BOOLEAN /\ aborted \in BOOLEAN
  /\ seq \in RequestId
  /\ made \in 0..MaxCalls
  /\ callbacks \in [RequestId -> Calls \cup {NoCall}]
  /\ timers \in SUBSET RequestId
  /\ invoking \in SUBSET RequestId
  /\ outcome \in [Calls -> Outcomes]
  /\ settles \in [Calls -> Nat]

\* A closure handed to Request is invoked at most once, whatever responses,
\* timeouts, re-entrant calls, disconnects and destruction do
\* (DelegateImpl::OnResponse, ~DelegateImpl).
SettleOnce == \A k \in Calls : settles[k] <= 1

\* The same with a debugger attached, which holds except when an answer finds
\* the closure of its own id paused (OnResponse erases after it calls).
SettleOnceUnlessRaced == raced \/ SettleOnce

\* The two maps agree: an id holds a callback exactly when its timer is armed
\* or its closure is running.  A callback without a timer would be a call that
\* nothing ends if the peer stays silent (SetCallback, OnResponse).
MapsAgree == Sane => /\ invoking \subseteq Registered
                     /\ timers = Registered \ invoking

\* No call is lost: one that was made is settled, was dropped for want of a
\* socket, or is held by an id with an armed timer (DelegateImpl::Request).
NoOrphan == Sane =>
  \A k \in 1..made :
    \/ settles[k] = 1 /\ outcome[k] \in Codes
    \/ settles[k] = 0 /\ outcome[k] = "dropped"
    \/ /\ settles[k] = 0 /\ outcome[k] = "pending"
       /\ \E id \in timers : callbacks[id] = k

\* A CHECK of SetCallback fails only for a call that comes after a full round
\* of ids, whatever became of the calls before it.
NoAbort == aborted => made > SeqMod

\* Every call that got as far as the socket is settled in the end, even if the
\* peer never answers and the socket is lost (the timer of Request).
PendingSettles ==
  \A k \in Calls : (outcome[k] = "pending") ~> (outcome[k] \in Codes \/ ~Sane)

\* DelegateImpl keeps the promise made to callers of Request.
Abstract == INSTANCE RpcCalls WITH Calls <- Calls, Codes <- Codes, outcome <- outcome
AbstractSpec == Abstract!Spec
=============================================================================
