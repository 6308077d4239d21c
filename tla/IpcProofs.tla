------------------------------ MODULE IpcProofs ------------------------------
(***************************************************************************)
(* The two halves of a connection, the delegate and the decoder, and the   *)
(* connection they make.                                                   *)
(***************************************************************************)
EXTENDS IpcConnection, SequenceTheorems, TLAPS

-----------------------------------------------------------------------------
(***************************************************************************)
(* Proofs about DelegateImpl for every number of calls and every width of  *)
(* the request id.  The invariants are not inductive by themselves: that a *)
(* closure runs once rests on the id -> call map being injective and on an *)
(* entry's call being unsettled unless its closure is on the stack.  With  *)
(* a debugger attached all of it holds until an answer meets the paused    *)
(* closure of its own id.                                                  *)
(***************************************************************************)

\* An id's entry belongs to a call already made; the call is unsettled unless
\* its closure is running.
EntriesOK ==
  \A id \in RequestId : callbacks[id] # NoCall =>
    /\ callbacks[id] <= made
    /\ id \notin invoking => /\ settles[callbacks[id]] = 0
                             /\ outcome[callbacks[id]] = "pending"
    /\ id \in invoking => settles[callbacks[id]] = 1

\* No two ids hold the same call.
EntriesInjective ==
  \A i, j \in RequestId :
    callbacks[i] = callbacks[j] /\ callbacks[i] # NoCall => i = j

\* Calls not made yet have no outcome, and a destroyed delegate holds none.
FutureOK == /\ \A k \in Calls : k > made => settles[k] = 0 /\ outcome[k] = "none"
            /\ ~alive => Registered = {}

\* As long as ids do not wrap, an id is its call's number less one.
IdsOK == made <= SeqMod =>
           /\ made < SeqMod => seq = made
           /\ \A id \in RequestId : callbacks[id] # NoCall => callbacks[id] = id + 1

Good == /\ EntriesOK /\ EntriesInjective /\ MapsAgree /\ FutureOK
        /\ SettleOnce /\ NoOrphan /\ IdsOK

IInv == /\ TypeOK
        /\ NoAbort
        /\ raced \/ Good
        /\ raced => NestedLoop

\* The id counter stays in the range of ids and does not wrap early.
LEMMA SeqStep ==
  ASSUME NEW s \in RequestId
  PROVE  /\ (s + 1) % SeqMod \in RequestId
         /\ s + 1 < SeqMod => (s + 1) % SeqMod = s + 1
BY SeqModAssumption DEF RequestId

\* A call's id is its number less one until the counter wraps.
LEMMA CounterStep ==
  ASSUME seq \in RequestId, made \in Nat, made < SeqMod => seq = made, NextSeq
  PROVE  made' < SeqMod => seq' = made'
BY SeqStep, SeqModAssumption DEF NextSeq

\* The empty delegate satisfies the invariant.
LEMMA InitIInv == DelegateInit => IInv
<1> SUFFICES ASSUME DelegateInit PROVE IInv
  OBVIOUS
<1> USE MaxCallsAssumption, SeqModAssumption DEF DelegateInit, Calls, RequestId, NoCall
<1>1. TypeOK
  <2>1. alive \in BOOLEAN /\ socketUp \in BOOLEAN /\ aborted \in BOOLEAN
    BY Zenon
  <2>2. seq \in RequestId /\ made \in 0..MaxCalls
    OBVIOUS
  <2>3. /\ callbacks \in [RequestId -> Calls \cup {NoCall}]
        /\ timers \in SUBSET RequestId /\ invoking \in SUBSET RequestId
    OBVIOUS
  <2>4. outcome \in [Calls -> Outcomes] /\ settles \in [Calls -> Nat]
    BY DEF Outcomes
  <2> QED
    BY <2>1, <2>2, <2>3, <2>4, Zenon DEF TypeOK
<1>2. EntriesOK /\ EntriesInjective /\ MapsAgree /\ FutureOK
  BY DEF EntriesOK, EntriesInjective, MapsAgree, FutureOK, Registered
<1>3. SettleOnce /\ NoOrphan /\ IdsOK /\ NoAbort
  BY DEF SettleOnce, NoOrphan, IdsOK, NoAbort
<1> QED
  BY <1>1, <1>2, <1>3 DEF IInv, Good

\* A request that is registered and written keeps the invariant.
LEMMA RequestSentIInv == IInv /\ RequestSent => IInv'
<1> SUFFICES ASSUME IInv, RequestSent PROVE IInv'
  OBVIOUS
<1> USE MaxCallsAssumption, SeqModAssumption
        DEF IInv, Good, Sane, RequestSent, NextSeq, IdFree, NoCall
<1>0. made + 1 \in Calls /\ seq \in RequestId /\ seq' \in RequestId
  BY SeqStep DEF TypeOK, Calls
<1>1. TypeOK'
  BY <1>0 DEF TypeOK, Outcomes, Calls
<1>2. EntriesOK'
  BY <1>0 DEF EntriesOK, TypeOK, FutureOK, MapsAgree, Registered, Calls
<1>3. EntriesInjective'
  BY <1>0 DEF EntriesInjective, EntriesOK, TypeOK, Calls
<1>4. MapsAgree'
  BY <1>0 DEF MapsAgree, Registered, TypeOK, Calls
<1>5. FutureOK'
  BY <1>0 DEF FutureOK, TypeOK, Calls, Registered
<1>6. SettleOnce'
  BY DEF SettleOnce
<1>7. NoOrphan'
  BY <1>0 DEF NoOrphan, TypeOK, FutureOK, EntriesOK, MapsAgree, Registered, Calls
<1>8. IdsOK' /\ NoAbort'
  BY <1>0, SeqStep DEF IdsOK, NoAbort, TypeOK, Calls, RequestId
<1> QED
  BY <1>1, <1>2, <1>3, <1>4, <1>5, <1>6, <1>7, <1>8

\* A request that aborts, is dropped or is refused keeps the invariant.
LEMMA RequestOtherIInv ==
  IInv /\ (RequestAborts \/ RequestDropped \/ RequestRefused) => IInv'
<1> USE MaxCallsAssumption, SeqModAssumption DEF IInv, Good, Sane, NextSeq, IdFree, NoCall
<1>1. ASSUME IInv, RequestAborts PROVE IInv'
  <2> USE <1>1 DEF RequestAborts
  <2>1. seq \in RequestId /\ seq' \in RequestId /\ made + 1 \in Calls
    BY SeqStep DEF TypeOK, Calls
  <2>2. TypeOK'
    BY <2>1 DEF TypeOK, Calls
  <2>3. EntriesOK' /\ EntriesInjective' /\ MapsAgree' /\ FutureOK'
    BY <2>1 DEF EntriesOK, EntriesInjective, MapsAgree, FutureOK, Registered, TypeOK, Calls
  <2>4. SettleOnce' /\ NoOrphan'
    BY DEF SettleOnce, NoOrphan
  <2>5. made >= SeqMod
    <3> SUFFICES ASSUME made < SeqMod PROVE FALSE
      BY DEF TypeOK
    <3>1. seq = made
      BY DEF IdsOK, TypeOK
    <3>2. callbacks[seq] # NoCall
      BY <2>1 DEF MapsAgree, Registered
    <3> QED
      BY <2>1, <3>1, <3>2 DEF IdsOK, EntriesOK, TypeOK
  <2> QED
    BY <2>2, <2>3, <2>4, <2>5 DEF IdsOK, NoAbort, TypeOK
<1>2. ASSUME IInv, RequestDropped PROVE IInv'
  <2> USE <1>2 DEF RequestDropped
  <2>1. seq \in RequestId /\ seq' \in RequestId /\ made + 1 \in Calls
    BY SeqStep DEF TypeOK, Calls
  <2>2. TypeOK'
    BY <2>1 DEF TypeOK, Calls, Outcomes
  <2>3. EntriesOK' /\ EntriesInjective' /\ MapsAgree' /\ FutureOK'
    BY <2>1 DEF EntriesOK, EntriesInjective, MapsAgree, FutureOK, Registered, TypeOK, Calls
  <2>4. SettleOnce' /\ NoOrphan'
    BY <2>1 DEF SettleOnce, NoOrphan, FutureOK, TypeOK, Calls
  <2>5. IdsOK' /\ NoAbort'
    BY <2>1, SeqStep DEF IdsOK, NoAbort, TypeOK, Calls, RequestId
  <2> QED
    BY <2>2, <2>3, <2>4, <2>5
<1>3. ASSUME IInv, RequestRefused PROVE IInv'
  <2> USE <1>3 DEF RequestRefused
  <2>1. seq \in RequestId /\ seq' \in RequestId /\ made + 1 \in Calls
    BY SeqStep DEF TypeOK, Calls
  <2>2. TypeOK'
    BY <2>1 DEF TypeOK, Calls, Outcomes, Codes
  <2>3. EntriesOK' /\ EntriesInjective' /\ MapsAgree' /\ FutureOK'
    BY <2>1 DEF EntriesOK, EntriesInjective, MapsAgree, FutureOK, Registered, TypeOK, Calls
  <2>4. SettleOnce'
    BY <2>1 DEF SettleOnce, FutureOK, TypeOK, Calls
  <2>6. NoOrphan'
    <3>1. settles'[made + 1] = 1 /\ outcome'[made + 1] \in Codes
      BY <2>1 DEF FutureOK, TypeOK, Codes
    <3>2. \A k \in 1..made : settles'[k] = settles[k] /\ outcome'[k] = outcome[k]
      BY <2>1 DEF TypeOK, Calls
    <3> QED
      BY <2>1, <3>1, <3>2 DEF NoOrphan, TypeOK
  <2>5. IdsOK'
    <3>1. made' < SeqMod => seq' = made'
      BY <2>1, CounterStep DEF IdsOK, TypeOK
    <3>2. made' <= SeqMod => made <= SeqMod
      BY DEF TypeOK
    <3> QED
      BY <3>1, <3>2 DEF IdsOK
  <2>7. NoAbort'
    BY <2>1 DEF NoAbort
  <2> QED
    BY <2>2, <2>3, <2>4, <2>5, <2>6, <2>7
<1> QED
  BY <1>1, <1>2, <1>3

\* Handing a code to the closure of an id that is not running keeps it.
LEMMA InvokeIInv ==
  ASSUME IInv, Sane, NEW id \in RequestId, id \notin invoking,
         NEW code \in Codes, InvokeCallback(id, code)
  PROVE  IInv'
<1> USE MaxCallsAssumption, SeqModAssumption DEF IInv, Good, Sane, InvokeCallback, NoCall
<1> DEFINE k == callbacks[id]
<1>0. /\ k \in Calls /\ k <= made
      /\ settles[k] = 0 /\ outcome[k] = "pending"
  BY DEF TypeOK, EntriesOK
<1>1. TypeOK'
  BY <1>0 DEF TypeOK, Outcomes
<1>2. EntriesOK'
  BY <1>0 DEF EntriesOK, EntriesInjective, TypeOK
<1>3. EntriesInjective' /\ FutureOK' /\ IdsOK' /\ NoAbort'
  BY <1>0 DEF EntriesInjective, FutureOK, IdsOK, NoAbort, Registered, TypeOK, Calls
<1>4. MapsAgree'
  BY <1>0 DEF MapsAgree, Registered, TypeOK
<1>5. SettleOnce'
  BY <1>0 DEF SettleOnce, TypeOK
<1>6. NoOrphan'
  <2> SUFFICES ASSUME NEW j \in 1..made
               PROVE  \/ settles'[j] = 1 /\ outcome'[j] \in Codes
                      \/ settles'[j] = 0 /\ outcome'[j] = "dropped"
                      \/ /\ settles'[j] = 0 /\ outcome'[j] = "pending"
                         /\ \E i \in timers' : callbacks[i] = j
    BY DEF NoOrphan
  <2>1. j \in Calls
    BY DEF TypeOK, Calls
  <2>2. CASE j = k
    BY <1>0, <2>1, <2>2 DEF TypeOK
  <2>3. CASE j # k
    BY <1>0, <2>1, <2>3 DEF NoOrphan, TypeOK
  <2> QED
    BY <2>2, <2>3
<1> HIDE DEF k
<1> QED
  BY <1>1, <1>2, <1>3, <1>4, <1>5, <1>6, Zenon

\* An answer that meets the paused closure of its id ends the defined states;
\* it takes the debugger's nested loop.
LEMMA RacedIInv ==
  ASSUME IInv, Sane, LoopRuns, NEW id \in RequestId, id \in invoking,
         NEW code \in PeerCodes, InvokeCallback(id, code)
  PROVE  IInv'
<1> USE DEF IInv, InvokeCallback
<1>1. raced' /\ NestedLoop
  BY Zenon DEF LoopRuns
<1>2. callbacks[id] \in Calls
  BY DEF TypeOK
<1>3. TypeOK'
  BY <1>1, <1>2 DEF TypeOK, Outcomes, Codes
<1>4. NoAbort'
  BY DEF NoAbort
<1> QED
  BY <1>1, <1>3, <1>4

\* callbacks_.erase after the closure returned keeps the invariant.
LEMMA EraseIInv ==
  ASSUME IInv, NEW id \in RequestId, EraseCallback(id)
  PROVE  IInv'
<1> USE MaxCallsAssumption, SeqModAssumption DEF IInv, Good, Sane, EraseCallback, NoCall
<1>1. TypeOK'
  BY DEF TypeOK
<1>2. EntriesOK' /\ EntriesInjective' /\ MapsAgree' /\ FutureOK'
  BY DEF EntriesOK, EntriesInjective, MapsAgree, FutureOK, Registered, TypeOK
<1>3. SettleOnce' /\ IdsOK' /\ NoAbort'
  BY DEF SettleOnce, IdsOK, NoAbort, TypeOK
<1>4. NoOrphan'
  BY DEF NoOrphan, MapsAgree, TypeOK, Calls
<1> QED
  BY <1>1, <1>2, <1>3, <1>4

\* socket_.reset() keeps the invariant.
LEMMA DisconnectIInv == IInv /\ Disconnect => IInv'
<1> SUFFICES ASSUME IInv, Disconnect PROVE IInv'
  OBVIOUS
<1> USE DEF IInv, Good, Sane, Disconnect
<1>1. TypeOK'
  BY Zenon DEF TypeOK
<1>2. EntriesOK' /\ EntriesInjective' /\ MapsAgree' /\ FutureOK'
  BY DEF EntriesOK, EntriesInjective, MapsAgree, FutureOK, Registered
<1>3. SettleOnce' /\ NoOrphan' /\ IdsOK' /\ NoAbort'
  BY DEF SettleOnce, NoOrphan, IdsOK, NoAbort
<1> QED
  BY <1>1, <1>2, <1>3

\* ~DelegateImpl keeps the invariant.
LEMMA DestroyIInv == IInv /\ Destroy => IInv'
<1> SUFFICES ASSUME IInv, Destroy PROVE IInv'
  OBVIOUS
<1> USE MaxCallsAssumption, SeqModAssumption DEF IInv, Good, Sane, Destroy, NoCall
<1> DEFINE held == {callbacks[id] : id \in Registered}
<1>0. \A k \in held : /\ k \in Calls /\ k <= made
                      /\ settles[k] = 0 /\ outcome[k] = "pending"
  BY DEF TypeOK, EntriesOK, Registered
<1>1. TypeOK'
  <2>1. alive' \in BOOLEAN /\ socketUp' \in BOOLEAN /\ aborted' \in BOOLEAN
    BY Zenon DEF TypeOK
  <2>2. outcome' \in [Calls -> Outcomes] /\ settles' \in [Calls -> Nat]
    BY DEF TypeOK, Outcomes, Codes
  <2>3. /\ callbacks' \in [RequestId -> Calls \cup {NoCall}]
        /\ timers' \in SUBSET RequestId
    OBVIOUS
  <2>4. /\ seq' \in RequestId /\ made' \in 0..MaxCalls
        /\ invoking' \in SUBSET RequestId
    BY DEF TypeOK
  <2> QED
    BY <2>1, <2>2, <2>3, <2>4 DEF TypeOK
<1>2. EntriesOK' /\ EntriesInjective' /\ MapsAgree'
  BY DEF EntriesOK, EntriesInjective, MapsAgree, Registered
<1>3. FutureOK'
  BY <1>0 DEF FutureOK, Registered, TypeOK, Calls
<1>4. SettleOnce' /\ IdsOK' /\ NoAbort'
  BY <1>0 DEF SettleOnce, IdsOK, NoAbort, TypeOK
<1>5. NoOrphan'
  <2> SUFFICES ASSUME NEW k \in 1..made
               PROVE  \/ settles'[k] = 1 /\ outcome'[k] \in Codes
                      \/ settles'[k] = 0 /\ outcome'[k] = "dropped"
    BY DEF NoOrphan
  <2>1. k \in Calls
    BY DEF TypeOK, Calls
  <2>2. CASE k \in held
    BY <1>0, <2>1, <2>2 DEF Codes
  <2>3. CASE k \notin held
    BY <2>1, <2>3 DEF NoOrphan, MapsAgree, Registered
  <2> QED
    BY <2>2, <2>3
<1> QED
  BY <1>1, <1>2, <1>3, <1>4, <1>5

\* Every step of the delegate keeps the invariant.
LEMMA NextIInv == IInv /\ [DelegateNext]_delegateVars => IInv'
<1> SUFFICES ASSUME IInv, [DelegateNext]_delegateVars PROVE IInv'
  OBVIOUS
<1>1. CASE Request
  BY <1>1, RequestSentIInv, RequestOtherIInv DEF Request
<1>2. ASSUME NEW id \in RequestId, NEW code \in PeerCodes, OnResponse(id, code)
      PROVE  IInv'
  <2>1. CASE InvokeCallback(id, code)
    <3>0. Sane /\ LoopRuns
      BY <1>2 DEF OnResponse, LoopRuns
    <3>1. CASE id \notin invoking
      BY <1>2, <2>1, <3>0, <3>1, InvokeIInv DEF Codes
    <3>2. CASE id \in invoking
      BY <1>2, <2>1, <3>0, <3>2, RacedIInv
    <3> QED
      BY <3>1, <3>2
  <2>2. CASE UNCHANGED delegateVars
    BY <2>2 DEF IInv, Good, Sane, delegateVars, TypeOK, EntriesOK, EntriesInjective,
                MapsAgree, FutureOK, SettleOnce, NoOrphan, IdsOK, NoAbort, Registered
  <2> QED
    BY <1>2, <2>1, <2>2 DEF OnResponse
<1>3. ASSUME NEW id \in RequestId, OnTimeout(id) PROVE IInv'
  <2>1. id \notin invoking /\ Sane
    BY <1>3 DEF OnTimeout, LoopRuns, IInv, Good, MapsAgree, Sane
  <2> QED
    BY <1>3, <2>1, InvokeIInv DEF OnTimeout, Codes
<1>4. ASSUME NEW id \in RequestId, EraseCallback(id) PROVE IInv'
  BY <1>4, EraseIInv
<1>5. CASE Disconnect
  BY <1>5, DisconnectIInv
<1>6. CASE Destroy
  BY <1>6, DestroyIInv
<1>7. CASE UNCHANGED delegateVars
  BY <1>7 DEF IInv, Good, Sane, delegateVars, TypeOK, EntriesOK, EntriesInjective,
              MapsAgree, FutureOK, SettleOnce, NoOrphan, IdsOK, NoAbort, Registered
<1> QED
  BY <1>1, <1>2, <1>3, <1>4, <1>5, <1>6, <1>7 DEF DelegateNext

\* The invariant holds throughout every behaviour of the delegate.
THEOREM Invariance == DelegateSpec => []IInv
BY InitIInv, NextIInv, PTL DEF DelegateSpec

\* callbacks_, timers_ and seq_ keep their types.
THEOREM TypeCorrect == DelegateSpec => []TypeOK
<1>1. IInv => TypeOK
  BY DEF IInv
<1> QED
  BY <1>1, Invariance, PTL

\* Without a debugger no closure handed to Request is invoked twice, for any
\* number of calls and any id width, even when ids wrap
\* (DelegateImpl::OnResponse, ~DelegateImpl).
THEOREM SettlesOnce ==
  ASSUME NestedLoop = FALSE
  PROVE  DelegateSpec => []SettleOnce
<1>1. IInv => SettleOnce
  BY DEF IInv, Good
<1> QED
  BY <1>1, Invariance, PTL

\* With a debugger the only exception is an answer that meets the paused
\* closure of its own id.
THEOREM SettlesOnceUnlessRaced == DelegateSpec => []SettleOnceUnlessRaced
<1>1. IInv => SettleOnceUnlessRaced
  BY DEF IInv, Good, SettleOnceUnlessRaced
<1> QED
  BY <1>1, Invariance, PTL

\* No call is lost, and a held callback always has a timer that will end it
\* (DelegateImpl::Request, SetCallback, OnResponse).
THEOREM NothingLost == DelegateSpec => [](NoOrphan /\ MapsAgree)
<1>1. IInv => NoOrphan /\ MapsAgree
  BY DEF IInv, Good, NoOrphan, MapsAgree, Sane
<1> QED
  BY <1>1, Invariance, PTL

\* The CHECKs of SetCallback cannot fail before the ids wrap around.
THEOREM ChecksHold == DelegateSpec => []NoAbort
<1>1. IInv => NoAbort
  BY DEF IInv
<1> QED
  BY <1>1, Invariance, PTL

\* Without a debugger DelegateImpl implements the abstract promise of RpcCalls.
THEOREM Refinement ==
  ASSUME NestedLoop = FALSE
  PROVE  DelegateSpec => AbstractSpec
<1> USE MaxCallsAssumption, SeqModAssumption
<1>1. DelegateInit => Abstract!Init
  BY DEF DelegateInit, Abstract!Init
<1>2. IInv /\ [DelegateNext]_delegateVars => [Abstract!Next]_outcome
  <2> SUFFICES ASSUME IInv, [DelegateNext]_delegateVars
               PROVE  [Abstract!Next]_outcome
    OBVIOUS
  <2>1. CASE Request
    <3>1. made + 1 \in Calls /\ (NextSeq => outcome[made + 1] = "none")
      BY <2>1 DEF IInv, Good, TypeOK, FutureOK, Calls, Request, RequestSent,
           RequestAborts, RequestDropped, RequestRefused, NextSeq
    <3>2. CASE RequestSent
      BY <3>1, <3>2, Zenon DEF RequestSent, Abstract!Next, Abstract!Start
    <3>3. CASE RequestAborts
      BY <3>3 DEF RequestAborts
    <3>4. CASE RequestDropped
      BY <3>1, <3>4, Zenon DEF RequestDropped, Abstract!Next, Abstract!Drop
    <3>5. CASE RequestRefused
      BY <3>1, <3>5, Zenon DEF RequestRefused, Abstract!Next, Abstract!Refuse, Codes
    <3> QED
      BY <2>1, <3>2, <3>3, <3>4, <3>5 DEF Request
  <2>2. ASSUME NEW id \in RequestId, NEW code \in Codes, id \notin invoking,
               InvokeCallback(id, code)
        PROVE  Abstract!Next
    <3> DEFINE k == callbacks[id]
    <3>1. k \in Calls /\ outcome[k] = "pending" /\ {k} \in SUBSET Calls
      BY <2>2 DEF IInv, Good, TypeOK, EntriesOK, InvokeCallback, NoCall
    <3>2. outcome' = [j \in Calls |-> IF j \in {k} THEN code ELSE outcome[j]]
      BY <2>2, <3>1, Zenon DEF InvokeCallback, IInv, Good, TypeOK
    <3>3. Abstract!Settle({k}, code)
      BY <3>1, <3>2 DEF Abstract!Settle
    <3> QED
      BY <3>1, <3>3, <2>2 DEF Abstract!Next
  <2>3. ASSUME NEW id \in RequestId, NEW code \in PeerCodes, OnResponse(id, code)
        PROVE  [Abstract!Next]_outcome
    BY <2>2, <2>3, Zenon DEF OnResponse, LoopRuns, Codes, delegateVars
  <2>4. ASSUME NEW id \in RequestId, OnTimeout(id) PROVE [Abstract!Next]_outcome
    BY <2>2, <2>4 DEF OnTimeout, LoopRuns, Codes
  <2>5. ASSUME NEW id \in RequestId, EraseCallback(id)
        PROVE  [Abstract!Next]_outcome
    BY <2>5 DEF EraseCallback
  <2>6. CASE Disconnect
    BY <2>6 DEF Disconnect
  <2>7. CASE Destroy
    <3> DEFINE held == {callbacks[id] : id \in Registered}
    <3>1. held \in SUBSET Calls /\ \A k \in held : outcome[k] = "pending"
      BY <2>7 DEF IInv, Good, TypeOK, EntriesOK, Registered, Destroy, NoCall
    <3>2. Abstract!Settle(held, "CONNECTION_RESET")
      BY <2>7, <3>1 DEF Abstract!Settle, Destroy
    <3> QED
      BY <3>1, <3>2 DEF Abstract!Next, Codes
  <2>8. CASE UNCHANGED delegateVars
    BY <2>8 DEF delegateVars
  <2> QED
    BY <2>1, <2>3, <2>4, <2>5, <2>6, <2>7, <2>8 DEF DelegateNext
<1> QED
  BY <1>1, <1>2, Invariance, PTL DEF DelegateSpec, AbstractSpec, Abstract!Spec

-----------------------------------------------------------------------------
(***************************************************************************)
(* The decoder, for any messages, any size of the header and any way in    *)
(* which the pipe cuts the bytes.  The bytes not dispatched yet, buffer    *)
(* and wire together, are those of the messages from the next one on: at   *)
(* says where each of them begins.                                         *)
(***************************************************************************)

\* The bytes b are laid out as the messages of s after the d-th, the n-th of
\* them behind at[n] others; whole ones while the peer is open.
Laid(at, d, s, b, open) ==
  /\ at[d + 1] = 0
  /\ \A n \in (d + 1)..Len(s) :
       /\ at[n + 1] = at[n] + Size(s[n])
       /\ \A i \in 1..Size(s[n]) : at[n] + i <= Len(b) => b[at[n] + i] = <<n, i>>
  /\ \A m, n \in (d + 1)..(Len(s) + 1) : m <= n => at[m] <= at[n]
  /\ Len(b) <= at[Len(s) + 1]
  /\ open => Len(b) = at[Len(s) + 1]

\* Messages as the peer writes them.
Readable(F) == \A f \in F : f.len \in Nat /\ f.decodable \in BOOLEAN

Byte == Nat \X Nat

\* Its bytes are numbered.
LEMMA BytePair ==
  ASSUME NEW l \in Nat, NEW i \in Nat
  PROVE  <<l, i>> \in Byte
BY DEF Byte

\* Putting three together.
LEMMA ConcatBytes ==
  ASSUME NEW a \in Seq(Byte), NEW b \in Seq(Byte), NEW c \in Seq(Byte)
  PROVE  (a \o b) \o c = a \o (b \o c)
BY ConcatAssociative

\* A message sent has a size.
LEMMA SizeFact ==
  ASSUME NEW F, Readable(F), NEW s \in Seq(F), NEW n \in 1..Len(s)
  PROVE  Size(s[n]) \in Nat
<1>1. s[n] \in F
  BY ElementOfSeq
<1> QED
  BY <1>1, HeaderSizeAssumption DEF Readable, Size

\* A message sent is laid out behind the others.
LEMMA LaidSend ==
  ASSUME NEW F, Readable(F), NEW f \in F, NEW s \in Seq(F), NEW d \in 0..Len(s),
         NEW b \in Seq(Byte), NEW at \in [Nat -> Int], Laid(at, d, s, b, TRUE)
  PROVE  /\ b \o Encode(Len(s) + 1, f) \in Seq(Byte)
         /\ Laid([at EXCEPT ![Len(s) + 2] = at[Len(s) + 1] + Size(f)], d,
                 Append(s, f), b \o Encode(Len(s) + 1, f), TRUE)
<1> DEFINE e == Encode(Len(s) + 1, f)
           c == b \o e
           t == Append(s, f)
           to == [at EXCEPT ![Len(s) + 2] = at[Len(s) + 1] + Size(f)]
<1>1. PICK L \in Nat : L = Len(s)
  BY LenProperties
<1>2. PICK B \in Nat : B = Len(b)
  BY LenProperties
<1>3. PICK z \in Nat \ {0} : z = Size(f)
  BY HeaderSizeAssumption DEF Readable, Size
<1>4. d \in Nat /\ d <= L
  BY <1>1
<1>5. \A n \in 1..L : Size(s[n]) \in Nat
  BY <1>1, SizeFact, Zenon
<1>6. /\ e \in Seq(Byte) /\ Len(e) = z
      /\ \A i \in 1..z : e[i] = <<L + 1, i>>
  <2>1. e = [i \in 1..z |-> <<L + 1, i>>]
    BY <1>1, <1>3 DEF Encode
  <2>2. \A i \in 1..z : <<L + 1, i>> \in Byte
    <3>1. L + 1 \in Nat /\ \A i \in 1..z : i \in Nat
      OBVIOUS
    <3> QED
      BY <3>1, BytePair
  <2> HIDE DEF e
  <2>3. e \in Seq(Byte)
    BY <2>1, <2>2, IsASeq
  <2> QED
    BY <2>1, <2>3, LenProperties
<1>7. /\ c \in Seq(Byte) /\ Len(c) = B + z
      /\ \A i \in 1..(B + z) : c[i] = IF i <= B THEN b[i] ELSE e[i - B]
  <2> HIDE DEF e
  <2> QED
    BY <1>2, <1>6, ConcatProperties, Zenon
<1>8. ASSUME NEW i \in 1..z PROVE c[B + i] = <<L + 1, i>>
  <2> HIDE DEF e, c
  <2>1. PICK j : j = B + i
    OBVIOUS
  <2>2. j \in 1..(B + z) /\ ~(j <= B) /\ j - B = i
    BY <2>1
  <2>3. c[j] = e[i]
    BY <2>2, <1>7, Zenon
  <2> QED
    BY <2>1, <2>3, <1>6
<1>9. Len(t) = L + 1 /\ t[L + 1] = f /\ \A n \in 1..L : t[n] = s[n]
  BY <1>1, AppendProperties
<1>10. at[L + 1] = B
  BY <1>1, <1>2 DEF Laid
<1>11. to[L + 2] = B + z /\ \A n \in Nat : n # L + 2 => to[n] = at[n]
  BY <1>1, <1>3, <1>10
<1>12. /\ at[d + 1] = 0
       /\ \A n \in (d + 1)..L :
            /\ at[n + 1] = at[n] + Size(s[n])
            /\ \A i \in 1..Size(s[n]) : at[n] + i <= B => b[at[n] + i] = <<n, i>>
       /\ \A m, n \in (d + 1)..(L + 1) : m <= n => at[m] <= at[n]
  BY <1>1, <1>2, Zenon DEF Laid
<1> HIDE DEF e, c, t, to
<1>13. ASSUME NEW n \in (d + 1)..(L + 1)
       PROVE  /\ to[n + 1] = to[n] + Size(t[n])
              /\ \A i \in 1..Size(t[n]) : to[n] + i <= B + z => c[to[n] + i] = <<n, i>>
  <2>1. CASE n = L + 1
    <3>1. t[n] = f /\ to[n] = B /\ to[n + 1] = B + z /\ Size(t[n]) = z
      <4>1. t[n] = f /\ Size(t[n]) = z
        BY <2>1, <1>3, <1>9
      <4>2. L + 1 \in Nat /\ L + 1 # L + 2 /\ n + 1 = L + 2
        BY <2>1
      <4>3. to[n] = B /\ to[n + 1] = B + z
        BY <2>1, <4>2, <1>10, <1>11
      <4> QED
        BY <4>1, <4>3
    <3> QED
      BY <3>1, <2>1, <1>8, Zenon
  <2>2. CASE n # L + 1
    <3>1. n \in (d + 1)..L /\ n \in 1..L /\ n \in Nat /\ n + 1 \in Nat
      BY <2>2, <1>4
    <3>2. t[n] = s[n] /\ to[n] = at[n] /\ to[n + 1] = at[n + 1]
      <4>1. n # L + 2 /\ n + 1 # L + 2
        BY <3>1
      <4>2. t[n] = s[n]
        BY <3>1, <1>9
      <4>3. to[n] = at[n] /\ to[n + 1] = at[n + 1]
        BY <3>1, <4>1, <1>11
      <4> QED
        BY <4>2, <4>3
    <3>3. PICK y \in Nat : y = Size(s[n])
      BY <3>1, <1>5
    <3>4. at[n + 1] = at[n] + y /\ at[n] \in Int
      BY <3>1, <3>3, <1>12
    <3>5. at[n + 1] <= B
      <4>1. n + 1 \in (d + 1)..(L + 1) /\ L + 1 \in (d + 1)..(L + 1) /\ n + 1 <= L + 1
        BY <3>1, <1>4
      <4> QED
        BY <4>1, <1>10, <1>12
    <3>6. 0 <= at[n]
      <4>1. d + 1 \in (d + 1)..(L + 1) /\ d + 1 <= n
        BY <1>4
      <4> QED
        BY <4>1, <1>12
    <3>7. ASSUME NEW i \in 1..y
          PROVE  c[at[n] + i] = <<n, i>>
      <4>1. at[n] + i \in 1..B /\ at[n] + i <= B /\ at[n] + i \in 1..(B + z)
        <5>1. PICK a \in Int : a = at[n]
          BY <3>4
        <5>2. a + y <= B /\ 0 <= a
          BY <5>1, <3>4, <3>5, <3>6
        <5>3. a + i \in 1..B /\ a + i <= B /\ a + i \in 1..(B + z)
          BY <5>2
        <5> QED
          BY <5>1, <5>3
      <4>2. b[at[n] + i] = <<n, i>>
        BY <4>1, <3>1, <3>3, <1>12, Zenon
      <4> QED
        BY <4>1, <4>2, <1>7, Zenon
    <3> QED
      BY <3>2, <3>3, <3>4, <3>7, Zenon
  <2> QED
    BY <2>1, <2>2, Zenon
<1>14. ASSUME NEW m \in (d + 1)..(L + 2), NEW n \in (d + 1)..(L + 2), m <= n
       PROVE  to[m] <= to[n]
  <2>1. CASE n = L + 2 /\ m = L + 2
    BY <2>1, <1>11
  <2>2. CASE n = L + 2 /\ m # L + 2
    <3>1. m \in (d + 1)..(L + 1) /\ L + 1 \in (d + 1)..(L + 1) /\ m <= L + 1 /\ m \in Nat
      BY <2>2, <1>4
    <3>2. at[m] <= B /\ to[m] = at[m] /\ at[m] \in Int
      BY <3>1, <2>2, <1>10, <1>11, <1>12, Zenon
    <3> QED
      BY <3>2, <2>2, <1>11
  <2>3. CASE n # L + 2
    <3>1. m \in (d + 1)..(L + 1) /\ n \in (d + 1)..(L + 1) /\ m # L + 2 /\ m \in Nat /\ n \in Nat
      BY <2>3, <1>14, <1>4
    <3>2. to[m] = at[m] /\ to[n] = at[n]
      BY <3>1, <2>3, <1>11
    <3> QED
      BY <3>1, <3>2, <1>12, <1>14
  <2> QED
    BY <2>1, <2>2, <2>3
<1>15. to[d + 1] = 0
  BY <1>4, <1>11, <1>12
<1>16. L + 1 + 1 = L + 2
  OBVIOUS
<1>17. Laid(to, d, t, c, TRUE)
  <2>1. /\ \A n \in (d + 1)..Len(t) :
             /\ to[n + 1] = to[n] + Size(t[n])
             /\ \A i \in 1..Size(t[n]) : to[n] + i <= Len(c) => c[to[n] + i] = <<n, i>>
        /\ \A m, n \in (d + 1)..(Len(t) + 1) : m <= n => to[m] <= to[n]
    BY <1>7, <1>9, <1>13, <1>14, <1>16, Zenon
  <2>2. Len(c) = to[Len(t) + 1] /\ Len(c) <= to[Len(t) + 1]
    <3>1. to[Len(t) + 1] = B + z /\ Len(c) = B + z /\ B + z <= B + z
      BY <1>7, <1>9, <1>11, <1>16
    <3> QED
      BY <3>1
  <2> QED
    BY ONLY <2>1, <2>2, <1>15, Zenon DEF Laid
<1> QED
  BY <1>7, <1>17, Zenon DEF e, c, t, to

\* A peer that ends leaves the first bytes of what it wrote.
LEMMA LaidCut ==
  ASSUME NEW F, Readable(F), NEW s \in Seq(F), NEW d \in 0..Len(s),
         NEW b \in Seq(Byte), NEW at \in [Nat -> Int], Laid(at, d, s, b, TRUE),
         NEW k \in 0..Len(b)
  PROVE  /\ SubSeq(b, 1, k) \in Seq(Byte)
         /\ Laid(at, d, s, SubSeq(b, 1, k), FALSE)
<1>1. PICK L \in Nat : L = Len(s)
  BY LenProperties
<1>2. PICK B \in Nat : B = Len(b)
  BY LenProperties
<1>3. k \in Nat /\ k <= B /\ d \in Nat /\ d <= L
  BY <1>1, <1>2
<1> DEFINE c == SubSeq(b, 1, k)
<1>4. c \in Seq(Byte) /\ Len(c) = k /\ \A i \in 1..k : c[i] = b[i]
  BY <1>2, <1>3, SubSeqProperties
<1> HIDE DEF c
<1>5. /\ at[d + 1] = 0
      /\ \A n \in (d + 1)..L :
           /\ at[n + 1] = at[n] + Size(s[n])
           /\ \A i \in 1..Size(s[n]) : at[n] + i <= B => b[at[n] + i] = <<n, i>>
      /\ \A m, n \in (d + 1)..(L + 1) : m <= n => at[m] <= at[n]
      /\ B = at[L + 1]
  BY <1>1, <1>2, Zenon DEF Laid
<1>6. ASSUME NEW n \in (d + 1)..L, NEW i \in 1..Size(s[n]), at[n] + i <= k
      PROVE  c[at[n] + i] = <<n, i>>
  <2>1. n \in Nat /\ n \in 1..L /\ d + 1 \in (d + 1)..(L + 1) /\ n \in (d + 1)..(L + 1)
        /\ d + 1 <= n
    BY <1>3
  <2>2. Size(s[n]) \in Nat
    BY <2>1, <1>1, SizeFact, Zenon
  <2>3. PICK a \in Int : a = at[n]
    BY <2>1
  <2>4. 0 <= a
    BY <2>1, <2>3, <1>5
  <2>5. a + i \in 1..k /\ a + i <= B
    <3>1. a + i <= k /\ i \in Nat \ {0}
      BY <2>2, <2>3, <1>6
    <3> QED
      BY <3>1, <2>4, <1>3
  <2>6. b[a + i] = <<n, i>>
    BY <2>3, <2>5, <1>5, Zenon
  <2> QED
    BY <2>3, <2>5, <2>6, <1>4, Zenon
<1>7. k <= at[L + 1]
  BY <1>3, <1>5
<1>8. Laid(at, d, s, c, FALSE)
  BY <1>1, <1>4, <1>5, <1>6, <1>7, Zenon DEF Laid
<1> QED
  BY <1>4, <1>8, Zenon DEF c

\* Taking the next message off leaves those behind it.
LEMMA LaidTake ==
  ASSUME NEW F, Readable(F), NEW s \in Seq(F), NEW d \in 0..(Len(s) - 1),
         NEW b \in Seq(Byte), NEW at \in [Nat -> Int], NEW open, Laid(at, d, s, b, open),
         Size(s[d + 1]) <= Len(b)
  PROVE  /\ SubSeq(b, Size(s[d + 1]) + 1, Len(b)) \in Seq(Byte)
         /\ Laid([n \in Nat |-> at[n] - Size(s[d + 1])], d + 1, s,
                 SubSeq(b, Size(s[d + 1]) + 1, Len(b)), open)
<1>1. PICK L \in Nat : L = Len(s)
  BY LenProperties
<1>2. PICK B \in Nat : B = Len(b)
  BY LenProperties
<1>3. d \in Nat /\ d + 1 <= L /\ d + 1 \in 1..L
  BY <1>1
<1>4. \A n \in 1..L : Size(s[n]) \in Nat
  BY <1>1, SizeFact, Zenon
<1>5. PICK z \in Nat : z = Size(s[d + 1])
  BY <1>3, <1>4
<1>6. z <= B
  BY <1>2, <1>5
<1> DEFINE c == SubSeq(b, z + 1, B)
           to == [n \in Nat |-> at[n] - z]
<1>7. c \in Seq(Byte) /\ Len(c) = B - z /\ \A i \in 1..(B - z) : c[i] = b[z + i]
  BY <1>2, <1>6, SubSeqProperties
<1>8. \A n \in Nat : to[n] = at[n] - z /\ at[n] \in Int
  OBVIOUS
<1> HIDE DEF c, to
<1>9. /\ at[d + 1] = 0
      /\ \A n \in (d + 1)..L :
           /\ at[n + 1] = at[n] + Size(s[n])
           /\ \A i \in 1..Size(s[n]) : at[n] + i <= B => b[at[n] + i] = <<n, i>>
      /\ \A m, n \in (d + 1)..(L + 1) : m <= n => at[m] <= at[n]
      /\ B <= at[L + 1] /\ (open => B = at[L + 1])
  BY <1>1, <1>2, Zenon DEF Laid
<1>10. at[d + 2] = z /\ d + 1 + 1 = d + 2
  <2>1. PICK e \in Nat : e = d + 1
    BY <1>3
  <2>2. e \in (d + 1)..L /\ e + 1 = d + 2
    BY <2>1, <1>3
  <2>3. at[e + 1] = at[e] + Size(s[e]) /\ at[e] = 0 /\ Size(s[e]) = z
    BY <2>1, <2>2, <1>5, <1>9
  <2> QED
    BY <2>1, <2>2, <2>3
<1>11. ASSUME NEW n \in (d + 2)..L
       PROVE  /\ to[n + 1] = to[n] + Size(s[n])
              /\ \A i \in 1..Size(s[n]) : to[n] + i <= B - z => c[to[n] + i] = <<n, i>>
  <2>1. n \in (d + 1)..L /\ n \in Nat /\ n + 1 \in Nat /\ n \in 1..L
    BY <1>3
  <2>2. PICK y \in Nat : y = Size(s[n])
    BY <2>1, <1>4
  <2>3. at[n + 1] = at[n] + y
    BY <2>1, <2>2, <1>9
  <2>4. z <= at[n]
    <3>1. d + 2 \in (d + 1)..(L + 1) /\ n \in (d + 1)..(L + 1) /\ d + 2 <= n
      BY <1>3
    <3> QED
      BY <3>1, <1>9, <1>10
  <2>5. ASSUME NEW i \in 1..y, to[n] + i <= B - z
        PROVE  c[to[n] + i] = <<n, i>>
    <3>1. PICK a \in Int : a = at[n]
      BY <2>1, <1>8
    <3>2. to[n] = a - z /\ z <= a /\ a - z + i <= B - z
      BY <3>1, <2>1, <2>4, <2>5, <1>8, Zenon
    <3>3. a - z + i \in 1..(B - z) /\ z + (a - z + i) = a + i /\ a + i <= B
      BY <3>2
    <3>4. b[a + i] = <<n, i>>
      BY <3>1, <3>3, <2>1, <2>2, <1>9, Zenon
    <3> QED
      BY <3>2, <3>3, <3>4, <1>7, Zenon
  <2>6. to[n + 1] = to[n] + y
    <3>1. PICK a \in Int : a = at[n]
      BY <2>1, <1>8
    <3>2. to[n] = a - z /\ to[n + 1] = a + y - z
      BY <3>1, <2>1, <2>3, <1>8
    <3> QED
      BY <3>2
  <2> QED
    BY <2>2, <2>5, <2>6, Zenon
<1>12. ASSUME NEW m \in (d + 2)..(L + 1), NEW n \in (d + 2)..(L + 1), m <= n
       PROVE  to[m] <= to[n]
  <2>1. m \in (d + 1)..(L + 1) /\ n \in (d + 1)..(L + 1) /\ m \in Nat /\ n \in Nat
    BY <1>3
  <2>2. at[m] <= at[n]
    BY <2>1, <1>9, <1>12
  <2> QED
    BY <2>1, <2>2, <1>8
<1>13. B - z <= to[L + 1] /\ (open => B - z = to[L + 1])
  <2>1. PICK a \in Int : a = at[L + 1]
    BY <1>8
  <2>2. to[L + 1] = a - z /\ B <= a /\ (open => B = a)
    BY <2>1, <1>8, <1>9
  <2> QED
    BY <2>2
<1>14. to[d + 2] = 0
  <2>1. d + 2 \in Nat /\ z - z = 0
    BY <1>3
  <2>2. to[d + 2] = z - z
    BY <2>1, <1>8, <1>10, Zenon
  <2> QED
    BY <2>1, <2>2
<1>15. Laid(to, d + 1, s, c, open)
  BY <1>1, <1>7, <1>10, <1>11, <1>12, <1>13, <1>14 DEF Laid
<1> QED
  BY <1>2, <1>5, <1>7, <1>15, Zenon DEF c, to

\* Bytes that arrive move from the wire to the buffer.
LEMMA BytesMoved ==
  ASSUME NEW b \in Seq(Byte), NEW w \in Seq(Byte), NEW n \in 1..Len(w)
  PROVE  /\ b \o SubSeq(w, 1, n) \in Seq(Byte) /\ SubSeq(w, n + 1, Len(w)) \in Seq(Byte)
         /\ (b \o SubSeq(w, 1, n)) \o SubSeq(w, n + 1, Len(w)) = b \o w
         /\ Len(b) <= Len(b \o SubSeq(w, 1, n))
<1>1. PICK L \in Nat : L = Len(w)
  BY LenProperties
<1>2. n \in 1..L /\ \A i \in 1..L : w[i] \in Byte
  BY <1>1, ElementOfSeq
<1>3. PICK u, v : u = SubSeq(w, 1, n) /\ v = SubSeq(w, n + 1, L)
  BY Zenon
<1>4. u \in Seq(Byte) /\ v \in Seq(Byte)
  BY <1>2, <1>3, SubSeqProperties
<1>5. u \o v = w
  <2>1. 1 \in 1..(L + 1) /\ n \in (1 - 1)..L /\ L \in n..L
    BY <1>2
  <2> QED
    BY <2>1, <1>1, <1>3, ConcatAdjacentSubSeq, SubSeqFull
<1>6. (b \o u) \o v = b \o (u \o v)
  BY <1>4, ConcatBytes
<1>7. /\ b \o u \in Seq(Byte) /\ Len(b \o u) = Len(b) + Len(u)
      /\ Len(u) \in Nat /\ Len(b) \in Nat
  BY <1>4, ConcatProperties, LenProperties
<1>8. Len(b) <= Len(b \o u)
  <2>1. PICK B, U, C : B = Len(b) /\ U = Len(u) /\ C = Len(b \o u)
    BY Zenon
  <2>2. B \in Nat /\ U \in Nat /\ C = B + U
    BY <2>1, <1>7
  <2> QED
    BY <2>1, <2>2
<1> QED
  BY <1>1, <1>3, <1>4, <1>5, <1>6, <1>7, <1>8, Zenon

\* Bytes that are written come behind those of the buffer and the wire.
LEMMA BytesAdded ==
  ASSUME NEW b \in Seq(Byte), NEW w \in Seq(Byte), NEW e \in Seq(Byte)
  PROVE  (b \o w) \o e = b \o (w \o e)
BY ConcatAssociative

\* Bytes that the peer did not get to write are missing at the end.
LEMMA BytesCut ==
  ASSUME NEW b \in Seq(Byte), NEW w \in Seq(Byte), NEW n \in 0..Len(w)
  PROVE  /\ SubSeq(w, 1, n) \in Seq(Byte) /\ Len(b) + n \in 0..Len(b \o w)
         /\ b \o SubSeq(w, 1, n) = SubSeq(b \o w, 1, Len(b) + n)
<1>1. PICK L \in Nat : L = Len(w)
  BY LenProperties
<1>2. PICK B \in Nat : B = Len(b)
  BY LenProperties
<1>3. n \in 0..L /\ \A i \in 1..L : w[i] \in Byte
  BY <1>1, ElementOfSeq
<1> DEFINE v == SubSeq(w, 1, n)
<1>4. v \in Seq(Byte) /\ Len(v) = n /\ \A i \in 1..n : v[i] = w[i]
  BY <1>3, SubSeqProperties
<1> HIDE DEF v
<1>5. PICK c : c = b \o w
  BY Zenon
<1>6. /\ c \in Seq(Byte) /\ Len(c) = B + L
      /\ \A i \in 1..(B + L) : c[i] = IF i <= B THEN b[i] ELSE w[i - B]
  BY <1>1, <1>2, <1>5, ConcatProperties
<1>7. PICK x : x = b \o v
  BY Zenon
<1>8. /\ x \in Seq(Byte) /\ Len(x) = B + n
      /\ \A i \in 1..(B + n) : x[i] = IF i <= B THEN b[i] ELSE v[i - B]
  BY <1>2, <1>4, <1>7, ConcatProperties, Zenon
<1>9. PICK y : y = SubSeq(c, 1, B + n)
  BY Zenon
<1>10. y \in Seq(Byte) /\ Len(y) = B + n /\ \A i \in 1..(B + n) : y[i] = c[i]
  <2>1. \A i \in 1..(B + n) : c[i] \in Byte
    <3>1. \A i \in 1..(B + L) : c[i] \in Byte
      BY <1>6, ElementOfSeq
    <3> QED
      BY <3>1, <1>3
  <2>2. B + n \in Int /\ (1 <= B + n => B + n - 1 + 1 = B + n)
        /\ (~(1 <= B + n) => B + n = 0)
    BY <1>3
  <2> QED
    BY <2>1, <2>2, <1>9, SubSeqProperties
<1>11. ASSUME NEW i \in 1..(B + n) PROVE x[i] = y[i]
  <2>1. i \in 1..(B + L) /\ (~(i <= B) => i - B \in 1..n)
    BY <1>3
  <2> QED
    BY <2>1, <1>4, <1>6, <1>8, <1>10, Zenon
<1>12. x = y
  BY <1>8, <1>10, <1>11, SeqEqual
<1>13. B + n \in 0..(B + L)
  BY <1>3
<1> QED
  BY <1>2, <1>4, <1>5, <1>6, <1>7, <1>9, <1>12, <1>13, Zenon DEF v

\* A message is taken off the front.
LEMMA BytesTaken ==
  ASSUME NEW b \in Seq(Byte), NEW w \in Seq(Byte), NEW k \in 0..Len(b)
  PROVE  /\ SubSeq(b, k + 1, Len(b)) \in Seq(Byte)
         /\ SubSeq(b, k + 1, Len(b)) \o w = SubSeq(b \o w, k + 1, Len(b \o w))
<1>1. PICK L \in Nat : L = Len(w)
  BY LenProperties
<1>2. PICK B \in Nat : B = Len(b)
  BY LenProperties
<1>3. k \in 0..B /\ \A i \in 1..B : b[i] \in Byte
  BY <1>2, ElementOfSeq
<1>4. PICK v : v = SubSeq(b, k + 1, B)
  BY Zenon
<1>5. v \in Seq(Byte) /\ Len(v) = B - k /\ \A i \in 1..(B - k) : v[i] = b[k + i]
  <2>1. \A i \in (k + 1)..B : b[i] \in Byte
    BY <1>3
  <2>2. /\ k + 1 \in Int /\ (k + 1 <= B => B - (k + 1) + 1 = B - k) /\ (~(k + 1 <= B) => B - k = 0)
        /\ B - (k + 1) + 1 = B - k /\ \A i \in 1..(B - k) : k + 1 + i - 1 = k + i
    BY <1>3
  <2> QED
    BY <2>1, <2>2, <1>4, SubSeqProperties
<1>6. PICK c : c = b \o w
  BY Zenon
<1>7. /\ c \in Seq(Byte) /\ Len(c) = B + L
      /\ \A i \in 1..(B + L) : c[i] = IF i <= B THEN b[i] ELSE w[i - B]
  BY <1>1, <1>2, <1>6, ConcatProperties
<1>8. PICK x : x = v \o w
  BY Zenon
<1>9. /\ x \in Seq(Byte) /\ Len(x) = B - k + L
      /\ \A i \in 1..(B - k + L) : x[i] = IF i <= B - k THEN v[i] ELSE w[i - (B - k)]
  <2>1. PICK V \in Nat : V = B - k
    BY <1>3
  <2>2. /\ x \in Seq(Byte) /\ Len(x) = V + L
        /\ \A i \in 1..(V + L) : x[i] = IF i <= V THEN v[i] ELSE w[i - V]
    <3>1. v \in Seq(Byte) /\ Len(v) = V
      BY <2>1, <1>5
    <3> QED
      BY <3>1, <1>1, <1>8, ConcatProperties
  <2> QED
    BY <2>1, <2>2
<1>10. PICK y : y = SubSeq(c, k + 1, B + L)
  BY Zenon
<1>11. y \in Seq(Byte) /\ Len(y) = B - k + L /\ \A i \in 1..(B - k + L) : y[i] = c[k + i]
  <2>1. \A i \in (k + 1)..(B + L) : c[i] \in Byte
    <3>1. \A i \in 1..(B + L) : c[i] \in Byte
      BY <1>7, ElementOfSeq
    <3> QED
      BY <3>1, <1>3
  <2>2. /\ k + 1 \in Int /\ B + L \in Int
        /\ (k + 1 <= B + L => B + L - (k + 1) + 1 = B - k + L) /\ (~(k + 1 <= B + L) => B - k + L = 0)
        /\ B + L - (k + 1) + 1 = B - k + L /\ \A i \in 1..(B - k + L) : k + 1 + i - 1 = k + i
    BY <1>3
  <2> QED
    BY <2>1, <2>2, <1>10, SubSeqProperties
<1>12. ASSUME NEW i \in 1..(B - k + L) PROVE x[i] = y[i]
  <2>1. PICK j \in Int : j = k + i
    BY <1>3
  <2>2. j \in 1..(B + L) /\ (i <= B - k <=> j <= B) /\ i - (B - k) = j - B
        /\ (i <= B - k => i \in 1..(B - k))
    BY <2>1, <1>3
  <2>3. y[i] = c[j]
    BY <2>1, <1>11
  <2>4. CASE i <= B - k
    BY <2>1, <2>2, <2>3, <2>4, <1>5, <1>7, <1>9
  <2>5. CASE ~(i <= B - k)
    BY <2>2, <2>3, <2>5, <1>7, <1>9
  <2> QED
    BY <2>4, <2>5
<1>13. x = y
  BY <1>9, <1>11, <1>12, SeqEqual
<1> QED
  BY <1>2, <1>4, <1>5, <1>6, <1>7, <1>8, <1>10, <1>13, Zenon

\* The state of the decoder when the peer writes messages of F: a parsed header
\* is that of the next message, and the rest is laid out as Laid says.
DTypes(F) ==
  /\ sent \in Seq(F) /\ wire \in Seq(Byte) /\ buffer \in Seq(Byte)
  /\ dispatched \in Seq(Nat) /\ readers \in Nat
  /\ Len(dispatched) <= Len(sent)
  /\ header = 0 \/ (header = Len(dispatched) + 1 /\ HeaderSize <= Len(buffer))

DLaid == \E at \in [Nat -> Int] :
           Laid(at, Len(dispatched), sent, buffer \o wire, peerOpen)

DInv(F) == DTypes(F) /\ DLaid /\ FramesInOrder

\* Decode finds the header of the next message, and no other.
LEMMA HeaderNext ==
  ASSUME NEW F, Readable(F), DTypes(F), DLaid, HeaderSize <= Len(buffer)
  PROVE  /\ Header = Len(dispatched) + 1
         /\ Len(dispatched) + 1 \in 1..Len(sent)
         /\ sent[Header] \in F /\ Size(sent[Header]) \in Nat
<1>1. PICK D \in Nat : D = Len(dispatched)
  BY LenProperties DEF DTypes
<1>2. PICK L \in Nat : L = Len(sent)
  BY LenProperties DEF DTypes
<1>3. PICK B \in Nat : B = Len(buffer)
  BY LenProperties DEF DTypes
<1>4. D <= L /\ HeaderSize <= B /\ HeaderSize \in Nat \ {0}
  BY <1>1, <1>2, <1>3, HeaderSizeAssumption DEF DTypes
<1>5. PICK c : c = buffer \o wire
  BY Zenon
<1>6. PICK C \in Nat : C = Len(c) /\ B <= C /\ \A i \in 1..B : c[i] = buffer[i]
  <2>1. /\ buffer \in Seq(Byte) /\ wire \in Seq(Byte) /\ Len(wire) \in Nat
    BY LenProperties DEF DTypes
  <2>2. PICK W \in Nat : W = Len(wire)
    BY <2>1
  <2>3. Len(c) = B + W /\ \A i \in 1..(B + W) : c[i] = IF i <= B THEN buffer[i] ELSE wire[i - B]
    BY <2>1, <2>2, <1>3, <1>5, ConcatProperties
  <2>4. B + W \in Nat /\ B <= B + W /\ \A i \in 1..B : i \in 1..(B + W) /\ i <= B
    OBVIOUS
  <2> QED
    BY <2>3, <2>4
<1>7. PICK at \in [Nat -> Int] : Laid(at, D, sent, c, peerOpen)
  BY <1>1, <1>5 DEF DLaid
<1>8. /\ at[D + 1] = 0
      /\ \A n \in (D + 1)..L : \A i \in 1..Size(sent[n]) :
            at[n] + i <= C => c[at[n] + i] = <<n, i>>
      /\ C <= at[L + 1]
  BY <1>2, <1>6, <1>7, Zenon DEF Laid
<1>9. D + 1 \in 1..L /\ D + 1 \in (D + 1)..L
  <2>1. D # L
    <3>1. SUFFICES ASSUME D = L PROVE FALSE
      OBVIOUS
    <3>2. C <= 0
      BY <3>1, <1>8
    <3> QED
      BY <3>2, <1>4, <1>6
  <2> QED
    BY <2>1, <1>4
<1>10. sent[D + 1] \in F
  BY <1>2, <1>9, ElementOfSeq DEF DTypes
<1>11. Size(sent[D + 1]) \in Nat /\ HeaderSize <= Size(sent[D + 1])
  <2>1. PICK l \in Nat : l = sent[D + 1].len
    BY <1>10 DEF Readable
  <2>2. HeaderSize + l \in Nat /\ HeaderSize <= HeaderSize + l
    BY <1>4
  <2> QED
    BY <2>1, <2>2 DEF Size
<1>12. \A i \in 1..HeaderSize : buffer[i] = <<D + 1, i>>
  <2> SUFFICES ASSUME NEW i \in 1..HeaderSize PROVE buffer[i] = <<D + 1, i>>
    OBVIOUS
  <2>1. i \in 1..B /\ i <= C /\ i \in 1..Size(sent[D + 1]) /\ 0 + i = i
    BY <1>4, <1>6, <1>11
  <2>2. at[D + 1] + i = i
    BY <2>1, <1>8
  <2>3. c[i] = <<D + 1, i>>
    BY <2>1, <2>2, <1>8, <1>9, Zenon
  <2> QED
    BY <2>1, <2>3, <1>6
<1>13. ParseHeader = D + 1
  <2>1. 1 \in 1..HeaderSize
    BY <1>4
  <2>2. buffer[1][1] = D + 1
    BY <2>1, <1>12
  <2>3. PICK h : h = SubSeq(buffer, 1, HeaderSize)
    BY Zenon
  <2>4. PICK g : g = [i \in 1..HeaderSize |-> <<D + 1, i>>]
    BY Zenon
  <2>5. \A i \in 1..HeaderSize : buffer[i] \in Byte
    BY <1>3, <1>4, ElementOfSeq DEF DTypes
  <2>6. h \in Seq(Byte) /\ Len(h) = HeaderSize /\ \A i \in 1..HeaderSize : h[i] = buffer[i]
    <3>1. HeaderSize \in Int /\ 1 <= HeaderSize /\ HeaderSize - 1 + 1 = HeaderSize
          /\ \A i \in 1..HeaderSize : 1 + i - 1 = i
      BY <1>4
    <3> QED
      BY <3>1, <2>3, <2>5, SubSeqProperties
  <2>7. g \in Seq(Byte) /\ Len(g) = HeaderSize /\ \A i \in 1..HeaderSize : g[i] = buffer[i]
    <3>1. \A i \in 1..HeaderSize : <<D + 1, i>> \in Byte
      BY <2>5, <1>12, Zenon
    <3>2. g \in Seq(Byte)
      BY <3>1, <2>4, <1>4, IsASeq
    <3> QED
      BY <3>2, <2>4, <1>4, <1>12, LenProperties
  <2>8. h = g
    BY <2>6, <2>7, SeqEqual, Zenon
  <2> QED
    BY <2>2, <2>3, <2>4, <2>8, Zenon DEF ParseHeader
<1>14. Header = D + 1
  <2>1. ~(Len(buffer) < HeaderSize)
    BY <1>3, <1>4
  <2>2. header = 0 \/ header = D + 1
    BY <1>1 DEF DTypes
  <2> QED
    BY <2>1, <2>2, <1>13 DEF Header
<1> QED
  BY <1>1, <1>2, <1>9, <1>10, <1>11, <1>14

\* A message is complete when its bytes are in the buffer.
LEMMA CompleteNext ==
  ASSUME NEW F, Readable(F), DTypes(F), DLaid, Decode = "Ok"
  PROVE  /\ Header = Len(dispatched) + 1 /\ Header \in 1..Len(sent)
         /\ Size(sent[Header]) \in 0..Len(buffer)
<1>1. Len(buffer) \in Nat /\ HeaderSize \in Nat
  BY LenProperties, HeaderSizeAssumption DEF DTypes
<1>2. ~(Len(buffer) < HeaderSize)
  BY DEF Decode
<1>3. HeaderSize <= Len(buffer)
  BY <1>1, <1>2
<1>4. /\ Header = Len(dispatched) + 1 /\ Header \in 1..Len(sent)
      /\ Size(sent[Header]) \in Nat
  BY <1>3, HeaderNext
<1>5. ~(Len(buffer) < Size(sent[Header]))
  BY DEF Decode
<1> QED
  BY <1>1, <1>4, <1>5

\* Dispatch takes the next message, whole.
LEMMA DispatchKeeps ==
  ASSUME NEW F, Readable(F), DTypes(F), DLaid, InOrder, Decode = "Ok", Dispatch,
         UNCHANGED <<sent, wire, peerOpen, readers>>
  PROVE  DTypes(F)' /\ DLaid' /\ InOrder'
<1>1. PICK D \in Nat : D = Len(dispatched)
  BY LenProperties DEF DTypes
<1>2. PICK L \in Nat : L = Len(sent)
  BY LenProperties DEF DTypes
<1>3. PICK z \in Nat : z = Size(sent[D + 1]) /\ z \in 0..Len(buffer)
  <2>1. Len(buffer) \in Nat
    BY LenProperties DEF DTypes
  <2> QED
    BY <2>1, <1>1, CompleteNext
<1>4. Header = D + 1 /\ D + 1 \in 1..L
  BY <1>1, <1>2, CompleteNext
<1>5. dispatched' = Append(dispatched, D + 1) /\ buffer' = SubSeq(buffer, z + 1, Len(buffer))
      /\ header' = 0
  BY <1>3, <1>4 DEF Dispatch
<1>6. /\ dispatched' \in Seq(Nat) /\ Len(dispatched') = D + 1
      /\ dispatched'[D + 1] = D + 1 /\ \A i \in 1..D : dispatched'[i] = dispatched[i]
  BY <1>1, <1>5, AppendProperties DEF DTypes
<1>7. InOrder'
  <2>1. \A i \in 1..D : dispatched[i] = i
    BY <1>1 DEF InOrder
  <2>2. \A i \in 1..(D + 1) : dispatched'[i] = i
    BY <2>1, <1>6
  <2>3. PICK e : e = [i \in 1..(D + 1) |-> i]
    BY Zenon
  <2>4. e \in Seq(Nat) /\ Len(e) = D + 1 /\ \A i \in 1..(D + 1) : e[i] = i
    <3>1. e \in Seq(Nat)
      BY <2>3, IsASeq
    <3> QED
      BY <3>1, <2>3, LenProperties
  <2>5. dispatched' = e
    BY <2>2, <2>4, <1>6, SeqEqual
  <2> QED
    BY <2>3, <2>5, <1>6 DEF InOrder
<1>8. PICK c : c = buffer \o wire
  BY Zenon
<1>9. buffer' \in Seq(Byte) /\ buffer' \o wire = SubSeq(c, z + 1, Len(c))
  BY <1>3, <1>5, <1>8, BytesTaken, Zenon DEF DTypes
<1>10. c \in Seq(Byte) /\ z <= Len(c)
  <2>1. c \in Seq(Byte) /\ Len(c) = Len(buffer) + Len(wire)
    BY <1>8, ConcatProperties DEF DTypes
  <2>2. PICK B, W : B = Len(buffer) /\ W = Len(wire)
    BY Zenon
  <2>3. B \in Nat /\ W \in Nat
    BY <2>2, LenProperties DEF DTypes
  <2>4. z <= B + W
    BY <2>2, <2>3, <1>3
  <2> QED
    BY <2>1, <2>2, <2>4
<1>11. PICK at \in [Nat -> Int] : Laid(at, D, sent, c, peerOpen)
  BY <1>1, <1>8 DEF DLaid
<1>12. Laid([n \in Nat |-> at[n] - z], D + 1, sent, SubSeq(c, z + 1, Len(c)), peerOpen)
  <2>1. D \in 0..(Len(sent) - 1)
    BY <1>2, <1>4
  <2> QED
    BY <2>1, <1>3, <1>10, <1>11, LaidTake DEF DTypes
<1>13. DLaid'
  <2>1. [n \in Nat |-> at[n] - z] \in [Nat -> Int]
    OBVIOUS
  <2> QED
    BY <2>1, <1>6, <1>9, <1>12 DEF DLaid
<1>14. DTypes(F)'
  BY <1>2, <1>4, <1>5, <1>6, <1>9 DEF DTypes
<1> QED
  BY <1>7, <1>13, <1>14

\* A turn of OnReadable that finds no message parses the header at most.
LEMMA ParseKeeps ==
  ASSUME NEW F, Readable(F), DTypes(F), DLaid, header' = Header,
         UNCHANGED <<sent, wire, buffer, peerOpen, dispatched>>, readers' \in Nat
  PROVE  DTypes(F)' /\ DLaid' /\ Decode' = Decode
<1>1. DLaid'
  BY DEF DLaid
<1>2. header' = 0 \/ (header' = Len(dispatched) + 1 /\ HeaderSize <= Len(buffer))
  <2>1. Len(buffer) \in Nat /\ HeaderSize \in Nat
    BY LenProperties, HeaderSizeAssumption DEF DTypes
  <2>2. CASE HeaderSize <= Len(buffer)
    BY <2>2, HeaderNext
  <2>3. CASE Len(buffer) < HeaderSize
    BY <2>1, <2>3 DEF Header, DTypes
  <2> QED
    BY <2>1, <2>2, <2>3
<1>3. Header' = Header
  <2>1. ParseHeader' = ParseHeader
    BY DEF ParseHeader
  <2> QED
    BY <2>1 DEF Header
<1>4. Decode' = Decode
  BY <1>3 DEF Decode
<1> QED
  BY <1>1, <1>2, <1>4 DEF DTypes

\* A message that the peer writes is laid out at the end, and changes nothing
\* for Decode.
LEMMA PeerSendKeeps ==
  ASSUME NEW F, Readable(F), DInv(F), NEW f \in F, PeerSend(f)
  PROVE  DInv(F)'
<1> USE DEF DInv, FramesInOrder
<1>1. PICK L \in Nat : L = Len(sent)
  BY LenProperties DEF DTypes
<1>2. sent' \in Seq(F) /\ Len(sent') = L + 1 /\ \A n \in 1..L : sent'[n] = sent[n]
  BY <1>1, AppendProperties DEF DTypes, PeerSend
<1>3. PICK c : c = buffer \o wire
  BY Zenon
<1>4. PICK e : e = Encode(L + 1, f)
  OBVIOUS
<1>5. c \in Seq(Byte)
  BY <1>3, ConcatProperties DEF DTypes
<1>6. PICK at \in [Nat -> Int] : Laid(at, Len(dispatched), sent, c, TRUE)
  BY <1>3, Zenon DEF DLaid, PeerSend
<1>7. PICK to \in [Nat -> Int] : Laid(to, Len(dispatched), sent', c \o e, TRUE)
  <2>1. Len(dispatched) \in 0..Len(sent)
    BY <1>1, LenProperties DEF DTypes
  <2>2. Laid([at EXCEPT ![L + 2] = at[L + 1] + Size(f)], Len(dispatched),
             Append(sent, f), c \o e, TRUE)
    BY <2>1, <1>1, <1>4, <1>5, <1>6, LaidSend, Zenon DEF DTypes
  <2>3. Size(f) \in Nat
    BY HeaderSizeAssumption DEF Readable, Size
  <2>4. [at EXCEPT ![L + 2] = at[L + 1] + Size(f)] \in [Nat -> Int]
    BY <2>3
  <2> QED
    BY <2>2, <2>4, Zenon DEF PeerSend
<1>8. e \in Seq(Byte)
  <2>1. PICK z \in Nat : z = Size(f)
    BY HeaderSizeAssumption DEF Readable, Size
  <2>2. e = [i \in 1..z |-> <<L + 1, i>>] /\ \A i \in 1..z : <<L + 1, i>> \in Byte
    <3>1. e = [i \in 1..z |-> <<L + 1, i>>]
      BY <2>1, <1>4 DEF Encode
    <3>2. L + 1 \in Nat /\ \A i \in 1..z : i \in Nat
      BY <1>1
    <3> QED
      BY <3>1, <3>2, BytePair
  <2> QED
    BY <2>2, IsASeq
<1>9. wire' = wire \o e /\ wire' \in Seq(Byte) /\ buffer \o wire' = c \o e
  <2>1. wire' = wire \o e
    BY <1>1, <1>4 DEF PeerSend
  <2>2. wire \in Seq(Byte) /\ buffer \in Seq(Byte)
    BY DEF DTypes
  <2>3. wire \o e \in Seq(Byte) /\ (buffer \o wire) \o e = buffer \o (wire \o e)
    <3>1. wire \o e \in Seq(Byte)
      BY <2>2, <1>8, ConcatProperties
    <3>2. (buffer \o wire) \o e = buffer \o (wire \o e)
      BY <2>2, <1>8, BytesAdded, Zenon
    <3> QED
      BY <3>1, <3>2
  <2> QED
    BY <2>1, <2>3, <1>3, Zenon
<1>10. DLaid'
  BY <1>7, <1>9, Zenon DEF DLaid, PeerSend
<1>11. DTypes(F)'
  <2>1. Len(dispatched) <= L /\ Len(dispatched) \in Nat
    BY <1>1, LenProperties DEF DTypes
  <2>2. Len(dispatched) <= L + 1
    BY <2>1
  <2> QED
    BY <2>2, <1>2, <1>9 DEF DTypes, PeerSend
<1>12. Decode' = Decode
  <2>1. Header' = Header
    BY DEF Header, ParseHeader, PeerSend
  <2>2. CASE Len(buffer) < HeaderSize
    BY <2>2 DEF Decode, PeerSend
  <2>3. CASE HeaderSize <= Len(buffer)
    <3>1. Header \in 1..L
      BY <2>3, <1>1, HeaderNext
    <3>2. sent'[Header] = sent[Header]
      BY <3>1, <1>2
    <3> QED
      BY <3>2, <2>1, Zenon DEF Decode, PeerSend
  <2>4. Len(buffer) \in Nat /\ HeaderSize \in Nat
    BY LenProperties, HeaderSizeAssumption DEF DTypes
  <2> QED
    BY <2>2, <2>3, <2>4
<1>13. FramesInOrder'
  BY <1>12 DEF InOrder, NoLostWakeup, PeerSend
<1> QED
  BY <1>10, <1>11, <1>13

\* The steps of the pipe: the end of the peer, and bytes that arrive.
LEMMA PipeKeeps ==
  ASSUME NEW F, Readable(F), DInv(F), PeerClose \/ \E n \in 1..Len(wire) : OnFrame(n)
  PROVE  DInv(F)'
<1> USE DEF DInv, FramesInOrder
<1>1. CASE PeerClose
  <2>1. PICK n \in 0..Len(wire) : wire' = SubSeq(wire, 1, n)
    BY <1>1 DEF PeerClose
  <2>2. PICK c : c = buffer \o wire
    BY Zenon
  <2>3. c \in Seq(Byte)
    BY <2>2, ConcatProperties DEF DTypes
  <2>4. PICK k \in 0..Len(c) : buffer \o wire' = SubSeq(c, 1, k)
    BY <2>1, <2>2, BytesCut, Zenon DEF DTypes
  <2>5. wire' \in Seq(Byte)
    BY <2>1, BytesCut DEF DTypes
  <2>6. PICK at \in [Nat -> Int] : Laid(at, Len(dispatched), sent, c, TRUE)
    BY <1>1, <2>2, Zenon DEF DLaid, PeerClose
  <2>7. Len(dispatched) \in 0..Len(sent)
    BY LenProperties DEF DTypes
  <2>8. Laid(at, Len(dispatched), sent, buffer \o wire', FALSE)
    BY <2>3, <2>4, <2>6, <2>7, LaidCut, Zenon DEF DTypes
  <2>9. DLaid'
    BY <1>1, <2>8, Zenon DEF DLaid, PeerClose
  <2>10. DTypes(F)'
    BY <1>1, <2>5 DEF DTypes, PeerClose
  <2>11. Decode' = Decode
    BY <1>1 DEF Decode, Header, ParseHeader, PeerClose
  <2>12. FramesInOrder'
    BY <1>1, <2>11 DEF InOrder, NoLostWakeup, PeerClose
  <2> QED
    BY <2>9, <2>10, <2>12
<1>2. CASE \E n \in 1..Len(wire) : OnFrame(n)
  <2>1. PICK n \in 1..Len(wire) : OnFrame(n)
    BY <1>2
  <2>2. /\ buffer' \in Seq(Byte) /\ wire' \in Seq(Byte)
        /\ buffer' \o wire' = buffer \o wire /\ Len(buffer) <= Len(buffer')
    BY <2>1, BytesMoved, Zenon DEF DTypes, OnFrame
  <2>3. DLaid'
    BY <2>1, <2>2, Zenon DEF DLaid, OnFrame
  <2>4. HeaderSize <= Len(buffer) => HeaderSize <= Len(buffer')
    <3>1. Len(buffer) \in Nat /\ Len(buffer') \in Nat /\ HeaderSize \in Nat
      BY <2>2, LenProperties, HeaderSizeAssumption DEF DTypes
    <3> QED
      BY <3>1, <2>2
  <2>5. DTypes(F)'
    BY <2>1, <2>2, <2>4 DEF DTypes, OnFrame
  <2>6. FramesInOrder'
    BY <2>1 DEF InOrder, NoLostWakeup, OnFrame
  <2> QED
    BY <2>3, <2>5, <2>6
<1> QED
  BY <1>1, <1>2

\* The steps of SocketHolder: its immediate, its reading loop and its end.
LEMMA HolderKeeps ==
  ASSUME NEW F, Readable(F), DInv(F),
         OnReadable \/ ReadDispatch \/ ReadDone \/ OnEoF \/ OnFinished \/ Dispose \/ OnClosed
  PROVE  DInv(F)'
<1> USE DEF DInv, FramesInOrder
<1>0. readers \in Nat
  BY DEF DTypes
<1>1. CASE OnReadable
  <2>1. DTypes(F)' /\ DLaid' /\ InOrder' /\ Decode' = Decode
    BY <1>0, <1>1 DEF DTypes, DLaid, InOrder, Decode, Header, ParseHeader, OnReadable
  <2>2. readers' > 0
    BY <1>0, <1>1 DEF OnReadable
  <2> QED
    BY <2>1, <2>2 DEF NoLostWakeup
<1>2. CASE ReadDispatch
  <2>1. DTypes(F)' /\ DLaid' /\ InOrder'
    BY <1>2, DispatchKeeps DEF ReadDispatch
  <2>2. readers' > 0
    BY <1>2 DEF ReadDispatch
  <2> QED
    BY <2>1, <2>2 DEF NoLostWakeup
<1>3. CASE ReadDone
  <2>1. readers' \in Nat
    BY <1>0, <1>3 DEF ReadDone
  <2>2. DTypes(F)' /\ DLaid' /\ Decode' = Decode
    BY <1>3, <2>1, ParseKeeps DEF ReadDone
  <2>3. InOrder' /\ Decode # "Ok"
    BY <1>3 DEF ReadDone, InOrder
  <2> QED
    BY <2>2, <2>3 DEF NoLostWakeup
<1>4. CASE OnEoF
  <2>1. eof' # "none" /\ UNCHANGED <<peerOpen, sent, wire, readers>>
    BY <1>4 DEF OnEoF
  <2>2. CASE Decode = "Ok" /\ Dispatch
    BY <2>1, <2>2, DispatchKeeps DEF NoLostWakeup
  <2>3. CASE header' = Header /\ UNCHANGED <<buffer, dispatched>>
    <3>1. readers' \in Nat
      BY <2>1, <1>0
    <3>2. DTypes(F)' /\ DLaid'
      BY <3>1, <2>1, <2>3, ParseKeeps
    <3> QED
      BY <3>2, <2>1, <2>3 DEF InOrder, NoLostWakeup
  <2> QED
    BY <1>4, <2>2, <2>3 DEF OnEoF
<1>5. CASE OnFinished \/ Dispose \/ OnClosed
  <2>1. UNCHANGED <<peerOpen, sent, wire, buffer, header, readers, dispatched>>
    BY <1>5 DEF OnFinished, Dispose, OnClosed
  <2>2. socket' # "open"
    BY <1>5 DEF OnFinished, Dispose, OnClosed, DisposeSocket
  <2>3. DTypes(F)' /\ DLaid' /\ InOrder'
    BY <2>1 DEF DTypes, DLaid, InOrder
  <2> QED
    BY <2>2, <2>3 DEF NoLostWakeup
<1> QED
  BY <1>1, <1>2, <1>3, <1>4, <1>5

\* No step of another component matters.
LEMMA IdleKeeps ==
  ASSUME NEW F, DInv(F), UNCHANGED decoderVars
  PROVE  DInv(F)'
BY DEF DInv, DTypes, DLaid, FramesInOrder, InOrder, NoLostWakeup, Decode, Header,
       ParseHeader, decoderVars

\* The decoder that has received nothing.
LEMMA InitDInv ==
  ASSUME NEW F, DecoderInit
  PROVE  DInv(F)
<1>1. Len(<<>>) = 0 /\ <<>> \in Seq(F) /\ <<>> \in Seq(Byte) /\ <<>> \in Seq(Nat)
  BY EmptySeq
<1>2. buffer \o wire = <<>>
  BY <1>1, ConcatEmptySeq DEF DecoderInit
<1>3. PICK at \in [Nat -> Int] : at = [n \in Nat |-> 0]
  <2>1. [n \in Nat |-> 0] \in [Nat -> Int]
    OBVIOUS
  <2> QED
    BY <2>1, Zenon
<1>4. Laid(at, 0, <<>>, <<>>, TRUE)
  BY <1>1, <1>3 DEF Laid
<1>5. DLaid
  BY <1>1, <1>2, <1>4, Zenon DEF DLaid, DecoderInit
<1>6. DTypes(F)
  BY <1>1 DEF DTypes, DecoderInit
<1>7. InOrder
  BY <1>1 DEF InOrder, DecoderInit
<1>8. NoLostWakeup
  <2>1. Len(buffer) < HeaderSize
    BY <1>1, HeaderSizeAssumption DEF DecoderInit
  <2>2. Decode = "More"
    BY <2>1 DEF Decode
  <2> QED
    BY <2>2 DEF NoLostWakeup
<1> QED
  BY <1>5, <1>6, <1>7, <1>8 DEF DInv, FramesInOrder

\* However the pipe cuts the bytes of whatever messages, they are dispatched
\* whole, once and in order, and a complete one never waits for more bytes
\* (FramesInOrder: SocketHolder::OnFrame, OnReadable, NoslatedDecoder::Decode).
THEOREM FramesStayInOrder == DecoderSpec => []FramesInOrder
<1>1. Readable(Frames)
  BY FramesAssumption DEF Readable
<1>2. DecoderInit => DInv(Frames)
  BY InitDInv
<1>3. DInv(Frames) /\ [DecoderNext]_decoderVars => DInv(Frames)'
  BY <1>1, PeerSendKeeps, PipeKeeps, HolderKeeps, IdleKeeps DEF DecoderNext
<1>4. DInv(Frames) => FramesInOrder
  BY DEF DInv
<1> QED
  BY <1>2, <1>3, <1>4, PTL DEF DecoderSpec

-----------------------------------------------------------------------------
(***************************************************************************)
(* The connection.  Each of its steps is a step of the delegate or leaves  *)
(* it alone, and keeps the layout of the bytes: both halves keep what they *)
(* promise.  As long as ids are not used again the answer that names an id *)
(* is the answer to the call that holds it.                                *)
(***************************************************************************)

\* What the peer writes.
Responses == [kind : {"response"}, id : RequestId, code : PeerCodes, len : Nat,
              decodable : {TRUE}, call : Calls]
Written == Responses \cup {PeerRequest}

\* It can be laid out, and an answer can be given.
LEMMA WrittenFacts ==
  /\ Readable(Written)
  /\ PeerRequest \in Written
  /\ \A k \in Calls, code \in PeerCodes, len \in Nat : Response(k, IdOf(k), code, len) \in Written
  /\ \A f \in Written : f.kind = "response" =>
       f.id \in RequestId /\ f.code \in PeerCodes /\ f.call \in Calls
<1>1. \A k \in Calls : IdOf(k) \in RequestId
  BY SeqModAssumption, MaxCallsAssumption DEF IdOf, RequestId, Calls
<1>a. ASSUME NEW f \in Responses
      PROVE  f.len \in Nat /\ f.decodable = TRUE /\ f.id \in RequestId /\ f.code \in PeerCodes
             /\ f.call \in Calls
  BY DEF Responses
<1>b. PeerRequest.len \in Nat /\ PeerRequest.decodable = TRUE /\ PeerRequest.kind # "response"
  BY DEF PeerRequest
<1>2. Readable(Written)
  BY <1>a, <1>b, Zenon DEF Written, Readable
<1>3. PeerRequest \in Written
  BY Zenon DEF Written
<1>4. ASSUME NEW k \in Calls, NEW code \in PeerCodes, NEW len \in Nat
      PROVE  Response(k, IdOf(k), code, len) \in Written
  BY <1>1 DEF Written, Responses, Response
<1>5. ASSUME NEW f \in Written, f.kind = "response"
      PROVE  f.id \in RequestId /\ f.code \in PeerCodes /\ f.call \in Calls
  BY <1>a, <1>b, <1>5, Zenon DEF Written
<1> QED
  BY <1>2, <1>3, <1>4, <1>5, Zenon

\* The message that Decode finds is the next one.
LEMMA NextMessage ==
  ASSUME DInv(Written), Decode = "Ok"
  PROVE  Header = Len(dispatched) + 1 /\ Header \in 1..Len(sent) /\ sent[Header] \in Written
<1>1. HeaderSize <= Len(buffer)
  <2>1. HeaderSize \in Nat /\ Len(buffer) \in Nat
    BY HeaderSizeAssumption, LenProperties DEF DInv, DTypes
  <2>2. ~(Len(buffer) < HeaderSize)
    BY DEF Decode
  <2> QED
    BY <2>1, <2>2
<1> QED
  BY <1>1, WrittenFacts, HeaderNext DEF DInv

\* What is dispatched to the delegate is one of its steps.
LEMMA DeliverSteps ==
  ASSUME DInv(Written), Decode = "Ok", Deliver(sent[Header])
  PROVE  [DelegateNext]_delegateVars
<1>1. sent[Header] \in Written
  BY NextMessage
<1> QED
  BY <1>1, WrittenFacts, Zenon DEF Deliver, DelegateNext

\* Each step of the connection is a step of the delegate, or none.
LEMMA DelegateHalf ==
  ASSUME DInv(Written), [ConnectionNext]_connectionVars
  PROVE  [DelegateNext]_delegateVars
<1>1. CASE MakeCall
  BY <1>1, Zenon DEF MakeCall, DelegateNext, Request
<1>2. ASSUME NEW k \in Calls, NEW code \in PeerCodes, NEW len \in 0..1, PeerAnswers(k, code, len)
      PROVE  [DelegateNext]_delegateVars
  BY <1>2 DEF PeerAnswers
<1>3. CASE PeerAsks \/ PeerEnds \/ Receive \/ StopReading \/ Reply
  BY <1>3, Zenon DEF PeerAsks, PeerEnds, Receive, StopReading, Reply
<1>4. CASE DispatchMessage
  BY <1>4, DeliverSteps, Zenon DEF DispatchMessage, ReadDispatch
<1>5. CASE Timeout \/ ClosureReturns
  BY <1>5, Zenon DEF Timeout, ClosureReturns, DelegateNext
<1>6. CASE EndOfFile
  BY <1>6, DeliverSteps, Zenon DEF EndOfFile, DelegateNext
<1>7. CASE Finish \/ ResetSocket \/ DestroyDelegate
  BY <1>7, Zenon DEF Finish, ResetSocket, DestroyDelegate, DelegateNext
<1>8. CASE UNCHANGED connectionVars
  BY <1>8, Zenon DEF connectionVars
<1> QED
  BY <1>1, <1>2, <1>3, <1>4, <1>5, <1>6, <1>7, <1>8, Zenon DEF ConnectionNext

\* And keeps the layout of the bytes.
LEMMA DecoderHalf ==
  ASSUME DInv(Written), peerCalls \subseteq Calls, [ConnectionNext]_connectionVars
  PROVE  DInv(Written)'
<1> USE WrittenFacts
<1>1. CASE MakeCall \/ Reply \/ Timeout \/ ClosureReturns \/ DestroyDelegate
  <2>1. UNCHANGED decoderVars
    BY <1>1, Zenon DEF MakeCall, Reply, Timeout, ClosureReturns, DestroyDelegate
  <2> QED
    BY <2>1, IdleKeeps, Zenon
<1>2. ASSUME NEW k \in Calls, NEW code \in PeerCodes, NEW len \in 0..1, PeerAnswers(k, code, len)
      PROVE  DInv(Written)'
  <2>1. Response(k, IdOf(k), code, len) \in Written
    OBVIOUS
  <2> QED
    BY <1>2, <2>1, PeerSendKeeps, Zenon DEF PeerAnswers
<1>3. CASE PeerAsks
  BY <1>3, PeerSendKeeps, Zenon DEF PeerAsks
<1>4. CASE PeerEnds
  BY <1>4, PipeKeeps, Zenon DEF PeerEnds
<1>5. CASE Receive
  BY <1>5, PipeKeeps, HolderKeeps, Zenon DEF Receive
<1>6. CASE DispatchMessage \/ StopReading \/ EndOfFile \/ Finish \/ ResetSocket
  <2>1. ReadDispatch \/ ReadDone \/ OnEoF \/ OnFinished \/ Dispose
    BY <1>6, Zenon DEF DispatchMessage, StopReading, EndOfFile, Finish, ResetSocket
  <2> QED
    BY <2>1, HolderKeeps, Zenon
<1>7. CASE UNCHANGED connectionVars
  BY <1>7, IdleKeeps, Zenon DEF connectionVars
<1> QED
  BY <1>1, <1>2, <1>3, <1>4, <1>5, <1>6, <1>7, Zenon DEF ConnectionNext

\* The invariant of the two halves.
HalvesInv == IInv /\ DInv(Written) /\ peerCalls \subseteq Calls

\* It holds throughout a connection.
LEMMA HalvesInvariance == ConnectionSpec => []HalvesInv
<1>1. ConnectionInit => HalvesInv
  BY InitIInv, InitDInv, Zenon DEF ConnectionInit, HalvesInv
<1>2. HalvesInv /\ [ConnectionNext]_connectionVars => HalvesInv'
  <2> SUFFICES ASSUME HalvesInv, [ConnectionNext]_connectionVars PROVE HalvesInv'
    OBVIOUS
  <2>1. IInv' /\ DInv(Written)'
    BY DelegateHalf, DecoderHalf, NextIInv, Zenon DEF HalvesInv
  <2>2. peerCalls' \subseteq Calls
    <3>1. CASE MakeCall
      <4>1. made + 1 \in Calls
        <5>1. NextSeq
          BY <3>1, Zenon DEF MakeCall, RequestSent, RequestAborts, RequestDropped, RequestRefused
        <5>2. made \in 0..MaxCalls
          BY DEF HalvesInv, IInv, TypeOK
        <5> QED
          BY <5>1, <5>2, MaxCallsAssumption DEF NextSeq, Calls
      <4> QED
        BY <3>1, <4>1 DEF MakeCall, HalvesInv
    <3>2. CASE peerCalls' \subseteq peerCalls
      BY <3>2 DEF HalvesInv
    <3> QED
      BY <3>1, <3>2 DEF ConnectionNext, connectionVars, peerVars, PeerAnswers, PeerAsks, PeerEnds,
         Receive, DispatchMessage, StopReading, Reply, Timeout, ClosureReturns, EndOfFile, Finish,
         ResetSocket, DestroyDelegate
  <2> QED
    BY <2>1, <2>2 DEF HalvesInv
<1> QED
  BY <1>1, <1>2, PTL DEF ConnectionSpec

\* In a connection too messages are dispatched whole, once and in order, and a
\* complete one does not wait, whatever closures do while one is dispatched.
THEOREM ConnectionInOrder == ConnectionSpec => []FramesInOrder
<1>1. HalvesInv => FramesInOrder
  BY DEF HalvesInv, DInv
<1> QED
  BY <1>1, HalvesInvariance, PTL

\* The delegate at the end of a decoder is the delegate with an arbitrary peer:
\* what is proved of it holds in a connection.
THEOREM ConnectionRefinesDelegate == ConnectionSpec => DelegateSpec
<1>1. ConnectionInit => DelegateInit
  BY DEF ConnectionInit
<1>2. HalvesInv /\ [ConnectionNext]_connectionVars => [DelegateNext]_delegateVars
  BY DelegateHalf DEF HalvesInv
<1> QED
  BY <1>1, <1>2, HalvesInvariance, PTL DEF ConnectionSpec, DelegateSpec

\* So that a connection without a debugger keeps the promise of RpcCalls.
THEOREM ConnectionKeepsPromise ==
  ASSUME NestedLoop = FALSE
  PROVE  ConnectionSpec => AbstractSpec
BY ConnectionRefinesDelegate, Refinement, PTL

\* The answers that were written are those of the peer, for calls that were made,
\* one for each and with its id.
AnswersOK ==
  \A i \in 1..Len(sent) : sent[i].kind = "response" =>
    /\ sent[i].call \in 1..made
    /\ sent[i].id = sent[i].call - 1
    /\ answers[sent[i].call] = sent[i].code
OneAnswer ==
  \A i, j \in 1..Len(sent) :
    sent[i].kind = "response" /\ sent[j].kind = "response" /\ sent[i].call = sent[j].call => i = j

\* The peer knows of the calls that were registered, and answers once.
Asked(k) == k \in peerCalls \/ answers[k] # "none"
AskedOK ==
  \A k \in Calls : /\ Asked(k) => k <= made /\ outcome[k] \in Codes \cup {"pending"}
                   /\ k \in peerCalls => answers[k] = "none"

\* A call is reset only when the delegate is gone.
ResetOK == \A k \in Calls : outcome[k] = "CONNECTION_RESET" => ~alive

\* What the answers that were dispatched have led to.
GotOK ==
  \A i \in 1..Len(dispatched) : sent[i].kind = "response" =>
    outcome[sent[i].call] \in {sent[i].code, "TIMEOUT"}

PeerInv == /\ answers \in [Calls -> PeerCodes \cup {"none"}]
           /\ AnswersOK /\ OneAnswer /\ AskedOK /\ ResetOK /\ GotOK /\ ResponseMatches

\* It implies the property, since messages are dispatched in order.
LEMMA PeerInvAnswers == HalvesInv /\ PeerInv => AnswersMatch
<1> SUFFICES ASSUME HalvesInv, PeerInv, NEW i \in 1..Len(dispatched),
                    sent[dispatched[i]].kind = "response"
             PROVE  outcome[sent[dispatched[i]].call] \in {sent[dispatched[i]].code, "TIMEOUT"}
  BY DEF AnswersMatch, AnswerNotLost, PeerInv
<1>1. dispatched[i] = i
  BY DEF HalvesInv, DInv, FramesInOrder, InOrder
<1> QED
  BY <1>1 DEF PeerInv, GotOK

\* An id that was not used before holds the call that it numbers.
LEMMA HeldCall ==
  ASSUME HalvesInv, MaxCalls <= SeqMod, Sane, NEW id \in RequestId, callbacks[id] # NoCall
  PROVE  callbacks[id] = id + 1 /\ callbacks[id] \in Calls
<1>1. made <= SeqMod
  BY MaxCallsAssumption, SeqModAssumption DEF HalvesInv, IInv, TypeOK
<1>2. IdsOK
  BY DEF HalvesInv, IInv, Good, Sane
<1>3. callbacks[id] = id + 1
  BY <1>1, <1>2, Zenon DEF IdsOK
<1>4. callbacks[id] \in Calls
  BY DEF HalvesInv, IInv, TypeOK
<1> QED
  BY <1>3, <1>4

\* Nothing of it changes.
LEMMA PeerQuiet ==
  ASSUME PeerInv, UNCHANGED <<sent, dispatched, outcome, made, alive, peerCalls, answers>>
  PROVE  PeerInv'
BY DEF PeerInv, AnswersOK, OneAnswer, AskedOK, Asked, ResetOK, GotOK, ResponseMatches

\* The outcome of a call stays, or becomes what the peer answered, or is a timeout
\* or a reset.
Settles(k) ==
  \/ outcome'[k] = outcome[k]
  \/ /\ outcome'[k] \in Codes
     /\ outcome'[k] \in PeerCodes => answers[k] = outcome'[k]
     /\ outcome'[k] = "CONNECTION_RESET" => ~alive'

\* Calls are settled.
LEMMA SettleKeeps ==
  ASSUME PeerInv, UNCHANGED <<sent, made, peerCalls, answers>>, \A k \in Calls : Settles(k),
         ~alive => ~alive', GotOK'
  PROVE  PeerInv'
<1>1. answers' \in [Calls -> PeerCodes \cup {"none"}] /\ AnswersOK' /\ OneAnswer'
  BY DEF PeerInv, AnswersOK, OneAnswer
<1>2. ASSUME NEW k \in Calls
      PROVE  /\ Asked(k)' => k <= made' /\ outcome'[k] \in Codes \cup {"pending"}
             /\ k \in peerCalls' => answers'[k] = "none"
             /\ outcome'[k] = "CONNECTION_RESET" => ~alive'
             /\ outcome'[k] \in PeerCodes => answers'[k] = outcome'[k]
  <2>1. Settles(k)
    OBVIOUS
  <2>2. /\ Asked(k) => k <= made /\ outcome[k] \in Codes \cup {"pending"}
        /\ k \in peerCalls => answers[k] = "none"
        /\ outcome[k] = "CONNECTION_RESET" => ~alive
        /\ outcome[k] \in PeerCodes => answers[k] = outcome[k]
    BY Zenon DEF PeerInv, AskedOK, ResetOK, ResponseMatches
  <2>3. (Asked(k)' <=> Asked(k)) /\ answers'[k] = answers[k] /\ made' = made
        /\ (k \in peerCalls' <=> k \in peerCalls)
    BY DEF Asked
  <2> QED
    BY <2>1, <2>2, <2>3, Zenon DEF Settles
<1> QED
  BY <1>1, <1>2, Zenon DEF PeerInv, AskedOK, ResetOK, ResponseMatches

\* A call is made.
LEMMA MakeKeeps ==
  ASSUME HalvesInv, PeerInv, MakeCall
  PROVE  PeerInv'
<1>1. PICK n : n = made + 1
  OBVIOUS
<1>2. NextSeq
  BY Zenon DEF MakeCall, RequestSent, RequestAborts, RequestDropped, RequestRefused
<1>3. /\ n \in Calls /\ made' = n /\ made \in Nat /\ n \in Nat /\ ~(n <= made)
      /\ \A k \in 1..made : k \in 1..n /\ k \in Calls /\ k # n
  <2>1. made \in 0..MaxCalls
    BY DEF HalvesInv, IInv, TypeOK
  <2> QED
    BY <1>1, <1>2, <2>1, MaxCallsAssumption DEF NextSeq, Calls
<1>4. outcome \in [Calls -> Outcomes] /\ outcome[n] = "none"
  BY <1>2, <1>3 DEF HalvesInv, IInv, TypeOK, Good, FutureOK, NextSeq, Sane
<1>5. UNCHANGED <<sent, dispatched, alive, answers>>
  BY Zenon DEF MakeCall, decoderVars, RequestSent, RequestAborts, RequestDropped, RequestRefused
<1>6. /\ \A k \in Calls : k # n => outcome'[k] = outcome[k]
      /\ outcome'[n] \in {"none", "pending", "dropped", "CONNECTION_RESET"}
      /\ outcome'[n] = "CONNECTION_RESET" => ~alive
      /\ peerCalls' \subseteq peerCalls \cup {n}
      /\ n \in peerCalls' => n \in peerCalls \/ outcome'[n] = "pending"
  <2>1. CASE RequestSent /\ peerCalls' = peerCalls \cup (IF peerOpen THEN {made + 1} ELSE {})
    BY <1>1, <1>3, <1>4, <2>1 DEF RequestSent
  <2>2. CASE RequestAborts /\ UNCHANGED peerCalls
    BY <1>4, <2>2 DEF RequestAborts
  <2>3. CASE RequestDropped /\ UNCHANGED peerCalls
    BY <1>1, <1>3, <1>4, <2>3 DEF RequestDropped
  <2>4. CASE RequestRefused /\ UNCHANGED peerCalls
    BY <1>1, <1>3, <1>4, <2>4 DEF RequestRefused
  <2> QED
    BY <2>1, <2>2, <2>3, <2>4 DEF MakeCall
<1>7. ~Asked(n)
  BY <1>3, Zenon DEF PeerInv, AskedOK
<1>8. AnswersOK' /\ OneAnswer'
  <2>1. \A k \in 1..made : k \in 1..made'
    BY <1>3, Zenon
  <2> QED
    BY <2>1, <1>5 DEF PeerInv, AnswersOK, OneAnswer
<1>9. GotOK'
  <2> SUFFICES ASSUME NEW i \in 1..Len(dispatched), sent[i].kind = "response"
               PROVE  outcome'[sent[i].call] \in {sent[i].code, "TIMEOUT"}
    BY <1>5 DEF GotOK
  <2>1. i \in 1..Len(sent)
    BY LenProperties DEF HalvesInv, DInv, DTypes
  <2>2. sent[i].call \in 1..made
    BY <2>1, Zenon DEF PeerInv, AnswersOK
  <2>3. sent[i].call \in Calls /\ sent[i].call # n
    BY <2>2, <1>3, Zenon
  <2> QED
    BY <2>3, <1>6 DEF PeerInv, GotOK
<1>10. ASSUME NEW k \in Calls
       PROVE  /\ Asked(k)' => k <= made' /\ outcome'[k] \in Codes \cup {"pending"}
              /\ k \in peerCalls' => answers'[k] = "none"
              /\ outcome'[k] = "CONNECTION_RESET" => ~alive'
              /\ outcome'[k] \in PeerCodes => answers'[k] = outcome'[k]
  <2>1. CASE k = n
    <3>1. n \notin peerCalls /\ answers[n] = "none"
      BY <1>7 DEF Asked
    <3> QED
      <4>1. n <= made' /\ answers'[n] = "none" /\ (Asked(n)' => n \in peerCalls')
        BY <3>1, <1>3, <1>5 DEF Asked
      <4>2. outcome'[n] \notin PeerCodes /\ (n \in peerCalls' => outcome'[n] = "pending")
        BY <3>1, <1>6 DEF PeerCodes
      <4> QED
        BY <2>1, <4>1, <4>2, <1>5, <1>6, Zenon
  <2>2. CASE k # n
    <3>1. outcome'[k] = outcome[k] /\ (k \in peerCalls' => k \in peerCalls)
          /\ (Asked(k)' => Asked(k)) /\ (k <= made => k <= made')
      BY <2>2, <1>3, <1>5, <1>6 DEF Asked, Calls
    <3> QED
      BY <3>1, <1>5, Zenon DEF PeerInv, AskedOK, ResetOK, ResponseMatches
  <2> QED
    BY <2>1, <2>2
<1> QED
  BY <1>5, <1>8, <1>9, <1>10, Zenon DEF PeerInv, AskedOK, ResetOK, ResponseMatches

\* The peer writes a message: what was written before stays.
LEMMA WriteKeeps ==
  ASSUME HalvesInv, NEW f, sent' = Append(sent, f), NEW L \in Nat, L = Len(sent), f \in Written
  PROVE  /\ Len(sent') = L + 1 /\ sent'[L + 1] = f
         /\ \A i \in 1..L : sent'[i] = sent[i]
         /\ \A i \in 1..(L + 1) : i \in 1..L \/ i = L + 1
         /\ \A i \in 1..Len(dispatched) : i \in 1..L
<1>1. sent \in Seq(Written) /\ Len(dispatched) <= L /\ Len(dispatched) \in Nat
  BY LenProperties DEF HalvesInv, DInv, DTypes
<1> QED
  BY <1>1, AppendProperties

\* A request of the peer is no answer.
LEMMA AsksKeeps ==
  ASSUME HalvesInv, PeerInv, PeerAsks
  PROVE  PeerInv'
<1>1. PICK L \in Nat : L = Len(sent)
  BY LenProperties DEF HalvesInv, DInv, DTypes
<1>2. sent' = Append(sent, PeerRequest)
      /\ UNCHANGED <<dispatched, outcome, made, alive, peerCalls, answers>>
  BY DEF PeerAsks, PeerSend, delegateVars, peerVars
<1>3. /\ Len(sent') = L + 1 /\ sent'[L + 1] = PeerRequest
      /\ \A i \in 1..L : sent'[i] = sent[i]
      /\ \A i \in 1..(L + 1) : i \in 1..L \/ i = L + 1
      /\ \A i \in 1..Len(dispatched) : i \in 1..L
  BY <1>1, <1>2, WrittenFacts, WriteKeeps, Zenon
<1>4. PeerRequest.kind # "response"
  BY DEF PeerRequest
<1>5. ASSUME NEW i \in 1..Len(sent'), sent'[i].kind = "response"
      PROVE  i \in 1..L /\ sent'[i] = sent[i]
  BY <1>3, <1>4, <1>5, Zenon
<1>6. AnswersOK' /\ OneAnswer'
  <2>1. AnswersOK'
    BY <1>1, <1>2, <1>5 DEF PeerInv, AnswersOK
  <2>2. OneAnswer'
    BY <1>1, <1>5 DEF PeerInv, OneAnswer
  <2> QED
    BY <2>1, <2>2
<1>7. GotOK'
  BY <1>2, <1>3, Zenon DEF PeerInv, GotOK
<1> QED
  BY <1>2, <1>6, <1>7 DEF PeerInv, AskedOK, Asked, ResetOK, ResponseMatches

\* The peer answers a call that it was asked, and never answered.
LEMMA AnswerKeeps ==
  ASSUME HalvesInv, PeerInv, MaxCalls <= SeqMod,
         NEW k \in Calls, NEW code \in PeerCodes, NEW len \in 0..1, PeerAnswers(k, code, len)
  PROVE  PeerInv'
<1>1. PICK L \in Nat : L = Len(sent)
  BY LenProperties DEF HalvesInv, DInv, DTypes
<1>2. PICK f : f = Response(k, IdOf(k), code, len)
  OBVIOUS
<1>3. f.kind = "response" /\ f.call = k /\ f.code = code /\ f.id = k - 1
  <2>1. IdOf(k) = k - 1
    BY MaxCallsAssumption, SeqModAssumption DEF IdOf, Calls
  <2> QED
    BY <1>2, <2>1 DEF Response
<1>4. /\ sent' = Append(sent, f) /\ k \in peerCalls
      /\ answers' = [answers EXCEPT ![k] = code] /\ peerCalls' = peerCalls \ {k}
      /\ UNCHANGED <<dispatched, outcome, made, alive>>
  BY <1>2 DEF PeerAnswers, PeerSend, delegateVars
<1>5. /\ Len(sent') = L + 1 /\ sent'[L + 1] = f
      /\ \A i \in 1..L : sent'[i] = sent[i]
      /\ \A i \in 1..(L + 1) : i \in 1..L \/ i = L + 1
      /\ \A i \in 1..Len(dispatched) : i \in 1..L
  <2>1. f \in Written
    BY <1>2, WrittenFacts
  <2> QED
    BY <1>1, <1>4, <2>1, WriteKeeps, Zenon
<1>6. answers \in [Calls -> PeerCodes \cup {"none"}]
  BY DEF PeerInv
<1>7. /\ answers' \in [Calls -> PeerCodes \cup {"none"}] /\ answers'[k] = code
      /\ \A j \in Calls : j # k => answers'[j] = answers[j]
  BY <1>4, <1>6
<1>8. answers[k] = "none" /\ code # "none" /\ k \in 1..made /\ outcome[k] \in Codes \cup {"pending"}
  <2>1. Asked(k)
    BY <1>4 DEF Asked
  <2>2. answers[k] = "none" /\ k <= made /\ outcome[k] \in Codes \cup {"pending"}
    BY <1>4, <2>1, Zenon DEF PeerInv, AskedOK
  <2>3. k \in 1..made
    BY <2>2 DEF HalvesInv, IInv, TypeOK, Calls
  <2> QED
    BY <2>2, <2>3 DEF PeerCodes
<1>9. ASSUME NEW i \in 1..L, sent[i].kind = "response"
      PROVE  /\ sent[i].call # k /\ sent[i].call \in 1..made /\ sent[i].id = sent[i].call - 1
             /\ answers'[sent[i].call] = sent[i].code
  <2>1. sent[i] \in Written
    BY <1>1, ElementOfSeq DEF HalvesInv, DInv, DTypes
  <2>2. sent[i].code \in PeerCodes /\ sent[i].call \in Calls
    BY <1>9, <2>1, WrittenFacts, Zenon
  <2>3. /\ sent[i].call \in 1..made /\ sent[i].id = sent[i].call - 1
        /\ answers[sent[i].call] = sent[i].code
    BY <1>1, <1>9, Zenon DEF PeerInv, AnswersOK
  <2>4. sent[i].code # "none"
    BY <2>2 DEF PeerCodes
  <2>5. sent[i].call # k
    BY <1>8, <2>3, <2>4, Zenon
  <2> QED
    BY <1>7, <2>2, <2>3, <2>5, Zenon
<1>10. AnswersOK'
  <2> SUFFICES ASSUME NEW i \in 1..(L + 1), sent'[i].kind = "response"
               PROVE  /\ sent'[i].call \in 1..made
                      /\ sent'[i].id = sent'[i].call - 1
                      /\ answers'[sent'[i].call] = sent'[i].code
    BY <1>4, <1>5 DEF AnswersOK
  <2>1. CASE i \in 1..L
    BY <1>5, <1>9, <2>1, Zenon
  <2>2. CASE i = L + 1
    BY <1>3, <1>5, <1>7, <1>8, <2>2, Zenon
  <2> QED
    BY <1>5, <2>1, <2>2, Zenon
<1>11. OneAnswer'
  <2> SUFFICES ASSUME NEW i \in 1..(L + 1), NEW j \in 1..(L + 1), sent'[i].kind = "response",
                      sent'[j].kind = "response", sent'[i].call = sent'[j].call
               PROVE  i = j
    BY <1>5 DEF OneAnswer
  <2>1. CASE i \in 1..L /\ j \in 1..L
    BY <1>1, <1>5, <2>1, Zenon DEF PeerInv, OneAnswer
  <2>2. CASE i = L + 1 /\ j \in 1..L
    BY <1>3, <1>5, <1>9, <2>2, Zenon
  <2>3. CASE i \in 1..L /\ j = L + 1
    BY <1>3, <1>5, <1>9, <2>3, Zenon
  <2> QED
    BY <1>5, <2>1, <2>2, <2>3, Zenon
<1>12. GotOK'
  BY <1>4, <1>5, Zenon DEF PeerInv, GotOK
<1>13. ASSUME NEW j \in Calls
       PROVE  /\ Asked(j)' => j <= made' /\ outcome'[j] \in Codes \cup {"pending"}
              /\ j \in peerCalls' => answers'[j] = "none"
              /\ outcome'[j] = "CONNECTION_RESET" => ~alive'
              /\ outcome'[j] \in PeerCodes => answers'[j] = outcome'[j]
  <2>1. CASE j = k
    <3>1. outcome[k] \notin PeerCodes
      BY <1>8 DEF PeerInv, ResponseMatches, PeerCodes
    <3>2. k <= made /\ k \notin peerCalls' /\ (outcome[k] = "CONNECTION_RESET" => ~alive)
      BY <1>4, <1>8 DEF PeerInv, ResetOK
    <3> QED
      BY <1>4, <1>8, <2>1, <3>1, <3>2, Zenon
  <2>2. CASE j # k
    <3>1. (Asked(j)' => Asked(j)) /\ answers'[j] = answers[j] /\ (j \in peerCalls' => j \in peerCalls)
      BY <1>4, <1>7, <2>2 DEF Asked
    <3> QED
      BY <1>4, <3>1, Zenon DEF PeerInv, AskedOK, ResetOK, ResponseMatches
  <2> QED
    BY <2>1, <2>2
<1> QED
  BY <1>7, <1>10, <1>11, <1>12, <1>13, Zenon DEF PeerInv, AskedOK, ResetOK, ResponseMatches

\* An answer is dispatched: it is what its call gets, unless a timer was first.
LEMMA DeliverKeeps ==
  ASSUME HalvesInv, PeerInv, MaxCalls <= SeqMod, Sane, Decode = "Ok",
         dispatched' = Append(dispatched, Header), Deliver(sent[Header]),
         UNCHANGED <<sent, peerCalls, answers>>
  PROVE  PeerInv'
<1>1. PICK D \in Nat : D = Len(dispatched)
  BY LenProperties DEF HalvesInv, DInv, DTypes
<1>2. PICK f : f = sent[D + 1]
  OBVIOUS
<1>3. Header = D + 1 /\ D + 1 \in 1..Len(sent) /\ f \in Written
  BY <1>1, <1>2, NextMessage, Zenon DEF HalvesInv
<1>4. Len(dispatched') = D + 1 /\ (\A i \in 1..(D + 1) : i \in 1..D \/ i = D + 1)
      /\ \A i \in 1..D : i # D + 1 /\ i \in 1..Len(sent)
  BY <1>1, <1>3, LenProperties, AppendProperties DEF HalvesInv, DInv, DTypes
<1>5. CASE f.kind = "request" /\ UNCHANGED delegateVars
  <2>1. GotOK'
    BY <1>1, <1>2, <1>4, <1>5 DEF PeerInv, GotOK, delegateVars
  <2>2. (\A k \in Calls : Settles(k)) /\ made' = made /\ (~alive => ~alive')
    BY <1>5, Zenon DEF Settles, delegateVars
  <2> QED
    BY <2>1, <2>2, SettleKeeps, Zenon
<1>6. CASE f.kind = "response" /\ OnResponse(f.id, f.code)
  <2>1. f.id \in RequestId /\ f.code \in PeerCodes /\ f.call \in Calls
    BY <1>3, <1>6, WrittenFacts, Zenon
  <2>2. f.call \in 1..made /\ f.id = f.call - 1 /\ answers[f.call] = f.code
    BY <1>2, <1>3, <1>6, Zenon DEF PeerInv, AnswersOK
  <2>3. alive /\ alive' = alive /\ made' = made
    BY <1>6 DEF OnResponse, InvokeCallback, delegateVars
  <2>4. f.id + 1 = f.call
    BY <2>1, <2>2 DEF Calls
  <2>5. \A k \in Calls : k # f.call => outcome'[k] = outcome[k]
    <3>1. CASE InvokeCallback(f.id, f.code)
      <4>1. callbacks[f.id] = f.call
        BY <2>1, <2>4, <3>1, HeldCall DEF InvokeCallback
      <4>2. outcome \in [Calls -> Outcomes]
        BY DEF HalvesInv, IInv, TypeOK
      <4> QED
        BY <3>1, <4>1, <4>2 DEF InvokeCallback
    <3> QED
      BY <3>1, <1>6 DEF OnResponse, delegateVars
  <2>6. outcome'[f.call] \in {f.code, "TIMEOUT"}
        /\ (outcome'[f.call] = outcome[f.call] \/ outcome'[f.call] = f.code)
    <3>1. CASE InvokeCallback(f.id, f.code)
      <4>1. callbacks[f.id] = f.call
        BY <2>1, <2>4, <3>1, HeldCall DEF InvokeCallback
      <4>2. outcome \in [Calls -> Outcomes]
        BY DEF HalvesInv, IInv, TypeOK
      <4> QED
        BY <2>1, <3>1, <4>1, <4>2 DEF InvokeCallback
    <3>2. CASE callbacks[f.id] = NoCall /\ UNCHANGED delegateVars
      <4>1. Asked(f.call)
        BY <2>1, <2>2 DEF Asked, PeerCodes
      <4>2. outcome[f.call] \in Codes \cup {"pending"}
        BY <2>1, <4>1, Zenon DEF PeerInv, AskedOK
      <4>3. outcome[f.call] # "pending"
        <5> SUFFICES ASSUME outcome[f.call] = "pending" PROVE FALSE
          OBVIOUS
        <5>1. NoOrphan
          BY DEF HalvesInv, IInv, Good, Sane
        <5>2. PICK id \in timers : callbacks[id] = f.call
          BY <2>2, <5>1 DEF NoOrphan, Codes, PeerCodes
        <5>3. id \in RequestId /\ f.call # NoCall
          BY <2>1 DEF HalvesInv, IInv, TypeOK, Calls, NoCall
        <5>4. f.call = id + 1
          BY <5>2, <5>3, HeldCall, Zenon
        <5>5. id = f.id
          BY <2>1, <2>4, <5>3, <5>4 DEF RequestId
        <5> QED
          BY <3>2, <5>2, <5>3, <5>5, Zenon
      <4>4. outcome[f.call] # "CONNECTION_RESET"
        BY <2>1, <2>3, Zenon DEF PeerInv, ResetOK
      <4>5. outcome[f.call] \in PeerCodes => outcome[f.call] = f.code
        BY <2>1, <2>2, Zenon DEF PeerInv, ResponseMatches
      <4> QED
        BY <3>2, <4>2, <4>3, <4>4, <4>5 DEF Codes, delegateVars
    <3> QED
      BY <3>1, <3>2, <1>6 DEF OnResponse
  <2>7. GotOK'
    <3> SUFFICES ASSUME NEW i \in 1..(D + 1), sent[i].kind = "response"
                 PROVE  outcome'[sent[i].call] \in {sent[i].code, "TIMEOUT"}
      BY <1>4 DEF GotOK
    <3>1. CASE i = D + 1
      BY <1>2, <2>6, <3>1, Zenon
    <3>2. CASE i \in 1..D
      <4>1. i # D + 1 /\ i \in 1..Len(sent)
        BY <1>4, <3>2
      <4>2. sent[i].call # f.call
        BY <1>2, <1>3, <1>6, <4>1, Zenon DEF PeerInv, OneAnswer
      <4>3. sent[i].call \in Calls
        <5>1. sent[i] \in Written
          BY <4>1, ElementOfSeq DEF HalvesInv, DInv, DTypes
        <5> QED
          BY <5>1, WrittenFacts, Zenon
      <4>4. outcome[sent[i].call] \in {sent[i].code, "TIMEOUT"}
        BY <1>1, <3>2, Zenon DEF PeerInv, GotOK
      <4> QED
        BY <2>5, <4>2, <4>3, <4>4, Zenon
    <3> QED
      BY <1>4, <3>1, <3>2, Zenon
  <2>8. ASSUME NEW k \in Calls PROVE Settles(k)
    <3>1. CASE k # f.call
      BY <2>5, <3>1, Zenon DEF Settles
    <3>2. CASE k = f.call
      <4>1. f.code \in Codes /\ f.code # "CONNECTION_RESET"
        BY <2>1 DEF Codes, PeerCodes
      <4> QED
        BY <2>2, <2>6, <3>2, <4>1, Zenon DEF Settles
    <3> QED
      BY <3>1, <3>2
  <2> QED
    BY <2>3, <2>7, <2>8, SettleKeeps, Zenon
<1> QED
  BY <1>2, <1>3, <1>5, <1>6, Zenon DEF Deliver

\* A timer answers its call.
LEMMA TimeoutKeeps ==
  ASSUME HalvesInv, PeerInv, Timeout
  PROVE  PeerInv'
<1>1. PICK id \in RequestId : OnTimeout(id)
  BY DEF Timeout
<1>2. outcome \in [Calls -> Outcomes] /\ outcome' = [outcome EXCEPT ![callbacks[id]] = "TIMEOUT"]
  BY <1>1 DEF OnTimeout, InvokeCallback, HalvesInv, IInv, TypeOK
<1>3. \A k \in Calls : outcome'[k] = outcome[k] \/ outcome'[k] = "TIMEOUT"
  BY <1>2
<1>4. UNCHANGED <<sent, dispatched, peerCalls, answers, made, alive>>
  BY <1>1 DEF Timeout, decoderVars, peerVars, OnTimeout, InvokeCallback
<1>5. \A k \in Calls : Settles(k)
  BY <1>3 DEF Settles, Codes, PeerCodes
<1>6. GotOK'
  <2> SUFFICES ASSUME NEW i \in 1..Len(dispatched), sent[i].kind = "response"
               PROVE  outcome'[sent[i].call] \in {sent[i].code, "TIMEOUT"}
    BY <1>4 DEF GotOK
  <2>1. sent[i] \in Written
    BY LenProperties, ElementOfSeq DEF HalvesInv, DInv, DTypes
  <2>2. sent[i].call \in Calls
    BY <2>1, WrittenFacts, Zenon
  <2> QED
    BY <1>3, <2>2 DEF PeerInv, GotOK
<1> QED
  BY <1>4, <1>5, <1>6, SettleKeeps, Zenon

\* The destructor resets the calls that were not answered.
LEMMA DestroyKeeps ==
  ASSUME HalvesInv, PeerInv, DestroyDelegate
  PROVE  PeerInv'
<1>1. Destroy /\ UNCHANGED <<sent, dispatched, peerCalls, answers, made>> /\ ~alive'
  BY DEF DestroyDelegate, Destroy, decoderVars, peerVars
<1>2. ASSUME NEW k \in Calls
      PROVE  outcome'[k] = outcome[k] \/ (outcome[k] = "pending" /\ outcome'[k] = "CONNECTION_RESET")
  <2>1. ASSUME NEW id \in Registered, callbacks[id] = k PROVE outcome[k] = "pending"
    BY <1>1, <2>1 DEF HalvesInv, IInv, Good, EntriesOK, Registered, Destroy, Sane
  <2> QED
    BY <1>1, <2>1 DEF Destroy
<1>3. \A k \in Calls : Settles(k)
  BY <1>1, <1>2 DEF Settles, Codes, PeerCodes
<1>4. GotOK'
  <2> SUFFICES ASSUME NEW i \in 1..Len(dispatched), sent[i].kind = "response"
               PROVE  outcome'[sent[i].call] \in {sent[i].code, "TIMEOUT"}
    BY <1>1 DEF GotOK
  <2>1. sent[i] \in Written
    BY LenProperties, ElementOfSeq DEF HalvesInv, DInv, DTypes
  <2>2. sent[i].call \in Calls /\ sent[i].code \in PeerCodes
    BY <2>1, WrittenFacts, Zenon
  <2>3. outcome[sent[i].call] \in {sent[i].code, "TIMEOUT"}
    BY Zenon DEF PeerInv, GotOK
  <2>4. outcome[sent[i].call] # "pending"
    BY <2>2, <2>3 DEF PeerCodes
  <2> QED
    BY <1>2, <2>2, <2>3, <2>4, Zenon
<1> QED
  BY <1>1, <1>3, <1>4, SettleKeeps, Zenon

\* Every step of a connection keeps the answers in their places, while ids last.
LEMMA NextPeerInv ==
  ASSUME MaxCalls <= SeqMod, HalvesInv, PeerInv, [ConnectionNext]_connectionVars
  PROVE  PeerInv'
<1>1. CASE MakeCall
  BY <1>1, MakeKeeps
<1>2. ASSUME NEW k \in Calls, NEW code \in PeerCodes, NEW len \in 0..1, PeerAnswers(k, code, len)
      PROVE  PeerInv'
  BY <1>2, AnswerKeeps
<1>3. CASE PeerAsks
  BY <1>3, AsksKeeps
<1>4. CASE Timeout
  BY <1>4, TimeoutKeeps
<1>5. CASE DestroyDelegate
  BY <1>5, DestroyKeeps
<1>6. CASE DispatchMessage
  BY <1>6, DeliverKeeps, Zenon DEF DispatchMessage, Returned, ReadDispatch, Dispatch
<1>7. CASE EndOfFile
  <2>1. CASE Decode = "Ok"
    <3>1. Deliver(sent[Header]) /\ dispatched' = Append(dispatched, Header)
      BY <1>7, <2>1 DEF EndOfFile, OnEoF, Dispatch
    <3>2. Sane /\ UNCHANGED <<sent, peerCalls, answers>>
      BY <1>7 DEF EndOfFile, OnEoF, Polling
    <3> QED
      BY <2>1, <3>1, <3>2, DeliverKeeps
  <2>2. CASE Decode # "Ok"
    BY <1>7, <2>2, PeerQuiet DEF EndOfFile, OnEoF, Disconnect, delegateVars
  <2> QED
    BY <2>1, <2>2
<1>8. CASE PeerEnds \/ Receive \/ StopReading \/ Reply
  <2>1. UNCHANGED <<sent, dispatched, delegateVars, peerCalls, answers>>
    BY <1>8 DEF PeerEnds, PeerClose, Receive, OnFrame, OnReadable, OnClosed, StopReading, ReadDone,
                Reply, decoderVars, peerVars
  <2> QED
    BY <2>1, PeerQuiet DEF delegateVars
<1>9. CASE ClosureReturns \/ Finish \/ ResetSocket
  <2>1. UNCHANGED <<sent, dispatched, outcome, made, alive, peerCalls, answers>>
    BY <1>9 DEF ClosureReturns, EraseCallback, Finish, OnFinished, ResetSocket, Dispose, Disconnect,
                decoderVars, delegateVars, peerVars
  <2> QED
    BY <2>1, PeerQuiet
<1>10. CASE UNCHANGED connectionVars
  BY <1>10, PeerQuiet DEF connectionVars, delegateVars, decoderVars
<1> QED
  BY <1>1, <1>2, <1>3, <1>4, <1>5, <1>6, <1>7, <1>8, <1>9, <1>10, Zenon DEF ConnectionNext

\* As long as no id is used twice, however answers, timers, closures and the end of
\* the peer come together: no call gets the answer to another one, and an answer
\* that is dispatched is what its call gets unless the timer came first
\* (AnswersMatch: DelegateImpl::Request, OnResponse, SocketHolder::OnReadable).
THEOREM AnswersDoMatch ==
  ASSUME MaxCalls <= SeqMod
  PROVE  ConnectionSpec => []AnswersMatch
<1>1. ConnectionInit => PeerInv
  <2> SUFFICES ASSUME ConnectionInit PROVE PeerInv
    OBVIOUS
  <2>1. /\ sent = <<>> /\ dispatched = <<>> /\ peerCalls = {} /\ alive
        /\ answers = [k \in Calls |-> "none"] /\ outcome = [k \in Calls |-> "none"]
    BY DEF ConnectionInit, DelegateInit, DecoderInit
  <2>2. 1..Len(<<>>) = {}
    BY EmptySeq
  <2> QED
    BY <2>1, <2>2 DEF PeerInv, AnswersOK, OneAnswer, AskedOK, Asked, ResetOK, GotOK,
                      ResponseMatches, PeerCodes
<1>2. HalvesInv /\ PeerInv /\ [ConnectionNext]_connectionVars => PeerInv'
  BY NextPeerInv
<1> QED
  BY <1>1, <1>2, HalvesInvariance, PeerInvAnswers, PTL DEF ConnectionSpec
=============================================================================
