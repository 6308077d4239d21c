--------------------------- MODULE ResourceProofs ---------------------------
(***************************************************************************)
(* What native code and JavaScript hold of each other: contexts and their  *)
(* scripts, the transfers of libcurl, and the timers and immediates of     *)
(* scripts with their handles.                                             *)
(***************************************************************************)
EXTENDS Contexts, CurlTransfers, JsTimers, StackFacts

-----------------------------------------------------------------------------
(* Contexts *)

\* ContextTied is not inductive: that nothing leads to a collected context
\* stays so, since only a living context hands out its objects, and the
\* process dies of an empty context_ only after the collection.
TInv == /\ context \in {"none", "alive", "collected"}
        /\ context = "alive" => wrapper = "own"
        /\ wrapper = "none" => context = "none"
        /\ context = "collected" => ~ContextReachable
        /\ crash = "empty context" => context = "collected"

\* The collector, the one step that frees a wrapper.
LEMMA CollectKeeps == TInv /\ OnGCCollect => TInv'
<1> SUFFICES ASSUME TInv, OnGCCollect PROVE TInv'
  OBVIOUS
<1> USE DEF TInv, OnGCCollect, ContextReachable, WrapperReachable
<1>1. CASE context = "alive" /\ ContextReachable
  BY <1>1
<1>2. CASE context = "alive" /\ ~ContextReachable
  BY <1>2
<1>3. CASE context # "alive"
  BY <1>3
<1> QED
  BY <1>1, <1>2, <1>3

\* Every other step.
LEMMA NextTInv == TInv /\ [ContextNext]_contextVars => TInv'
<1> SUFFICES ASSUME TInv, [ContextNext]_contextVars PROVE TInv'
  OBVIOUS
<1> USE DEF TInv, ContextReachable
<1>1. CASE WrapDefault \/ CreateV8Context
  BY <1>1 DEF WrapDefault, CreateV8Context
<1>2. CASE OnGCCollect
  BY <1>2, CollectKeeps
<1>3. ASSUME NEW x, LetGo(x) PROVE TInv'
  BY <1>3 DEF LetGo
<1>4. CASE GetGlobalThis
  BY <1>4 DEF GetGlobalThis
<1>5. CASE NewScript \/ CreateCachedData \/ ExecuteCollected \/ SandboxChange
  BY <1>5 DEF NewScript, CreateCachedData, ExecuteCollected, SandboxChange
<1>6. ASSUME NEW v, NEW s, NEW c, NEW f, Store(v, s, c, f) PROVE TInv'
  BY <1>6 DEF Store, Running
<1>7. ASSUME NEW d, Define(d) PROVE TInv'
  BY <1>7 DEF Define
<1>8. CASE Delete
  BY <1>8 DEF Delete
<1>9. CASE UNCHANGED contextVars
  BY <1>9 DEF contextVars
<1> QED
  BY <1>1, <1>2, <1>3, <1>4, <1>5, <1>6, <1>7, <1>8, <1>9 DEF ContextNext

\* While a context lives its interceptors find their ContextWrap, and the
\* process dies of an empty context_ only when the program has let go of the
\* sandbox and of the context's objects (ContextTied of context.cc).
THEOREM LivesTied == ContextSpec => []ContextTied
<1>1. ContextInit => TInv
  BY DEF ContextInit, TInv, ContextReachable
<1>2. TInv => ContextTied
  BY DEF TInv, ContextTied
<1> QED
  BY <1>1, <1>2, NextTInv, PTL DEF ContextSpec

-----------------------------------------------------------------------------
Frozen(p) == p.has /\ p.ro /\ ~p.conf

\* V8 changes nothing of a frozen property.
LEMMA OrdinaryFrozen ==
  ASSUME NEW p, Frozen(p)
  PROVE  /\ \A v : OrdinarySet(p, v) = p
         /\ \A d : OrdinaryDefine(p, d) = p
         /\ OrdinaryDelete(p) = p
BY DEF Frozen, OrdinarySet, OrdinaryDefine, OrdinaryDelete

\* A step leaves a frozen property of the sandbox as it is.
LEMMA FrozenStep == Frozen(sandbox) /\ [ContextNext]_contextVars => sandbox' = sandbox
<1> SUFFICES ASSUME Frozen(sandbox), [ContextNext]_contextVars PROVE sandbox' = sandbox
  OBVIOUS
<1>1. ASSUME NEW v, NEW s, NEW c, NEW f, Store(v, s, c, f) PROVE sandbox' = sandbox
  BY <1>1, OrdinaryFrozen DEF Store
<1>2. ASSUME NEW d, Define(d) PROVE sandbox' = sandbox
  BY <1>2, OrdinaryFrozen DEF Define, GlobalPropertyDefiner
<1>3. CASE Delete
  BY <1>3, OrdinaryFrozen DEF Delete
<1>4. CASE SandboxChange
  BY <1>4, OrdinaryFrozen DEF SandboxChange
<1>5. CASE WrapDefault \/ CreateV8Context \/ OnGCCollect \/ (\E x : LetGo(x)) \/ GetGlobalThis
             \/ NewScript \/ CreateCachedData \/ ExecuteCollected \/ UNCHANGED contextVars
  BY <1>5 DEF WrapDefault, CreateV8Context, OnGCCollect, LetGo, GetGlobalThis, NewScript,
     CreateCachedData, ExecuteCollected, contextVars
<1> QED
  BY <1>1, <1>2, <1>3, <1>4, <1>5 DEF ContextNext

\* What the context's code reads of a frozen property never changes, whatever
\* it stores, defines or deletes (FrozenKept, the interceptors of context.cc).
THEOREM FrozenStays == ContextSpec => FrozenKept
<1>1. [ContextNext]_contextVars =>
        [sandbox.has /\ sandbox.ro /\ ~sandbox.conf =>
           GlobalPropertyGetter(sandbox, global)' = GlobalPropertyGetter(sandbox, global)]_contextVars
  BY FrozenStep DEF Frozen, GlobalPropertyGetter
<1> QED
  BY <1>1, PTL DEF ContextSpec, FrozenKept

-----------------------------------------------------------------------------
(* Transfers, for any set of them and any bounds on what they carry *)

Drains == {"none", "reading", "timer", "over"}
Records == [state : {"new", "running", "ended", "removed", "refused"},
            code : {"none", "OK", "error"}, weak : BOOLEAN, collected : BOOLEAN,
            handle : BOOLEAN, header : {"none", "wait", "resolved", "rejected"},
            gotHeader : BOOLEAN, response : {"none", "readable", "closed", "errored"},
            cancelled : BOOLEAN, recursed : BOOLEAN, writes : Nat,
            chunks : Nat, buffered : Nat, bodyDone : BOOLEAN, bodyPaused : BOOLEAN,
            paused : BOOLEAN, sent : BOOLEAN, drain : Drains]

Excused(r) == r.cancelled \/ r.recursed

\* One transfer.  A handle that libcurl knows is held strongly, so that the
\* collector has not taken it; and while libcurl knows it, its response leaves
\* "readable" only by a cancellation or by an abort that could not remove it.
TransferOK(r) ==
  /\ r.state \in {"running", "ended"} => /\ ~r.weak /\ ~r.collected
                                         /\ r.response # "readable" => Excused(r)
  /\ r.state \notin {"running", "ended"} => r.weak
  /\ r.state = "new" => ~r.collected

HInv ==
  /\ easy \in [Transfers -> Records]
  /\ \A t \in Transfers : TransferOK(easy[t])
  /\ cb = NoCb \/ cb.t \in Transfers
  /\ ThrowExplained

\* A step of one transfer keeps the invariant if it keeps that transfer's part
\* and its excuse, and throws only with one.
LEMMA OneTransfer ==
  ASSUME HInv, NEW t \in Transfers, NEW r \in Records, Set(t, r), TransferOK(r),
         Excused(easy[t]) => Excused(r),
         threw' => threw \/ Excused(r),
         cb' = cb \/ cb' = NoCb \/ cb'.t = t
  PROVE  HInv'
<1> USE DEF HInv, Set
<1>1. easy' \in [Transfers -> Records]
  OBVIOUS
<1>2. /\ easy'[t] = r
      /\ \A u \in Transfers \ {t} : easy'[u] = easy[u]
  OBVIOUS
<1>3. \A u \in Transfers : TransferOK(easy'[u])
  BY <1>2
<1>4. ThrowExplained'
  BY <1>2 DEF ThrowExplained, Excused
<1>5. (cb = NoCb \/ cb.t \in Transfers)'
  BY DEF NoCb
<1> QED
  BY <1>1, <1>3, <1>4, <1>5

\* The fields of the request body are not what the invariant is about.
LEMMA BodyFields ==
  ASSUME NEW r \in Records, NEW d \in Drains, NEW p \in BOOLEAN, NEW q \in BOOLEAN
  PROVE  /\ LET n == [r EXCEPT !.bodyDone = TRUE, !.drain = d] IN
            /\ n \in Records /\ (TransferOK(r) => TransferOK(n)) /\ (Excused(r) <=> Excused(n))
            /\ n.state = r.state /\ n.code = r.code /\ n.response = r.response
         /\ LET n == [r EXCEPT !.bodyPaused = p, !.paused = q, !.drain = d] IN
            n \in Records /\ (TransferOK(r) => TransferOK(n)) /\ (Excused(r) <=> Excused(n))
         /\ LET n == [r EXCEPT !.chunks = @ + 1, !.buffered = @ + 1, !.drain = d] IN
            n \in Records /\ (TransferOK(r) => TransferOK(n)) /\ (Excused(r) <=> Excused(n))
<1> DEFINE a == [r EXCEPT !.bodyDone = TRUE, !.drain = d]
           b == [r EXCEPT !.bodyPaused = p, !.paused = q, !.drain = d]
           c == [r EXCEPT !.chunks = @ + 1, !.buffered = @ + 1, !.drain = d]
<1> DEFINE Same(n) == /\ n.state = r.state /\ n.weak = r.weak /\ n.collected = r.collected
                      /\ n.response = r.response /\ n.code = r.code
                      /\ n.cancelled = r.cancelled /\ n.recursed = r.recursed
<1>1. a \in Records /\ b \in Records
  BY Zenon DEF Records
<1>2. c \in Records
  <2>1. r.chunks \in Nat /\ r.buffered \in Nat
    BY DEF Records
  <2> DEFINE k == r.chunks + 1
             l == r.buffered + 1
  <2>2. k \in Nat /\ l \in Nat
    BY <2>1
  <2>3. c = [r EXCEPT !.chunks = k, !.buffered = l, !.drain = d]
    OBVIOUS
  <2> HIDE DEF k, l
  <2>4. [r EXCEPT !.chunks = k, !.buffered = l, !.drain = d] \in Records
    BY <2>2, Zenon DEF Records
  <2> QED
    BY <2>3, <2>4
<1>3. Same(a) /\ Same(b) /\ Same(c)
  BY DEF Records
<1> HIDE DEF a, b, c
<1>4. \A n : Same(n) => (TransferOK(r) => TransferOK(n)) /\ (Excused(r) <=> Excused(n))
  BY DEF TransferOK, Excused
<1>5. (TransferOK(r) => TransferOK(a)) /\ (Excused(r) <=> Excused(a))
  BY <1>3, <1>4
<1>6. (TransferOK(r) => TransferOK(b)) /\ (Excused(r) <=> Excused(b))
  BY <1>3, <1>4
<1>7. (TransferOK(r) => TransferOK(c)) /\ (Excused(r) <=> Excused(c))
  BY <1>3, <1>4
<1> USE DEF a, b, c
<1> QED
  BY <1>1, <1>2, <1>3, <1>5, <1>6, <1>7

\* What the steps make of one transfer.
LEMMA Requested ==
  ASSUME NEW r \in Records, TransferOK(r), r.state = "new", NEW d \in Drains
  PROVE  LET n == AddHandle([r EXCEPT !.handle = TRUE, !.header = "wait",
                                      !.response = "readable", !.drain = d])
         IN  n \in Records /\ TransferOK(n) /\ (Excused(r) => Excused(n))
BY Zenon DEF Records, TransferOK, Excused, AddHandle

\* Cancelling the reader of the body excuses nothing.
LEMMA ReaderCancelled ==
  ASSUME NEW r \in Records
  PROVE  LET n == CancelReader(r) IN
         /\ n \in Records /\ (TransferOK(r) => TransferOK(n))
         /\ Excused(r) <=> Excused(n)
         /\ n.state = r.state /\ n.code = r.code /\ n.response = r.response
<1> DEFINE d == IF r.bodyPaused THEN "timer" ELSE "over"
           n == [r EXCEPT !.bodyDone = TRUE, !.drain = d]
<1>1. d \in Drains
  BY DEF Drains
<1>2. CancelReader(r) = IF r.drain # "reading" THEN r ELSE n
  BY DEF CancelReader
<1> HIDE DEF d
<1>3. /\ n \in Records /\ (TransferOK(r) => TransferOK(n)) /\ (Excused(r) <=> Excused(n))
      /\ n.state = r.state /\ n.code = r.code /\ n.response = r.response
  BY <1>1, BodyFields
<1> HIDE DEF n
<1> QED
  BY <1>2, <1>3

\* A handle removed from the multi holds its transfer no more.
LEMMA Removed ==
  ASSUME NEW r \in Records
  PROVE  LET n == RemoveHandle(r) IN
         n \in Records /\ TransferOK(n) /\ (Excused(r) <=> Excused(n))
BY Zenon DEF Records, Drains, TransferOK, Excused, RemoveHandle

\* #abort: the handle goes, or its removal is refused and noted.
LEMMA AbortKeeps ==
  ASSUME HInv, NEW t \in Transfers, NEW r \in Records, TransferOK(r),
         Excused(easy[t]) => Excused(r), AbortWith(t, r)
  PROVE  HInv'
<1> DEFINE e == [r EXCEPT !.response = IF @ = "readable" THEN "errored" ELSE @,
                          !.header = IF @ = "wait" THEN "rejected" ELSE @]
           f == [e EXCEPT !.recursed = TRUE]
<1>1. /\ e \in Records /\ (Excused(e) <=> Excused(r))
      /\ e.state = r.state /\ e.weak = r.weak /\ e.collected = r.collected
  BY Zenon DEF Records, Drains, Excused
<1>2. f \in Records /\ TransferOK(f) /\ Excused(f)
  <2> HIDE DEF e
  <2> QED
    BY <1>1, Zenon DEF Records, TransferOK, Excused
<1>3. CASE InCurl
  <2>1. Set(t, f) /\ cb' = cb /\ threw' = threw
    BY <1>3 DEF AbortWith
  <2> QED
    BY <1>2, <2>1, OneTransfer
<1>4. CASE ~InCurl
  <2>1. Set(t, RemoveHandle(e)) /\ cb' = cb /\ threw' = threw
    BY <1>4 DEF AbortWith
  <2> HIDE DEF e
  <2>2. RemoveHandle(e) \in Records /\ TransferOK(RemoveHandle(e))
        /\ (Excused(e) <=> Excused(RemoveHandle(e)))
    BY <1>1, Removed
  <2> QED
    BY <1>1, <2>1, <2>2, OneTransfer
<1> QED
  BY <1>3, <1>4

\* The driver's steps.
LEMMA DriverKeeps ==
  ASSUME HInv, NEW t \in Transfers,
         Fetch(t) \/ FetchRefused(t) \/ Abort(t) \/ CancelBody(t)
           \/ Drain(t) \/ DrainFails(t) \/ Unpause(t) \/ CollectEasy(t)
  PROVE  HInv'
<1> DEFINE r == easy[t]
<1>0. r \in Records /\ TransferOK(r)
  BY DEF HInv
<1>1. CASE Fetch(t)
  <2> DEFINE d == IF t \in Uploads THEN "reading" ELSE "none"
             n == AddHandle([r EXCEPT !.handle = TRUE, !.header = "wait",
                                      !.response = "readable", !.drain = d])
  <2>1. Set(t, n) /\ cb' = cb /\ threw' = threw /\ r.state = "new" /\ d \in Drains
    BY <1>1 DEF Fetch, Drains
  <2>2. n \in Records /\ TransferOK(n) /\ (Excused(r) => Excused(n))
    BY <1>0, <2>1, Requested
  <2> QED
    BY <2>1, <2>2, OneTransfer
<1>2. CASE FetchRefused(t)
  <2> DEFINE n == [r EXCEPT !.state = "refused"]
  <2>1. Set(t, n) /\ cb' = cb /\ threw' = threw /\ r.state = "new"
    BY <1>2 DEF FetchRefused
  <2>2. n \in Records /\ TransferOK(n) /\ (Excused(r) => Excused(n))
    BY <1>0, <2>1 DEF Records, Drains, TransferOK, Excused
  <2> QED
    BY <2>1, <2>2, OneTransfer
<1>3. CASE Abort(t)
  BY <1>0, <1>3, ReaderCancelled, AbortKeeps DEF Abort
<1>4. CASE CancelBody(t)
  <2> DEFINE n == [r EXCEPT !.response = "closed", !.cancelled = TRUE]
  <2>1. Set(t, n) /\ cb' = cb /\ threw' = threw
    BY <1>4 DEF CancelBody
  <2>2. n \in Records /\ TransferOK(n) /\ Excused(n)
    BY <1>0, Zenon DEF Records, Drains, TransferOK, Excused
  <2> QED
    BY <2>1, <2>2, OneTransfer
<1>5. CASE Drain(t)
  <2> DEFINE n == [r EXCEPT !.chunks = @ + 1, !.buffered = @ + 1,
                            !.drain = IF r.bodyPaused THEN "timer" ELSE "reading"]
  <2>1. cb' = cb /\ threw' = threw /\ (Set(t, n) \/ Set(t, CancelReader(r)))
    BY <1>5 DEF Drain
  <2>2. (IF r.bodyPaused THEN "timer" ELSE "reading") \in Drains
    BY DEF Drains
  <2>3. n \in Records /\ TransferOK(n) /\ (Excused(r) => Excused(n))
    BY <1>0, <2>2, BodyFields
  <2> QED
    BY <1>0, <2>1, <2>3, ReaderCancelled, OneTransfer
<1>6. CASE DrainFails(t)
  <2> DEFINE n == [r EXCEPT !.drain = "over"]
  <2>1. n \in Records /\ TransferOK(n) /\ (Excused(r) => Excused(n))
    BY <1>0 DEF Records, Drains, TransferOK, Excused
  <2> QED
    BY <1>6, <2>1, AbortKeeps DEF DrainFails
<1>7. CASE Unpause(t)
  <2> DEFINE n == [r EXCEPT !.bodyPaused = FALSE, !.paused = @ /\ ~r.handle,
                            !.drain = IF r.bodyDone THEN "over" ELSE "reading"]
  <2>1. Set(t, n) /\ cb' = cb /\ threw' = threw
    BY <1>7 DEF Unpause
  <2>2. /\ (IF r.bodyDone THEN "over" ELSE "reading") \in Drains
        /\ (r.paused /\ ~r.handle) \in BOOLEAN
    BY DEF Drains
  <2>3. n \in Records /\ TransferOK(n) /\ (Excused(r) => Excused(n))
    BY <1>0, <2>2, BodyFields
  <2> QED
    BY <2>1, <2>3, OneTransfer
<1>8. CASE CollectEasy(t)
  <2> DEFINE n == [r EXCEPT !.collected = TRUE]
  <2>1. Set(t, n) /\ cb' = cb /\ threw' = threw /\ r.weak /\ r.state # "new"
    BY <1>8 DEF CollectEasy
  <2>2. n \in Records /\ TransferOK(n) /\ (Excused(r) => Excused(n))
    BY <1>0, <2>1, Zenon DEF Records, Drains, TransferOK, Excused
  <2> QED
    BY <2>1, <2>2, OneTransfer
<1> QED
  BY <1>1, <1>2, <1>3, <1>4, <1>5, <1>6, <1>7, <1>8

\* libcurl's callbacks, and the end of a transfer.
LEMMA CallbackKeeps ==
  ASSUME HInv, NEW t \in Transfers, Progress(t) \/ OnDone(t)
  PROVE  HInv'
<1> DEFINE r == easy[t]
<1>0. r \in Records /\ TransferOK(r)
  BY DEF HInv
<1>1. ASSUME NEW kind, NEW n \in Records, NEW fails \in BOOLEAN, Callback(t, kind, n, fails),
             TransferOK(n), Excused(r) => Excused(n), fails => Excused(n)
      PROVE  HInv'
  <2>1. Set(t, n) /\ cb'.t = t /\ (threw' => threw \/ Excused(n))
    BY <1>1 DEF Callback
  <2> QED
    BY <1>1, <2>1, OneTransfer
<1>2. CASE OnHeader(t)
  <2> DEFINE h == IF r.header = "wait" THEN "resolved" ELSE r.header
             n == [r EXCEPT !.gotHeader = TRUE, !.header = h]
  <2>1. Callback(t, "header", n, FALSE)
    BY <1>2, Zenon DEF OnHeader
  <2>2. n \in Records /\ TransferOK(n) /\ (Excused(r) => Excused(n))
    BY <1>0, Zenon DEF Records, TransferOK, Excused
  <2> HIDE DEF n
  <2> QED
    BY <1>1, <2>1, <2>2, Zenon
<1>3. CASE OnWrite(t)
  <2> DEFINE fails == r.response # "readable"
             k == r.writes + 1
             c == IF fails THEN "error" ELSE r.code
             n == [r EXCEPT !.writes = k, !.code = c]
  <2>1. Callback(t, "write", n, fails) /\ r.state = "running"
    BY <1>3 DEF OnWrite, Enter
  <2>2. k \in Nat /\ c \in {"none", "OK", "error"}
    BY <1>0 DEF Records
  <2>3. fails => Excused(r)
    BY <1>0, <2>1 DEF TransferOK
  <2> HIDE DEF k, c, fails
  <2>4. n \in Records /\ TransferOK(n) /\ (Excused(r) => Excused(n))
    <3>1. n \in Records
      BY <1>0, <2>2, Zenon DEF Records
    <3>2. /\ n.state = r.state /\ n.weak = r.weak /\ n.collected = r.collected
          /\ n.response = r.response /\ n.cancelled = r.cancelled /\ n.recursed = r.recursed
      BY <1>0 DEF Records
    <3> HIDE DEF n
    <3> QED
      BY <1>0, <3>1, <3>2 DEF TransferOK, Excused
  <2>5. fails \in BOOLEAN
    BY DEF fails
  <2> HIDE DEF n
  <2> QED
    BY <1>1, <2>1, <2>3, <2>4, <2>5
<1>4. CASE OnRead(t)
  <2> DEFINE n == ReadBody(r)
  <2>1. Callback(t, "read", n, FALSE)
    BY <1>4, Zenon DEF OnRead
  <2>2. n \in Records /\ TransferOK(n) /\ (Excused(r) => Excused(n))
    <3>1. n \in Records
      BY <1>0, Zenon DEF Records, ReadBody
    <3>2. /\ n.state = r.state /\ n.weak = r.weak /\ n.collected = r.collected
          /\ n.response = r.response /\ n.cancelled = r.cancelled /\ n.recursed = r.recursed
      BY <1>0 DEF Records, ReadBody
    <3> HIDE DEF n
    <3> QED
      BY <1>0, <3>1, <3>2 DEF TransferOK, Excused
  <2> HIDE DEF n
  <2> QED
    BY <1>1, <2>1, <2>2, Zenon
<1>5. CASE Complete(t)
  <2>1. PICK c \in {"OK", "error"} : Set(t, [r EXCEPT !.state = "ended", !.code = c])
    BY <1>5, Zenon DEF Complete
  <2> DEFINE n == [r EXCEPT !.state = "ended", !.code = c]
  <2>2. cb' = cb /\ threw' = threw /\ r.state = "running"
    BY <1>5 DEF Complete, Enter
  <2>3. n \in Records /\ TransferOK(n) /\ (Excused(r) => Excused(n))
    BY <1>0, <2>2, Zenon DEF Records, TransferOK, Excused
  <2> QED
    BY <2>1, <2>2, <2>3, OneTransfer
<1>6. CASE OnDone(t)
  <2> DEFINE d == RemoveHandle(CancelReader(r))
             n == IF r.code = "OK"
                    THEN [d EXCEPT !.response = IF @ = "readable" THEN "closed" ELSE @]
                  ELSE IF r.gotHeader
                    THEN [d EXCEPT !.response = IF @ = "readable" THEN "errored" ELSE @]
                  ELSE [d EXCEPT !.header = IF @ = "wait" THEN "rejected" ELSE @]
             fails == r.code = "OK" /\ r.response # "readable"
  <2>1. Callback(t, "done", n, fails) /\ r.state = "ended"
    BY <1>6 DEF OnDone
  <2>2. /\ d \in Records /\ (Excused(r) <=> Excused(d))
        /\ d.state = "removed" /\ d.weak
    <3>1. CancelReader(r) \in Records /\ (Excused(r) <=> Excused(CancelReader(r)))
      BY <1>0, ReaderCancelled
    <3>2. \A x \in Records : RemoveHandle(x).state = "removed" /\ RemoveHandle(x).weak
      BY DEF Records, RemoveHandle
    <3> QED
      BY <3>1, <3>2, Removed
  <2> HIDE DEF d
  <2>3. n \in Records /\ TransferOK(n) /\ (Excused(d) => Excused(n))
    <3>1. CASE r.code = "OK"
      BY <2>2, <3>1 DEF Records, TransferOK, Excused
    <3>2. CASE r.code # "OK" /\ r.gotHeader
      BY <2>2, <3>2 DEF Records, TransferOK, Excused
    <3>3. CASE r.code # "OK" /\ ~r.gotHeader
      BY <2>2, <3>3 DEF Records, TransferOK, Excused
    <3> QED
      BY <3>1, <3>2, <3>3
  <2>4. fails => Excused(r)
    BY <1>0, <2>1 DEF TransferOK
  <2> HIDE DEF n
  <2> QED
    BY <1>1, <2>1, <2>2, <2>3, <2>4, Zenon
<1> QED
  BY <1>2, <1>3, <1>4, <1>5, <1>6 DEF Progress

\* Every step keeps the invariant.
LEMMA NextHInv == HInv /\ [CurlNext]_curlVars => HInv'
<1> SUFFICES ASSUME HInv, [CurlNext]_curlVars PROVE HInv'
  OBVIOUS
<1>1. CASE Return
  <2> DEFINE t == cb.t
             n == [easy[t] EXCEPT !.state = "ended"]
  <2>1. t \in Transfers
    BY <1>1 DEF Return, InCurl, HInv
  <2>2. /\ Set(t, IF easy[t].code = "error" /\ Known(t) THEN n ELSE easy[t])
        /\ cb' = NoCb /\ threw' = threw
    BY <1>1 DEF Return
  <2>3. easy[t] \in Records /\ TransferOK(easy[t])
    BY <2>1 DEF HInv
  <2>4. Known(t) => n \in Records /\ TransferOK(n) /\ (Excused(easy[t]) => Excused(n))
    BY <2>3 DEF Known, Records, TransferOK, Excused
  <2> HIDE DEF n
  <2> QED
    BY <2>1, <2>2, <2>3, <2>4, OneTransfer
<1>2. CASE DoneReturns \/ CloseMulti \/ UNCHANGED curlVars
  BY <1>2 DEF DoneReturns, CloseMulti, curlVars, HInv, ThrowExplained
<1> QED
  BY <1>1, <1>2, DriverKeeps, CallbackKeeps DEF CurlNext

\* The inductive invariant holds in every behaviour of the transfers.
THEOREM CurlInvariance == CurlSpec => []HInv
<1>1. CurlInit => HInv
  <2> SUFFICES ASSUME CurlInit PROVE HInv
    OBVIOUS
  <2>1. Idle \in Records /\ TransferOK(Idle)
    BY DEF Idle, Records, Drains, TransferOK
  <2> QED
    BY <2>1 DEF CurlInit, HInv, ThrowExplained
<1> QED
  BY <1>1, NextHInv, PTL DEF CurlSpec

\* libcurl never meets a collected CurlEasy, what it does not know is held by
\* nobody, and a callback throws only after a cancelled body or an abort made
\* while libcurl was on the stack (TransfersHeld: CurlMulti::AddHandle,
\* RemoveHandle, Curl.#onWrite, #onDone, #abort).
THEOREM TransfersAreHeld == CurlSpec => []TransfersHeld
<1>1. HInv => TransfersHeld
  BY DEF HInv, TransferOK, TransfersHeld, HeldWhileKnown, Known
<1> QED
  BY <1>1, CurlInvariance, PTL

-----------------------------------------------------------------------------
(***************************************************************************)
(* Timers and immediates of scripts agree with their handles, for any      *)
(* number of them: what is set is in the loop or its callback runs, what   *)
(* was cleared is in none of the queues of the loop, and a wrap outlives   *)
(* its callback and its handles.                                           *)
(***************************************************************************)

\* A run of the event loop, and a handle that closes.
LoopRun == [phase : {"timers", "check"}, queue : Seq(Immediates), running : Objects \cup {"none", "script"}]
ClosingHandle == [of : Objects, own : BOOLEAN]

\* Queued and OnStack, of any queues.
QueuedIn(cs, ls, o) == o \in Range(cs) \/ \E l \in DOMAIN ls : o \in Range(ls[l].queue)
StackedIn(ls, o) == \E l \in DOMAIN ls : ls[l].running = o

\* A check handle is in one queue, once; a run that has not polled has no queue.
Tidy(cs, ls) ==
  /\ IsInjective(cs)
  /\ \A l \in DOMAIN ls : /\ IsInjective(ls[l].queue)
                          /\ Range(ls[l].queue) \cap Range(cs) = {}
                          /\ ls[l].phase = "timers" => ls[l].queue = <<>>
  /\ \A l, k \in DOMAIN ls : l # k => Range(ls[l].queue) \cap Range(ls[k].queue) = {}

\* The handles that close belong to wraps that close, and the wrap's own is
\* the last of its handles to close.
OwnEnds(cl) == \A h, g \in DOMAIN cl : h < g /\ cl[h].own => cl[g].of # cl[h].of
OwnLast(cl, st) == OwnEnds(cl) /\ \A h \in DOMAIN cl : st[cl[h].of] = "kClosing"

TimerTypes ==
  /\ js \in [Objects -> {"unused", "set", "destroyed"}]
  /\ repeats \subseteq Timeouts /\ timers \subseteq Timeouts /\ weak \subseteq Objects
  /\ state \in [Objects -> {"kInitialized", "kClosing", "kClosed"}]
  /\ closing \in Seq(ClosingHandle) /\ checks \in Seq(Immediates)
  /\ loops \in Seq(LoopRun) /\ loops # <<>>
  /\ fired \in [Objects -> Nat]

\* What a set, an unused and a destroyed object have in the loop.
Agrees(o, j, ts, rs, w, s, queued, stacked) ==
  /\ j = "unused" => o \notin ts /\ ~queued /\ ~stacked /\ o \notin w
  /\ j = "set" => /\ o \notin w /\ (o \in Immediates => queued)
                  /\ o \in Timeouts => o \in ts \/ (o \notin rs /\ stacked)
  /\ j = "destroyed" => o \notin ts /\ ~queued
  /\ s # "kInitialized" => o \in w /\ ~stacked

\* The inductive invariant.  Beside what the objects have in the loop it needs that
\* no handle is in two queues, which is why stopping it once is enough, and that
\* the wraps that close are weak and off the stack.
TimersInv ==
  /\ TimerTypes
  /\ Tidy(checks, loops) /\ OwnLast(closing, state)
  /\ \A o \in Objects : Agrees(o, js[o], timers, repeats, weak, state[o],
                               QueuedIn(checks, loops, o), StackedIn(loops, o))

-----------------------------------------------------------------------------
\* uv_check_stop takes the handle from a queue.
LEMMA UnlinkedFacts ==
  ASSUME NEW S, NEW q \in Seq(S), IsInjective(q), NEW i
  PROVE  /\ Unlinked(q, i) \in Seq(S) /\ IsInjective(Unlinked(q, i))
         /\ Range(Unlinked(q, i)) = Range(q) \ {i}
<1>1. CASE i \notin Range(q)
  BY <1>1, Zenon DEF Unlinked
<1>2. CASE i \in Range(q)
  <2>1. \E k \in DOMAIN q : q[k] = i
    BY <1>2, Zenon DEF Range
  <2>2. PICK at : at = CHOOSE k \in DOMAIN q : q[k] = i
    BY Zenon
  <2>3. at \in DOMAIN q /\ q[at] = i
    BY <2>1, <2>2, Zenon
  <2>4. Unlinked(q, i) = SubSeq(q, 1, at - 1) \o SubSeq(q, at + 1, Len(q))
    BY <1>2, <2>2, Zenon DEF Unlinked
  <2> QED
    BY <2>3, <2>4, CutHolds, Zenon
<1> QED
  BY <1>1, <1>2

\* What a run of the loop holds.
LEMMA RunFacts ==
  ASSUME NEW ls \in Seq(LoopRun), NEW l \in DOMAIN ls
  PROVE  /\ ls[l] \in LoopRun /\ ls[l].queue \in Seq(Immediates) /\ ls[l].phase \in {"timers", "check"}
         /\ ls[l].running \in Objects \cup {"none", "script"}
<1>1. ls[l] \in LoopRun
  BY LenProperties
<1> QED
  BY <1>1 DEF LoopRun

\* The innermost run changes.
LEMMA InnerFacts ==
  ASSUME NEW ls \in Seq(LoopRun), ls # <<>>, NEW f \in LoopRun, NEW r, r = [ls EXCEPT ![1] = f]
  PROVE  /\ r \in Seq(LoopRun) /\ r # <<>> /\ DOMAIN r = DOMAIN ls /\ 1 \in DOMAIN ls
         /\ r[1] = f /\ \A l \in DOMAIN ls : l # 1 => r[l] = ls[l]
<1>1. /\ r \in Seq(LoopRun) /\ Len(r) = Len(ls) /\ Len(ls) \in Nat \ {0} /\ r[1] = f /\ r # <<>>
      /\ \A i \in 2..Len(ls) : r[i] = ls[i]
  BY SetFacts
<1> QED
  BY <1>1, LenProperties

\* The innermost run changes, its queue and the loop's have the handles that they
\* had.
LEMMA InnerQueues ==
  ASSUME NEW ls \in Seq(LoopRun), ls # <<>>, NEW f \in LoopRun, NEW r, r = [ls EXCEPT ![1] = f],
         NEW cs, NEW ds, Tidy(cs, ls), IsInjective(f.queue), IsInjective(ds),
         Range(f.queue) \cap Range(ds) = {},
         Range(f.queue) \cup Range(ds) = Range(ls[1].queue) \cup Range(cs),
         f.phase = "timers" => f.queue = <<>>
  PROVE  /\ Tidy(ds, r)
         /\ \A o : QueuedIn(ds, r, o) <=> QueuedIn(cs, ls, o)
<1>1. /\ DOMAIN r = DOMAIN ls /\ 1 \in DOMAIN ls /\ r[1] = f
      /\ \A l \in DOMAIN ls : l # 1 => r[l] = ls[l]
  BY InnerFacts
<1>2. \A l \in DOMAIN ls : l # 1 =>
        Range(ls[l].queue) \cap Range(ls[1].queue) = {} /\ Range(ls[l].queue) \cap Range(cs) = {}
  BY <1>1, Zenon DEF Tidy
<1>3. \A l \in DOMAIN ls : l # 1 =>
        Range(ls[l].queue) \cap Range(f.queue) = {} /\ Range(ls[l].queue) \cap Range(ds) = {}
  BY <1>2
<1>4. ASSUME NEW l \in DOMAIN r
      PROVE  /\ IsInjective(r[l].queue) /\ Range(r[l].queue) \cap Range(ds) = {}
             /\ r[l].phase = "timers" => r[l].queue = <<>>
  <2>1. CASE l = 1
    BY <1>1, <2>1, Zenon
  <2>2. CASE l # 1
    BY <1>1, <1>3, <2>2, Zenon DEF Tidy
  <2> QED
    BY <2>1, <2>2
<1>5. ASSUME NEW l \in DOMAIN r, NEW k \in DOMAIN r, l # k
      PROVE  Range(r[l].queue) \cap Range(r[k].queue) = {}
  <2>1. CASE l = 1
    BY <1>1, <1>3, <1>5, <2>1
  <2>2. CASE k = 1
    BY <1>1, <1>3, <1>5, <2>2
  <2>3. CASE l # 1 /\ k # 1
    BY <1>1, <1>5, <2>3, Zenon DEF Tidy
  <2> QED
    BY <2>1, <2>2, <2>3
<1>6. ASSUME NEW o, QueuedIn(ds, r, o) PROVE QueuedIn(cs, ls, o)
  <2>1. CASE o \in Range(ds)
    BY <1>1, <2>1, Zenon DEF QueuedIn
  <2>2. CASE \E l \in DOMAIN r : o \in Range(r[l].queue)
    BY <1>1, <2>2, Zenon DEF QueuedIn
  <2> QED
    BY <1>6, <2>1, <2>2, Zenon DEF QueuedIn
<1>7. ASSUME NEW o, QueuedIn(cs, ls, o) PROVE QueuedIn(ds, r, o)
  <2>1. CASE o \in Range(cs)
    BY <1>1, <2>1, Zenon DEF QueuedIn
  <2>2. CASE \E l \in DOMAIN ls : o \in Range(ls[l].queue)
    BY <1>1, <2>2, Zenon DEF QueuedIn
  <2> QED
    BY <1>7, <2>1, <2>2, Zenon DEF QueuedIn
<1> QED
  BY <1>4, <1>5, <1>6, <1>7, Zenon DEF Tidy

\* What is on the stack then.
LEMMA InnerStack ==
  ASSUME NEW ls \in Seq(LoopRun), ls # <<>>, NEW f \in LoopRun, NEW r, r = [ls EXCEPT ![1] = f], NEW o
  PROVE  /\ StackedIn(r, o) => o = f.running \/ StackedIn(ls, o)
         /\ StackedIn(ls, o) => o = ls[1].running \/ StackedIn(r, o)
         /\ o = f.running => StackedIn(r, o)
<1>1. /\ DOMAIN r = DOMAIN ls /\ 1 \in DOMAIN ls /\ r[1] = f
      /\ \A l \in DOMAIN ls : l # 1 => r[l] = ls[l]
  BY InnerFacts
<1> QED
  BY <1>1, Zenon DEF StackedIn

\* uv_check_stop takes it from every queue.
LEMMA UnqueuedFacts ==
  ASSUME NEW ls \in Seq(LoopRun), ls # <<>>, NEW cs \in Seq(Immediates), Tidy(cs, ls), NEW i
  PROVE  /\ Unqueued(ls, i) \in Seq(LoopRun) /\ Unqueued(ls, i) # <<>>
         /\ Unlinked(cs, i) \in Seq(Immediates)
         /\ Tidy(Unlinked(cs, i), Unqueued(ls, i))
         /\ \A o : QueuedIn(Unlinked(cs, i), Unqueued(ls, i), o) <=> QueuedIn(cs, ls, o) /\ o # i
         /\ \A o : StackedIn(Unqueued(ls, i), o) <=> StackedIn(ls, o)
<1>1. PICK r, ds : r = Unqueued(ls, i) /\ ds = Unlinked(cs, i)
  BY Zenon
<1>2. PICK n \in Nat : n = Len(ls) /\ DOMAIN ls = 1..n /\ n # 0
  BY LenProperties, EmptySeq
<1>3. ds \in Seq(Immediates) /\ IsInjective(ds) /\ Range(ds) = Range(cs) \ {i}
  BY <1>1, UnlinkedFacts DEF Tidy
<1>4. ASSUME NEW l \in DOMAIN ls
      PROVE  /\ r[l] \in LoopRun /\ r[l].running = ls[l].running /\ r[l].phase = ls[l].phase
             /\ IsInjective(r[l].queue) /\ Range(r[l].queue) = Range(ls[l].queue) \ {i}
             /\ ls[l].queue = <<>> => r[l].queue = <<>>
  <2>1. PICK q : q = Unlinked(ls[l].queue, i)
    BY Zenon
  <2>2. ls[l] \in LoopRun /\ ls[l].queue \in Seq(Immediates)
    BY RunFacts
  <2>3. q \in Seq(Immediates) /\ IsInjective(q) /\ Range(q) = Range(ls[l].queue) \ {i}
    BY <2>1, <2>2, UnlinkedFacts, Zenon DEF Tidy
  <2>4. r[l] = [ls[l] EXCEPT !.queue = q]
    BY <1>1, <2>1 DEF Unqueued
  <2>5. r[l] \in LoopRun /\ r[l].queue = q /\ r[l].running = ls[l].running /\ r[l].phase = ls[l].phase
    BY <2>2, <2>3, <2>4 DEF LoopRun
  <2>6. ls[l].queue = <<>> => q = <<>>
    BY <2>1 DEF Unlinked, Range
  <2> QED
    BY <2>3, <2>5, <2>6, Zenon
<1>5. DOMAIN r = DOMAIN ls /\ r \in Seq(LoopRun) /\ r # <<>>
  <2>1. DOMAIN r = 1..n /\ r = [l \in 1..n |-> r[l]]
    BY <1>1, <1>2 DEF Unqueued
  <2>2. r \in [1..n -> LoopRun]
    BY <1>2, <1>4, <2>1, Zenon
  <2>3. r \in Seq(LoopRun)
    BY <2>2, SeqDef, Zenon
  <2>4. 1 \in DOMAIN r
    BY <1>2, <2>1
  <2> QED
    BY <1>2, <2>1, <2>3, <2>4
<1>6. Tidy(ds, r)
  <2>1. \A l \in DOMAIN r : /\ IsInjective(r[l].queue)
                            /\ Range(r[l].queue) \cap Range(ds) = {}
                            /\ r[l].phase = "timers" => r[l].queue = <<>>
    BY <1>3, <1>4, <1>5, Zenon DEF Tidy
  <2>2. \A l, k \in DOMAIN r : l # k => Range(r[l].queue) \cap Range(r[k].queue) = {}
    <3>1. \A l, k \in DOMAIN r : l # k => Range(ls[l].queue) \cap Range(ls[k].queue) = {}
      BY <1>5, Zenon DEF Tidy
    <3>2. ASSUME NEW l \in DOMAIN r, NEW k \in DOMAIN r, l # k
          PROVE  Range(r[l].queue) \cap Range(r[k].queue) = {}
      <4>1. Range(r[l].queue) = Range(ls[l].queue) \ {i} /\ Range(r[k].queue) = Range(ls[k].queue) \ {i}
        BY <1>4, <1>5, Zenon
      <4>2. Range(ls[l].queue) \cap Range(ls[k].queue) = {}
        BY <3>1, <3>2, Zenon
      <4> QED
        BY <4>1, <4>2
    <3> QED
      BY <3>2, Zenon
  <2> QED
    BY <1>3, <2>1, <2>2, Zenon DEF Tidy
<1>7. ASSUME NEW o PROVE QueuedIn(ds, r, o) <=> QueuedIn(cs, ls, o) /\ o # i
  BY <1>3, <1>4, <1>5, Zenon DEF QueuedIn
<1>8. ASSUME NEW o PROVE StackedIn(r, o) <=> StackedIn(ls, o)
  BY <1>4, <1>5, Zenon DEF StackedIn
<1> QED
  BY <1>1, <1>3, <1>5, <1>6, <1>7, <1>8, Zenon

\* A debugger's pause begins a run.
LEMMA PausedFacts ==
  ASSUME NEW ls \in Seq(LoopRun), NEW cs, Tidy(cs, ls),
         NEW f \in LoopRun, f = [phase |-> "timers", queue |-> <<>>, running |-> "none"],
         NEW r, r = <<f>> \o ls
  PROVE  /\ r \in Seq(LoopRun) /\ r # <<>> /\ Tidy(cs, r)
         /\ \A o : QueuedIn(cs, r, o) <=> QueuedIn(cs, ls, o)
         /\ \A o : o # "none" => (StackedIn(r, o) <=> StackedIn(ls, o))
<1>1. PICK n \in Nat : n = Len(ls) /\ DOMAIN ls = 1..n
  BY LenProperties
<1>2. /\ r \in Seq(LoopRun) /\ DOMAIN r = 1..(n + 1) /\ r[1] = f /\ r # <<>>
      /\ \A i \in 1..n : r[i + 1] = ls[i]
      /\ \A i \in 2..(n + 1) : r[i] = ls[i - 1]
  BY <1>1, PushFacts, LenProperties
<1>3. f.queue = <<>> /\ Range(f.queue) = {} /\ IsInjective(f.queue) /\ f.running = "none"
  BY DEF Range, IsInjective
<1>4. \A l \in DOMAIN r : l = 1 \/ (l - 1 \in DOMAIN ls /\ r[l] = ls[l - 1])
  BY <1>1, <1>2
<1>5. \A l \in DOMAIN ls : l + 1 \in DOMAIN r /\ r[l + 1] = ls[l]
  BY <1>1, <1>2
<1>6. ASSUME NEW l \in DOMAIN r
      PROVE  /\ IsInjective(r[l].queue) /\ Range(r[l].queue) \cap Range(cs) = {}
             /\ r[l].phase = "timers" => r[l].queue = <<>>
  <2>1. CASE l = 1
    BY <1>2, <1>3, <2>1
  <2>2. CASE l # 1
    BY <1>4, <2>2, Zenon DEF Tidy
  <2> QED
    BY <2>1, <2>2
<1>7. ASSUME NEW l \in DOMAIN r, NEW k \in DOMAIN r, l # k
      PROVE  Range(r[l].queue) \cap Range(r[k].queue) = {}
  <2>1. CASE l = 1 \/ k = 1
    BY <1>2, <1>3, <2>1
  <2>2. CASE l # 1 /\ k # 1
    <3>1. l - 1 # k - 1
      BY <1>2, <1>7
    <3> QED
      BY <1>4, <2>2, <3>1, Zenon DEF Tidy
  <2> QED
    BY <2>1, <2>2, Zenon
<1>8. Tidy(cs, r)
  BY <1>6, <1>7, Zenon DEF Tidy
<1>9. ASSUME NEW o PROVE QueuedIn(cs, r, o) <=> QueuedIn(cs, ls, o)
  <2>1. ASSUME NEW l \in DOMAIN r, o \in Range(r[l].queue) PROVE \E k \in DOMAIN ls : o \in Range(ls[k].queue)
    BY <1>2, <1>3, <1>4, <2>1, Zenon
  <2> QED
    BY <1>5, <2>1, Zenon DEF QueuedIn
<1>10. ASSUME NEW o, o # "none" PROVE StackedIn(r, o) <=> StackedIn(ls, o)
  <2>1. ASSUME NEW l \in DOMAIN r, r[l].running = o PROVE \E k \in DOMAIN ls : ls[k].running = o
    BY <1>2, <1>3, <1>4, <1>10, <2>1, Zenon
  <2> QED
    BY <1>5, <2>1, Zenon DEF StackedIn
<1> QED
  BY <1>2, <1>8, <1>9, <1>10

\* The debugger resumes: the run ends.
LEMMA ResumedFacts ==
  ASSUME NEW ls \in Seq(LoopRun), NEW cs, Tidy(cs, ls), Len(ls) > 1,
         ls[1].queue = <<>>, ls[1].running = "none", NEW r, r = Tail(ls)
  PROVE  /\ r \in Seq(LoopRun) /\ r # <<>> /\ Tidy(cs, r)
         /\ \A o : QueuedIn(cs, r, o) <=> QueuedIn(cs, ls, o)
         /\ \A o : o # "none" => (StackedIn(r, o) <=> StackedIn(ls, o))
<1>1. PICK n \in Nat : n = Len(ls) /\ DOMAIN ls = 1..n /\ n > 1 /\ ls # <<>>
  BY LenProperties, EmptySeq
<1>2. /\ r \in Seq(LoopRun) /\ Len(r) = n - 1 /\ DOMAIN r = 1..(n - 1)
      /\ \A i \in 1..(n - 1) : r[i] = ls[i + 1]
      /\ \A i \in 2..n : r[i - 1] = ls[i]
  BY <1>1, PopFacts, LenProperties
<1>0. Range(ls[1].queue) = {}
  BY DEF Range
<1>3. r # <<>>
  <2>0. PICK m \in Nat : m = n - 1 /\ m > 0
    BY <1>1
  <2>1. Len(r) # 0
    BY <1>2, <2>0
  <2> QED
    BY <1>2, <2>1, EmptySeq, Zenon
<1>4. \A l \in DOMAIN ls : l = 1 \/ (l - 1 \in DOMAIN r /\ ls[l] = r[l - 1])
  BY <1>1, <1>2
<1>5. \A l \in DOMAIN r : l + 1 \in DOMAIN ls /\ r[l] = ls[l + 1]
  BY <1>1, <1>2
<1>6. \A l, k \in DOMAIN r : l # k => l + 1 # k + 1
  BY <1>2
<1>7. Tidy(cs, r)
  <2>1. \A l \in DOMAIN r : /\ IsInjective(r[l].queue)
                            /\ Range(r[l].queue) \cap Range(cs) = {}
                            /\ r[l].phase = "timers" => r[l].queue = <<>>
    BY <1>5, Zenon DEF Tidy
  <2>2. \A l, k \in DOMAIN r : l # k => Range(r[l].queue) \cap Range(r[k].queue) = {}
    <3>1. ASSUME NEW l \in DOMAIN r, NEW k \in DOMAIN r, l # k
          PROVE  Range(ls[l + 1].queue) \cap Range(ls[k + 1].queue) = {}
      BY <1>5, <1>6, <3>1, Zenon DEF Tidy
    <3> QED
      BY <1>5, <3>1, Zenon
  <2> QED
    BY <2>1, <2>2, Zenon DEF Tidy
<1>8. ASSUME NEW o PROVE QueuedIn(cs, r, o) <=> QueuedIn(cs, ls, o)
  <2>1. ASSUME NEW l \in DOMAIN ls, o \in Range(ls[l].queue) PROVE \E k \in DOMAIN r : o \in Range(r[k].queue)
    BY <1>0, <1>4, <2>1, Zenon
  <2> QED
    BY <1>5, <2>1, Zenon DEF QueuedIn
<1>9. ASSUME NEW o, o # "none" PROVE StackedIn(r, o) <=> StackedIn(ls, o)
  <2>1. ASSUME NEW l \in DOMAIN ls, ls[l].running = o PROVE \E k \in DOMAIN r : r[k].running = o
    BY <1>4, <1>9, <2>1, Zenon
  <2> QED
    BY <1>5, <2>1, Zenon DEF StackedIn
<1> QED
  BY <1>2, <1>3, <1>7, <1>8, <1>9

\* What the loop holds is set, and its wrap is not closed.
LEMMA HeldIsSet ==
  ASSUME TimersInv, NEW o \in Objects, o \in timers \/ QueuedIn(checks, loops, o)
  PROVE  js[o] = "set" /\ o \notin weak /\ state[o] = "kInitialized"
<1>1. Agrees(o, js[o], timers, repeats, weak, state[o], QueuedIn(checks, loops, o), StackedIn(loops, o))
  BY DEF TimersInv
<1>2. js[o] \in {"unused", "set", "destroyed"}
  BY DEF TimersInv, TimerTypes
<1>3. js[o] = "set"
  BY <1>1, <1>2, Zenon DEF Agrees
<1> QED
  BY <1>1, <1>3, Zenon DEF Agrees

\* The initial state satisfies the invariant.
LEMMA TimersInitInv == TimersInit => TimersInv
<1> SUFFICES ASSUME TimersInit PROVE TimersInv
  OBVIOUS
<1>1. PICK f : f = [phase |-> "timers", queue |-> <<>>, running |-> "script"]
  BY Zenon
<1>2. f \in LoopRun /\ f.queue = <<>> /\ f.running = "script"
  BY <1>1 DEF LoopRun
<1>3. loops = <<f>> /\ checks = <<>> /\ closing = <<>>
  BY <1>1 DEF TimersInit
<1>4. loops \in Seq(LoopRun) /\ loops # <<>> /\ DOMAIN loops = {1} /\ loops[1] = f
  BY <1>2, <1>3
<1>5. TimerTypes
  BY <1>3, <1>4 DEF TimersInit, TimerTypes
<1>6. Range(checks) = {} /\ IsInjective(checks) /\ DOMAIN closing = {}
  BY <1>3 DEF Range, IsInjective
<1>7. Tidy(checks, loops)
  BY <1>2, <1>3, <1>4, <1>6, Zenon DEF Tidy
<1>8. OwnLast(closing, state)
  BY <1>6, Zenon DEF OwnLast, OwnEnds
<1>9. ASSUME NEW o \in Objects PROVE ~QueuedIn(checks, loops, o) /\ ~StackedIn(loops, o)
  <2>1. o # "script"
    BY TimersConstants
  <2> QED
    BY <1>2, <1>3, <1>4, <1>6, <2>1, Zenon DEF QueuedIn, StackedIn
<1>10. \A o \in Objects : js[o] = "unused" /\ o \notin timers /\ o \notin weak /\ state[o] = "kInitialized"
  BY DEF TimersInit
<1> QED
  BY <1>5, <1>7, <1>8, <1>9, <1>10, Zenon DEF TimersInv, Agrees

\* setTimeout and setInterval.
LEMMA SpinKeeps ==
  ASSUME TimersInv, NEW t \in Timeouts, NEW d, NEW loop \in BOOLEAN, Spin(t, d, loop)
  PROVE  TimersInv'
<1>1. /\ checks' = checks /\ loops' = loops /\ weak' = weak /\ state' = state /\ closing' = closing
      /\ fired' = fired /\ js' = [js EXCEPT ![t] = "set"] /\ timers' = timers \cup {t}
      /\ repeats' = (IF loop THEN repeats \cup {t} ELSE repeats) /\ js[t] = "unused"
  BY DEF Spin
<1>2. t \in Objects /\ t \notin Immediates
  BY TimersConstants DEF Objects
<1>3. TimerTypes'
  BY <1>1, <1>2 DEF TimersInv, TimerTypes
<1>4. ASSUME NEW o \in Objects, o # t
      PROVE  js'[o] = js[o] /\ (o \in timers' <=> o \in timers) /\ (o \in repeats' <=> o \in repeats)
  BY <1>1, <1>4 DEF TimersInv, TimerTypes
<1>5. js'[t] = "set" /\ t \in timers'
  BY <1>1, <1>2 DEF TimersInv, TimerTypes
<1>6. ASSUME NEW o \in Objects
      PROVE  Agrees(o, js'[o], timers', repeats', weak, state[o],
                    QueuedIn(checks, loops, o), StackedIn(loops, o))
  <2>0. Agrees(o, js[o], timers, repeats, weak, state[o], QueuedIn(checks, loops, o), StackedIn(loops, o))
    BY DEF TimersInv
  <2>1. CASE o = t
    <3>1. t \notin weak /\ state[t] = "kInitialized"
      BY <1>1, <2>0, <2>1, Zenon DEF Agrees
    <3>2. js'[t] # "unused" /\ js'[t] # "destroyed"
      BY <1>5
    <3> QED
      BY <1>2, <1>5, <2>1, <3>1, <3>2, Zenon DEF Agrees
  <2>2. CASE o # t
    BY <1>4, <2>0, <2>2, Zenon DEF Agrees
  <2> QED
    BY <2>1, <2>2
<1> QED
  BY <1>1, <1>3, <1>6 DEF TimersInv

\* setImmediate.
LEMMA RunImmediateKeeps ==
  ASSUME TimersInv, NEW i \in Immediates, RunImmediate(i)
  PROVE  TimersInv'
<1>1. /\ loops' = loops /\ weak' = weak /\ state' = state /\ closing' = closing /\ fired' = fired
      /\ timers' = timers /\ repeats' = repeats
      /\ js' = [js EXCEPT ![i] = "set"] /\ checks' = <<i>> \o checks /\ js[i] = "unused"
  BY DEF RunImmediate
<1>2. i \in Objects /\ i \notin Timeouts
  BY TimersConstants DEF Objects
<1>3. ~QueuedIn(checks, loops, i) /\ i \notin weak /\ state[i] = "kInitialized"
  BY <1>1, <1>2, Zenon DEF TimersInv, Agrees
<1>4. i \notin Range(checks) /\ \A l \in DOMAIN loops : i \notin Range(loops[l].queue)
  BY <1>3, Zenon DEF QueuedIn
<1>5. checks' \in Seq(Immediates) /\ IsInjective(checks') /\ Range(checks') = Range(checks) \cup {i}
  BY <1>1, <1>4, PushHolds DEF TimersInv, TimerTypes, Tidy
<1>6. Tidy(checks', loops)
  <2>1. \A l \in DOMAIN loops : Range(loops[l].queue) \cap Range(checks) = {}
    BY DEF TimersInv, Tidy
  <2>2. \A l \in DOMAIN loops : Range(loops[l].queue) \cap Range(checks') = {}
    BY <1>4, <1>5, <2>1
  <2> QED
    BY <1>5, <2>2, Zenon DEF TimersInv, Tidy
<1>7. \A o : QueuedIn(checks', loops, o) <=> QueuedIn(checks, loops, o) \/ o = i
  BY <1>5, Zenon DEF QueuedIn
<1>8. TimerTypes'
  BY <1>1, <1>2, <1>5 DEF TimersInv, TimerTypes
<1>9. js'[i] = "set" /\ \A o \in Objects : o # i => js'[o] = js[o]
  BY <1>1, <1>2 DEF TimersInv, TimerTypes
<1>10. ASSUME NEW o \in Objects
       PROVE  Agrees(o, js'[o], timers, repeats, weak, state[o],
                     QueuedIn(checks', loops, o), StackedIn(loops, o))
  <2>1. CASE o = i
    <3>1. js'[i] # "unused" /\ js'[i] # "destroyed"
      BY <1>9
    <3> QED
      BY <1>2, <1>3, <1>7, <1>9, <2>1, <3>1, Zenon DEF Agrees
  <2>2. CASE o # i
    <3>1. Agrees(o, js[o], timers, repeats, weak, state[o], QueuedIn(checks, loops, o), StackedIn(loops, o))
      BY DEF TimersInv
    <3> QED
      BY <1>7, <1>9, <2>2, <3>1, Zenon DEF Agrees
  <2> QED
    BY <2>1, <2>2
<1> QED
  BY <1>1, <1>6, <1>8, <1>10 DEF TimersInv

\* DESTROY of an object that is set, when runs differs from loops at most in that
\* the callback of the object has returned.
LEMMA DestroyKeeps ==
  ASSUME TimersInv, NEW o \in Objects, js[o] = "set", NEW runs \in Seq(LoopRun), runs # <<>>,
         Tidy(checks, runs),
         \A x : QueuedIn(checks, runs, x) <=> QueuedIn(checks, loops, x),
         \A x \in Objects : StackedIn(runs, x) => StackedIn(loops, x),
         \A x \in Objects : x # o /\ StackedIn(loops, x) => StackedIn(runs, x),
         Destroy(o, runs), repeats' = repeats, state' = state, closing' = closing, fired' = fired
  PROVE  TimersInv'
<1>1. /\ js' = [js EXCEPT ![o] = "destroyed"] /\ weak' = weak \cup {o} /\ timers' = timers \ {o}
      /\ checks' = Unlinked(checks, o) /\ loops' = Unqueued(runs, o)
  BY DEF Destroy
<1>2. /\ loops' \in Seq(LoopRun) /\ loops' # <<>> /\ checks' \in Seq(Immediates)
      /\ Tidy(checks', loops')
      /\ \A x : QueuedIn(checks', loops', x) <=> QueuedIn(checks, runs, x) /\ x # o
      /\ \A x : StackedIn(loops', x) <=> StackedIn(runs, x)
  BY <1>1, UnqueuedFacts, Zenon DEF TimersInv, TimerTypes
<1>3. TimerTypes'
  BY <1>1, <1>2 DEF TimersInv, TimerTypes
<1>4. js'[o] = "destroyed" /\ o \notin timers' /\ \A x \in Objects : x # o => js'[x] = js[x]
  BY <1>1 DEF TimersInv, TimerTypes
<1>5. \A x : x # o => (x \in timers' <=> x \in timers) /\ (x \in weak' <=> x \in weak)
  BY <1>1
<1>6. ASSUME NEW x \in Objects
      PROVE  Agrees(x, js'[x], timers', repeats, weak', state[x],
                    QueuedIn(checks', loops', x), StackedIn(loops', x))
  <2>0. Agrees(x, js[x], timers, repeats, weak, state[x], QueuedIn(checks, loops, x), StackedIn(loops, x))
    BY DEF TimersInv
  <2>1. CASE x = o
    <3>1. state[o] = "kInitialized"
      BY <2>0, <2>1, Zenon DEF Agrees
    <3>2. js'[o] # "unused" /\ js'[o] # "set"
      BY <1>4
    <3> QED
      BY <1>2, <1>4, <2>1, <3>1, <3>2, Zenon DEF Agrees
  <2>2. CASE x # o
    <3>1. QueuedIn(checks', loops', x) <=> QueuedIn(checks, loops, x)
      BY <1>2, <2>2, Zenon
    <3>2. StackedIn(loops', x) <=> StackedIn(loops, x)
      BY <1>2, <2>2, Zenon
    <3>3. js'[x] = js[x] /\ (x \in timers' <=> x \in timers) /\ (x \in weak' <=> x \in weak)
      BY <1>4, <1>5, <2>2, Zenon
    <3> QED
      BY <2>0, <3>1, <3>2, <3>3, Zenon DEF Agrees
  <2> QED
    BY <2>1, <2>2
<1> QED
  BY <1>2, <1>3, <1>6, Zenon DEF TimersInv

\* clearTimeout, clearInterval and clearImmediate.
LEMMA ClearKeeps ==
  ASSUME TimersInv, NEW o \in Objects, Clear(o)
  PROVE  TimersInv'
<1>1. /\ js[o] = "set" /\ Destroy(o, loops) /\ repeats' = repeats /\ state' = state
      /\ closing' = closing /\ fired' = fired
  BY DEF Clear
<1>2. loops \in Seq(LoopRun) /\ loops # <<>> /\ Tidy(checks, loops)
  BY DEF TimersInv, TimerTypes
<1> QED
  BY <1>1, <1>2, DestroyKeeps, Zenon

\* The innermost run, as the steps of the loop find it.
LEMMA InnerIs ==
  ASSUME TimersInv
  PROVE  /\ loops \in Seq(LoopRun) /\ loops # <<>> /\ 1 \in DOMAIN loops /\ loops[1] \in LoopRun
         /\ loops[1].queue \in Seq(Immediates) /\ IsInjective(loops[1].queue) /\ IsInjective(checks)
         /\ Range(loops[1].queue) \cap Range(checks) = {}
         /\ loops[1].phase = "timers" => loops[1].queue = <<>>
         /\ Tidy(checks, loops) /\ checks \in Seq(Immediates)
<1>1. loops \in Seq(LoopRun) /\ loops # <<>> /\ Tidy(checks, loops) /\ checks \in Seq(Immediates)
  BY DEF TimersInv, TimerTypes
<1>2. 1 \in DOMAIN loops
  BY <1>1, LenProperties, EmptySeq
<1> QED
  BY <1>1, <1>2, RunFacts, Zenon DEF Tidy

\* The innermost run with another callback, which may be none.
LEMMA RunningFacts ==
  ASSUME TimersInv, NEW x \in Objects \cup {"none", "script"}, NEW r, r = [loops EXCEPT ![1].running = x]
  PROVE  /\ r \in Seq(LoopRun) /\ r # <<>> /\ Tidy(checks, r)
         /\ \A o : QueuedIn(checks, r, o) <=> QueuedIn(checks, loops, o)
         /\ \A o : StackedIn(r, o) => o = x \/ StackedIn(loops, o)
         /\ \A o : StackedIn(loops, o) => o = loops[1].running \/ StackedIn(r, o)
         /\ StackedIn(r, x)
<1>1. PICK f : f = [loops[1] EXCEPT !.running = x]
  BY Zenon
<1>2. /\ loops \in Seq(LoopRun) /\ loops # <<>> /\ loops[1] \in LoopRun
      /\ IsInjective(loops[1].queue) /\ IsInjective(checks)
      /\ Range(loops[1].queue) \cap Range(checks) = {}
      /\ loops[1].phase = "timers" => loops[1].queue = <<>>
      /\ Tidy(checks, loops)
  BY InnerIs
<1>3. /\ f \in LoopRun /\ f.queue = loops[1].queue /\ f.phase = loops[1].phase /\ f.running = x
      /\ r = [loops EXCEPT ![1] = f]
  BY <1>1, <1>2, Zenon DEF LoopRun
<1>4. r \in Seq(LoopRun) /\ r # <<>>
  BY <1>2, <1>3, InnerFacts
<1>5. Tidy(checks, r) /\ \A o : QueuedIn(checks, r, o) <=> QueuedIn(checks, loops, o)
  BY <1>2, <1>3, InnerQueues, Zenon
<1>6. ASSUME NEW o
      PROVE  /\ StackedIn(r, o) => o = x \/ StackedIn(loops, o)
             /\ StackedIn(loops, o) => o = loops[1].running \/ StackedIn(r, o)
             /\ o = x => StackedIn(r, o)
  BY <1>2, <1>3, InnerStack, Zenon
<1> QED
  BY <1>4, <1>5, <1>6, Zenon

\* A callback returns.
LEMMA CallbackReturnsKeeps ==
  ASSUME TimersInv, CallbackReturns
  PROVE  TimersInv'
<1>1. PICK r : r = Returned
  BY Zenon
<1>2. /\ r \in Seq(LoopRun) /\ r # <<>> /\ Tidy(checks, r)
      /\ \A o : QueuedIn(checks, r, o) <=> QueuedIn(checks, loops, o)
      /\ \A o : StackedIn(r, o) => o = "none" \/ StackedIn(loops, o)
      /\ \A o : StackedIn(loops, o) => o = loops[1].running \/ StackedIn(r, o)
  <2>1. "none" \in Objects \cup {"none", "script"}
    OBVIOUS
  <2>2. r = [loops EXCEPT ![1].running = "none"]
    BY <1>1 DEF Returned
  <2> QED
    BY <2>1, <2>2, RunningFacts, Zenon
<1>3. \A o \in Objects : o # "none"
  BY TimersConstants
<1>4. repeats' = repeats /\ state' = state /\ closing' = closing /\ fired' = fired
  BY DEF CallbackReturns
<1>5. CASE Inner.running \in Objects \ repeats /\ js[Inner.running] = "set"
  <2>1. Destroy(loops[1].running, r)
    BY <1>1, <1>5 DEF CallbackReturns, Inner
  <2>2. loops[1].running \in Objects /\ js[loops[1].running] = "set"
    BY <1>5 DEF Inner
  <2>3. \A o \in Objects : StackedIn(r, o) => StackedIn(loops, o)
    BY <1>2, <1>3, Zenon
  <2>4. \A o \in Objects : o # loops[1].running /\ StackedIn(loops, o) => StackedIn(r, o)
    BY <1>2, Zenon
  <2> QED
    BY <1>2, <1>4, <2>1, <2>2, <2>3, <2>4, DestroyKeeps, Zenon
<1>6. CASE ~(Inner.running \in Objects \ repeats /\ js[Inner.running] = "set")
  <2>1. loops' = r /\ js' = js /\ weak' = weak /\ timers' = timers /\ checks' = checks
    BY <1>1, <1>6 DEF CallbackReturns
  <2>2. ~(loops[1].running \in Objects \ repeats /\ js[loops[1].running] = "set")
    BY <1>6 DEF Inner
  <2>3. ASSUME NEW o \in Objects
        PROVE  Agrees(o, js[o], timers, repeats, weak, state[o], QueuedIn(checks, r, o), StackedIn(r, o))
    <3>1. Agrees(o, js[o], timers, repeats, weak, state[o], QueuedIn(checks, loops, o), StackedIn(loops, o))
      BY DEF TimersInv
    <3>2. QueuedIn(checks, r, o) <=> QueuedIn(checks, loops, o)
      BY <1>2, Zenon
    <3>3. StackedIn(r, o) => StackedIn(loops, o)
      BY <1>2, <1>3, Zenon
    <3>4. StackedIn(loops, o) /\ js[o] = "set" /\ o \notin repeats => StackedIn(r, o)
      BY <1>2, <2>2, Zenon
    <3> QED
      BY <3>1, <3>2, <3>3, <3>4, Zenon DEF Agrees
  <2> QED
    BY <1>2, <1>4, <2>1, <2>3 DEF TimersInv, TimerTypes
<1> QED
  BY <1>5, <1>6

\* The loop runs a timer.
LEMMA RunTimersKeeps ==
  ASSUME TimersInv, NEW t \in Timeouts, RunTimers(t)
  PROVE  TimersInv'
<1>1. /\ loops[1].running = "none" /\ t \in timers /\ loops' = [loops EXCEPT ![1].running = t]
      /\ js' = js /\ repeats' = repeats /\ checks' = checks /\ weak' = weak /\ state' = state
      /\ closing' = closing /\ fired' = [fired EXCEPT ![t] = @ + 1]
      /\ timers' = IF t \in repeats THEN timers ELSE timers \ {t}
  BY DEF RunTimers, Runs, Inner, Calls
<1>2. t \in Objects /\ t \notin Immediates
  BY TimersConstants DEF Objects
<1>3. js[t] = "set" /\ t \notin weak /\ state[t] = "kInitialized"
  BY <1>1, <1>2, HeldIsSet
<1>4. /\ loops' \in Seq(LoopRun) /\ loops' # <<>> /\ Tidy(checks, loops')
      /\ \A o : QueuedIn(checks, loops', o) <=> QueuedIn(checks, loops, o)
      /\ \A o : StackedIn(loops', o) => o = t \/ StackedIn(loops, o)
      /\ \A o : StackedIn(loops, o) => o = "none" \/ StackedIn(loops', o)
      /\ StackedIn(loops', t)
  <2>1. t \in Objects \cup {"none", "script"}
    BY <1>2
  <2> QED
    BY <1>1, <2>1, RunningFacts, Zenon
<1>5. TimerTypes'
  BY <1>1, <1>2, <1>4 DEF TimersInv, TimerTypes
<1>6. \A o \in Objects : o # "none"
  BY TimersConstants
<1>7. \A o : o # t => (o \in timers' <=> o \in timers)
  BY <1>1
<1>8. t \in repeats => t \in timers'
  BY <1>1
<1>9. ASSUME NEW o \in Objects
      PROVE  Agrees(o, js[o], timers', repeats, weak, state[o],
                    QueuedIn(checks, loops', o), StackedIn(loops', o))
  <2>1. Agrees(o, js[o], timers, repeats, weak, state[o], QueuedIn(checks, loops, o), StackedIn(loops, o))
    BY DEF TimersInv
  <2>2. CASE o = t
    <3>1. js[t] # "unused" /\ js[t] # "destroyed"
      BY <1>3
    <3> QED
      BY <1>2, <1>3, <1>4, <1>8, <2>2, <3>1, Zenon DEF Agrees
  <2>3. CASE o # t
    <3>1. StackedIn(loops', o) <=> StackedIn(loops, o)
      BY <1>4, <1>6, <2>3, Zenon
    <3>2. QueuedIn(checks, loops', o) <=> QueuedIn(checks, loops, o)
      BY <1>4, Zenon
    <3> QED
      BY <1>7, <2>1, <2>3, <3>1, <3>2, Zenon DEF Agrees
  <2> QED
    BY <2>2, <2>3
<1> QED
  BY <1>1, <1>4, <1>5, <1>9, Zenon DEF TimersInv

\* A step of the loop that leaves every handle where the objects see it.
LEMMA LoopKeeps ==
  ASSUME TimersInv, loops' \in Seq(LoopRun), loops' # <<>>, checks' \in Seq(Immediates),
         Tidy(checks', loops'),
         \A o : QueuedIn(checks', loops', o) <=> QueuedIn(checks, loops, o),
         \A o \in Objects : StackedIn(loops', o) <=> StackedIn(loops, o),
         js' = js, repeats' = repeats, timers' = timers, weak' = weak, state' = state,
         closing' = closing, fired' = fired
  PROVE  TimersInv'
<1>1. TimerTypes'
  BY DEF TimersInv, TimerTypes
<1>2. ASSUME NEW o \in Objects
      PROVE  Agrees(o, js[o], timers, repeats, weak, state[o],
                    QueuedIn(checks', loops', o), StackedIn(loops', o))
  <2>1. Agrees(o, js[o], timers, repeats, weak, state[o], QueuedIn(checks, loops, o), StackedIn(loops, o))
    BY DEF TimersInv
  <2> QED
    BY <2>1, Zenon DEF Agrees
<1> QED
  BY <1>1, <1>2, Zenon DEF TimersInv

\* What is on the stack when the innermost run keeps its callback.
LEMMA SameStack ==
  ASSUME NEW ls \in Seq(LoopRun), ls # <<>>, NEW f \in LoopRun, f.running = ls[1].running,
         NEW r, r = [ls EXCEPT ![1] = f], NEW o
  PROVE  StackedIn(r, o) <=> StackedIn(ls, o)
<1>1. 1 \in DOMAIN ls
  BY InnerFacts
<1>2. ls[1].running = o => StackedIn(ls, o)
  BY <1>1, Zenon DEF StackedIn
<1> QED
  BY <1>2, InnerStack, Zenon

\* The loop polls.
LEMMA PollKeeps ==
  ASSUME TimersInv, Poll
  PROVE  TimersInv'
<1>1. /\ loops[1].phase = "timers" /\ checks' = <<>>
      /\ loops' = [loops EXCEPT ![1].phase = "check", ![1].queue = checks]
      /\ js' = js /\ repeats' = repeats /\ timers' = timers /\ weak' = weak /\ state' = state
      /\ closing' = closing /\ fired' = fired
  BY DEF Poll, Inner
<1>2. /\ loops \in Seq(LoopRun) /\ loops # <<>> /\ loops[1] \in LoopRun
      /\ IsInjective(checks) /\ checks \in Seq(Immediates)
      /\ loops[1].queue = <<>> /\ Tidy(checks, loops)
  BY <1>1, InnerIs
<1>3. PICK f : f = [loops[1] EXCEPT !.phase = "check", !.queue = checks]
  BY Zenon
<1>4. /\ f \in LoopRun /\ f.queue = checks /\ f.phase = "check" /\ f.running = loops[1].running
      /\ loops' = [loops EXCEPT ![1] = f]
  BY <1>1, <1>2, <1>3, Zenon DEF LoopRun
<1>5. Range(loops[1].queue) = {} /\ Range(checks') = {} /\ IsInjective(checks')
  BY <1>1, <1>2 DEF Range, IsInjective
<1>6. loops' \in Seq(LoopRun) /\ loops' # <<>>
  BY <1>2, <1>4, InnerFacts
<1>7. /\ Range(f.queue) \cap Range(checks') = {}
      /\ Range(f.queue) \cup Range(checks') = Range(loops[1].queue) \cup Range(checks)
      /\ f.phase # "timers"
  BY <1>4, <1>5
<1>8. Tidy(checks', loops') /\ \A o : QueuedIn(checks', loops', o) <=> QueuedIn(checks, loops, o)
  BY <1>2, <1>4, <1>5, <1>7, InnerQueues, Zenon
<1>9. ASSUME NEW o PROVE StackedIn(loops', o) <=> StackedIn(loops, o)
  BY <1>2, <1>4, SameStack, Zenon
<1>10. checks' \in Seq(Immediates)
  BY <1>1
<1> QED
  BY <1>1, <1>6, <1>8, <1>9, <1>10, LoopKeeps, Zenon

\* The loop runs an immediate.
LEMMA RunCheckKeeps ==
  ASSUME TimersInv, RunCheck
  PROVE  /\ TimersInv'
         /\ Head(loops[1].queue) \in Objects /\ js[Head(loops[1].queue)] = "set"
<1>1. PICK i : i = Head(loops[1].queue)
  BY Zenon
<1>2. /\ loops[1].running = "none" /\ loops[1].phase = "check" /\ loops[1].queue # <<>>
      /\ loops' = [loops EXCEPT ![1].queue = Tail(@), ![1].running = i]
      /\ checks' = Append(checks, i) /\ fired' = [fired EXCEPT ![i] = @ + 1]
      /\ js' = js /\ repeats' = repeats /\ timers' = timers /\ weak' = weak /\ state' = state
      /\ closing' = closing
  BY <1>1 DEF RunCheck, Runs, Inner, Calls
<1>3. /\ loops \in Seq(LoopRun) /\ loops # <<>> /\ loops[1] \in LoopRun /\ 1 \in DOMAIN loops
      /\ loops[1].queue \in Seq(Immediates) /\ IsInjective(loops[1].queue) /\ IsInjective(checks)
      /\ Range(loops[1].queue) \cap Range(checks) = {} /\ checks \in Seq(Immediates)
      /\ Tidy(checks, loops)
  BY InnerIs
<1>4. PICK q : q = Tail(loops[1].queue)
  BY Zenon
<1>5. /\ q \in Seq(Immediates) /\ IsInjective(q) /\ i \in Immediates /\ i \notin Range(q)
      /\ i \in Range(loops[1].queue) /\ Range(loops[1].queue) = Range(q) \cup {i}
  BY <1>1, <1>2, <1>3, <1>4, TailHolds
<1>6. i \in Objects /\ i \notin Timeouts
  BY <1>5, TimersConstants DEF Objects
<1>7. js[i] = "set" /\ i \notin weak /\ state[i] = "kInitialized" /\ QueuedIn(checks, loops, i)
  <2>1. QueuedIn(checks, loops, i)
    BY <1>3, <1>5, Zenon DEF QueuedIn
  <2> QED
    BY <1>6, <2>1, HeldIsSet
<1>8. i \notin Range(checks)
  BY <1>3, <1>5
<1>9. /\ checks' \in Seq(Immediates) /\ IsInjective(checks')
      /\ Range(checks') = Range(checks) \cup {i}
  BY <1>2, <1>3, <1>5, <1>8, AppendHolds
<1>10. PICK f : f = [loops[1] EXCEPT !.queue = q, !.running = i]
  BY Zenon
<1>11. /\ f \in LoopRun /\ f.queue = q /\ f.phase = "check" /\ f.running = i
       /\ loops' = [loops EXCEPT ![1] = f]
  BY <1>2, <1>3, <1>4, <1>5, <1>6, <1>10, Zenon DEF LoopRun
<1>12. /\ Range(f.queue) \cap Range(checks') = {}
       /\ Range(f.queue) \cup Range(checks') = Range(loops[1].queue) \cup Range(checks)
       /\ f.phase # "timers"
  BY <1>3, <1>5, <1>9, <1>11
<1>13. Tidy(checks', loops') /\ \A o : QueuedIn(checks', loops', o) <=> QueuedIn(checks, loops, o)
  BY <1>3, <1>5, <1>9, <1>11, <1>12, InnerQueues, Zenon
<1>14. loops' \in Seq(LoopRun) /\ loops' # <<>>
  BY <1>3, <1>11, InnerFacts
<1>15. TimerTypes'
  BY <1>2, <1>6, <1>9, <1>14 DEF TimersInv, TimerTypes
<1>16. ASSUME NEW o \in Objects, o # i PROVE StackedIn(loops', o) <=> StackedIn(loops, o)
  <2>1. /\ StackedIn(loops', o) => o = i \/ StackedIn(loops, o)
        /\ StackedIn(loops, o) => o = "none" \/ StackedIn(loops', o)
    BY <1>2, <1>3, <1>11, InnerStack, Zenon
  <2>2. o # "none"
    BY TimersConstants
  <2> QED
    BY <1>16, <2>1, <2>2, Zenon
<1>17. ASSUME NEW o \in Objects
       PROVE  Agrees(o, js[o], timers, repeats, weak, state[o],
                     QueuedIn(checks', loops', o), StackedIn(loops', o))
  <2>1. Agrees(o, js[o], timers, repeats, weak, state[o], QueuedIn(checks, loops, o), StackedIn(loops, o))
    BY DEF TimersInv
  <2>2. CASE o = i
    <3>1. js[i] # "unused" /\ js[i] # "destroyed"
      BY <1>7
    <3> QED
      BY <1>6, <1>7, <1>13, <2>2, <3>1, Zenon DEF Agrees
  <2>3. CASE o # i
    BY <1>13, <1>16, <2>1, <2>3, Zenon DEF Agrees
  <2> QED
    BY <2>2, <2>3
<1>18. TimersInv'
  BY <1>2, <1>13, <1>15, <1>17, Zenon DEF TimersInv
<1> QED
  BY <1>1, <1>6, <1>7, <1>18

\* The run of the loop ends.
LEMMA RunEndsKeeps ==
  ASSUME TimersInv, RunEnds
  PROVE  TimersInv'
<1>1. /\ loops[1].queue = <<>> /\ loops[1].running = "none" /\ checks' = checks
      /\ js' = js /\ repeats' = repeats /\ timers' = timers /\ weak' = weak /\ state' = state
      /\ closing' = closing /\ fired' = fired
  BY DEF RunEnds, Runs, Inner
<1>2. /\ loops \in Seq(LoopRun) /\ loops # <<>> /\ loops[1] \in LoopRun
      /\ IsInjective(loops[1].queue) /\ IsInjective(checks)
      /\ Range(loops[1].queue) \cap Range(checks) = {}
      /\ Tidy(checks, loops) /\ checks \in Seq(Immediates)
  BY InnerIs
<1>3. CASE loops' = [loops EXCEPT ![1].phase = "timers"]
  <2>1. PICK f : f = [loops[1] EXCEPT !.phase = "timers"]
    BY Zenon
  <2>2. /\ f \in LoopRun /\ f.queue = loops[1].queue /\ f.running = loops[1].running
        /\ loops' = [loops EXCEPT ![1] = f]
    BY <1>2, <1>3, <2>1, Zenon DEF LoopRun
  <2>3. loops' \in Seq(LoopRun) /\ loops' # <<>>
    BY <1>2, <2>2, InnerFacts
  <2>6. /\ Range(f.queue) \cap Range(checks') = {}
        /\ Range(f.queue) \cup Range(checks') = Range(loops[1].queue) \cup Range(checks)
        /\ f.queue = <<>> /\ IsInjective(f.queue) /\ IsInjective(checks')
    BY <1>1, <1>2, <2>2
  <2>4. Tidy(checks', loops') /\ \A o : QueuedIn(checks', loops', o) <=> QueuedIn(checks, loops, o)
    BY <1>2, <2>2, <2>6, InnerQueues, Zenon
  <2>5. ASSUME NEW o PROVE StackedIn(loops', o) <=> StackedIn(loops, o)
    BY <1>2, <2>2, SameStack, Zenon
  <2> QED
    BY <1>1, <1>2, <2>3, <2>4, <2>5, LoopKeeps, Zenon
<1>4. CASE Len(loops) > 1 /\ loops' = Tail(loops)
  <2>1. /\ loops' \in Seq(LoopRun) /\ loops' # <<>> /\ Tidy(checks, loops')
        /\ \A o : QueuedIn(checks, loops', o) <=> QueuedIn(checks, loops, o)
        /\ \A o : o # "none" => (StackedIn(loops', o) <=> StackedIn(loops, o))
    BY <1>1, <1>2, <1>4, ResumedFacts, Zenon
  <2>2. \A o \in Objects : o # "none"
    BY TimersConstants
  <2>3. \A o \in Objects : StackedIn(loops', o) <=> StackedIn(loops, o)
    BY <2>1, <2>2, Zenon
  <2> QED
    BY <1>1, <1>2, <2>1, <2>3, LoopKeeps, Zenon
<1> QED
  BY <1>3, <1>4 DEF RunEnds

\* A debugger pauses.
LEMMA PauseKeeps ==
  ASSUME TimersInv, Pause
  PROVE  TimersInv'
<1>1. PICK f : f = [phase |-> "timers", queue |-> <<>>, running |-> "none"]
  BY Zenon
<1>2. f \in LoopRun
  BY <1>1 DEF LoopRun
<1>3. /\ loops' = <<f>> \o loops /\ checks' = checks
      /\ js' = js /\ repeats' = repeats /\ timers' = timers /\ weak' = weak /\ state' = state
      /\ closing' = closing /\ fired' = fired
  BY <1>1 DEF Pause
<1>4. loops \in Seq(LoopRun) /\ Tidy(checks, loops) /\ checks \in Seq(Immediates)
  BY InnerIs
<1>5. /\ loops' \in Seq(LoopRun) /\ loops' # <<>> /\ Tidy(checks, loops')
      /\ \A o : QueuedIn(checks, loops', o) <=> QueuedIn(checks, loops, o)
      /\ \A o : o # "none" => (StackedIn(loops', o) <=> StackedIn(loops, o))
  BY <1>1, <1>2, <1>3, <1>4, PausedFacts, Zenon
<1>6. \A o \in Objects : o # "none"
  BY TimersConstants
<1>7. \A o \in Objects : StackedIn(loops', o) <=> StackedIn(loops, o)
  BY <1>5, <1>6, Zenon
<1> QED
  BY <1>3, <1>4, <1>5, <1>7, LoopKeeps, Zenon

\* r has handles of o, and beside them those of cl.
AddsOf(r, cl, o) == \A h \in DOMAIN r : r[h].of = o \/ \E g \in DOMAIN cl : r[h] = cl[g]

\* The handles of a wrap that closes go before the others, its own last.
LEMMA CloseFacts ==
  ASSUME NEW o \in Objects, NEW cl \in Seq(ClosingHandle), NEW r, r = Close(o) \o cl,
         \A h \in DOMAIN cl : cl[h].of # o,
         OwnEnds(cl)
  PROVE  r \in Seq(ClosingHandle) /\ AddsOf(r, cl, o) /\ OwnEnds(r)
<1>1. PICK a, b : a = [of |-> o, own |-> FALSE] /\ b = [of |-> o, own |-> TRUE]
  BY Zenon
<1>2. a \in ClosingHandle /\ a.of = o /\ a.own = FALSE /\ b \in ClosingHandle /\ b.of = o /\ b.own = TRUE
  BY <1>1 DEF ClosingHandle
<1>3. PICK n \in Nat : n = Len(cl) /\ DOMAIN cl = 1..n
  BY LenProperties
<1>4. PICK u : u = <<b>> \o cl
  BY Zenon
<1>5. /\ u \in Seq(ClosingHandle) /\ Len(u) = n + 1 /\ DOMAIN u = 1..(n + 1) /\ u[1] = b
      /\ \A i \in 2..(n + 1) : u[i] = cl[i - 1]
  BY <1>2, <1>3, <1>4, PushFacts, LenProperties
<1>6. \A h \in 2..(n + 1) : h - 1 \in DOMAIN cl /\ u[h] = cl[h - 1] /\ u[h].of # o
  <2>1. \A h \in 2..(n + 1) : h - 1 \in DOMAIN cl
    BY <1>3
  <2> QED
    BY <1>5, <2>1, Zenon
<1>7. OwnEnds(u)
  <2> SUFFICES ASSUME NEW h \in DOMAIN u, NEW g \in DOMAIN u, h < g, u[h].own
               PROVE  u[g].of # u[h].of
    BY Zenon DEF OwnEnds
  <2>1. g \in 2..(n + 1)
    BY <1>5
  <2>2. CASE h = 1
    BY <1>2, <1>5, <1>6, <2>1, <2>2
  <2>3. CASE h # 1
    <3>1. h \in 2..(n + 1) /\ h - 1 < g - 1
      BY <1>5, <2>1, <2>3
    <3>2. u[h] = cl[h - 1] /\ u[g] = cl[g - 1] /\ h - 1 \in DOMAIN cl /\ g - 1 \in DOMAIN cl
      BY <1>6, <2>1, <3>1, Zenon
    <3> QED
      BY <3>1, <3>2, Zenon DEF OwnEnds
  <2> QED
    BY <2>2, <2>3
<1>8. AddsOf(u, cl, o)
  <2> SUFFICES ASSUME NEW h \in DOMAIN u, h # 1 PROVE \E g \in DOMAIN cl : u[h] = cl[g]
    BY <1>2, <1>5, Zenon DEF AddsOf
  <2>1. h \in 2..(n + 1)
    BY <1>5
  <2> QED
    BY <1>6, <2>1, Zenon
<1>9. CASE o \notin Immediates
  <2>1. Close(o) = <<>> \o <<b>>
    BY <1>1, <1>9, Zenon DEF Close, IdleHandle, Own
  <2>2. <<b>> \in Seq(ClosingHandle)
    BY <1>2
  <2>3. <<>> \o <<b>> = <<b>>
    BY <2>2, ConcatEmptySeq
  <2>4. r = u
    BY <1>4, <2>1, <2>3, Zenon
  <2> QED
    BY <1>5, <1>7, <1>8, <2>4, Zenon
<1>10. CASE o \in Immediates
  <2>1. Close(o) = <<a>> \o <<b>>
    BY <1>1, <1>10, Zenon DEF Close, IdleHandle, Own
  <2>2. r = <<a>> \o u
    <3>1. <<a>> \in Seq(ClosingHandle) /\ <<b>> \in Seq(ClosingHandle)
      BY <1>2
    <3>2. (<<a>> \o <<b>>) \o cl = <<a>> \o (<<b>> \o cl)
      BY <3>1, ConcatAssociative
    <3> QED
      BY <1>4, <2>1, <3>2, Zenon
  <2>3. /\ r \in Seq(ClosingHandle) /\ DOMAIN r = 1..(n + 2) /\ r[1] = a
        /\ \A i \in 2..(n + 2) : r[i] = u[i - 1]
    <3>1. /\ r \in Seq(ClosingHandle) /\ Len(r) = Len(u) + 1 /\ r[1] = a
          /\ \A i \in 2..(Len(u) + 1) : r[i] = u[i - 1]
      BY <1>2, <1>5, <2>2, PushFacts
    <3>2. Len(u) + 1 = n + 2
      BY <1>5
    <3> QED
      BY <3>1, <3>2, LenProperties
  <2>4. \A h \in 2..(n + 2) : h - 1 \in DOMAIN u /\ r[h] = u[h - 1]
    BY <1>5, <2>3
  <2>5. ASSUME NEW h \in DOMAIN r PROVE r[h].of = o \/ \E g \in DOMAIN cl : r[h] = cl[g]
    <3>1. CASE h = 1
      BY <1>2, <2>3, <3>1, Zenon
    <3>2. CASE h # 1
      <4>1. h \in 2..(n + 2)
        BY <2>3, <3>2
      <4> QED
        BY <1>8, <2>4, <4>1, Zenon DEF AddsOf
    <3> QED
      BY <3>1, <3>2
  <2>6. ASSUME NEW h \in DOMAIN r, NEW g \in DOMAIN r, h < g, r[h].own PROVE r[g].of # r[h].of
    <3>1. h # 1
      BY <1>2, <2>3, <2>6, Zenon
    <3>2. h \in 1..(n + 2) /\ g \in 1..(n + 2)
      BY <2>3
    <3>3. h \in 2..(n + 2) /\ g \in 2..(n + 2) /\ h - 1 < g - 1
      BY <2>6, <3>1, <3>2
    <3>4. r[h] = u[h - 1] /\ r[g] = u[g - 1] /\ h - 1 \in DOMAIN u /\ g - 1 \in DOMAIN u
      BY <2>4, <3>3, Zenon
    <3> QED
      BY <1>7, <2>6, <3>3, <3>4, Zenon DEF OwnEnds
  <2> QED
    BY <2>3, <2>5, <2>6, Zenon DEF OwnEnds, AddsOf
<1> QED
  BY <1>9, <1>10

\* What a closing handle is.
LEMMA HandleFacts ==
  ASSUME NEW cl \in Seq(ClosingHandle), NEW h \in DOMAIN cl
  PROVE  cl[h] \in ClosingHandle /\ cl[h].of \in Objects
<1>1. cl[h] \in ClosingHandle
  BY LenProperties
<1> QED
  BY <1>1 DEF ClosingHandle

\* OnGCCollect.
LEMMA WrapGoesKeeps ==
  ASSUME TimersInv, NEW o \in Objects, Collect(o)
  PROVE  TimersInv'
<1>1. /\ o \in weak /\ ~StackedIn(loops, o) /\ state[o] = "kInitialized"
      /\ state' = [state EXCEPT ![o] = "kClosing"] /\ closing' = Close(o) \o closing
      /\ js' = js /\ repeats' = repeats /\ timers' = timers /\ checks' = checks /\ weak' = weak
      /\ loops' = loops /\ fired' = fired
  BY DEF Collect, OnStack, StackedIn
<1>2. /\ closing \in Seq(ClosingHandle)
      /\ \A h \in DOMAIN closing : state[closing[h].of] = "kClosing"
      /\ OwnEnds(closing)
  BY DEF TimersInv, TimerTypes, OwnLast
<1>3. state'[o] = "kClosing" /\ \A x \in Objects : x # o => state'[x] = state[x]
  BY <1>1 DEF TimersInv, TimerTypes
<1>4. \A h \in DOMAIN closing : closing[h].of # o
  BY <1>1, <1>2
<1>5. closing' \in Seq(ClosingHandle) /\ AddsOf(closing', closing, o) /\ OwnEnds(closing')
  BY <1>1, <1>2, <1>4, CloseFacts, Zenon
<1>6. ASSUME NEW h \in DOMAIN closing' PROVE state'[closing'[h].of] = "kClosing"
  <2>1. CASE closing'[h].of = o
    BY <1>3, <2>1
  <2>2. CASE \E g \in DOMAIN closing : closing'[h] = closing[g]
    <3>1. PICK g \in DOMAIN closing : closing'[h] = closing[g]
      BY <2>2
    <3>2. closing[g].of \in Objects
      BY <1>2, HandleFacts
    <3> QED
      BY <1>2, <1>3, <1>4, <3>1, <3>2, Zenon
  <2> QED
    BY <1>5, <2>1, <2>2, Zenon DEF AddsOf
<1>7. OwnLast(closing', state')
  BY <1>5, <1>6, Zenon DEF OwnLast
<1>8. TimerTypes'
  BY <1>1, <1>5 DEF TimersInv, TimerTypes
<1>9. ASSUME NEW x \in Objects
      PROVE  Agrees(x, js[x], timers, repeats, weak, state'[x],
                    QueuedIn(checks, loops, x), StackedIn(loops, x))
  <2>1. Agrees(x, js[x], timers, repeats, weak, state[x], QueuedIn(checks, loops, x), StackedIn(loops, x))
    BY DEF TimersInv
  <2>2. CASE x = o
    BY <1>1, <2>1, <2>2, Zenon DEF Agrees
  <2>3. CASE x # o
    BY <1>3, <2>1, <2>3, Zenon DEF Agrees
  <2> QED
    BY <2>2, <2>3
<1> QED
  BY <1>1, <1>7, <1>8, <1>9 DEF TimersInv

\* The loop closes a handle.
LEMMA RunClosingKeeps ==
  ASSUME TimersInv, RunClosing
  PROVE  TimersInv'
<1>1. /\ closing # <<>> /\ closing' = Tail(closing)
      /\ js' = js /\ repeats' = repeats /\ timers' = timers /\ checks' = checks /\ weak' = weak
      /\ loops' = loops /\ fired' = fired
      /\ state' = IF Head(closing).own THEN [state EXCEPT ![Head(closing).of] = "kClosed"] ELSE state
  BY DEF RunClosing
<1>2. /\ closing \in Seq(ClosingHandle)
      /\ \A h \in DOMAIN closing : state[closing[h].of] = "kClosing"
      /\ OwnEnds(closing)
  BY DEF TimersInv, TimerTypes, OwnLast
<1>3. PICK n \in Nat : n = Len(closing) /\ DOMAIN closing = 1..n /\ 1 \in DOMAIN closing
  BY <1>1, <1>2, LenProperties, EmptySeq
<1>4. Head(closing) = closing[1] /\ closing[1].of \in Objects
  BY <1>1, <1>2, <1>3, HandleFacts, HeadTailProperties
<1>5. /\ closing' \in Seq(ClosingHandle) /\ DOMAIN closing' = 1..(n - 1)
      /\ \A i \in 1..(n - 1) : closing'[i] = closing[i + 1]
  BY <1>1, <1>2, <1>3, PopFacts, LenProperties
<1>6. \A h \in DOMAIN closing' : h + 1 \in DOMAIN closing /\ 1 < h + 1 /\ closing'[h] = closing[h + 1]
  BY <1>3, <1>5
<1>7. \A h, g \in DOMAIN closing' : h < g => h + 1 < g + 1
  BY <1>5
<1>8. OwnEnds(closing')
  <2> SUFFICES ASSUME NEW h \in DOMAIN closing', NEW g \in DOMAIN closing', h < g, closing'[h].own
               PROVE  closing'[g].of # closing'[h].of
    BY Zenon DEF OwnEnds
  <2>1. /\ h + 1 \in DOMAIN closing /\ g + 1 \in DOMAIN closing /\ h + 1 < g + 1
        /\ closing'[h] = closing[h + 1] /\ closing'[g] = closing[g + 1]
    BY <1>6, <1>7, Zenon
  <2> QED
    BY <1>2, <2>1, Zenon DEF OwnEnds
<1>9. PICK o \in Objects : o = closing[1].of
  BY <1>4
<1>10. \A x \in Objects : x # o => state'[x] = state[x]
  BY <1>1, <1>4, <1>9 DEF TimersInv, TimerTypes
<1>11. ASSUME NEW h \in DOMAIN closing' PROVE state'[closing'[h].of] = "kClosing"
  <2>1. closing'[h].of \in Objects /\ state[closing'[h].of] = "kClosing"
    <3>1. PICK g \in DOMAIN closing : closing'[h] = closing[g]
      BY <1>6, Zenon
    <3>2. closing[g].of \in Objects /\ state[closing[g].of] = "kClosing"
      BY <1>2, HandleFacts
    <3> QED
      BY <3>1, <3>2, Zenon
  <2>2. CASE closing[1].own
    <3>1. closing'[h].of # o
      BY <1>2, <1>3, <1>6, <1>9, <2>2, Zenon DEF OwnEnds
    <3> QED
      BY <1>10, <2>1, <3>1, Zenon
  <2>3. CASE ~closing[1].own
    <3>1. state' = state
      BY <1>1, <1>4, <2>3
    <3> QED
      BY <2>1, <3>1, Zenon
  <2> QED
    BY <2>2, <2>3
<1>12. OwnLast(closing', state')
  BY <1>8, <1>11, Zenon DEF OwnLast
<1>13. TimerTypes'
  BY <1>1, <1>4, <1>5 DEF TimersInv, TimerTypes
<1>14. state[o] = "kClosing"
  BY <1>2, <1>3, <1>9
<1>15. ASSUME NEW x \in Objects
       PROVE  Agrees(x, js[x], timers, repeats, weak, state'[x],
                     QueuedIn(checks, loops, x), StackedIn(loops, x))
  <2>1. Agrees(x, js[x], timers, repeats, weak, state[x], QueuedIn(checks, loops, x), StackedIn(loops, x))
    BY DEF TimersInv
  <2>2. CASE x = o
    <3>1. state[o] # "kInitialized"
      BY <1>14
    <3> QED
      BY <2>1, <2>2, <3>1, Zenon DEF Agrees
  <2>3. CASE x # o
    BY <1>10, <2>1, <2>3, Zenon DEF Agrees
  <2> QED
    BY <2>2, <2>3
<1> QED
  BY <1>1, <1>12, <1>13, <1>15 DEF TimersInv

\* Every step keeps the invariant.
LEMMA TimersStep == TimersInv /\ [TimersNext]_timersVars => TimersInv'
<1> SUFFICES ASSUME TimersInv, [TimersNext]_timersVars PROVE TimersInv'
  OBVIOUS
<1>1. CASE \E t \in Timeouts, d \in Spans, loop \in BOOLEAN : Spin(t, d, loop)
  BY <1>1, SpinKeeps
<1>2. CASE \E i \in Immediates : RunImmediate(i)
  BY <1>2, RunImmediateKeeps
<1>3. CASE \E o \in Objects : Clear(o) \/ Collect(o)
  BY <1>3, ClearKeeps, WrapGoesKeeps
<1>4. CASE \E t \in Timeouts : RunTimers(t)
  BY <1>4, RunTimersKeeps
<1>5. CASE CallbackReturns
  BY <1>5, CallbackReturnsKeeps
<1>6. CASE Poll
  BY <1>6, PollKeeps
<1>7. CASE RunCheck
  BY <1>7, RunCheckKeeps
<1>8. CASE RunClosing
  BY <1>8, RunClosingKeeps
<1>9. CASE RunEnds
  BY <1>9, RunEndsKeeps
<1>10. CASE Pause
  BY <1>10, PauseKeeps
<1>11. CASE UNCHANGED timersVars
  BY <1>11 DEF timersVars, TimersInv, TimerTypes
<1> QED
  BY <1>1, <1>2, <1>3, <1>4, <1>5, <1>6, <1>7, <1>8, <1>9, <1>10, <1>11 DEF TimersNext

\* What a script has set is active in the event loop and what it cleared is not,
\* and no wrap is deleted under a callback or before the last of its handles has
\* closed, for any timers and immediates and any nesting of the loop (Timeout,
\* Immediate, TimerWrap, ImmediateWrap, HandleWrap::OnClose).
THEOREM TimersAreKept == TimersSpec => []TimersKept
<1>1. TimersInv => TimersKept
  <2> SUFFICES ASSUME TimersInv PROVE TimersKept
    OBVIOUS
  <2>1. ASSUME NEW o \in Objects
        PROVE  /\ js[o] = "set" => /\ state[o] = "kInitialized"
                                   /\ o \in timers \/ QueuedIn(checks, loops, o) \/ StackedIn(loops, o)
               /\ js[o] = "destroyed" => o \notin timers /\ ~QueuedIn(checks, loops, o)
               /\ StackedIn(loops, o) => state[o] = "kInitialized"
    <3>1. Agrees(o, js[o], timers, repeats, weak, state[o],
                 QueuedIn(checks, loops, o), StackedIn(loops, o))
      BY DEF TimersInv
    <3>2. o \in Timeouts \/ o \in Immediates
      BY DEF Objects
    <3> QED
      BY <3>1, <3>2, Zenon DEF Agrees
  <2>2. \A o : (Queued(o) <=> QueuedIn(checks, loops, o)) /\ (OnStack(o) <=> StackedIn(loops, o))
    BY Zenon DEF Queued, QueuedIn, OnStack, StackedIn
  <2>3. SetIsActive
    BY <2>1, <2>2, Zenon DEF SetIsActive
  <2>4. \A o \in Objects : OnStack(o) => state[o] # "kClosed"
    BY <2>1, <2>2
  <2>5. \A h \in DOMAIN closing : state[closing[h].of] # "kClosed"
    BY DEF TimersInv, OwnLast
  <2> QED
    BY <2>3, <2>4, <2>5, Zenon DEF TimersKept, WrapOutlivesHandles
<1> QED
  BY <1>1, TimersInitInv, TimersStep, PTL DEF TimersSpec

\* No callback begins for an object that was cleared, within the pass of the loop
\* that found it due included (clearTimeout, clearImmediate, TriggerTimer,
\* TriggerImmediate).
THEOREM ClearedIsQuiet == TimersSpec => ClearedStaysQuiet
<1>1. ASSUME TimersInv, TimersNext
      PROVE  \A o \in Objects : fired'[o] > fired[o] => js[o] = "set"
  <2>0. \A o \in Objects : ~(fired[o] > fired[o])
    BY <1>1 DEF TimersInv, TimerTypes
  <2>1. ASSUME NEW t \in Timeouts, RunTimers(t)
        PROVE  \A o \in Objects : fired'[o] > fired[o] => js[o] = "set"
    <3>1. t \in timers /\ fired' = [fired EXCEPT ![t] = @ + 1] /\ t \in Objects
      BY <2>1 DEF RunTimers, Calls, Objects
    <3>2. js[t] = "set"
      BY <1>1, <3>1, HeldIsSet
    <3>3. \A o \in Objects : o # t => fired'[o] = fired[o]
      BY <1>1, <3>1 DEF TimersInv, TimerTypes
    <3> QED
      BY <2>0, <3>2, <3>3, Zenon
  <2>2. ASSUME RunCheck
        PROVE  \A o \in Objects : fired'[o] > fired[o] => js[o] = "set"
    <3>1. PICK i : i = Head(loops[1].queue)
      BY Zenon
    <3>2. fired' = [fired EXCEPT ![i] = @ + 1]
      BY <2>2, <3>1 DEF RunCheck, Calls, Inner
    <3>3. i \in Objects /\ js[i] = "set"
      BY <1>1, <2>2, <3>1, RunCheckKeeps
    <3>4. \A o \in Objects : o # i => fired'[o] = fired[o]
      BY <1>1, <3>2, <3>3 DEF TimersInv, TimerTypes
    <3> QED
      BY <2>0, <3>3, <3>4, Zenon
  <2>3. CASE fired' = fired
    BY <2>0, <2>3, Zenon
  <2>4. fired' = fired \/ RunCheck \/ \E t \in Timeouts : RunTimers(t)
    BY <1>1, Zenon DEF TimersNext, Spin, RunImmediate, Clear, Collect, CallbackReturns, Poll, RunClosing, RunEnds, Pause
  <2> QED
    BY <2>1, <2>2, <2>3, <2>4
<1>2. TimersInv /\ [TimersNext]_timersVars
        => [\A o \in Objects : fired'[o] > fired[o] => js[o] = "set"]_timersVars
  BY <1>1
<1> QED
  BY <1>2, TimersInitInv, TimersStep, PTL DEF TimersSpec, ClearedStaysQuiet

=============================================================================
