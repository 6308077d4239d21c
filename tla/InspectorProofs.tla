--------------------------- MODULE InspectorProofs ---------------------------
(***************************************************************************)
(* The inspector.  First, the requests are called in the order they were   *)
(* posted and none is forgotten, however the calls nest on the main        *)
(* thread, whatever else interrupts it, and wherever JavaScript pauses.    *)
(* Then, the worker and the agent agree on the sessions, for any sessions, *)
(* any requests and any bounds.  FInv says where the main thread may be    *)
(* and what releases it.  OInv follows each session's objects through the  *)
(* queue of requests: what is created, connected and deleted comes in that *)
(* order, once.  Counted and Leaving tie the main thread's count of        *)
(* sessions, and its way out, to the objects that are left.                *)
(***************************************************************************)
EXTENDS InspectorSessions, InspectorQueue, StackFacts, FiniteSetTheorems

-----------------------------------------------------------------------------
(* Sequences *)

\* The numbers up to n, in order.
Counting(n) == [k \in 1..n |-> k]

\* Counting on.
LEMMA CountOn ==
  ASSUME NEW n \in Nat
  PROVE  Counting(n) \in Seq(Nat) /\ Append(Counting(n), n + 1) = Counting(n + 1)
<1>1. Counting(n) \in Seq(Nat) /\ Len(Counting(n)) = n /\ Counting(n + 1) \in Seq(Nat)
      /\ Len(Counting(n + 1)) = n + 1
  BY DEF Counting
<1>2. /\ Append(Counting(n), n + 1) \in Seq(Nat) /\ Len(Append(Counting(n), n + 1)) = n + 1
      /\ Append(Counting(n), n + 1)[n + 1] = n + 1
      /\ \A k \in 1..n : Append(Counting(n), n + 1)[k] = Counting(n)[k]
  BY <1>1, AppendProperties
<1>3. \A k \in 1..n : Counting(n)[k] = k
  BY DEF Counting
<1>4. \A k \in 1..(n + 1) : Counting(n + 1)[k] = k
  BY DEF Counting
<1>5. \A k \in 1..(n + 1) : Append(Counting(n), n + 1)[k] = Counting(n + 1)[k]
  <2> SUFFICES ASSUME NEW k \in 1..(n + 1)
               PROVE  Append(Counting(n), n + 1)[k] = Counting(n + 1)[k]
    BY Zenon
  <2>1. k = n + 1 \/ k \in 1..n
    OBVIOUS
  <2> QED
    BY <1>2, <1>3, <1>4, <2>1
<1> QED
  BY <1>1, <1>2, <1>5, SeqEqual

\* What is appended to the last of three sequences is appended to the whole.
LEMMA AppendLast ==
  ASSUME NEW S, NEW a \in Seq(S), NEW b \in Seq(S), NEW c \in Seq(S), NEW x \in S
  PROVE  a \o b \o Append(c, x) = Append(a \o b \o c, x)
<1>1. a \o b \in Seq(S)
  BY ConcatProperties
<1> QED
  BY <1>1, AppendIsConcat, ConcatAssociative, ConcatProperties

\* What is counted on at the end of the last of three sequences.
LEMMA CountLast ==
  ASSUME NEW n \in Nat, NEW a \in Seq(Nat), NEW b \in Seq(Nat), NEW c \in Seq(Nat)
  PROVE  /\ Append(c, n + 1) \in Seq(Nat)
         /\ a \o b \o c = Counting(n) => a \o b \o Append(c, n + 1) = Counting(n + 1)
<1> DEFINE m == n + 1
<1>1. m \in Nat
  OBVIOUS
<1>2. Append(Counting(n), m) = Counting(m)
  BY CountOn, Zenon
<1> HIDE DEF m
<1>3. Append(c, m) \in Seq(Nat)
  BY <1>1, AppendProperties
<1>4. a \o b \o Append(c, m) = Append(a \o b \o c, m)
  BY <1>1, AppendLast
<1> QED
  BY <1>2, <1>3, <1>4, Zenon DEF m

\* An empty one in the middle changes places with the last.
LEMMA SwapMiddle ==
  ASSUME NEW S, NEW a \in Seq(S), NEW c \in Seq(S)
  PROVE  a \o <<>> \o c = a \o c \o <<>>
<1>1. a \o c \in Seq(S)
  BY ConcatProperties
<1> QED
  BY <1>1, ConcatEmptySeq

\* The head of the second moves to the end of the first.
LEMMA MoveHead ==
  ASSUME NEW S, NEW a \in Seq(S), NEW b \in Seq(S), b # <<>>
  PROVE  Append(a, Head(b)) \o Tail(b) = a \o b
<1>0. Len(b) \in Nat \ {0} /\ Head(b) = b[1]
  BY EmptySeq
<1>1. Head(b) \in S /\ Tail(b) \in Seq(S) /\ b = <<Head(b)>> \o Tail(b)
  <2>1. b = <<b[1]>> \o SubSeq(b, 1 + 1, Len(b))
    BY <1>0, SubSeqRecursiveFirst, SubSeqFull
  <2>2. Tail(b) = SubSeq(b, 2, Len(b))
    BY TailIsSubSeq
  <2>3. Head(b) \in S /\ Tail(b) \in Seq(S)
    BY HeadTailProperties
  <2> QED
    BY <1>0, <2>1, <2>2, <2>3
<1>2. Append(a, Head(b)) = a \o <<Head(b)>> /\ <<Head(b)>> \in Seq(S)
  BY <1>1, AppendIsConcat
<1> QED
  BY <1>1, <1>2, ConcatAssociative

\* Where an element is after an append and after the head has left.
LEMMA InAppend ==
  ASSUME NEW S, NEW s \in Seq(S), NEW x \in S
  PROVE  In(x, Append(s, x)) /\ \A y : In(y, s) => In(y, Append(s, x))
<1>1. /\ Append(s, x) \in Seq(S) /\ Len(Append(s, x)) = Len(s) + 1 /\ Len(s) \in Nat
      /\ \A i \in 1..Len(s) : Append(s, x)[i] = s[i]
      /\ Append(s, x)[Len(s) + 1] = x
  BY AppendProperties, LenProperties
<1>2. DOMAIN Append(s, x) = 1..(Len(s) + 1) /\ DOMAIN s = 1..Len(s)
  BY <1>1, LenProperties
<1> QED
  BY <1>1, <1>2 DEF In

\* What is in a sequence and is not its head is in its tail.
LEMMA InTail ==
  ASSUME NEW S, NEW s \in Seq(S), s # <<>>, NEW x, x # Head(s), In(x, s)
  PROVE  In(x, Tail(s))
<1>1. /\ Tail(s) \in Seq(S) /\ Len(Tail(s)) = Len(s) - 1 /\ Len(s) \in Nat
      /\ \A i \in 1..Len(Tail(s)) : Tail(s)[i] = s[i + 1]
  BY HeadTailProperties, LenProperties
<1>2. DOMAIN s = 1..Len(s) /\ DOMAIN Tail(s) = 1..(Len(s) - 1) /\ Head(s) = s[1]
  BY <1>1, LenProperties
<1>3. PICK i \in 1..Len(s) : s[i] = x
  BY <1>2 DEF In
<1>4. i - 1 \in 1..(Len(s) - 1) /\ Tail(s)[i - 1] = x
  BY <1>1, <1>2, <1>3
<1> QED
  BY <1>2, <1>4, Zenon DEF In

-----------------------------------------------------------------------------
(* The requests *)

Interrupt == Others \cup {"dispatch"}

Frame == [at : {"exhaust"}, list : Seq(Interrupt)] \cup [at : {"swap", "drain"}, had : BOOLEAN]
         \cup [at : {"call"}, request : Nat] \cup [at : {"check", "wait", "poll"}]

\* The frame will look for requests once more before its call returns.
Looks(f) == \/ f.at = "swap"
            \/ f.at = "drain" /\ f.had
            \/ f.at = "exhaust" /\ In("dispatch", f.list)

Looking(s) == \E i \in 1..Len(s) : Looks(s[i])
Dispatches(s) == \E i \in 1..Len(s) : s[i].at \in {"swap", "drain"}

\* Where a call has left, DispatchMessages is walking a batch that it took.
Walks(f) == f.at # "swap" /\ (f.at = "drain" => f.had)
Below(s) == \A i \in 2..Len(s) : Walks(s[i])

\* DispatchMessages that took nothing has nothing.
Dry(s, b) == s # <<>> /\ s[1].at = "drain" /\ ~s[1].had => b = <<>>

\* A frame pushed on a frame that walks: what looks and what dispatches still does.
LEMMA Pushed ==
  ASSUME NEW s \in Seq(Frame), NEW f \in Frame, Below(s), s # <<>> => Walks(s[1])
  PROVE  LET t == <<f>> \o s
         IN /\ t \in Seq(Frame) /\ t # <<>> /\ t[1] = f /\ Below(t)
            /\ Looks(f) \/ Looking(s) => Looking(t)
            /\ Dispatches(s) \/ f.at \in {"swap", "drain"} => Dispatches(t)
<1> DEFINE t == <<f>> \o s
<1>1. /\ t \in Seq(Frame) /\ Len(t) = Len(s) + 1 /\ t[1] = f /\ t # <<>> /\ Len(s) \in Nat
      /\ \A i \in 1..Len(s) : t[i + 1] = s[i]
      /\ \A i \in 2..(Len(s) + 1) : t[i] = s[i - 1]
  BY PushFacts, LenProperties
<1>2. s # <<>> => Len(s) # 0
  BY EmptySeq
<1>3. Len(s) # 0 => s # <<>>
  BY EmptySeq
<1> HIDE DEF t
<1>4. Below(t)
  <2> SUFFICES ASSUME NEW i \in 2..(Len(s) + 1) PROVE Walks(t[i])
    BY <1>1 DEF Below
  <2>1. t[i] = s[i - 1]
    BY <1>1
  <2>2. CASE i = 2
    BY <1>1, <1>3, <2>1, <2>2
  <2>3. CASE i # 2
    BY <1>1, <2>1, <2>3 DEF Below
  <2> QED
    BY <2>2, <2>3
<1>5. Looks(f) \/ Looking(s) => Looking(t)
  <2>1. Looks(f) => Looking(t)
    BY <1>1 DEF Looking
  <2>2. ASSUME NEW i \in 1..Len(s), Looks(s[i]) PROVE Looking(t)
    <3>1. i + 1 \in 1..Len(t) /\ t[i + 1] = s[i]
      BY <1>1
    <3> QED
      BY <2>2, <3>1 DEF Looking
  <2> QED
    BY <2>1, <2>2 DEF Looking
<1>6. Dispatches(s) \/ f.at \in {"swap", "drain"} => Dispatches(t)
  <2>1. f.at \in {"swap", "drain"} => Dispatches(t)
    BY <1>1 DEF Dispatches
  <2>2. ASSUME NEW i \in 1..Len(s), s[i].at \in {"swap", "drain"} PROVE Dispatches(t)
    <3>1. i + 1 \in 1..Len(t) /\ t[i + 1] = s[i]
      BY <1>1
    <3> QED
      BY <2>2, <3>1 DEF Dispatches
  <2> QED
    BY <2>1, <2>2 DEF Dispatches
<1> QED
  BY <1>1, <1>4, <1>5, <1>6 DEF t

\* The top frame returns: what looks or dispatches below it still does.
LEMMA Popped ==
  ASSUME NEW s \in Seq(Frame), s # <<>>, Below(s)
  PROVE  LET t == Tail(s)
         IN /\ t \in Seq(Frame) /\ Below(t) /\ \A b : Dry(t, b)
            /\ t # <<>> => Walks(t[1])
            /\ Looking(s) /\ ~Looks(s[1]) => Looking(t)
            /\ Dispatches(s) /\ s[1].at \notin {"swap", "drain"} => Dispatches(t)
<1> DEFINE t == Tail(s)
<1>1. /\ t \in Seq(Frame) /\ Len(t) = Len(s) - 1 /\ Len(s) \in Nat \ {0}
      /\ \A i \in 1..(Len(s) - 1) : t[i] = s[i + 1]
      /\ \A i \in 2..Len(s) : t[i - 1] = s[i]
  BY PopFacts
<1>2. t # <<>> => Len(s) >= 2
  BY <1>1, EmptySeq
<1> HIDE DEF t
<1>3. t # <<>> => Walks(t[1])
  BY <1>1, <1>2 DEF Below
<1>4. Below(t)
  BY <1>1 DEF Below
<1>5. Looking(s) /\ ~Looks(s[1]) => Looking(t)
  <2> SUFFICES ASSUME NEW i \in 1..Len(s), Looks(s[i]), ~Looks(s[1]) PROVE Looking(t)
    BY DEF Looking
  <2>1. i # 1
    OBVIOUS
  <2>2. i - 1 \in 1..Len(t) /\ t[i - 1] = s[i]
    BY <1>1, <2>1
  <2> QED
    BY <2>2 DEF Looking
<1>6. Dispatches(s) /\ s[1].at \notin {"swap", "drain"} => Dispatches(t)
  <2> SUFFICES ASSUME NEW i \in 1..Len(s), s[i].at \in {"swap", "drain"},
                      s[1].at \notin {"swap", "drain"}
               PROVE  Dispatches(t)
    BY DEF Dispatches
  <2>1. i # 1
    OBVIOUS
  <2>2. i - 1 \in 1..Len(t) /\ t[i - 1] = s[i]
    BY <1>1, <2>1
  <2> QED
    BY <2>2 DEF Dispatches
<1> QED
  BY <1>1, <1>3, <1>4, <1>5, <1>6 DEF t, Dry, Walks

\* The top frame moves on.
LEMMA Topped ==
  ASSUME NEW s \in Seq(Frame), s # <<>>, NEW f \in Frame, Below(s)
  PROVE  LET t == [s EXCEPT ![1] = f]
         IN /\ t \in Seq(Frame) /\ t # <<>> /\ t[1] = f /\ Below(t)
            /\ Looks(f) \/ (Looking(s) /\ ~Looks(s[1])) => Looking(t)
            /\ f.at \in {"swap", "drain"} \/ (Dispatches(s) /\ s[1].at \notin {"swap", "drain"})
                 => Dispatches(t)
<1> DEFINE t == [s EXCEPT ![1] = f]
<1>1. /\ t \in Seq(Frame) /\ Len(t) = Len(s) /\ t[1] = f /\ t # <<>> /\ Len(s) \in Nat \ {0}
      /\ \A i \in 2..Len(s) : t[i] = s[i]
  BY SetFacts
<1> HIDE DEF t
<1>2. Below(t)
  BY <1>1 DEF Below
<1>3. Looks(f) \/ (Looking(s) /\ ~Looks(s[1])) => Looking(t)
  <2>1. Looks(f) => Looking(t)
    BY <1>1 DEF Looking
  <2>2. ASSUME NEW i \in 1..Len(s), Looks(s[i]), ~Looks(s[1]) PROVE Looking(t)
    <3>1. i # 1
      BY <2>2
    <3>2. i \in 1..Len(t) /\ t[i] = s[i]
      BY <1>1, <3>1
    <3> QED
      BY <2>2, <3>2 DEF Looking
  <2> QED
    BY <2>1, <2>2 DEF Looking
<1>4. f.at \in {"swap", "drain"} \/ (Dispatches(s) /\ s[1].at \notin {"swap", "drain"})
        => Dispatches(t)
  <2>1. f.at \in {"swap", "drain"} => Dispatches(t)
    BY <1>1 DEF Dispatches
  <2>2. ASSUME NEW i \in 1..Len(s), s[i].at \in {"swap", "drain"},
               s[1].at \notin {"swap", "drain"}
        PROVE  Dispatches(t)
    <3>1. i # 1
      BY <2>2
    <3>2. i \in 1..Len(t) /\ t[i] = s[i]
      BY <1>1, <3>1
    <3> QED
      BY <2>2, <3>2 DEF Dispatches
  <2> QED
    BY <2>1, <2>2 DEF Dispatches
<1> QED
  BY <1>1, <1>2, <1>3, <1>4 DEF t

\* A call of DispatchMessages that has been left for another looks again.
LEMMA LooksAgain ==
  ASSUME NEW s \in Seq(Frame), Below(s), s # <<>> => Walks(s[1]), Dispatches(s)
  PROVE  Looking(s)
<1>1. PICK i \in 1..Len(s) : s[i].at \in {"swap", "drain"}
  BY DEF Dispatches
<1>2. s # <<>> /\ Len(s) \in Nat
  BY <1>1, EmptySeq, LenProperties
<1>3. Walks(s[i])
  BY <1>2 DEF Below
<1> QED
  BY <1>1, <1>3 DEF Walks, Looks, Looking

\* Two pushes, and two pops.
LEMMA PushTwo ==
  ASSUME NEW S, NEW s \in Seq(S), NEW f \in S, NEW g \in S
  PROVE  <<f, g>> \o s = <<f>> \o (<<g>> \o s)
<1>1. <<f>> \in Seq(S) /\ <<g>> \in Seq(S) /\ <<f, g>> \in Seq(S)
  OBVIOUS
<1>2. <<f, g>> = <<f>> \o <<g>>
  <2>1. /\ <<f>> \o <<g>> \in Seq(S) /\ Len(<<f>> \o <<g>>) = 2
        /\ (<<f>> \o <<g>>)[1] = f /\ (<<f>> \o <<g>>)[2] = g
    BY <1>1, PushFacts
  <2>2. Len(<<f, g>>) = 2 /\ <<f, g>>[1] = f /\ <<f, g>>[2] = g
    OBVIOUS
  <2>3. \A i \in 1..2 : <<f, g>>[i] = (<<f>> \o <<g>>)[i]
    <3> SUFFICES ASSUME NEW i \in 1..2 PROVE <<f, g>>[i] = (<<f>> \o <<g>>)[i]
      OBVIOUS
    <3>1. i = 1 \/ i = 2
      OBVIOUS
    <3> QED
      BY <2>1, <2>2, <3>1
  <2> QED
    BY <1>1, <2>1, <2>2, <2>3, SeqEqual, Zenon
<1> QED
  BY <1>1, <1>2, ConcatAssociative

\* Two frames return at once.
LEMMA PopTwo ==
  ASSUME NEW S, NEW s \in Seq(S), Len(s) > 1
  PROVE  /\ s # <<>> /\ Tail(s) # <<>> /\ Tail(s)[1] = s[2]
         /\ SubSeq(s, 3, Len(s)) = Tail(Tail(s))
<1>1. Len(s) \in Nat /\ s # <<>>
  BY LenProperties, EmptySeq
<1>2. Tail(s) = SubSeq(s, 2, Len(s))
  BY <1>1, TailIsSubSeq
<1>3. Tail(SubSeq(s, 2, Len(s))) = SubSeq(s, 2 + 1, Len(s))
  BY <1>1, HeadTailOfSubSeq
<1>4. Len(Tail(s)) = Len(s) - 1 /\ Tail(s)[1] = s[1 + 1]
  BY <1>1, HeadTailProperties
<1>5. Tail(s) # <<>>
  <2>1. Len(<<>>) = 0
    OBVIOUS
  <2>2. Len(s) - 1 # 0
    <3>1. \A m \in Nat : m > 1 => m - 1 # 0
      OBVIOUS
    <3> QED
      BY <1>1, <3>1, Zenon
  <2> QED
    BY <1>4, <2>1, <2>2, Zenon
<1> QED
  BY <1>1, <1>2, <1>3, <1>4, <1>5

\* What a frame holds, from its kind; the frames the main thread pushes.
LEMMA FrameHolds ==
  ASSUME NEW f \in Frame
  PROVE  /\ f.at \in {"exhaust", "swap", "drain", "call", "check", "wait", "poll"}
         /\ f.at = "exhaust" => f.list \in Seq(Interrupt)
         /\ f.at \in {"swap", "drain"} => f.had \in BOOLEAN
<1>1. CASE f \in [at : {"exhaust"}, list : Seq(Interrupt)]
  BY <1>1
<1>2. CASE f \in [at : {"swap", "drain"}, had : BOOLEAN]
  BY <1>2
<1>3. CASE f \in [at : {"call"}, request : Nat]
  BY <1>3
<1>4. CASE f \in [at : {"check", "wait", "poll"}]
  BY <1>4
<1> QED
  BY <1>1, <1>2, <1>3, <1>4 DEF Frame

\* The frames the main thread pushes are frames.
LEMMA FramesMade ==
  /\ \A l \in Seq(Interrupt) : /\ Exhaust(l) \in Frame
                               /\ Exhaust(l).at = "exhaust" /\ Exhaust(l).list = l
  /\ \A pc \in {"swap", "drain"}, had \in BOOLEAN :
       /\ Dispatch(pc, had) \in Frame
       /\ Dispatch(pc, had).at = pc /\ Dispatch(pc, had).had = had
  /\ \A r \in Nat : Call(r) \in Frame /\ Call(r).at = "call"
  /\ \A pc \in {"check", "wait", "poll"} : Pause(pc) \in Frame /\ Pause(pc).at = pc
BY DEF Frame, Exhaust, Dispatch, Call, Pause

\* The inductive invariant: the requests, one after the other, count from one;
\* the batch that DispatchMessages walks is its frame's; and a request that has not
\* been called has an interrupt, or a call on the stack that will look for it.
QTypes ==
  /\ requested \in Nat /\ called \in Seq(Nat) /\ batch \in Seq(Nat) /\ requests \in Seq(Nat)
  /\ interrupts \in Seq(Interrupt) /\ stack \in Seq(Frame)

Waits == batch # <<>> \/ requests # <<>>
Found == In("dispatch", interrupts) \/ Looking(stack)

QStack ==
  /\ Below(stack) /\ Dry(stack, batch)
  /\ dispatching => Dispatches(stack)
  /\ Waits => Found

QInv == QTypes /\ CalledInOrder /\ QStack

\* The inspector starts with no request.
LEMMA InitQInv == QueueInit => QInv
<1> SUFFICES ASSUME QueueInit PROVE QInv
  OBVIOUS
<1>1. /\ requested = 0 /\ called = <<>> /\ batch = <<>> /\ requests = <<>>
      /\ interrupts = <<>> /\ stack = <<>> /\ dispatching = FALSE
  BY DEF QueueInit
<1>2. <<>> \in Seq(Nat) /\ <<>> \in Seq(Interrupt) /\ <<>> \in Seq(Frame)
  OBVIOUS
<1>3. <<>> \o <<>> \o <<>> = [n \in 1..0 |-> n]
  <2>1. <<>> \o <<>> \o <<>> = <<>>
    BY <1>2, ConcatEmptySeq
  <2>2. [n \in 1..0 |-> n] \in Seq(Nat) /\ Len([n \in 1..0 |-> n]) = 0
    OBVIOUS
  <2> QED
    BY <2>1, <2>2, EmptySeq
<1>4. Below(<<>>)
  BY DEF Below
<1> QED
  BY <1>1, <1>2, <1>3, <1>4 DEF QInv, QTypes, QStack, CalledInOrder, Dry, Waits

\* The requests stay in order: only Post, Swap and DispatchOne move them.
LEMMA StepOrder ==
  QInv /\ [QueueNext]_queueVars =>
    /\ requested' \in Nat /\ called' \in Seq(Nat) /\ batch' \in Seq(Nat) /\ requests' \in Seq(Nat)
    /\ CalledInOrder'
<1> SUFFICES ASSUME QInv, [QueueNext]_queueVars
             PROVE  /\ requested' \in Nat /\ called' \in Seq(Nat) /\ batch' \in Seq(Nat)
                    /\ requests' \in Seq(Nat)
                    /\ called' \o batch' \o requests' = Counting(requested')
  BY DEF CalledInOrder, Counting
<1>a. /\ requested \in Nat /\ called \in Seq(Nat) /\ batch \in Seq(Nat) /\ requests \in Seq(Nat)
      /\ called \o batch \o requests = Counting(requested)
  BY DEF QInv, QTypes, CalledInOrder, Counting
<1>1. ASSUME NEW resume \in BOOLEAN, Post(resume)
      PROVE  /\ requested' \in Nat /\ called' \in Seq(Nat) /\ batch' \in Seq(Nat)
             /\ requests' \in Seq(Nat)
             /\ called' \o batch' \o requests' = Counting(requested')
  <2>1. /\ requested' = requested + 1 /\ requests' = Append(requests, requested + 1)
        /\ called' = called /\ batch' = batch
    BY <1>1 DEF Post, logVars
  <2>2. requested + 1 \in Nat
    BY <1>a
  <2>3. /\ Append(requests, requested + 1) \in Seq(Nat)
        /\ called \o batch \o Append(requests, requested + 1) = Counting(requested + 1)
    BY <1>a, CountLast, Zenon
  <2> QED
    BY <1>a, <2>1, <2>2, <2>3, Zenon
<1>2. CASE Swap
  <2>1. UNCHANGED <<requested, called>>
    BY <1>2 DEF Swap, postVars, logVars
  <2>2. CASE batch = <<>>
    <3>1. batch' = requests /\ requests' = <<>>
      BY <1>2, <2>2 DEF Swap
    <3>2. called \o <<>> \o requests = called \o requests \o <<>>
      BY <1>a, SwapMiddle
    <3> QED
      BY <1>a, <2>1, <2>2, <3>1, <3>2
  <2>3. CASE batch # <<>>
    BY <1>2, <1>a, <2>1, <2>3 DEF Swap
  <2> QED
    BY <2>2, <2>3
<1>3. CASE DispatchOne
  <2>1. /\ batch # <<>> /\ batch' = Tail(batch) /\ called' = Append(called, Head(batch))
        /\ UNCHANGED <<requested, requests>>
    BY <1>3 DEF DispatchOne, postVars
  <2>2. Head(batch) \in Nat /\ Tail(batch) \in Seq(Nat)
    BY <1>a, <2>1, HeadTailProperties
  <2>3. Append(called, Head(batch)) \in Seq(Nat)
    BY <1>a, <2>2, AppendProperties
  <2>4. Append(called, Head(batch)) \o Tail(batch) = called \o batch
    BY <1>a, <2>1, MoveHead, Zenon
  <2> QED
    BY <1>a, <2>1, <2>2, <2>3, <2>4, Zenon
<1>4. ASSUME \/ PostNotifies \/ (\E o \in Others : RequestInterrupt(o))
             \/ JavaScriptInterrupt \/ IdleInterrupt \/ ExhaustDispatch \/ ExhaustOther \/ ExhaustDone
             \/ DispatchAgain \/ CallReturns \/ PauseCheck \/ PauseWaited
             \/ RunMessageLoopOnPause \/ OtherEvent \/ ScriptSteps \/ UNCHANGED queueVars
      PROVE  UNCHANGED <<requested, called, batch, requests>>
  BY <1>4, Zenon DEF PostNotifies, RequestInterrupt, JavaScriptInterrupt, IdleInterrupt, ExhaustDispatch,
              ExhaustOther, ExhaustDone, DispatchAgain, CallReturns, PauseCheck, PauseWaited,
              RunMessageLoopOnPause, OtherEvent, ScriptSteps, queueVars, postVars, logVars
<1> QED
  BY <1>1, <1>2, <1>3, <1>4, <1>a, Zenon DEF QueueNext, Progress

\* The stack and the interrupts: one step for each action that changes them.
LEMMA StepStack ==
  QInv /\ [QueueNext]_queueVars => interrupts' \in Seq(Interrupt) /\ stack' \in Seq(Frame) /\ QStack'
<1> SUFFICES ASSUME QInv, [QueueNext]_queueVars
             PROVE  /\ interrupts' \in Seq(Interrupt) /\ stack' \in Seq(Frame)
                    /\ Below(stack') /\ Dry(stack', batch')
                    /\ dispatching' => Dispatches(stack')
                    /\ batch' # <<>> \/ requests' # <<>> =>
                         In("dispatch", interrupts') \/ Looking(stack')
  BY DEF QStack, Waits, Found
<1> DEFINE Goal == /\ interrupts' \in Seq(Interrupt) /\ stack' \in Seq(Frame)
                   /\ Below(stack') /\ Dry(stack', batch')
                   /\ dispatching' => Dispatches(stack')
                   /\ batch' # <<>> \/ requests' # <<>> =>
                        In("dispatch", interrupts') \/ Looking(stack')
<1>a. /\ batch \in Seq(Nat) /\ requests \in Seq(Nat) /\ requested \in Nat
      /\ interrupts \in Seq(Interrupt) /\ stack \in Seq(Frame)
      /\ Below(stack) /\ Dry(stack, batch)
      /\ dispatching => Dispatches(stack)
      /\ batch # <<>> \/ requests # <<>> => In("dispatch", interrupts) \/ Looking(stack)
  BY DEF QInv, QTypes, QStack, Waits, Found
<1>b. stack # <<>> => stack[1] \in Frame /\ Len(stack) \in Nat \ {0}
  <2>1. stack # <<>> => Len(stack) \in Nat \ {0}
    BY <1>a, EmptySeq
  <2> QED
    BY <1>a, <2>1, ElementOfSeq
<1>1. ASSUME NEW resume \in BOOLEAN, Post(resume) PROVE Goal
  <2>1. /\ UNCHANGED <<stack, batch, dispatching>>
        /\ interrupts' = IF requests = <<>> THEN Append(interrupts, "dispatch") ELSE interrupts
    BY <1>1 DEF Post
  <2>2. /\ Append(interrupts, "dispatch") \in Seq(Interrupt)
        /\ In("dispatch", Append(interrupts, "dispatch"))
    BY <1>a, AppendProperties, InAppend DEF Interrupt
  <2> QED
    BY <1>a, <2>1, <2>2
<1>2. ASSUME NEW o \in Others, RequestInterrupt(o) PROVE Goal
  <2>1. UNCHANGED <<stack, batch, requests, dispatching>> /\ interrupts' = Append(interrupts, o)
    BY <1>2 DEF RequestInterrupt
  <2>2. /\ Append(interrupts, o) \in Seq(Interrupt)
        /\ In("dispatch", interrupts) => In("dispatch", Append(interrupts, o))
    BY <1>a, AppendProperties, InAppend DEF Interrupt
  <2> QED
    BY <1>a, <2>1, <2>2
<1>3. CASE JavaScriptInterrupt \/ IdleInterrupt
  <2>1. /\ UNCHANGED <<batch, requests, dispatching>>
        /\ stack' = <<Exhaust(interrupts)>> \o stack /\ interrupts' = <<>>
        /\ stack # <<>> => stack[1].at \in {"call", "poll"}
    BY <1>3 DEF JavaScriptInterrupt, IdleInterrupt, Take, PushFrame, RunsJs, PollsLoop
  <2>2. /\ Exhaust(interrupts) \in Frame /\ Exhaust(interrupts).at = "exhaust"
        /\ Exhaust(interrupts).list = interrupts
    BY <1>a, FramesMade
  <2>3. /\ stack' \in Seq(Frame) /\ stack'[1] = Exhaust(interrupts) /\ Below(stack')
        /\ Looks(Exhaust(interrupts)) \/ Looking(stack) => Looking(stack')
        /\ Dispatches(stack) => Dispatches(stack')
    BY <1>a, <2>1, <2>2, Pushed, Zenon DEF Walks
  <2>4. In("dispatch", interrupts) => Looks(Exhaust(interrupts))
    BY <2>2 DEF Looks
  <2> QED
    BY <1>a, <2>1, <2>2, <2>3, <2>4 DEF Dry
<1>4. CASE ExhaustDispatch
  <2> DEFINE rest == Exhaust(Tail(stack[1].list))
             t == Tail(stack)
  <2>1. /\ stack # <<>> /\ stack[1].at = "exhaust" /\ stack[1].list # <<>> /\ dispatching' = TRUE
        /\ UNCHANGED <<batch, requests, interrupts>>
        /\ stack' = IF dispatching THEN <<rest>> \o t ELSE <<Dispatch("swap", FALSE), rest>> \o t
    BY <1>4 DEF ExhaustDispatch, At
  <2>2. Tail(stack[1].list) \in Seq(Interrupt)
    BY <1>b, <2>1, FrameHolds, HeadTailProperties
  <2>3. rest \in Frame /\ rest.at = "exhaust"
    BY <2>2, FramesMade, Zenon
  <2>4. /\ t \in Seq(Frame) /\ Below(t)
        /\ t # <<>> => Walks(t[1])
        /\ Dispatches(stack) => Dispatches(t)
    BY <1>a, <2>1, Popped, Zenon
  <2> HIDE DEF rest, t
  <2>5. /\ <<rest>> \o t \in Seq(Frame) /\ <<rest>> \o t # <<>> /\ (<<rest>> \o t)[1] = rest
        /\ Below(<<rest>> \o t)
        /\ Looking(t) => Looking(<<rest>> \o t)
        /\ Dispatches(t) => Dispatches(<<rest>> \o t)
    BY <2>3, <2>4, Pushed
  <2>6. CASE dispatching
    <3>1. Dispatches(t) /\ Looking(t)
      BY <1>a, <2>4, <2>6, LooksAgain
    <3> QED
      BY <1>a, <2>1, <2>3, <2>5, <2>6, <3>1 DEF Dry
  <2>7. CASE ~dispatching
    <3> DEFINE f == Dispatch("swap", FALSE)
    <3>1. f \in Frame /\ f.at = "swap"
      BY FramesMade, Zenon
    <3>2. stack' = <<f>> \o (<<rest>> \o t)
      BY <2>1, <2>3, <2>4, <2>7, <3>1, PushTwo, Zenon
    <3> HIDE DEF f
    <3>3. /\ stack' \in Seq(Frame) /\ stack'[1] = f /\ Below(stack')
          /\ Looks(f) => Looking(stack')
          /\ Dispatches(stack')
      BY <2>3, <2>5, <3>1, <3>2, Pushed, Zenon DEF Walks
    <3> QED
      BY <1>a, <2>1, <3>1, <3>3, Zenon DEF Dry, Looks
  <2> QED
    BY <2>6, <2>7
<1>5. CASE ExhaustOther
  <2> DEFINE rest == Exhaust(Tail(stack[1].list))
  <2>1. /\ stack # <<>> /\ stack[1].at = "exhaust" /\ stack[1].list # <<>>
        /\ Head(stack[1].list) # "dispatch"
        /\ UNCHANGED <<batch, requests, interrupts, dispatching>>
        /\ stack' = [stack EXCEPT ![1] = rest]
    BY <1>5 DEF ExhaustOther, At, SetFrame
  <2>2. stack[1].list \in Seq(Interrupt) /\ Tail(stack[1].list) \in Seq(Interrupt)
    BY <1>b, <2>1, FrameHolds, HeadTailProperties
  <2>3. rest \in Frame /\ rest.at = "exhaust" /\ rest.list = Tail(stack[1].list)
    BY <2>2, FramesMade, Zenon
  <2>4. Looks(stack[1]) => Looks(rest)
    <3>1. In("dispatch", stack[1].list) => In("dispatch", Tail(stack[1].list))
      BY <2>1, <2>2, InTail
    <3> QED
      BY <2>1, <2>3, <3>1 DEF Looks
  <2> HIDE DEF rest
  <2>5. /\ stack' \in Seq(Frame) /\ stack'[1] = rest /\ Below(stack')
        /\ Looks(rest) \/ (Looking(stack) /\ ~Looks(stack[1])) => Looking(stack')
        /\ Dispatches(stack) => Dispatches(stack')
    BY <1>a, <2>1, <2>3, Topped, Zenon
  <2> QED
    BY <1>a, <2>1, <2>3, <2>4, <2>5 DEF Dry
<1>6. CASE ExhaustDone
  <2> DEFINE t == Tail(stack)
  <2>1. /\ stack # <<>> /\ stack[1].at = "exhaust" /\ stack[1].list = <<>>
        /\ UNCHANGED <<batch, requests, interrupts, dispatching>>
        /\ stack' = IF Len(stack) > 1 /\ stack[2].at = "poll"
                    THEN <<Pause("check")>> \o SubSeq(stack, 3, Len(stack))
                    ELSE t
    BY <1>6 DEF ExhaustDone, At
  <2>2. ~Looks(stack[1])
    BY <2>1 DEF Looks, In
  <2>3. /\ t \in Seq(Frame) /\ Below(t) /\ Dry(t, batch)
        /\ t # <<>> => Walks(t[1])
        /\ Dispatches(stack) => Dispatches(t)
        /\ Looking(stack) => Looking(t)
    BY <1>a, <2>1, <2>2, Popped, Zenon
  <2>4. CASE ~(Len(stack) > 1 /\ stack[2].at = "poll")
    <3>1. stack' = t
      BY <2>1, <2>4
    <3> QED
      BY <1>a, <2>1, <2>3, <3>1, Zenon DEF Dry
  <2>5. CASE Len(stack) > 1 /\ stack[2].at = "poll"
    <3> DEFINE u == Tail(t)
               f == Pause("check")
    <3>1. t # <<>> /\ t[1] = stack[2] /\ stack' = <<f>> \o u
      BY <1>a, <2>1, <2>5, PopTwo, Zenon
    <3>2. ~Looks(t[1])
      BY <2>5, <3>1 DEF Looks
    <3>3. f \in Frame /\ f.at = "check"
      BY FramesMade
    <3> HIDE DEF t, f
    <3>4. /\ u \in Seq(Frame) /\ Below(u)
          /\ u # <<>> => Walks(u[1])
          /\ Dispatches(t) => Dispatches(u)
          /\ Looking(t) => Looking(u)
      BY <2>3, <2>5, <3>1, <3>2, Popped
    <3> HIDE DEF u
    <3>5. /\ stack' \in Seq(Frame) /\ stack'[1] = f /\ Below(stack')
          /\ Looking(u) => Looking(stack')
          /\ Dispatches(u) => Dispatches(stack')
      BY <3>1, <3>3, <3>4, Pushed
    <3> QED
      BY <1>a, <2>1, <2>3, <3>3, <3>4, <3>5, Zenon DEF Dry
  <2> QED
    BY <2>4, <2>5
<1>7. CASE Swap
  <2> DEFINE f == Dispatch("drain", batch' # <<>>)
  <2>1. /\ stack # <<>> /\ stack[1].at = "swap" /\ stack' = [stack EXCEPT ![1] = f]
        /\ UNCHANGED <<interrupts, dispatching>>
        /\ batch = <<>> => requests' = <<>>
        /\ batch # <<>> => batch' = batch
    BY <1>7 DEF Swap, At, SetFrame
  <2>2. f \in Frame /\ f.at = "drain" /\ (f.had <=> batch' # <<>>)
    BY FramesMade, Zenon
  <2> HIDE DEF f
  <2>3. /\ stack' \in Seq(Frame) /\ stack'[1] = f /\ Below(stack') /\ Dispatches(stack')
        /\ Looks(f) => Looking(stack')
    BY <1>a, <2>1, <2>2, Topped, Zenon
  <2>4. batch' # <<>> => Looks(f)
    BY <2>2 DEF Looks
  <2> QED
    BY <1>a, <2>1, <2>2, <2>3, <2>4 DEF Dry
<1>8. CASE DispatchOne
  <2> DEFINE f == Call(Head(batch))
  <2>1. /\ stack # <<>> /\ stack[1].at = "drain" /\ batch # <<>> /\ stack' = <<f>> \o stack
        /\ UNCHANGED <<requests, interrupts, dispatching>>
    BY <1>8 DEF DispatchOne, At, PushFrame
  <2>2. stack[1].had
    BY <1>a, <1>b, <2>1, FrameHolds DEF Dry
  <2>3. f \in Frame /\ f.at = "call"
    BY <1>a, <2>1, FramesMade, HeadTailProperties
  <2> HIDE DEF f
  <2>4. Looking(stack)
    BY <1>b, <2>1, <2>2 DEF Looking, Looks
  <2>5. /\ stack' \in Seq(Frame) /\ stack'[1] = f /\ Below(stack')
        /\ Looking(stack) => Looking(stack')
        /\ Dispatches(stack) => Dispatches(stack')
    BY <1>a, <2>1, <2>2, <2>3, Pushed DEF Walks
  <2> QED
    BY <1>a, <2>1, <2>3, <2>4, <2>5 DEF Dry
<1>9. CASE DispatchAgain
  <2>1. /\ stack # <<>> /\ stack[1].at = "drain" /\ batch = <<>>
        /\ UNCHANGED <<batch, requests, interrupts>>
    BY <1>9 DEF DispatchAgain, At
  <2>2. CASE stack[1].had
    <3> DEFINE f == Dispatch("swap", TRUE)
    <3>1. stack' = [stack EXCEPT ![1] = f] /\ UNCHANGED dispatching
      BY <1>9, <2>2, Zenon DEF DispatchAgain, SetFrame
    <3>2. f \in Frame /\ f.at = "swap"
      BY FramesMade, Zenon
    <3> HIDE DEF f
    <3>3. /\ stack' \in Seq(Frame) /\ stack'[1] = f /\ Below(stack') /\ Dispatches(stack')
          /\ Looks(f) => Looking(stack')
      BY <1>a, <2>1, <3>1, <3>2, Topped, Zenon
    <3> QED
      BY <1>a, <2>1, <3>2, <3>3 DEF Dry, Looks
  <2>3. CASE ~stack[1].had
    <3>1. stack' = Tail(stack) /\ dispatching' = FALSE
      BY <1>9, <2>3 DEF DispatchAgain, Pop
    <3>2. ~Looks(stack[1])
      BY <2>1, <2>3 DEF Looks
    <3>3. /\ stack' \in Seq(Frame) /\ Below(stack') /\ Dry(stack', batch')
          /\ Looking(stack) => Looking(stack')
      BY <1>a, <2>1, <3>1, <3>2, Popped
    <3> QED
      BY <1>a, <2>1, <3>1, <3>3
  <2> QED
    BY <2>2, <2>3
<1>10. ASSUME stack # <<>>, stack[1].at \in {"call", "check"}, stack' = Tail(stack),
              UNCHANGED <<batch, requests, interrupts, dispatching>>
       PROVE  Goal
  <2>1. ~Looks(stack[1]) /\ stack[1].at \notin {"swap", "drain"}
    BY <1>10 DEF Looks
  <2>2. /\ stack' \in Seq(Frame) /\ Below(stack') /\ Dry(stack', batch')
        /\ Looking(stack) => Looking(stack')
        /\ Dispatches(stack) => Dispatches(stack')
    BY <1>a, <1>10, <2>1, Popped
  <2> QED
    BY <1>a, <1>10, <2>2
<1>11. ASSUME stack # <<>>, stack[1].at \in {"check", "wait", "poll"},
              NEW to \in {"check", "wait", "poll"}, stack' = [stack EXCEPT ![1] = Pause(to)],
              UNCHANGED <<batch, requests, interrupts>>, dispatching' => dispatching
       PROVE  Goal
  <2>1. ~Looks(stack[1]) /\ stack[1].at \notin {"swap", "drain"}
    BY <1>11 DEF Looks
  <2>2. Pause(to) \in Frame /\ Pause(to).at = to
    BY FramesMade
  <2>3. /\ stack' \in Seq(Frame) /\ stack'[1] = Pause(to) /\ Below(stack')
        /\ Looking(stack) => Looking(stack')
        /\ Dispatches(stack) => Dispatches(stack')
    BY <1>a, <1>11, <2>1, <2>2, Topped, Zenon
  <2> QED
    BY <1>a, <1>11, <2>2, <2>3 DEF Dry
<1>12. CASE CallReturns
  BY <1>10, <1>12 DEF CallReturns, At, Pop
<1>13. CASE PauseCheck
  <2>1. CASE waiting
    <3>1. /\ stack # <<>> /\ stack[1].at = "check" /\ stack' = [stack EXCEPT ![1] = Pause("wait")]
          /\ UNCHANGED <<batch, requests, interrupts>> /\ dispatching' = FALSE
      BY <1>13, <2>1 DEF PauseCheck, At, SetFrame
    <3> QED
      BY <1>11, <3>1
  <2>2. CASE ~waiting
    BY <1>10, <1>13, <2>2 DEF PauseCheck, At, Pop
  <2> QED
    BY <2>1, <2>2
<1>14. CASE PauseWaited
  <2>1. /\ stack # <<>> /\ stack[1].at = "wait" /\ stack' = [stack EXCEPT ![1] = Pause("poll")]
        /\ UNCHANGED <<batch, requests, interrupts, dispatching>>
    BY <1>14 DEF PauseWaited, At, SetFrame
  <2> QED
    BY <1>11, <2>1
<1>15. CASE OtherEvent
  <2>1. /\ stack # <<>> /\ stack[1].at = "poll" /\ stack' = [stack EXCEPT ![1] = Pause("check")]
        /\ UNCHANGED <<batch, requests, interrupts, dispatching>>
    BY <1>15 DEF OtherEvent, At, SetFrame
  <2> QED
    BY <1>11, <2>1
<1>16. CASE RunMessageLoopOnPause
  <2> DEFINE f == Pause("check")
  <2>1. /\ UNCHANGED <<batch, requests, interrupts, dispatching>> /\ stack' = <<f>> \o stack
        /\ stack # <<>> => stack[1].at = "call"
    BY <1>16 DEF RunMessageLoopOnPause, PushFrame, RunsJs
  <2>2. f \in Frame /\ f.at = "check"
    BY FramesMade
  <2> HIDE DEF f
  <2>3. /\ stack' \in Seq(Frame) /\ stack'[1] = f /\ Below(stack')
        /\ Looking(stack) => Looking(stack')
        /\ Dispatches(stack) => Dispatches(stack')
    BY <1>a, <2>1, <2>2, Pushed DEF Walks
  <2> QED
    BY <1>a, <2>1, <2>2, <2>3 DEF Dry
<1>17. CASE PostNotifies \/ ScriptSteps \/ UNCHANGED queueVars
  <2>1. UNCHANGED <<batch, requests, interrupts, dispatching, stack>>
    BY <1>17 DEF PostNotifies, ScriptSteps, queueVars
  <2> QED
    BY <1>a, <2>1
<1> QED
  BY <1>1, <1>2, <1>3, <1>4, <1>5, <1>6, <1>7, <1>8, <1>9, <1>12, <1>13, <1>14, <1>15, <1>16,
     <1>17 DEF QueueNext, Progress

\* However the calls nest and wherever JavaScript pauses, requests are called in
\* the order in which they were posted, each once, and one that has not been
\* called is still to be looked for.
THEOREM RequestsAreKept == QueueSpec => []RequestsKept
<1>1. QInv => RequestsKept
  <2> SUFFICES ASSUME QInv, batch \o requests # <<>>
               PROVE  \/ "dispatch" \in Range(interrupts)
                      \/ \E f \in Range(stack) : \/ f.at \in {"swap", "drain"}
                                                 \/ f.at = "exhaust" /\ "dispatch" \in Range(f.list)
    BY DEF QInv, RequestsKept, RequestsCovered
  <2>1. Waits
    BY ConcatEqualIffEmpty DEF QInv, QTypes, Waits
  <2>2. \A x, s : In(x, s) => x \in Range(s)
    BY DEF In, Range
  <2>3. CASE In("dispatch", interrupts)
    BY <2>2, <2>3
  <2>4. CASE Looking(stack)
    <3>1. PICK i \in 1..Len(stack) : Looks(stack[i])
      BY <2>4 DEF Looking
    <3>2. stack[i] \in Range(stack)
      <4>1. DOMAIN stack = 1..Len(stack)
        BY LenProperties DEF QInv, QTypes
      <4> QED
        BY <4>1 DEF Range
    <3> QED
      BY <2>2, <3>1, <3>2 DEF Looks
  <2> QED
    BY <2>1, <2>3, <2>4 DEF QInv, QStack, Found
<1>2. QInv /\ [QueueNext]_queueVars => QInv'
  BY StepOrder, StepStack DEF QInv, QTypes
<1> QED
  BY <1>1, <1>2, InitQInv, PTL DEF QueueSpec

-----------------------------------------------------------------------------
(* The worker and the agent *)

\* Where the main thread is, what the agent has been told, and why the channel
\* refuses sessions.
Places ==
  /\ main \in {"boot", "script", "loop", "exit", "stopped"}
  /\ main # "loop" => why = "none"
  /\ main = "loop" => why \in {"frontend", "pause", "disconnect", "report"}
  /\ main = "boot" => ~io /\ conn = "connecting"
  /\ options.inspect /\ main \notin {"boot", "stopped"} => io

Released == options.brk /\ main # "boot" => ranFrontend \/ (forFrontend /\ main # "script")

Telling ==
  /\ transport \in Seq({"kStop", "kKill"})
  /\ main # "stopped" => (io <=> delegate) /\ ~In("kKill", transport)
  /\ conn \in {"connecting", "up", "lost"}
  /\ conn = "connecting" => told = 0
  /\ ToldOnce

Refusing ==
  (stopping \/ transport # <<>>) /\ ~options.handles =>
    \/ main = "loop" /\ why \in {"disconnect", "report"}
    \/ main \in {"exit", "stopped"}

FInv == Places /\ Released /\ Telling /\ Refusing

\* The agent starts with no session.
LEMMA InitFInv == SessionsInit => FInv
<1> SUFFICES ASSUME SessionsInit PROVE FInv
  OBVIOUS
<1>1. ~In("kKill", <<>>) /\ <<>> \in Seq({"kStop", "kKill"})
  BY DEF In
<1> QED
  BY <1>1 DEF SessionsInit, FInv, Places, Released, Telling, Refusing, ToldOnce

\* An action appended to the transport.
LEMMA Transported ==
  ASSUME NEW t \in Seq({"kStop", "kKill"}), NEW a \in {"kStop", "kKill"}
  PROVE  /\ Append(t, a) \in Seq({"kStop", "kKill"})
         /\ ~In("kKill", t) /\ a # "kKill" => ~In("kKill", Append(t, a))
<1>1. /\ Append(t, a) \in Seq({"kStop", "kKill"}) /\ Len(Append(t, a)) = Len(t) + 1
      /\ \A i \in 1..Len(t) : Append(t, a)[i] = t[i]
      /\ Append(t, a)[Len(t) + 1] = a
  BY AppendProperties
<1>2. DOMAIN Append(t, a) = 1..(Len(t) + 1) /\ DOMAIN t = 1..Len(t) /\ Len(t) \in Nat
  BY <1>1, LenProperties
<1>3. \A i \in 1..(Len(t) + 1) : i \in 1..Len(t) \/ i = Len(t) + 1
  BY <1>2
<1> QED
  BY <1>1, <1>2, <1>3 DEF In

\* Every step of the agent and of the worker preserves it.
LEMMA StepFInv == FInv /\ [SessionsNext]_sessionVars => FInv'
<1> SUFFICES ASSUME FInv, [SessionsNext]_sessionVars PROVE FInv'
  OBVIOUS
<1>o. options' = options
  BY DEF SessionsNext, sessionVars
<1>n. <<>> \in Seq({"kStop", "kKill"}) /\ ~In("kKill", <<>>)
  BY DEF In
<1>t. /\ Append(transport, "kStop") \in Seq({"kStop", "kKill"})
      /\ Append(transport, "kKill") \in Seq({"kStop", "kKill"})
      /\ ~In("kKill", transport) => ~In("kKill", Append(transport, "kStop"))
  BY Transported DEF FInv, Telling
<1> USE <1>o DEF FInv, Places, Released, Telling, Refusing, ToldOnce, diagVars, linkVars, clientVars,
                 waitVars
<1>1. CASE OnConnect
  BY <1>1 DEF OnConnect
<1>2. CASE Disconnected
  BY <1>2 DEF Disconnected
<1>3. CASE InspectorStart
  BY <1>3 DEF InspectorStart
<1>4. CASE DoDispatch
  <2>1. \A x, s : x \in Range(s) => In(x, s)
    BY DEF Range, In
  <2> QED
    BY <1>4, <1>n, <2>1, Zenon DEF DoDispatch, TerminateConnections
<1>5. ASSUME NEW s \in Sessions, InspectorStartSession(s) PROVE FInv'
  BY <1>5 DEF InspectorStartSession
<1>6. ASSUME NEW s \in Sessions, InspectorEndSession(s) PROVE FInv'
  BY <1>6 DEF InspectorEndSession
<1>7. ASSUME NEW s \in Sessions, NEW msg, InspectorCommand(s, msg) PROVE FInv'
  BY <1>7 DEF InspectorCommand
<1>8. CASE BootstrapAgent
  BY <1>8 DEF BootstrapAgent, StartInspectorIo
<1>9. CASE StartInterrupt
  BY <1>9 DEF StartInterrupt, StartInspectorIo, Live
<1>10. CASE ServeCreate
  BY <1>10 DEF ServeCreate, Serves, Live
<1>11. CASE ServeConnect
  BY <1>11 DEF ServeConnect, Serves, Live
<1>12. CASE ServeDelete
  BY <1>12 DEF ServeDelete, Serves, Live
<1>13. CASE ServeRun
  BY <1>13 DEF ServeRun, Serves, Live
<1>14. CASE ServeResume
  BY <1>14 DEF ServeResume, Serves, Live
<1>15. ASSUME NEW break \in BOOLEAN, ServeEvaluate(break) PROVE FInv'
  BY <1>15 DEF ServeEvaluate, Serves, Live, MessageLoopOnPause
<1>16. CASE ScriptBreaks
  BY <1>16 DEF ScriptBreaks, MessageLoopOnPause
<1>17. CASE LoopLeave
  BY <1>17 DEF LoopLeave, ShouldRun
<1>18. CASE ScriptEnds
  BY <1>18, <1>t, Zenon DEF ScriptEnds, WaitForDisconnect
<1>19. CASE EmitUncaughtException
  BY <1>19, <1>t, Zenon DEF EmitUncaughtException, WaitForDisconnect
<1>20. CASE EmitUncaughtInLoop
  BY <1>20, <1>t DEF EmitUncaughtInLoop, WaitForDisconnect
<1>21. CASE StopAgent
  BY <1>21, <1>t DEF StopAgent
<1>22. CASE UNCHANGED sessionVars
  BY <1>22 DEF sessionVars, workerVars
<1> QED
  BY <1>1, <1>2, <1>3, <1>4, <1>5, <1>6, <1>7, <1>8, <1>9, <1>10, <1>11, <1>12, <1>13, <1>14, <1>15,
     <1>16, <1>17, <1>18, <1>19, <1>20, <1>21, <1>22 DEF SessionsNext, ClientStep

\* The invariant of the start holds throughout.
LEMMA FInvariance == SessionsSpec => []FInv
BY InitFInv, StepFInv, PTL DEF SessionsSpec

\* With --inspect-brk no script runs before runIfWaitingForDebugger, whatever
\* sessions come and go.
THEOREM StartsReleased == SessionsSpec => []StartsWhenReleased
<1>1. FInv => StartsWhenReleased
  BY DEF FInv, Released, StartsWhenReleased
<1> QED
  BY <1>1, FInvariance, PTL

-----------------------------------------------------------------------------
(* The sessions' objects *)

Request == [op : {"create", "connect", "dispatch", "delete"}, object : Nat,
            msg : {"none", "run", "resume", "eval"}]

\* A request for the object is under way.
Sent(q, op, o) == \E i \in 1..Len(q) : q[i].op = op /\ q[i].object = o

\* What may be asked of an object after another request: it is created, then
\* connected, then given commands, then deleted.
Follows(p, q) == /\ p = "create" => q # "create"
                 /\ p \in {"connect", "dispatch"} => q \in {"dispatch", "delete"}
                 /\ p # "delete"

Sorted(q) == \A i, j \in 1..Len(q) :
               i < j /\ q[i].object = q[j].object => Follows(q[i].op, q[j].op)

\* Where an object is: still to be created, to be connected, connected, or gone.
Stage(o) ==
  \/ /\ Sent(queue, "create", o) /\ Sent(queue, "connect", o)
     /\ o \notin managed /\ o \notin channels
  \/ /\ ~Sent(queue, "create", o) /\ Sent(queue, "connect", o)
     /\ o \in managed /\ o \notin channels
  \/ /\ ~Sent(queue, "create", o) /\ ~Sent(queue, "connect", o)
     /\ o \in managed /\ o \in channels
  \/ /\ \A op \in {"create", "connect", "dispatch", "delete"} : ~Sent(queue, op, o)
     /\ o \notin managed /\ o \notin channels

Gone(o) == o \notin managed /\ ~Sent(queue, "create", o)
Open(o) == \E s \in Sessions : sessions[s] = o

\* An object that is gone does not come back.
GoneStays == 1..objects \subseteq 1..objects' /\ \A o \in 1..objects : Gone(o) => Gone(o)'

\* The inductive invariant of the objects.
OTypes ==
  /\ objects \in Nat /\ sessions \in [Sessions -> Nat] /\ queue \in Seq(Request)
  /\ managed \subseteq 1..objects /\ channels \subseteq 1..objects
  /\ \A s \in Sessions : sessions[s] <= objects
  /\ \A i \in 1..Len(queue) : queue[i].object \in 1..objects

Apart == \A s, t \in Sessions : sessions[s] = sessions[t] /\ sessions[s] # 0 => s = t

OInv ==
  /\ OTypes /\ Apart /\ Sorted(queue)
  /\ \A o \in 1..objects : Stage(o)
  /\ \A o \in 1..objects : Open(o) <=> ~Sent(queue, "delete", o) /\ ~Gone(o)

\* What the agent counts, and what it leaves behind.
Counted ==
  /\ delegate => opened = Cardinality(OpenSessions)
  /\ ~delegate => OpenSessions = {}
  /\ ~delegate /\ main # "stopped" => opened = 0

Leaving == (why \in {"disconnect", "report"} \/ (main = "exit" /\ options.inspect)) =>
             forDisconnect \/ \E o \in 1..objects : Gone(o)

\* The kinds of requests.
LEMMA SentOps ==
  ASSUME NEW q \in Seq(Request), NEW op, NEW o, Sent(q, op, o)
  PROVE  op \in {"create", "connect", "dispatch", "delete"}
<1>1. PICK i \in 1..Len(q) : q[i].op = op
  BY DEF Sent
<1>2. q[i] \in Request
  BY ElementOfSeq
<1> QED
  BY <1>1, <1>2 DEF Request

\* One more request.
LEMMA SentAppend ==
  ASSUME NEW q \in Seq(Request), NEW r \in Request, Sorted(q),
         \A op : Sent(q, op, r.object) => Follows(op, r.op)
  PROVE  LET t == Append(q, r)
         IN /\ t \in Seq(Request) /\ Sorted(t)
            /\ \A op, o : Sent(t, op, o) <=> Sent(q, op, o) \/ (op = r.op /\ o = r.object)
            /\ \A S : (\A i \in 1..Len(q) : q[i].object \in S) /\ r.object \in S =>
                        \A i \in 1..Len(t) : t[i].object \in S
<1> DEFINE t == Append(q, r)
<1>1. /\ t \in Seq(Request) /\ Len(t) = Len(q) + 1 /\ Len(q) \in Nat
      /\ \A i \in 1..Len(q) : t[i] = q[i]
      /\ t[Len(q) + 1] = r
  BY AppendProperties, LenProperties
<1> HIDE DEF t
<1>2. \A i \in 1..Len(t) : i \in 1..Len(q) \/ i = Len(q) + 1
  BY <1>1
<1>3. Sorted(t)
  <2> SUFFICES ASSUME NEW i \in 1..Len(t), NEW j \in 1..Len(t), i < j, t[i].object = t[j].object
               PROVE  Follows(t[i].op, t[j].op)
    BY DEF Sorted
  <2>1. i \in 1..Len(q)
    BY <1>1
  <2>2. CASE j \in 1..Len(q)
    BY <1>1, <2>1, <2>2 DEF Sorted
  <2>3. CASE j = Len(q) + 1
    <3>1. t[j] = r /\ t[i] = q[i]
      BY <1>1, <2>1, <2>3
    <3>2. Sent(q, q[i].op, r.object)
      BY <2>1, <3>1 DEF Sent
    <3> QED
      BY <3>1, <3>2
  <2> QED
    BY <1>2, <2>2, <2>3
<1>4. ASSUME NEW op, NEW o
      PROVE  Sent(t, op, o) <=> Sent(q, op, o) \/ (op = r.op /\ o = r.object)
  <2>1. ASSUME NEW i \in 1..Len(t), t[i].op = op, t[i].object = o
        PROVE  Sent(q, op, o) \/ (op = r.op /\ o = r.object)
    BY <1>1, <1>2, <2>1 DEF Sent
  <2>2. ASSUME NEW i \in 1..Len(q), q[i].op = op, q[i].object = o PROVE Sent(t, op, o)
    <3>1. i \in 1..Len(t) /\ t[i] = q[i]
      BY <1>1
    <3> QED
      BY <2>2, <3>1 DEF Sent
  <2>3. ASSUME op = r.op, o = r.object PROVE Sent(t, op, o)
    <3>1. Len(q) + 1 \in 1..Len(t)
      BY <1>1
    <3> QED
      BY <1>1, <2>3, <3>1 DEF Sent
  <2> QED
    BY <2>1, <2>2, <2>3 DEF Sent
<1>5. ASSUME NEW S, \A i \in 1..Len(q) : q[i].object \in S, r.object \in S,
             NEW i \in 1..Len(t)
      PROVE  t[i].object \in S
  BY <1>1, <1>2, <1>5
<1> QED
  BY <1>1, <1>3, <1>4, <1>5 DEF t

\* ... about one of the objects D.
LEMMA SentWithin ==
  ASSUME NEW q \in Seq(Request), NEW r \in Request, NEW D, Sorted(q),
         \A i \in 1..Len(q) : q[i].object \in D, r.object \in D,
         \A op : Sent(q, op, r.object) => Follows(op, r.op)
  PROVE  /\ Append(q, r) \in Seq(Request) /\ Sorted(Append(q, r))
         /\ \A op, o : Sent(Append(q, r), op, o) <=> Sent(q, op, o) \/ (op = r.op /\ o = r.object)
         /\ \A i \in 1..Len(Append(q, r)) : Append(q, r)[i].object \in D
BY SentAppend

\* The first request is served.
LEMMA SentTail ==
  ASSUME NEW q \in Seq(Request), q # <<>>, Sorted(q)
  PROVE  LET t == Tail(q)
             r == Head(q)
         IN /\ t \in Seq(Request) /\ Sorted(t) /\ r \in Request /\ Sent(q, r.op, r.object)
            /\ \A op, o : Sent(t, op, o) => Sent(q, op, o)
            /\ \A op, o : Sent(q, op, o) /\ ~(op = r.op /\ o = r.object) => Sent(t, op, o)
            /\ \A op : Sent(t, op, r.object) => Follows(r.op, op)
            /\ \A S : (\A i \in 1..Len(q) : q[i].object \in S) =>
                        r.object \in S /\ \A i \in 1..Len(t) : t[i].object \in S
<1> DEFINE t == Tail(q)
           r == Head(q)
<1>1. /\ t \in Seq(Request) /\ Len(t) = Len(q) - 1 /\ Len(q) \in Nat \ {0} /\ r \in Request
      /\ r = q[1]
      /\ \A i \in 1..(Len(q) - 1) : t[i] = q[i + 1]
      /\ \A i \in 2..Len(q) : t[i - 1] = q[i]
  BY PopFacts, HeadTailProperties
<1> HIDE DEF t, r
<1>2. Sorted(t)
  <2> SUFFICES ASSUME NEW i \in 1..Len(t), NEW j \in 1..Len(t), i < j, t[i].object = t[j].object
               PROVE  Follows(t[i].op, t[j].op)
    BY DEF Sorted
  <2>1. /\ i + 1 \in 1..Len(q) /\ j + 1 \in 1..Len(q) /\ i + 1 < j + 1
        /\ t[i] = q[i + 1] /\ t[j] = q[j + 1]
    BY <1>1
  <2> QED
    BY <2>1 DEF Sorted
<1>3. ASSUME NEW op, NEW o, NEW i \in 1..Len(t), t[i].op = op, t[i].object = o
      PROVE  Sent(q, op, o) /\ (o = r.object => Follows(r.op, op))
  <2>1. i + 1 \in 1..Len(q) /\ t[i] = q[i + 1] /\ 1 \in 1..Len(q) /\ 1 < i + 1
    BY <1>1
  <2>2. Sent(q, op, o)
    BY <1>3, <2>1 DEF Sent
  <2>3. o = r.object => Follows(r.op, op)
    BY <1>1, <1>3, <2>1 DEF Sorted
  <2> QED
    BY <2>2, <2>3
<1>4. ASSUME NEW op, NEW o, NEW i \in 1..Len(q), q[i].op = op, q[i].object = o,
             ~(op = r.op /\ o = r.object)
      PROVE  Sent(t, op, o)
  <2>1. i # 1
    BY <1>1, <1>4
  <2>2. i - 1 \in 1..Len(t) /\ t[i - 1] = q[i]
    BY <1>1, <2>1
  <2> QED
    BY <1>4, <2>2 DEF Sent
<1>5. Sent(q, r.op, r.object)
  BY <1>1 DEF Sent
<1>6. ASSUME NEW S, \A i \in 1..Len(q) : q[i].object \in S
      PROVE  r.object \in S /\ \A i \in 1..Len(t) : t[i].object \in S
  <2>1. r.object \in S
    BY <1>1, <1>6
  <2>2. ASSUME NEW i \in 1..Len(t) PROVE t[i].object \in S
    <3>1. i + 1 \in 1..Len(q) /\ t[i] = q[i + 1]
      BY <1>1
    <3> QED
      BY <1>6, <3>1
  <2> QED
    BY <2>1, <2>2
<1>7. /\ \A op, o : Sent(t, op, o) => Sent(q, op, o)
      /\ \A op : Sent(t, op, r.object) => Follows(r.op, op)
  BY <1>3 DEF Sent
<1>8. \A op, o : Sent(q, op, o) /\ ~(op = r.op /\ o = r.object) => Sent(t, op, o)
  BY <1>4 DEF Sent
<1> QED
  BY <1>1, <1>2, <1>5, <1>6, <1>7, <1>8 DEF t, r

\* The members of a finite set, one by one.
LEMMA SetSequence ==
  ASSUME NEW S, IsFiniteSet(S)
  PROVE  LET g == Listing(S)
         IN /\ g \in Seq(S)
            /\ \A i, j \in 1..Len(g) : g[i] = g[j] => i = j
            /\ \A x \in S : \E i \in 1..Len(g) : g[i] = x
<1> DEFINE n == Cardinality(S)
           g == Listing(S)
<1>1. n \in Nat /\ ExistsBijection(1..n, S)
  BY FS_CardinalityType
<1>2. \E f \in Injection(1..n, S) : TRUE
  BY <1>1 DEF ExistsBijection, Bijection
<1>3. g \in [1..n -> S] /\ IsInjective(g)
  BY <1>2 DEF Listing, Injection
<1>4. IsFiniteSet(1..n) /\ Cardinality(1..n) = n
  BY <1>1, FS_Interval
<1>5. g \in Surjection(1..n, S)
  <2>1. g \in Injection(1..n, S)
    BY <1>3 DEF Injection
  <2> QED
    BY <1>4, <2>1, FS_Injection
<1> HIDE DEF n, g
<1>6. g \in Seq(S) /\ Len(g) = n
  BY <1>1, <1>3
<1> QED
  BY <1>3, <1>5, <1>6 DEF IsInjective, Surjection, g

\* The objects of g are distinct, are of S as those of q are, and q deletes none of them.
Deletable(q, g, S) ==
  /\ \A i, j \in 1..Len(g) : g[i] = g[j] => i = j
  /\ \A i \in 1..Len(g) : ~Sent(q, "delete", g[i])
  /\ \A i \in 1..Len(q) : q[i].object \in S
  /\ \A i \in 1..Len(g) : g[i] \in S

\* t is q with a delete request for each object of g.
Deletes(t, q, g, S) ==
  /\ t \in Seq(Request) /\ Sorted(t)
  /\ \A op, o : Sent(t, op, o) <=>
       Sent(q, op, o) \/ (op = "delete" /\ \E i \in 1..Len(g) : g[i] = o)
  /\ \A i \in 1..Len(t) : t[i].object \in S

\* The delete requests of objects that have none under way.
LEMMA SentDeletes ==
  ASSUME NEW q \in Seq(Request), Sorted(q), NEW g \in Seq(Nat), NEW S, Deletable(q, g, S)
  PROVE  Deletes(q \o [n \in DOMAIN g |-> Req("delete", g[n], "none")], q, g, S)
<1>0. /\ \A i, j \in 1..Len(g) : g[i] = g[j] => i = j
      /\ \A i \in 1..Len(g) : ~Sent(q, "delete", g[i])
      /\ \A i \in 1..Len(q) : q[i].object \in S
      /\ \A i \in 1..Len(g) : g[i] \in S
  BY DEF Deletable
<1> DEFINE d == [n \in DOMAIN g |-> Req("delete", g[n], "none")]
           t == q \o d
<1>1. DOMAIN g = 1..Len(g) /\ Len(g) \in Nat /\ Len(q) \in Nat
  BY LenProperties
<1>2. \A n \in 1..Len(g) : d[n].op = "delete" /\ d[n].object = g[n] /\ d[n] \in Request
  BY <1>1, ElementOfSeq DEF Req, Request
<1>3. d \in Seq(Request) /\ Len(d) = Len(g)
  <2>1. d \in [1..Len(g) -> Request]
    BY <1>1, <1>2
  <2> QED
    BY <1>1, <2>1
<1> HIDE DEF d
<1>4. /\ t \in Seq(Request) /\ Len(t) = Len(q) + Len(g)
      /\ \A i \in 1..(Len(q) + Len(g)) : t[i] = IF i <= Len(q) THEN q[i] ELSE d[i - Len(q)]
  <2>1. /\ t \in Seq(Request) /\ Len(t) = Len(q) + Len(d)
        /\ \A i \in 1..(Len(q) + Len(d)) : t[i] = IF i <= Len(q) THEN q[i] ELSE d[i - Len(q)]
    BY <1>3, ConcatProperties, Zenon
  <2> HIDE DEF t
  <2> QED
    BY <1>3, <2>1
<1>5. /\ \A i \in 1..Len(q) : i \in 1..Len(t) /\ t[i] = q[i]
      /\ \A i \in 1..Len(g) : Len(q) + i \in 1..Len(t) /\ t[Len(q) + i] = d[i]
      /\ \A i \in 1..Len(t) : i \in 1..Len(q) \/ (i - Len(q) \in 1..Len(g) /\ t[i] = d[i - Len(q)])
  BY <1>1, <1>4
<1> HIDE DEF t
<1>6. Sorted(t)
  <2> SUFFICES ASSUME NEW i \in 1..Len(t), NEW j \in 1..Len(t), i < j, t[i].object = t[j].object
               PROVE  Follows(t[i].op, t[j].op)
    BY DEF Sorted
  <2>1. CASE j \in 1..Len(q)
    <3>1. i \in 1..Len(q)
      BY <1>1, <2>1
    <3> QED
      BY <1>5, <2>1, <3>1, Zenon DEF Sorted
  <2>2. CASE j - Len(q) \in 1..Len(g) /\ t[j] = d[j - Len(q)]
    <3>1. t[j].op = "delete" /\ t[j].object = g[j - Len(q)]
      BY <1>2, <2>2
    <3>2. CASE i \in 1..Len(q)
      <4>1. t[i] = q[i] /\ Sent(q, q[i].op, q[i].object)
        BY <1>5, <3>2 DEF Sent
      <4>2. q[i].op # "delete"
        BY <1>0, <2>2, <3>1, <4>1
      <4>3. q[i] \in Request
        BY <3>2, ElementOfSeq
      <4> QED
        BY <3>1, <4>1, <4>2, <4>3 DEF Follows, Request
    <3>3. CASE i - Len(q) \in 1..Len(g) /\ t[i] = d[i - Len(q)]
      <4>1. g[i - Len(q)] = g[j - Len(q)]
        <5>1. t[i].object = g[i - Len(q)]
          BY <1>2, <3>3
        <5> QED
          BY <3>1, <5>1
      <4>2. i - Len(q) = j - Len(q)
        BY <1>0, <2>2, <3>3, <4>1, Zenon
      <4> QED
        BY <1>1, <4>2
    <3> QED
      BY <1>5, <3>2, <3>3
  <2> QED
    BY <1>5, <2>1, <2>2
<1>7. ASSUME NEW op, NEW o
      PROVE  Sent(t, op, o) <=> Sent(q, op, o) \/ (op = "delete" /\ \E i \in 1..Len(g) : g[i] = o)
  <2>1. ASSUME NEW i \in 1..Len(t), t[i].op = op, t[i].object = o
        PROVE  Sent(q, op, o) \/ (op = "delete" /\ \E k \in 1..Len(g) : g[k] = o)
    <3>1. CASE i \in 1..Len(q)
      BY <1>5, <2>1, <3>1 DEF Sent
    <3>2. CASE i - Len(q) \in 1..Len(g) /\ t[i] = d[i - Len(q)]
      BY <1>2, <2>1, <3>2, Zenon
    <3> QED
      BY <1>5, <3>1, <3>2
  <2>2. ASSUME NEW i \in 1..Len(q), q[i].op = op, q[i].object = o PROVE Sent(t, op, o)
    BY <1>5, <2>2, Zenon DEF Sent
  <2>3. ASSUME NEW i \in 1..Len(g), g[i] = o, op = "delete" PROVE Sent(t, op, o)
    <3>1. Len(q) + i \in 1..Len(t) /\ t[Len(q) + i] = d[i]
      BY <1>5
    <3> QED
      BY <1>2, <2>3, <3>1 DEF Sent
  <2> QED
    BY <2>1, <2>2, <2>3 DEF Sent
<1>8. ASSUME NEW i \in 1..Len(t) PROVE t[i].object \in S
  <2>1. CASE i \in 1..Len(q)
    BY <1>0, <1>5, <2>1
  <2>2. CASE i - Len(q) \in 1..Len(g) /\ t[i] = d[i - Len(q)]
    BY <1>0, <1>2, <2>2, Zenon
  <2> QED
    BY <1>5, <2>1, <2>2
<1> QED
  BY <1>4, <1>6, <1>7, <1>8, Zenon DEF Deletes, t, d

\* Two more requests are one more, twice.
LEMMA AppendTwo ==
  ASSUME NEW S, NEW q \in Seq(S), NEW a \in S, NEW b \in S
  PROVE  q \o <<a, b>> = Append(Append(q, a), b)
<1>1. /\ <<a, b>> \in Seq(S) /\ Len(<<a, b>>) = 2 /\ <<a, b>>[1] = a /\ <<a, b>>[2] = b
      /\ Len(q) \in Nat
  BY LenProperties
<1>2. /\ q \o <<a, b>> \in Seq(S) /\ Len(q \o <<a, b>>) = Len(q) + 2
      /\ \A i \in 1..(Len(q) + 2) :
           (q \o <<a, b>>)[i] = IF i <= Len(q) THEN q[i] ELSE <<a, b>>[i - Len(q)]
  BY <1>1, ConcatProperties
<1>3. /\ Append(q, a) \in Seq(S) /\ Len(Append(q, a)) = Len(q) + 1
      /\ \A i \in 1..Len(q) : Append(q, a)[i] = q[i]
      /\ Append(q, a)[Len(q) + 1] = a
  BY AppendProperties
<1>4. /\ Append(Append(q, a), b) \in Seq(S) /\ Len(Append(Append(q, a), b)) = Len(q) + 1 + 1
      /\ \A i \in 1..(Len(q) + 1) : Append(Append(q, a), b)[i] = Append(q, a)[i]
      /\ Append(Append(q, a), b)[Len(q) + 1 + 1] = b
  BY <1>3, AppendProperties
<1>5. ASSUME NEW i \in 1..(Len(q) + 2) PROVE (q \o <<a, b>>)[i] = Append(Append(q, a), b)[i]
  <2>1. CASE i \in 1..Len(q)
    BY <1>1, <1>2, <1>3, <1>4, <2>1
  <2>2. CASE i = Len(q) + 1
    BY <1>1, <1>2, <1>3, <1>4, <2>2
  <2>3. CASE i = Len(q) + 2
    BY <1>1, <1>2, <1>4, <2>3
  <2> QED
    BY <1>1, <2>1, <2>2, <2>3
<1> QED
  BY <1>1, <1>2, <1>4, <1>5, SeqEqual

\* Nothing has been asked at first.
LEMMA InitOInv == SessionsInit => OInv /\ Counted /\ Leaving
<1> SUFFICES ASSUME SessionsInit PROVE OInv /\ Counted /\ Leaving
  OBVIOUS
<1>1. /\ objects = 0 /\ sessions = [s \in Sessions |-> 0] /\ queue = <<>> /\ managed = {}
      /\ channels = {} /\ opened = 0 /\ main = "boot" /\ why = "none" /\ delegate = FALSE
  BY DEF SessionsInit
<1>2. <<>> \in Seq(Request) /\ Len(<<>>) = 0
  OBVIOUS
<1>3. 1..0 = {}
  OBVIOUS
<1>4. OTypes /\ Apart /\ Sorted(queue)
  BY <1>1, <1>2, <1>3 DEF OTypes, Apart, Sorted
<1>5. OInv
  BY <1>1, <1>3, <1>4 DEF OInv
<1>6. OpenSessions = {}
  BY <1>1 DEF OpenSessions
<1> QED
  BY <1>1, <1>5, <1>6 DEF Counted, Leaving

\* Every step preserves the invariant of the objects.
LEMMA StepOInv == FInv /\ OInv /\ [SessionsNext]_sessionVars => OInv' /\ GoneStays
<1> SUFFICES ASSUME FInv, OInv, [SessionsNext]_sessionVars PROVE OInv' /\ GoneStays
  OBVIOUS
<1>a. /\ objects \in Nat /\ sessions \in [Sessions -> Nat] /\ queue \in Seq(Request)
      /\ managed \subseteq 1..objects /\ channels \subseteq 1..objects
      /\ \A s \in Sessions : sessions[s] <= objects
      /\ \A i \in 1..Len(queue) : queue[i].object \in 1..objects
      /\ Apart /\ Sorted(queue)
      /\ \A o \in 1..objects : Stage(o)
      /\ \A o \in 1..objects : Open(o) <=> ~Sent(queue, "delete", o) /\ ~Gone(o)
  BY DEF OInv, OTypes
<1>b. \A op, o : Sent(queue, op, o) => o \in 1..objects
  BY <1>a DEF Sent
<1>c. /\ queue \in Seq(Request) /\ Sorted(queue)
      /\ \A i \in 1..Len(queue) : queue[i].object \in 1..objects
  BY <1>a
<1>1. ASSUME NEW s \in Sessions, InspectorStartSession(s) PROVE OInv' /\ GoneStays
  <2> DEFINE n == objects + 1
             c == Req("create", n, "none")
             d == Req("connect", n, "none")
  <2>1. /\ sessions[s] = 0 /\ objects' = n /\ sessions' = [sessions EXCEPT ![s] = n]
        /\ queue' = queue \o <<c, d>> /\ UNCHANGED <<managed, channels>>
    BY <1>1 DEF InspectorStartSession, clientVars
  <2>2. /\ n \in Nat /\ n \notin 1..objects /\ n # 0
        /\ \A o \in 1..n : o \in 1..objects \/ o = n
        /\ 1..objects \subseteq 1..n /\ n \in 1..n
    BY <1>a
  <2>3. /\ c \in Request /\ c.op = "create" /\ c.object = n
        /\ d \in Request /\ d.op = "connect" /\ d.object = n
    BY <2>2 DEF Req, Request
  <2> HIDE DEF n, c, d
  <2>4. queue' = Append(Append(queue, c), d)
    BY <1>a, <2>1, <2>3, AppendTwo
  <2>5. \A op : ~Sent(queue, op, n)
    BY <1>b, <2>2
  <2> DEFINE t == Append(queue, c)
  <2>6. /\ t \in Seq(Request) /\ Sorted(t)
        /\ \A op, o : Sent(t, op, o) <=> Sent(queue, op, o) \/ (op = "create" /\ o = n)
        /\ \A i \in 1..Len(t) : t[i].object \in 1..n
    <3>1. \A op : Sent(queue, op, c.object) => Follows(op, c.op)
      BY <2>3, <2>5
    <3>2. \A i \in 1..Len(queue) : queue[i].object \in 1..n
      BY <1>a, <2>2
    <3> QED
      BY <1>a, <2>2, <2>3, <3>1, <3>2, SentAppend
  <2> HIDE DEF t
  <2>7. /\ queue' \in Seq(Request) /\ Sorted(queue')
        /\ \A op, o : Sent(queue', op, o) <=> Sent(t, op, o) \/ (op = "connect" /\ o = n)
        /\ \A i \in 1..Len(queue') : queue'[i].object \in 1..n
    <3>1. \A op : Sent(t, op, d.object) => Follows(op, d.op)
      BY <2>3, <2>5, <2>6 DEF Follows
    <3> QED
      BY <2>2, <2>3, <2>4, <2>6, <3>1, SentAppend, Zenon DEF t
  <2>8. /\ sessions' \in [Sessions -> Nat] /\ sessions'[s] = n
        /\ \A u \in Sessions : u # s => sessions'[u] = sessions[u]
    BY <1>a, <2>1, <2>2
  <2>9. \A u \in Sessions : sessions[u] # n
    BY <1>a, <2>2 DEF n
  <2>10. OTypes'
    <3>1. \A u \in Sessions : sessions'[u] <= n
      BY <1>a, <2>8, <2>2 DEF n
    <3> QED
      BY <1>a, <2>1, <2>2, <2>7, <2>8, <3>1 DEF OTypes
  <2>11. Apart'
    BY <1>a, <2>8, <2>9 DEF Apart
  <2>12. ASSUME NEW o \in 1..n
         PROVE  Stage(o)' /\ (Open(o)' <=> ~Sent(queue', "delete", o) /\ ~Gone(o)')
                /\ (o \in 1..objects /\ Gone(o) => Gone(o)')
    <3>1. CASE o = n
      <4>1. n \notin managed /\ n \notin channels
        BY <1>a, <2>2
      <4>2. /\ Sent(queue', "create", o) /\ Sent(queue', "connect", o)
            /\ ~Sent(queue', "delete", o)
        BY <2>5, <2>6, <2>7, <3>1
      <4>3. Stage(o)'
        BY <2>1, <3>1, <4>1, <4>2 DEF Stage
      <4>4. Open(o)' /\ ~Gone(o)'
        BY <2>8, <3>1, <4>2 DEF Open, Gone
      <4> QED
        BY <2>2, <3>1, <4>2, <4>3, <4>4
    <3>2. CASE o \in 1..objects
      <4>1. o # n
        BY <2>2, <3>2
      <4>2. \A op : Sent(queue', op, o) <=> Sent(queue, op, o)
        BY <2>6, <2>7, <4>1
      <4>3. Stage(o)'
        BY <1>a, <2>1, <3>2, <4>2, Zenon DEF Stage
      <4>4. Gone(o)' <=> Gone(o)
        BY <2>1, <4>2 DEF Gone
      <4>5. Open(o)' <=> Open(o)
        <5>1. o # 0
          BY <3>2
        <5> QED
          BY <2>1, <2>8, <4>1, <5>1 DEF Open
      <4> QED
        BY <1>a, <3>2, <4>2, <4>3, <4>4, <4>5
    <3> QED
      BY <2>2, <3>1, <3>2
  <2> QED
    <3>1. OInv'
      BY <2>1, <2>7, <2>10, <2>11, <2>12, Zenon DEF OInv
    <3>2. GoneStays
      BY <2>1, <2>2, <2>12 DEF GoneStays
    <3> QED
      BY <3>1, <3>2
<1>2. ASSUME NEW s \in Sessions, InspectorEndSession(s), opened > 0 PROVE OInv' /\ GoneStays
  <2> DEFINE n == sessions[s]
             d == Req("delete", n, "none")
  <2>1. /\ n # 0 /\ sessions' = [sessions EXCEPT ![s] = 0]
        /\ queue' = Append(queue, d) /\ UNCHANGED <<objects, managed, channels>>
    BY <1>2 DEF InspectorEndSession, clientVars
  <2>2. n \in 1..objects /\ Open(n)
    BY <1>a, <2>1 DEF Open
  <2>3. d \in Request /\ d.op = "delete" /\ d.object = n
    BY <2>2 DEF Req, Request
  <2>4. \A u \in Sessions : u # s => sessions[u] # n
    BY <1>a, <2>1 DEF Apart
  <2> HIDE DEF n, d
  <2>5. ~Sent(queue, "delete", n) /\ ~Gone(n)
    BY <1>a, <2>2
  <2>6. \A op : Sent(queue, op, n) => Follows(op, "delete")
    <3>1. \A op, o : Sent(queue, op, o) => op \in {"create", "connect", "dispatch", "delete"}
      BY <1>a, SentOps
    <3> QED
      BY <2>5, <3>1 DEF Follows
  <2>7. /\ queue' \in Seq(Request) /\ Sorted(queue')
        /\ \A op, o : Sent(queue', op, o) <=> Sent(queue, op, o) \/ (op = "delete" /\ o = n)
        /\ \A i \in 1..Len(queue') : queue'[i].object \in 1..objects
    BY <1>c, <2>1, <2>2, <2>3, <2>6, SentWithin, Zenon
  <2>8. /\ sessions' \in [Sessions -> Nat] /\ sessions'[s] = 0
        /\ \A u \in Sessions : u # s => sessions'[u] = sessions[u]
    BY <1>a, <2>1
  <2>9. OTypes' /\ Apart'
    BY <1>a, <2>1, <2>7, <2>8 DEF OTypes, Apart
  <2>10. ASSUME NEW o \in 1..objects
         PROVE  Stage(o)' /\ (Open(o)' <=> ~Sent(queue', "delete", o) /\ ~Gone(o)')
                /\ (o \in 1..objects /\ Gone(o) => Gone(o)')
    <3>1. \A op : op # "delete" => (Sent(queue', op, o) <=> Sent(queue, op, o))
      BY <2>7
    <3>2. Gone(o)' <=> Gone(o)
      BY <2>1, <3>1 DEF Gone
    <3>3. o # 0
      OBVIOUS
    <3>4. CASE o = n
      <4>1. ~Open(o)' /\ Sent(queue', "delete", o)
        BY <2>4, <2>7, <2>8, <3>3, <3>4 DEF Open, n
      <4>2. Stage(o)'
        BY <1>a, <2>1, <2>5, <3>1, <3>4 DEF Stage, Gone
      <4> QED
        BY <3>2, <4>1, <4>2
    <3>5. CASE o # n
      <4>1. \A op : Sent(queue', op, o) <=> Sent(queue, op, o)
        BY <2>7, <3>5
      <4>2. Stage(o)'
        BY <1>a, <2>1, <4>1 DEF Stage
      <4>3. Open(o)' <=> Open(o)
        BY <2>1, <2>8, <3>3, <3>5 DEF Open, n
      <4> QED
        BY <1>a, <3>2, <4>1, <4>2, <4>3
    <3> QED
      BY <3>4, <3>5
  <2> QED
    BY <2>1, <2>7, <2>9, <2>10 DEF OInv, GoneStays
<1>3. ASSUME NEW s \in Sessions, NEW msg \in {"run", "resume", "eval"}, InspectorCommand(s, msg)
      PROVE  OInv' /\ GoneStays
  <2> DEFINE n == sessions[s]
             d == Req("dispatch", n, msg)
  <2>1. /\ n # 0 /\ queue' = Append(queue, d)
        /\ UNCHANGED <<objects, sessions, managed, channels>>
    BY <1>3 DEF InspectorCommand, clientVars
  <2>2. n \in 1..objects /\ Open(n)
    BY <1>a, <2>1 DEF Open
  <2>3. d \in Request /\ d.op = "dispatch" /\ d.object = n
    BY <2>2 DEF Req, Request
  <2> HIDE DEF n, d
  <2>4. ~Sent(queue, "delete", n) /\ ~Gone(n)
    BY <1>a, <2>2
  <2>5. \A op : Sent(queue, op, n) => Follows(op, "dispatch")
    <3>1. \A op, o : Sent(queue, op, o) => op \in {"create", "connect", "dispatch", "delete"}
      BY <1>a, SentOps
    <3> QED
      BY <2>4, <3>1 DEF Follows
  <2>6. /\ queue' \in Seq(Request) /\ Sorted(queue')
        /\ \A op, o : Sent(queue', op, o) <=> Sent(queue, op, o) \/ (op = "dispatch" /\ o = n)
        /\ \A i \in 1..Len(queue') : queue'[i].object \in 1..objects
    BY <1>c, <2>1, <2>2, <2>3, <2>5, SentWithin
  <2>7. OTypes' /\ Apart'
    BY <1>a, <2>1, <2>6 DEF OTypes, Apart
  <2>8. ASSUME NEW o \in 1..objects
        PROVE  Stage(o)' /\ (Open(o)' <=> ~Sent(queue', "delete", o) /\ ~Gone(o)')
                /\ (o \in 1..objects /\ Gone(o) => Gone(o)')
    <3>1. \A op : op # "dispatch" => (Sent(queue', op, o) <=> Sent(queue, op, o))
      BY <2>6
    <3>2. (Gone(o)' <=> Gone(o)) /\ (Open(o)' <=> Open(o))
      BY <2>1, <3>1 DEF Gone, Open
    <3>3. ~Gone(o) => Stage(o)'
      BY <1>a, <2>1, <3>1 DEF Stage, Gone
    <3>4. Gone(o) => Stage(o)'
      <4>1. Gone(o) => o # n
        BY <2>4
      <4> QED
        BY <1>a, <2>1, <2>6, <4>1 DEF Stage, Gone
    <3> QED
      BY <1>a, <3>1, <3>2, <3>3, <3>4
  <2> QED
    BY <2>1, <2>6, <2>7, <2>8 DEF OInv, GoneStays
<1>4. CASE DoDispatch /\ "kKill" \in Range(transport)
  <2> DEFINE S == {sessions[s] : s \in OpenSessions}
             g == Listing(S)
  <2>1. /\ sessions' = [s \in Sessions |-> 0] /\ UNCHANGED <<objects, managed, channels>>
        /\ queue' = queue \o [n \in DOMAIN g |-> Req("delete", g[n], "none")]
    BY <1>4, Zenon DEF DoDispatch, TerminateConnections, clientVars
  <2>2. \A o : o \in S <=> o \in 1..objects /\ Open(o)
    <3>1. \A s \in Sessions : sessions[s] # 0 => sessions[s] \in 1..objects
      BY <1>a
    <3> QED
      BY <3>1 DEF OpenSessions, Open
  <2>3. IsFiniteSet(S)
    <3>1. IsFiniteSet(1..objects)
      BY <1>a, FS_Interval
    <3> QED
      BY <2>2, <3>1, FS_Subset, Zenon
  <2>4. /\ g \in Seq(S)
        /\ \A i, j \in 1..Len(g) : g[i] = g[j] => i = j
        /\ \A x \in S : \E i \in 1..Len(g) : g[i] = x
    BY <2>3, SetSequence, Zenon
  <2> HIDE DEF S, g
  <2>5. \A i \in 1..Len(g) : g[i] \in S
    BY <2>4, ElementOfSeq
  <2>6. g \in Seq(Nat)
    <3>1. S \subseteq Nat
      BY <2>2
    <3> QED
      BY <2>4, <3>1, SeqMonotonic, Zenon
  <2>7. \A i \in 1..Len(g) : g[i] \in 1..objects /\ ~Sent(queue, "delete", g[i])
    BY <1>a, <2>2, <2>5
  <2>8. /\ queue' \in Seq(Request) /\ Sorted(queue')
        /\ \A op, o : Sent(queue', op, o) <=>
             Sent(queue, op, o) \/ (op = "delete" /\ \E i \in 1..Len(g) : g[i] = o)
        /\ \A i \in 1..Len(queue') : queue'[i].object \in 1..objects
    <3> DEFINE q == queue
               t == q \o [n \in DOMAIN g |-> Req("delete", g[n], "none")]
               D == 1..objects
    <3>1. (\A i \in 1..Len(q) : q[i].object \in D) /\ (\A i \in 1..Len(g) : g[i] \in D)
      BY <1>a, <2>7
    <3> HIDE DEF D
    <3>2. /\ t \in Seq(Request) /\ Sorted(t)
          /\ \A op, o : Sent(t, op, o) <=>
               Sent(q, op, o) \/ (op = "delete" /\ \E i \in 1..Len(g) : g[i] = o)
          /\ \A i \in 1..Len(t) : t[i].object \in D
      <4>1. q \in Seq(Request) /\ Sorted(q) /\ g \in Seq(Nat) /\ Deletable(q, g, D)
        BY <1>c, <2>4, <2>6, <2>7, <3>1, Zenon DEF Deletable
      <4>2. Deletes(t, q, g, D)
        <5> HIDE DEF q
        <5> QED
          BY <4>1, SentDeletes
      <4> QED
        BY <4>2, Zenon DEF Deletes
    <3> QED
      BY <2>1, <3>2, Zenon DEF D
  <2>9. OTypes' /\ Apart'
    <3>1. Apart'
      BY <2>1 DEF Apart
    <3>2. \A s \in Sessions : sessions'[s] <= objects'
      BY <1>a, <2>1
    <3> QED
      BY <1>a, <2>1, <2>8, <3>1, <3>2 DEF OTypes
  <2>10. ASSUME NEW o \in 1..objects
         PROVE  Stage(o)' /\ (Open(o)' <=> ~Sent(queue', "delete", o) /\ ~Gone(o)')
                /\ (o \in 1..objects /\ Gone(o) => Gone(o)')
    <3>1. \A op : op # "delete" => (Sent(queue', op, o) <=> Sent(queue, op, o))
      BY <2>8
    <3>2. Gone(o)' <=> Gone(o)
      BY <2>1, <3>1 DEF Gone
    <3>3. ~Open(o)'
      <4>1. o # 0
        OBVIOUS
      <4> QED
        BY <2>1, <4>1 DEF Open
    <3>4. Sent(queue', "delete", o) <=> Sent(queue, "delete", o) \/ Open(o)
      <4>1. Open(o) <=> o \in S
        BY <2>2
      <4>2. o \in S <=> \E i \in 1..Len(g) : g[i] = o
        BY <2>4, <2>5
      <4> QED
        BY <2>8, <4>1, <4>2
    <3>5. Gone(o) => ~Sent(queue', "delete", o)
      BY <1>a, <3>4 DEF Stage, Gone
    <3>6. Stage(o)'
      BY <1>a, <2>1, <3>1, <3>5, Zenon DEF Stage, Gone
    <3> QED
      BY <1>a, <3>2, <3>3, <3>4, <3>6
  <2> QED
    BY <2>1, <2>8, <2>9, <2>10 DEF OInv, GoneStays
<1>s. ASSUME Serves
      PROVE  LET r == Head(queue)
             IN /\ queue' \in Seq(Request) /\ Sorted(queue') /\ r \in Request
                /\ Sent(queue, r.op, r.object) /\ r.object \in 1..objects
                /\ \A op, o : Sent(queue', op, o) => Sent(queue, op, o)
                /\ \A op, o : Sent(queue, op, o) /\ ~(op = r.op /\ o = r.object) =>
                                Sent(queue', op, o)
                /\ \A op : Sent(queue', op, r.object) => Follows(r.op, op)
                /\ \A i \in 1..Len(queue') : queue'[i].object \in 1..objects
  BY <1>a, <1>s, SentTail, Zenon DEF Serves
<1>5. CASE ServeCreate
  <2> DEFINE n == Head(queue).object
  <2>1. /\ Serves /\ Head(queue).op = "create" /\ managed' = managed \cup {n}
        /\ UNCHANGED <<objects, sessions, channels>>
    BY <1>5 DEF ServeCreate, diagVars
  <2>2. /\ queue' \in Seq(Request) /\ Sorted(queue') /\ n \in 1..objects
        /\ Sent(queue, "create", n)
        /\ \A op, o : Sent(queue', op, o) => Sent(queue, op, o)
        /\ \A op, o : Sent(queue, op, o) /\ ~(op = "create" /\ o = n) => Sent(queue', op, o)
        /\ \A op : Sent(queue', op, n) => Follows("create", op)
        /\ \A i \in 1..Len(queue') : queue'[i].object \in 1..objects
    BY <1>s, <2>1
  <2> HIDE DEF n
  <2>3. OTypes' /\ Apart'
    BY <1>a, <2>1, <2>2 DEF OTypes, Apart
  <2>4. ASSUME NEW o \in 1..objects
        PROVE  Stage(o)' /\ (Open(o)' <=> ~Sent(queue', "delete", o) /\ ~Gone(o)')
                /\ (o \in 1..objects /\ Gone(o) => Gone(o)')
    <3>1. Open(o)' <=> Open(o)
      BY <2>1 DEF Open
    <3>2. Sent(queue', "delete", o) <=> Sent(queue, "delete", o)
      BY <2>2
    <3>3. CASE o = n
      <4>1. ~Sent(queue', "create", n)
        BY <2>2 DEF Follows
      <4>2. Sent(queue, "connect", n) /\ n \notin channels /\ ~Gone(n)
        BY <1>a, <2>2 DEF Stage, Gone
      <4>3. Stage(o)' /\ ~Gone(o)'
        BY <2>1, <2>2, <3>3, <4>1, <4>2 DEF Stage, Gone
      <4> QED
        BY <1>a, <3>1, <3>2, <3>3, <4>2, <4>3
    <3>4. CASE o # n
      <4>1. \A op : Sent(queue', op, o) <=> Sent(queue, op, o)
        BY <2>2, <3>4
      <4>2. Stage(o)' /\ (Gone(o)' <=> Gone(o))
        BY <1>a, <2>1, <3>4, <4>1 DEF Stage, Gone
      <4> QED
        BY <1>a, <3>1, <3>2, <4>2
    <3> QED
      BY <3>3, <3>4
  <2> QED
    BY <2>1, <2>2, <2>3, <2>4 DEF OInv, GoneStays
<1>6. CASE ServeConnect
  <2> DEFINE n == Head(queue).object
  <2>1. /\ Serves /\ Head(queue).op = "connect" /\ channels' = channels \cup {n}
        /\ UNCHANGED <<objects, sessions, managed>>
    BY <1>6 DEF ServeConnect, diagVars
  <2>2. /\ queue' \in Seq(Request) /\ Sorted(queue') /\ n \in 1..objects
        /\ Sent(queue, "connect", n)
        /\ \A op, o : Sent(queue', op, o) => Sent(queue, op, o)
        /\ \A op, o : Sent(queue, op, o) /\ ~(op = "connect" /\ o = n) => Sent(queue', op, o)
        /\ \A op : Sent(queue', op, n) => Follows("connect", op)
        /\ \A i \in 1..Len(queue') : queue'[i].object \in 1..objects
    BY <1>s, <2>1
  <2> HIDE DEF n
  <2>3. OTypes' /\ Apart'
    BY <1>a, <2>1, <2>2 DEF OTypes, Apart
  <2>4. ASSUME NEW o \in 1..objects
        PROVE  Stage(o)' /\ (Open(o)' <=> ~Sent(queue', "delete", o) /\ ~Gone(o)')
                /\ (o \in 1..objects /\ Gone(o) => Gone(o)')
    <3>1. /\ Open(o)' <=> Open(o)
          /\ Sent(queue', "delete", o) <=> Sent(queue, "delete", o)
          /\ Sent(queue', "create", o) <=> Sent(queue, "create", o)
      BY <2>1, <2>2 DEF Open
    <3>2. Gone(o)' <=> Gone(o)
      BY <2>1, <3>1 DEF Gone
    <3>3. CASE o = n
      <4>1. ~Sent(queue', "create", n) /\ ~Sent(queue', "connect", n)
        BY <2>2 DEF Follows
      <4>2. n \in managed
        BY <1>a, <2>2, <3>1, <3>3, <4>1 DEF Stage
      <4> QED
        BY <1>a, <2>1, <3>1, <3>2, <3>3, <4>1, <4>2 DEF Stage
    <3>4. CASE o # n
      <4>1. \A op : Sent(queue', op, o) <=> Sent(queue, op, o)
        BY <2>2, <3>4
      <4>2. Stage(o)'
        BY <1>a, <2>1, <3>4, <4>1 DEF Stage
      <4> QED
        BY <1>a, <3>1, <3>2, <4>2
    <3> QED
      BY <3>3, <3>4
  <2> QED
    BY <2>1, <2>2, <2>3, <2>4 DEF OInv, GoneStays
<1>7. CASE ServeDelete
  <2> DEFINE n == Head(queue).object
  <2>1. /\ Serves /\ Head(queue).op = "delete" /\ managed' = managed \ {n}
        /\ channels' = channels \ {n} /\ UNCHANGED <<objects, sessions>>
    BY <1>7 DEF ServeDelete, diagVars
  <2>2. /\ queue' \in Seq(Request) /\ Sorted(queue') /\ n \in 1..objects
        /\ Sent(queue, "delete", n)
        /\ \A op, o : Sent(queue', op, o) => Sent(queue, op, o)
        /\ \A op, o : Sent(queue, op, o) /\ ~(op = "delete" /\ o = n) => Sent(queue', op, o)
        /\ \A op : Sent(queue', op, n) => Follows("delete", op)
        /\ \A i \in 1..Len(queue') : queue'[i].object \in 1..objects
    BY <1>s, <2>1
  <2> HIDE DEF n
  <2>3. OTypes' /\ Apart'
    BY <1>a, <2>1, <2>2 DEF OTypes, Apart
  <2>4. ASSUME NEW o \in 1..objects
        PROVE  Stage(o)' /\ (Open(o)' <=> ~Sent(queue', "delete", o) /\ ~Gone(o)')
                /\ (o \in 1..objects /\ Gone(o) => Gone(o)')
    <3>1. Open(o)' <=> Open(o)
      BY <2>1 DEF Open
    <3>2. CASE o = n
      <4>1. \A op : ~Sent(queue', op, n)
        BY <2>2 DEF Follows
      <4>2. ~Open(n)
        BY <1>a, <2>2
      <4> QED
        BY <2>1, <3>1, <3>2, <4>1, <4>2 DEF Stage, Gone
    <3>3. CASE o # n
      <4>1. \A op : Sent(queue', op, o) <=> Sent(queue, op, o)
        BY <2>2, <3>3
      <4>2. Stage(o)' /\ (Gone(o)' <=> Gone(o))
        BY <1>a, <2>1, <3>3, <4>1 DEF Stage, Gone
      <4> QED
        BY <1>a, <3>1, <4>1, <4>2
    <3> QED
      BY <3>2, <3>3
  <2> QED
    BY <2>1, <2>2, <2>3, <2>4 DEF OInv, GoneStays
<1>8. CASE ServeRun \/ ServeResume \/ \E break \in BOOLEAN : ServeEvaluate(break)
  <2> DEFINE n == Head(queue).object
  <2>1. /\ Serves /\ Head(queue).op = "dispatch"
        /\ UNCHANGED <<objects, sessions, managed, channels>>
    BY <1>8 DEF ServeRun, ServeResume, ServeEvaluate, diagVars, clientVars
  <2>2. /\ queue' \in Seq(Request) /\ Sorted(queue')
        /\ \A op, o : Sent(queue', op, o) => Sent(queue, op, o)
        /\ \A op, o : Sent(queue, op, o) /\ ~(op = "dispatch" /\ o = n) => Sent(queue', op, o)
        /\ \A i \in 1..Len(queue') : queue'[i].object \in 1..objects
    BY <1>s, <2>1
  <2> HIDE DEF n
  <2>3. OTypes' /\ Apart'
    BY <1>a, <2>1, <2>2 DEF OTypes, Apart
  <2>4. ASSUME NEW o \in 1..objects
        PROVE  Stage(o)' /\ (Open(o)' <=> ~Sent(queue', "delete", o) /\ ~Gone(o)')
                /\ (o \in 1..objects /\ Gone(o) => Gone(o)')
    <3>1. \A op : op # "dispatch" => (Sent(queue', op, o) <=> Sent(queue, op, o))
      BY <2>2
    <3>2. (Open(o)' <=> Open(o)) /\ (Gone(o)' <=> Gone(o))
      BY <2>1, <3>1 DEF Open, Gone
    <3>3. Stage(o)'
      BY <1>a, <2>1, <2>2, <3>1 DEF Stage
    <3> QED
      BY <1>a, <3>1, <3>2, <3>3
  <2> QED
    BY <2>1, <2>2, <2>3, <2>4 DEF OInv, GoneStays
<1>9. ASSUME UNCHANGED <<objects, sessions, queue, managed, channels>> PROVE OInv' /\ GoneStays
  <2>1. OTypes' /\ Apart'
    BY <1>a, <1>9 DEF OTypes, Apart
  <2>2. ASSUME NEW o \in 1..objects
        PROVE  Stage(o)' /\ (Open(o)' <=> ~Sent(queue', "delete", o) /\ ~Gone(o)')
    BY <1>a, <1>9 DEF Stage, Open, Gone
  <2>3. GoneStays
    BY <1>9 DEF GoneStays, Gone
  <2> QED
    BY <1>a, <1>9, <2>1, <2>2, <2>3 DEF OInv
<1>10. ASSUME \/ OnConnect \/ Disconnected \/ InspectorStart \/ BootstrapAgent \/ StartInterrupt
              \/ ScriptBreaks \/ LoopLeave \/ ScriptEnds \/ EmitUncaughtException
              \/ EmitUncaughtInLoop \/ StopAgent \/ UNCHANGED sessionVars
              \/ (DoDispatch /\ "kKill" \notin Range(transport))
              \/ (~(opened > 0) /\ \E s \in Sessions : InspectorEndSession(s))
       PROVE  UNCHANGED <<objects, sessions, queue, managed, channels>>
  BY <1>10 DEF OnConnect, Disconnected, InspectorStart, BootstrapAgent, StartInterrupt,
               ScriptBreaks, LoopLeave, ScriptEnds, EmitUncaughtException, EmitUncaughtInLoop,
               StopAgent, DoDispatch, InspectorEndSession, sessionVars, workerVars, diagVars,
               linkVars, clientVars
<1> QED
  BY <1>1, <1>2, <1>3, <1>4, <1>5, <1>6, <1>7, <1>8, <1>9, <1>10 DEF SessionsNext, ClientStep

\* The channel's count follows the sessions.
LEMMA StepCounted == FInv /\ OInv /\ Counted /\ [SessionsNext]_sessionVars => Counted'
<1> SUFFICES ASSUME FInv, OInv, Counted, [SessionsNext]_sessionVars PROVE Counted'
  OBVIOUS
<1>a. /\ delegate => opened = Cardinality(OpenSessions)
      /\ ~delegate => OpenSessions = {}
      /\ ~delegate /\ main # "stopped" => opened = 0
      /\ main # "stopped" => (io <=> delegate) /\ ~In("kKill", transport)
      /\ sessions \in [Sessions -> Nat] /\ objects \in Nat
  BY DEF Counted, FInv, Telling, OInv, OTypes
<1>f. IsFiniteSet(OpenSessions)
  <2>1. OpenSessions \subseteq Sessions
    BY DEF OpenSessions
  <2> QED
    BY <2>1, SessionsFinite, FS_Subset
<1>1. ASSUME NEW s \in Sessions, InspectorStartSession(s) PROVE Counted'
  <2>1. /\ delegate /\ delegate' = delegate /\ opened' = opened + 1 /\ sessions[s] = 0
        /\ sessions' = [sessions EXCEPT ![s] = objects + 1]
    BY <1>1 DEF InspectorStartSession
  <2>2. OpenSessions' = OpenSessions \cup {s} /\ s \notin OpenSessions
    <3>1. objects + 1 # 0
      BY <1>a
    <3>2. sessions'[s] = objects + 1 /\ \A u \in Sessions : u # s => sessions'[u] = sessions[u]
      BY <1>a, <2>1
    <3> QED
      BY <2>1, <3>1, <3>2 DEF OpenSessions
  <2>3. Cardinality(OpenSessions \cup {s}) = Cardinality(OpenSessions) + 1
    BY <1>f, <2>2, FS_AddElement
  <2> QED
    BY <1>a, <2>1, <2>2, <2>3 DEF Counted
<1>2. ASSUME NEW s \in Sessions, InspectorEndSession(s), opened > 0 PROVE Counted'
  <2>1. /\ delegate /\ delegate' = delegate /\ opened' = opened - 1 /\ sessions[s] # 0
        /\ sessions' = [sessions EXCEPT ![s] = 0]
    BY <1>2 DEF InspectorEndSession
  <2>2. OpenSessions' = OpenSessions \ {s} /\ s \in OpenSessions
    <3>1. sessions'[s] = 0 /\ \A u \in Sessions : u # s => sessions'[u] = sessions[u]
      BY <1>a, <2>1
    <3> QED
      BY <2>1, <3>1 DEF OpenSessions
  <2>3. Cardinality(OpenSessions \ {s}) = Cardinality(OpenSessions) - 1
    BY <1>f, <2>2, FS_RemoveElement
  <2> QED
    BY <1>a, <2>1, <2>2, <2>3 DEF Counted
<1>3. CASE DoDispatch /\ "kKill" \in Range(transport)
  <2>1. /\ delegate' = FALSE /\ sessions' = [s \in Sessions |-> 0] /\ main' = main
        /\ main = "stopped"
    BY <1>3, <1>a DEF DoDispatch, TerminateConnections, waitVars, Range, In
  <2>2. OpenSessions' = {}
    BY <2>1 DEF OpenSessions
  <2> QED
    BY <2>1, <2>2 DEF Counted
<1>4. ASSUME StartInspectorIo, main # "stopped", UNCHANGED <<opened, sessions>> PROVE Counted'
  <2>1. OpenSessions' = OpenSessions
    BY <1>4 DEF OpenSessions
  <2>2. CASE io
    BY <1>4, <1>a, <2>1, <2>2 DEF StartInspectorIo, Counted
  <2>3. CASE ~io
    <3>1. delegate' = TRUE /\ OpenSessions = {} /\ opened = 0
      BY <1>4, <1>a, <2>3 DEF StartInspectorIo
    <3> QED
      BY <1>4, <2>1, <3>1, FS_EmptySet DEF Counted
  <2> QED
    BY <2>2, <2>3
<1>5. ASSUME UNCHANGED <<delegate, opened, sessions>>, main = "stopped" => main' = "stopped"
      PROVE  Counted'
  <2>1. OpenSessions' = OpenSessions
    BY <1>5 DEF OpenSessions
  <2> QED
    BY <1>5, <1>a, <2>1 DEF Counted
<1>6. CASE BootstrapAgent
  <2>1. CASE options.inspect
    BY <1>4, <1>6, <2>1 DEF BootstrapAgent
  <2>2. CASE ~options.inspect
    BY <1>5, <1>6, <2>2 DEF BootstrapAgent
  <2> QED
    BY <2>1, <2>2
<1>7. CASE StartInterrupt
  BY <1>4, <1>7 DEF StartInterrupt, Live
<1>8. ASSUME \/ OnConnect \/ Disconnected \/ InspectorStart
             \/ ScriptBreaks \/ LoopLeave \/ ScriptEnds \/ EmitUncaughtException
             \/ EmitUncaughtInLoop \/ StopAgent \/ UNCHANGED sessionVars
             \/ (DoDispatch /\ "kKill" \notin Range(transport))
             \/ (~(opened > 0) /\ \E s \in Sessions : InspectorEndSession(s))
             \/ (\E s \in Sessions, msg \in {"run", "resume", "eval"} : InspectorCommand(s, msg))
             \/ ServeCreate \/ ServeConnect \/ ServeDelete \/ ServeRun \/ ServeResume
             \/ (\E break \in BOOLEAN : ServeEvaluate(break))
      PROVE  UNCHANGED <<delegate, opened, sessions>> /\ (main = "stopped" => main' = "stopped")
  BY <1>8 DEF OnConnect, Disconnected, InspectorStart, ScriptBreaks, LoopLeave, ScriptEnds,
              EmitUncaughtException, EmitUncaughtInLoop, StopAgent, DoDispatch,
              InspectorEndSession, InspectorCommand, ServeCreate, ServeConnect, ServeDelete,
              ServeRun, ServeResume, ServeEvaluate, Serves, Live, MessageLoopOnPause, sessionVars,
              workerVars, diagVars, linkVars, clientVars, waitVars
<1> QED
  BY <1>1, <1>2, <1>3, <1>5, <1>6, <1>7, <1>8 DEF SessionsNext, ClientStep

\* A wait for the debugger ends, or is given up, with a session that has left.
LEMMA StepLeaving ==
  FInv /\ OInv /\ OInv' /\ GoneStays /\ Leaving /\ [SessionsNext]_sessionVars => Leaving'
<1> SUFFICES ASSUME FInv, OInv, OInv', GoneStays, Leaving, [SessionsNext]_sessionVars
             PROVE  Leaving'
  OBVIOUS
<1> DEFINE SomeGone == \E o \in 1..objects : Gone(o)
<1>a. SomeGone => SomeGone'
  BY DEF GoneStays
<1>o. options' = options
  BY DEF SessionsNext, sessionVars
<1>b. /\ main # "loop" => why = "none"
      /\ options.inspect /\ main \notin {"boot", "stopped"} => io
      /\ main \in {"boot", "script", "loop", "exit", "stopped"}
  BY DEF FInv, Places
<1>c. why \in {"disconnect", "report"} \/ (main = "exit" /\ options.inspect) =>
        forDisconnect \/ SomeGone
  BY DEF Leaving
<1> HIDE DEF SomeGone
<1>d. ASSUME why' \in {"disconnect", "report"} \/ (main' = "exit" /\ options.inspect) =>
               forDisconnect' \/ SomeGone \/ SomeGone'
      PROVE  Leaving'
  BY <1>a, <1>d, <1>o DEF Leaving, SomeGone
<1>1. CASE ServeDelete
  <2>1. /\ Serves /\ Head(queue).op = "delete" /\ UNCHANGED <<main, why, objects>>
        /\ managed' = managed \ {Head(queue).object}
        /\ forDisconnect' = (forDisconnect /\ Head(queue).object \notin channels)
    BY <1>1 DEF ServeDelete, diagVars
  <2>2. /\ Head(queue).object \in 1..objects /\ queue' = Tail(queue)
        /\ \A op : ~Sent(queue', op, Head(queue).object)
    <3>1. queue \in Seq(Request) /\ queue # <<>> /\ queue' = Tail(queue) /\ Sorted(queue)
          /\ \A i \in 1..Len(queue) : queue[i].object \in 1..objects
      BY <2>1 DEF Serves, OInv, OTypes
    <3>2. \A op : Sent(queue', op, Head(queue).object) => Follows("delete", op)
      BY <2>1, <3>1, SentTail, Zenon
    <3>3. Len(queue) \in Nat \ {0} /\ Head(queue) = queue[1]
      BY <3>1, EmptySeq
    <3> QED
      BY <3>1, <3>2, <3>3 DEF Follows
  <2>3. SomeGone'
    BY <2>1, <2>2 DEF SomeGone, Gone
  <2> QED
    BY <1>d, <2>3
<1>2. CASE LoopLeave
  BY <1>2, <1>b, <1>c, <1>d DEF LoopLeave
<1>3. CASE ScriptEnds
  BY <1>3, <1>b, <1>c, <1>d DEF ScriptEnds, WaitForDisconnect
<1>4. CASE EmitUncaughtException
  BY <1>4, <1>b, <1>c, <1>d DEF EmitUncaughtException, WaitForDisconnect
<1>5. CASE EmitUncaughtInLoop
  BY <1>5, <1>d DEF EmitUncaughtInLoop, WaitForDisconnect
<1>6. CASE StopAgent
  BY <1>6, <1>b, <1>d DEF StopAgent
<1>7. CASE ScriptBreaks \/ \E break \in BOOLEAN : ServeEvaluate(break)
  BY <1>7, <1>b, <1>c, <1>d DEF ScriptBreaks, ServeEvaluate, MessageLoopOnPause, Serves, Live
<1>8. CASE BootstrapAgent
  BY <1>8, <1>b, <1>d DEF BootstrapAgent
<1>9. ASSUME \/ OnConnect \/ Disconnected \/ InspectorStart \/ DoDispatch \/ StartInterrupt
             \/ UNCHANGED sessionVars
             \/ (\E s \in Sessions : InspectorStartSession(s) \/ InspectorEndSession(s))
             \/ (\E s \in Sessions, msg \in {"run", "resume", "eval"} : InspectorCommand(s, msg))
             \/ ServeCreate \/ ServeConnect \/ ServeRun \/ ServeResume
      PROVE  UNCHANGED <<main, why, forDisconnect>>
  BY <1>9 DEF OnConnect, Disconnected, InspectorStart, DoDispatch, StartInterrupt,
              InspectorStartSession, InspectorEndSession, InspectorCommand, ServeCreate,
              ServeConnect, ServeRun, ServeResume, sessionVars, workerVars, waitVars
<1>10. ASSUME UNCHANGED <<main, why, forDisconnect>> PROVE Leaving'
  BY <1>10, <1>c, <1>d
<1> QED
  BY <1>1, <1>2, <1>3, <1>4, <1>5, <1>6, <1>7, <1>8, <1>9, <1>10 DEF SessionsNext, ClientStep

\* For any number of sessions, objects and commands: requests find their objects,
\* no session is forgotten at either end, the agent is told once, and what is
\* refused or left behind has its reason.
THEOREM SessionsDoAgree == SessionsSpec => []SessionsAgree
<1> DEFINE Inv == FInv /\ OInv /\ Counted /\ Leaving
<1>1. SessionsInit => Inv
  BY InitFInv, InitOInv
<1>2. Inv /\ [SessionsNext]_sessionVars => Inv'
  BY StepFInv, StepOInv, StepCounted, StepLeaving
<1>3. Inv => ObjectsExist
  <2> SUFFICES ASSUME OInv, queue # <<>>
               PROVE  LET r == Head(queue)
                      IN /\ r.op \in {"create", "connect", "dispatch", "delete"}
                         /\ r.op = "create" => r.object \notin managed
                         /\ r.op = "dispatch" => r.object \in channels
                         /\ r.op \in {"connect", "delete"} => r.object \in managed
    BY DEF ObjectsExist
  <2> DEFINE r == Head(queue)
  <2>1. /\ queue \in Seq(Request) /\ Sorted(queue)
        /\ \A o \in 1..objects : Stage(o)
    BY DEF OInv, OTypes
  <2>2. r \in Request /\ Sent(queue, r.op, r.object) /\ r.object \in 1..objects
    <3>1. Len(queue) \in Nat \ {0} /\ Head(queue) = queue[1]
      BY <2>1, EmptySeq
    <3>2. r.object \in 1..objects
      BY <3>1 DEF OInv, OTypes
    <3> QED
      BY <2>1, <3>2, SentTail
  <2>3. Stage(r.object)
    BY <2>1, <2>2
  <2>4. \A op : Sent(queue, op, r.object) => op = r.op \/ Follows(r.op, op)
    BY <2>1, SentTail, Zenon
  <2> HIDE DEF r
  <2>5. r.op # "create" => ~Sent(queue, "create", r.object)
    BY <2>2, <2>4 DEF Follows, Request
  <2>6. r.op \in {"dispatch", "delete"} => ~Sent(queue, "connect", r.object)
    BY <2>4 DEF Follows
  <2>7. r.op \in {"create", "connect", "dispatch", "delete"}
    BY <2>2 DEF Request
  <2> QED
    BY <2>2, <2>3, <2>5, <2>6, <2>7 DEF Stage, r
<1>4. Inv => SessionsFollow
  <2> SUFFICES ASSUME OInv PROVE SessionsFollow
    OBVIOUS
  <2> DEFINE sentFor(op) == {r.object : r \in {q \in Range(queue) : q.op = op}}
  <2>1. \A op, o : o \in sentFor(op) <=> Sent(queue, op, o)
    <3>1. DOMAIN queue = 1..Len(queue)
      BY LenProperties DEF OInv, OTypes
    <3> QED
      BY <3>1 DEF Range, Sent
  <2>2. \A o : o \in {sessions[s] : s \in OpenSessions} <=> o \in 1..objects /\ Open(o)
    <3>1. \A s \in Sessions : sessions[s] # 0 => sessions[s] \in 1..objects
      BY DEF OInv, OTypes
    <3> QED
      BY <3>1 DEF OpenSessions, Open
  <2>3. /\ \A o \in 1..objects : Stage(o)
        /\ \A o \in 1..objects : Open(o) <=> ~Sent(queue, "delete", o) /\ ~Gone(o)
        /\ channels \subseteq 1..objects
        /\ \A op, o : Sent(queue, op, o) => o \in 1..objects
    BY DEF OInv, OTypes, Sent
  <2>4. ASSUME NEW o \in 1..objects
        PROVE  o \in channels \/ Sent(queue, "connect", o) <=> ~Gone(o)
    BY <2>3 DEF Stage, Gone
  <2>5. ASSUME NEW o
        PROVE  o \in (channels \cup sentFor("connect")) \ sentFor("delete")
                 <=> o \in {sessions[s] : s \in OpenSessions}
    BY <2>1, <2>2, <2>3, <2>4, Zenon
  <2> QED
    BY <2>5, Zenon DEF SessionsFollow
<1>5. Inv => CountAgrees /\ ToldOnce
  BY DEF Counted, CountAgrees, FInv, Telling
<1>6. Inv => RefusesExplained
  BY DEF FInv, Places, Refusing, RefusesExplained
<1>7. Inv => LeftExplained
  <2> SUFFICES ASSUME OInv, NEW o \in 1..objects, Gone(o)
               PROVE  Req("create", o, "none") \notin Range(queue)
    BY DEF Leaving, LeftExplained, Gone
  <2>1. DOMAIN queue = 1..Len(queue)
    BY LenProperties DEF OInv, OTypes
  <2>2. Req("create", o, "none").op = "create" /\ Req("create", o, "none").object = o
    BY DEF Req
  <2> QED
    BY <2>1, <2>2 DEF Gone, Sent, Range
<1>8. Inv => SessionsAgree
  BY <1>3, <1>4, <1>5, <1>6, <1>7 DEF SessionsAgree
<1> QED
  BY <1>1, <1>2, <1>8, PTL DEF SessionsSpec
=============================================================================
