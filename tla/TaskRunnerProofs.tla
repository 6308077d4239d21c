-------------------------- MODULE TaskRunnerProofs --------------------------
(***************************************************************************)
(* What the main thread's event loop runs, and the work that keeps it      *)
(* running.                                                                *)
(*                                                                         *)
(* V8's tasks are kept, for any number of tasks, any delays, any lag of    *)
(* the clock and any nesting of the loop: each is in one place, they wait  *)
(* in the order they were posted, and a queue that holds one has its       *)
(* wake-up pending.  Only the innermost call of RunTasks is not within a   *)
(* task, and one that is about to drain the queues or to arm the timer has *)
(* nothing left to run (TStack); nothing is numbered above posted, which   *)
(* is why the next post is new (Numbered).                                 *)
(***************************************************************************)
EXTENDS TaskRunner, DataChannel, StackFacts, FiniteSetTheorems

Task == Delayed \cup Int

Call == [pc : {"drain", "run", "task", "arm"}, age : Nat, batch : Seq(Task), arms : BOOLEAN]

TTypes ==
  /\ posted \in Nat
  /\ tasks \in Seq(Task) /\ ran \in Seq(Task) /\ frames \in Seq(Call)
  /\ delayed \subseteq Delayed /\ IsFiniteSet(delayed)
  /\ left \in [Delayed -> Int] /\ \A d \in Delayed : left[d] >= -MaxLag - 1
  /\ timer \in Int

TStack ==
  \A i \in DOMAIN frames :
    /\ frames[i].pc \in {"drain", "arm"} => frames[i].batch = <<>>
    /\ i > 1 => frames[i].pc = "task"

Numbered ==
  /\ Range(tasks) \subseteq 1..posted
  /\ Range(ran) \subseteq 1..posted \cup Delayed
  /\ \A i \in DOMAIN frames : Taken(i) \subseteq 1..posted \cup Delayed

TInv == TTypes /\ TStack /\ Numbered /\ Conserved /\ PostOrder /\ WakeupPending

-----------------------------------------------------------------------------
(* The stack of calls *)

\* A new call.
LEMMA FrameIsCall ==
  ASSUME NEW b \in BOOLEAN
  PROVE  /\ Frame(b) \in Call /\ Frame(b).batch = <<>> /\ Frame(b).pc = "drain"
         /\ Frame(b).arms = b /\ Range(Frame(b).batch) = {}
         /\ IsInjective(Frame(b).batch) /\ InOrder(Frame(b).batch)
BY DEF Frame, Call, Range, IsInjective, InOrder

\* Nothing but the stack changes, and with it no batch: a call is pushed.
LEMMA PushKeeps ==
  ASSUME TInv, NEW b \in BOOLEAN, Push(Frame(b)), Polls,
         UNCHANGED <<posted, tasks, delayed, sending, ran>>
  PROVE  /\ frames' \in Seq(Call) /\ TStack' /\ Numbered' /\ Conserved' /\ PostOrder'
         /\ \E f \in Range(frames') : f.pc = "drain" /\ f.arms = b
         /\ Range(frames) \subseteq Range(frames')
<1> DEFINE n == Len(frames)
<1>1. /\ frames \in Seq(Call) /\ n \in Nat /\ DOMAIN frames = 1..n
  BY LenProperties DEF TInv, TTypes
<1>2. /\ frames' \in Seq(Call) /\ DOMAIN frames' = 1..(n + 1)
      /\ frames'[1] = Frame(b)
      /\ \A i \in 1..n : frames'[i + 1] = frames[i]
      /\ \A i \in 2..(n + 1) : frames'[i] = frames[i - 1]
  BY <1>1, FrameIsCall, PushFacts, LenProperties DEF Push
<1>3. \A i \in 2..(n + 1) : i - 1 \in 1..n /\ Taken(i)' = Taken(i - 1)
  BY <1>1, <1>2 DEF Taken
<1>4. Taken(1)' = {}
  BY <1>2, FrameIsCall, Zenon DEF Taken
<1>5. \A i \in 1..n : i + 1 \in 1..(n + 1) /\ Taken(i + 1)' = Taken(i)
  BY <1>1, <1>2 DEF Taken
<1>6. TStack'
  <2> SUFFICES ASSUME NEW i \in 1..(n + 1)
               PROVE  /\ frames'[i].pc \in {"drain", "arm"} => frames'[i].batch = <<>>
                      /\ i > 1 => frames'[i].pc = "task"
    BY <1>2 DEF TStack
  <2>1. CASE i = 1
    BY <1>2, <2>1, FrameIsCall
  <2>2. CASE i # 1
    <3>1. i - 1 \in 1..n /\ frames'[i] = frames[i - 1] /\ n > 0
      BY <1>1, <1>2, <2>2
    <3>2. frames # <<>>
      BY <1>1, <3>1
    <3>3. frames[i - 1].pc = "task"
      BY <1>1, <3>1, <3>2 DEF TInv, TStack, Polls, Top
    <3> QED
      BY <3>1, <3>3
  <2> QED
    BY <2>1, <2>2
<1>7. Numbered'
  <2>1. ASSUME NEW i \in 1..(n + 1) PROVE Taken(i)' \subseteq 1..posted \cup Delayed
    BY <1>1, <1>3, <1>4 DEF TInv, Numbered
  <2> QED
    BY <1>2, <2>1 DEF TInv, Numbered
<1>8. Conserved'
  <2>1. ASSUME NEW i \in 1..(n + 1)
        PROVE  /\ IsInjective(frames'[i].batch)
               /\ Taken(i)' \cap (Range(tasks) \cup delayed \cup Range(ran)) = {}
    <3>1. CASE i = 1
      BY <1>2, <1>4, <3>1, FrameIsCall
    <3>2. CASE i # 1
      BY <1>1, <1>2, <1>3, <3>2 DEF TInv, Conserved
    <3> QED
      BY <3>1, <3>2
  <2>2. ASSUME NEW i \in 1..(n + 1), NEW j \in 1..(n + 1), i # j
        PROVE  Taken(i)' \cap Taken(j)' = {}
    <3>1. CASE i = 1 \/ j = 1
      BY <1>4, <3>1
    <3>2. CASE i # 1 /\ j # 1
      <4>1. i - 1 \in 1..n /\ j - 1 \in 1..n /\ i - 1 # j - 1
        BY <1>1, <2>2, <3>2
      <4>2. Taken(i - 1) \cap Taken(j - 1) = {}
        BY <1>1, <4>1 DEF TInv, Conserved
      <4> QED
        BY <1>1, <1>3, <3>2, <4>2
    <3> QED
      BY <3>1, <3>2
  <2>3. ASSUME NEW x, Waits(x) PROVE Waits(x)'
    <3>1. ASSUME NEW i \in 1..n, x \in Taken(i) PROVE Waits(x)'
      BY <1>2, <1>5, <3>1 DEF Waits
    <3> QED
      BY <1>1, <2>3, <3>1 DEF Waits
  <2> QED
    BY <1>2, <2>1, <2>2, <2>3 DEF TInv, Conserved
<1>9. PostOrder'
  <2>1. ASSUME NEW i \in 1..(n + 1)
        PROVE  InOrder(frames'[i].batch) /\ Before(Taken(i)', Range(tasks))
    <3>1. CASE i = 1
      BY <1>2, <1>4, <3>1, FrameIsCall DEF Before
    <3>2. CASE i # 1
      BY <1>1, <1>2, <1>3, <3>2 DEF TInv, PostOrder
    <3> QED
      BY <3>1, <3>2
  <2>2. ASSUME NEW i \in 1..(n + 1), NEW j \in 1..(n + 1), i < j
        PROVE  Before(Taken(j)', Taken(i)')
    <3>1. CASE i = 1
      BY <1>4, <3>1 DEF Before
    <3>2. CASE i # 1
      <4>1. i - 1 \in 1..n /\ j - 1 \in 1..n /\ i - 1 < j - 1
        BY <1>1, <2>2, <3>2
      <4>2. Before(Taken(j - 1), Taken(i - 1))
        BY <1>1, <4>1 DEF TInv, PostOrder
      <4>3. i \in 2..(n + 1) /\ j \in 2..(n + 1)
        BY <2>2, <3>2
      <4> QED
        BY <1>3, <4>2, <4>3
    <3> QED
      BY <3>1, <3>2
  <2> QED
    BY <1>2, <2>1, <2>2 DEF TInv, PostOrder
<1>10. \E f \in Range(frames') : f.pc = "drain" /\ f.arms = b
  <2>1. frames'[1] \in Range(frames')
    BY <1>1, <1>2 DEF Range
  <2> QED
    BY <1>2, <2>1, FrameIsCall
<1>11. Range(frames) \subseteq Range(frames')
  BY <1>1, <1>2 DEF Range
<1> QED
  BY <1>2, <1>6, <1>7, <1>8, <1>9, <1>10, <1>11

\* The innermost call returns; it has run what it took.
LEMMA PopKeeps ==
  ASSUME TInv, frames # <<>>, Top.batch = <<>>, frames' = Tail(frames),
         UNCHANGED <<posted, tasks, delayed, sending, ran>>
  PROVE  /\ frames' \in Seq(Call) /\ TStack' /\ Numbered' /\ Conserved' /\ PostOrder'
         /\ \A f \in Range(frames) : f = Top \/ f \in Range(frames')
<1> DEFINE n == Len(frames) - 1
<1>1. /\ frames \in Seq(Call) /\ n \in Nat /\ DOMAIN frames = 1..(n + 1)
  BY LenProperties, EmptySeq DEF TInv, TTypes
<1>2. /\ frames' \in Seq(Call) /\ DOMAIN frames' = 1..n
      /\ \A i \in 1..n : frames'[i] = frames[i + 1]
      /\ \A i \in 2..(n + 1) : frames'[i - 1] = frames[i]
  BY <1>1, PopFacts, LenProperties
<1> HIDE DEF n
<1>3. \A i \in 1..n : i + 1 \in 1..(n + 1) /\ Taken(i)' = Taken(i + 1)
  BY <1>1, <1>2 DEF Taken
<1>4. Taken(1) = {}
  BY DEF Taken, Range, Top
<1>5. \A i \in 2..(n + 1) : i - 1 \in 1..n /\ Taken(i - 1)' = Taken(i)
  BY <1>1, <1>2 DEF Taken
<1>6. TStack'
  BY <1>1, <1>2 DEF TInv, TStack
<1>7. Numbered'
  <2>1. ASSUME NEW i \in 1..n PROVE Taken(i)' \subseteq 1..posted \cup Delayed
    BY <1>1, <1>3 DEF TInv, Numbered
  <2> QED
    BY <1>2, <2>1, Zenon DEF TInv, Numbered
<1>8. Conserved'
  <2>1. ASSUME NEW i \in 1..n
        PROVE  /\ IsInjective(frames'[i].batch)
               /\ Taken(i)' \cap (Range(tasks) \cup delayed \cup Range(ran)) = {}
    BY <1>1, <1>2, <1>3 DEF TInv, Conserved
  <2>2. ASSUME NEW i \in 1..n, NEW j \in 1..n, i # j
        PROVE  Taken(i)' \cap Taken(j)' = {}
    <3>1. i + 1 \in 1..(n + 1) /\ j + 1 \in 1..(n + 1) /\ i + 1 # j + 1
      BY <1>1, <2>2
    <3>2. Taken(i + 1) \cap Taken(j + 1) = {}
      BY <1>1, <3>1 DEF TInv, Conserved
    <3> QED
      BY <1>3, <3>2
  <2>3. ASSUME NEW x, Waits(x) PROVE Waits(x)'
    <3>1. ASSUME NEW i \in 1..(n + 1), x \in Taken(i) PROVE Waits(x)'
      <4>1. i # 1
        BY <1>4, <3>1
      <4>2. i - 1 \in 1..n /\ x \in Taken(i - 1)'
        BY <1>1, <1>5, <3>1, <4>1
      <4> QED
        BY <1>2, <4>2, Zenon DEF Waits
    <3> QED
      BY <1>1, <2>3, <3>1 DEF Waits
  <2> QED
    BY <1>2, <2>1, <2>2, <2>3, Zenon DEF TInv, Conserved
<1>9. PostOrder'
  <2>1. ASSUME NEW i \in 1..n
        PROVE  InOrder(frames'[i].batch) /\ Before(Taken(i)', Range(tasks))
    BY <1>1, <1>2, <1>3, Zenon DEF TInv, PostOrder
  <2>2. ASSUME NEW i \in 1..n, NEW j \in 1..n, i < j
        PROVE  Before(Taken(j)', Taken(i)')
    <3>1. i + 1 \in 1..(n + 1) /\ j + 1 \in 1..(n + 1) /\ i + 1 < j + 1
      BY <1>1, <2>2
    <3>2. Before(Taken(j + 1), Taken(i + 1))
      BY <1>1, <3>1 DEF TInv, PostOrder
    <3> QED
      BY <1>3, <3>2
  <2> QED
    BY <1>2, <2>1, <2>2, Zenon DEF TInv, PostOrder
<1>10. ASSUME NEW f \in Range(frames) PROVE f = Top \/ f \in Range(frames')
  <2>1. PICK i \in 1..(n + 1) : f = frames[i]
    BY <1>1 DEF Range
  <2>2. CASE i = 1
    BY <2>1, <2>2 DEF Top
  <2>3. CASE i # 1
    <3>1. i - 1 \in 1..n /\ frames'[i - 1] = f
      BY <1>1, <1>2, <2>1, <2>3
    <3> QED
      BY <1>2, <3>1, Zenon DEF Range
  <2> QED
    BY <2>2, <2>3
<1> QED
  BY <1>2, <1>6, <1>7, <1>8, <1>9, <1>10

\* No batch changes.
LEMMA SameBatches ==
  ASSUME TInv, frames' \in Seq(Call), DOMAIN frames' = DOMAIN frames,
         \A i \in DOMAIN frames : frames'[i].batch = frames[i].batch,
         UNCHANGED <<posted, tasks, delayed, ran>>, sending' \subseteq sending
  PROVE  Numbered' /\ Conserved' /\ PostOrder'
<1>1. \A i \in DOMAIN frames : Taken(i)' = Taken(i)
  BY DEF Taken
<1>2. Numbered'
  BY <1>1 DEF TInv, Numbered
<1>3. \A x : Waits(x) => Waits(x)'
  BY <1>1 DEF Waits
<1>4. Conserved'
  BY <1>1, <1>3 DEF TInv, Conserved
<1>5. PostOrder'
  BY <1>1 DEF TInv, PostOrder
<1> QED
  BY <1>2, <1>4, <1>5

\* The innermost call goes on to pc, without a change of its batch.
LEMMA TopMoves ==
  ASSUME TInv, frames # <<>>, NEW p \in {"run", "arm"}, SetTop([Top EXCEPT !.pc = p]),
         p = "arm" => Top.batch = <<>>,
         UNCHANGED <<posted, tasks, delayed, ran, sending>>
  PROVE  /\ frames' \in Seq(Call) /\ TStack' /\ Numbered' /\ Conserved' /\ PostOrder'
         /\ \A f \in Range(frames) : f.arms => \E g \in Range(frames') : g.arms
         /\ \A f \in Range(frames) : \/ f = Top
                                     \/ f \in Range(frames')
<1> DEFINE f1 == [Top EXCEPT !.pc = p]
<1>1. /\ frames \in Seq(Call) /\ Len(frames) \in Nat \ {0} /\ DOMAIN frames = 1..Len(frames)
  BY LenProperties, EmptySeq DEF TInv, TTypes
<1>2. Top \in Call
  BY <1>1, ElementOfSeq DEF Top
<1>3. /\ f1 \in Call /\ f1.pc = p /\ f1.batch = Top.batch /\ f1.arms = Top.arms
  BY <1>2 DEF Call
<1> HIDE DEF f1
<1>4. frames' = [frames EXCEPT ![1] = f1]
  BY DEF SetTop, f1
<1>5. /\ frames' \in Seq(Call) /\ DOMAIN frames' = DOMAIN frames /\ frames'[1] = f1
      /\ \A i \in 2..Len(frames) : frames'[i] = frames[i]
  BY <1>1, <1>3, <1>4, SetFacts, LenProperties
<1>6. \A i \in DOMAIN frames : frames'[i].batch = frames[i].batch
  BY <1>1, <1>3, <1>5 DEF Top
<1>7. TStack'
  <2> SUFFICES ASSUME NEW i \in 1..Len(frames)
               PROVE  /\ frames'[i].pc \in {"drain", "arm"} => frames'[i].batch = <<>>
                      /\ i > 1 => frames'[i].pc = "task"
    BY <1>1, <1>5 DEF TStack
  <2>1. CASE i = 1
    BY <1>3, <1>5, <2>1
  <2>2. CASE i # 1
    BY <1>1, <1>5, <2>2 DEF TInv, TStack
  <2> QED
    BY <2>1, <2>2
<1>8. ASSUME NEW f \in Range(frames) PROVE f = Top \/ f \in Range(frames')
  <2>1. PICK i \in 1..Len(frames) : f = frames[i]
    BY <1>1 DEF Range
  <2> QED
    BY <1>1, <1>5, <2>1 DEF Range, Top
<1>9. f1 \in Range(frames')
  BY <1>1, <1>5 DEF Range
<1> QED
  BY <1>3, <1>5, <1>6, <1>7, <1>8, <1>9, SameBatches

-----------------------------------------------------------------------------
(* The queues *)

\* A sequence in order that grows at its end, or loses its head.
LEMMA InOrderGrows ==
  ASSUME NEW s \in Seq(Task), NEW x \in Int \ Delayed, InOrder(s),
         \A i \in DOMAIN s : s[i] \in Int /\ s[i] < x
  PROVE  InOrder(Append(s, x))
<1>1. /\ Append(s, x) \in Seq(Task) /\ Len(Append(s, x)) = Len(s) + 1 /\ Len(s) \in Nat
      /\ \A i \in 1..Len(s) : Append(s, x)[i] = s[i]
      /\ Append(s, x)[Len(s) + 1] = x
  BY AppendProperties, LenProperties DEF Task
<1>2. DOMAIN Append(s, x) = 1..(Len(s) + 1) /\ DOMAIN s = 1..Len(s)
  BY <1>1, LenProperties
<1> SUFFICES ASSUME NEW i \in 1..(Len(s) + 1), NEW j \in 1..(Len(s) + 1), i < j,
                    Append(s, x)[i] \notin Delayed, Append(s, x)[j] \notin Delayed
             PROVE  Append(s, x)[i] < Append(s, x)[j]
  BY <1>2 DEF InOrder
<1>3. i \in 1..Len(s) /\ Append(s, x)[i] = s[i]
  BY <1>1
<1>4. CASE j = Len(s) + 1
  BY <1>1, <1>2, <1>3, <1>4
<1>5. CASE j # Len(s) + 1
  BY <1>1, <1>2, <1>3, <1>5 DEF InOrder
<1> QED
  BY <1>4, <1>5

\* Its rest is in order.
LEMMA InOrderTail ==
  ASSUME NEW s \in Seq(Task), s # <<>>, InOrder(s)
  PROVE  InOrder(Tail(s))
<1>1. /\ Tail(s) \in Seq(Task) /\ Len(Tail(s)) = Len(s) - 1 /\ Len(s) \in Nat \ {0}
      /\ \A i \in 1..(Len(s) - 1) : Tail(s)[i] = s[i + 1]
  BY PopFacts
<1>2. DOMAIN Tail(s) = 1..(Len(s) - 1) /\ DOMAIN s = 1..Len(s)
  BY <1>1, LenProperties
<1> SUFFICES ASSUME NEW i \in 1..(Len(s) - 1), NEW j \in 1..(Len(s) - 1), i < j,
                    Tail(s)[i] \notin Delayed, Tail(s)[j] \notin Delayed
             PROVE  Tail(s)[i] < Tail(s)[j]
  BY <1>2 DEF InOrder
<1>3. i + 1 \in 1..Len(s) /\ j + 1 \in 1..Len(s) /\ i + 1 < j + 1
  BY <1>1
<1> QED
  BY <1>1, <1>2, <1>3 DEF InOrder

\* Delayed tasks after it leave it in order.
LEMMA InOrderDelayed ==
  ASSUME NEW s \in Seq(Task), NEW t \in Seq(Task), InOrder(s),
         \A i \in DOMAIN t : t[i] \in Delayed
  PROVE  InOrder(s \o t)
<1>1. /\ Len(s) \in Nat /\ Len(t) \in Nat /\ DOMAIN s = 1..Len(s) /\ DOMAIN t = 1..Len(t)
      /\ DOMAIN (s \o t) = 1..(Len(s) + Len(t))
      /\ \A i \in 1..(Len(s) + Len(t)) :
           (s \o t)[i] = IF i <= Len(s) THEN s[i] ELSE t[i - Len(s)]
  BY ConcatProperties, LenProperties
<1>2. \A i \in 1..(Len(s) + Len(t)) : (s \o t)[i] \notin Delayed => i <= Len(s)
  BY <1>1
<1> QED
  BY <1>1, <1>2 DEF InOrder

\* A sequence of as many members of a finite set as it has, none of them twice,
\* holds them all.
LEMMA AllListed ==
  ASSUME NEW D, IsFiniteSet(D), NEW s \in Orders(D)
  PROVE  s \in Seq(D) /\ IsInjective(s) /\ Range(s) = D
<1> DEFINE n == Cardinality(D)
<1>1. n \in Nat
  BY FS_CardinalityType
<1>2. s \in [1..n -> D] /\ \A i, j \in 1..n : i # j => s[i] # s[j]
  BY DEF Orders, Injection, IsInjective
<1> HIDE DEF n
<1>3. IsInjective(s) /\ s \in Seq(D)
  BY <1>1, <1>2 DEF IsInjective
<1>4. s \in Injection(1..n, D) /\ Cardinality(1..n) = n
  BY <1>1, <1>2, <1>3, FS_Interval DEF Injection
<1>5. s \in Surjection(1..n, D)
  BY <1>4, FS_Injection DEF n
<1> QED
  BY <1>2, <1>3, <1>5 DEF Range, Surjection

\* Of delayed tasks one is due first.
LEMMA FirstDue ==
  ASSUME TInv, delayed # {}
  PROVE  \E d \in delayed : \A e \in delayed : left[d] <= left[e]
<1> DEFINE shifted == {left[d] + MaxLag + 1 : d \in delayed}
<1>1. delayed \subseteq Delayed /\ MaxLag \in Nat
  BY TaskAssumption DEF TInv, TTypes
<1>2. \A d \in delayed : left[d] \in Int /\ left[d] + MaxLag + 1 \in Nat
  BY <1>1 DEF TInv, TTypes
<1>3. shifted \subseteq Nat /\ shifted # {}
  BY <1>2
<1> HIDE DEF shifted
<1>5. PICK x \in shifted : \A y \in shifted : x <= y
  BY <1>3, LeastNumber, Zenon
<1>6. PICK d \in delayed : x = left[d] + MaxLag + 1
  BY DEF shifted
<1>7. ASSUME NEW e \in delayed PROVE left[d] <= left[e]
  <2>1. left[d] + MaxLag + 1 <= left[e] + MaxLag + 1
    BY <1>5, <1>6 DEF shifted
  <2> QED
    BY <1>1, <1>2, <2>1
<1> QED
  BY <1>7

\* The timer that Arm starts does not count as stopped.
LEMMA ArmStarts ==
  ASSUME TInv, delayed # {}, NEW f \in Call, NEW lag \in 0..MaxLag
  PROVE  LET t == NextTimeout(f)
             r == IF t = Never THEN t ELSE IF t > lag THEN t - lag ELSE 0
         IN r \in Int /\ r # Off
<1> DEFINE d == CHOOSE d \in delayed : \A e \in delayed : left[d] <= left[e]
           t == NextTimeout(f)
<1>1. d \in delayed
  BY FirstDue
<1>2. left[d] \in Int /\ f.age \in Nat
  BY <1>1 DEF TInv, TTypes, Call
<1>3. t = IF left[d] + f.age < 0 THEN Never ELSE IF left[d] + f.age = 0 THEN 1 ELSE left[d] + f.age
  BY DEF NextTimeout
<1> HIDE DEF d, t
<1>4. t = Never \/ (t \in Int /\ t > 0)
  BY <1>2, <1>3
<1>5. lag \in Int /\ lag >= 0
  BY TaskAssumption
<1> QED
  BY <1>4, <1>5 DEF Never, Off, t

-----------------------------------------------------------------------------
(* The steps *)

\* A post.
LEMMA PushTaskKeeps == TInv /\ PushTask => TInv'
<1> SUFFICES ASSUME TInv, PushTask PROVE TInv'
  OBVIOUS
<1>0. PICK x : x = posted + 1
  OBVIOUS
<1>1. posted \in Nat /\ posted' = x /\ x \in Nat /\ x \notin Delayed /\ x \in Task
  BY <1>0, DelayAssumption DEF TInv, TTypes, PushTask, Task
<1>2. 1..posted' = 1..posted \cup {x} /\ x \notin 1..posted
  BY <1>0, <1>1
<1>3. /\ tasks \in Seq(Task) /\ tasks' = Append(tasks, x) /\ sending' = sending \cup {x}
      /\ UNCHANGED <<delayed, left, async, timer, frames, ran, built>>
  BY <1>0 DEF TInv, TTypes, PushTask
<1>4. /\ Range(tasks) \subseteq 1..posted /\ Range(ran) \subseteq 1..posted \cup Delayed
      /\ \A i \in DOMAIN frames : Taken(i) \subseteq 1..posted \cup Delayed
  BY DEF TInv, Numbered
<1>5. /\ tasks' \in Seq(Task) /\ Range(tasks') = Range(tasks) \cup {x}
      /\ IsInjective(tasks) => IsInjective(tasks')
  BY <1>1, <1>2, <1>3, <1>4, AppendHolds
<1>6. TTypes'
  BY <1>1, <1>3, <1>5 DEF TInv, TTypes
<1>7. TStack'
  BY <1>3 DEF TInv, TStack
<1>8. \A i : Taken(i)' = Taken(i)
  BY <1>3 DEF Taken
<1>9. Numbered'
  <2>1. Range(tasks') \subseteq 1..posted'
    BY <1>2, <1>4, <1>5
  <2>2. Range(ran)' \subseteq 1..posted' \cup Delayed
    BY <1>2, <1>3, <1>4
  <2>3. \A i \in DOMAIN frames' : Taken(i)' \subseteq 1..posted' \cup Delayed
    BY <1>2, <1>3, <1>4, <1>8
  <2> QED
    BY <2>1, <2>2, <2>3 DEF Numbered
<1>10. Conserved'
  <2>1. x \notin delayed /\ x \notin Range(ran) /\ \A i \in DOMAIN frames : x \notin Taken(i)
    BY <1>1, <1>2, <1>4 DEF TInv, TTypes
  <2>2. \A y : Waits(y) => Waits(y)'
    BY <1>3, <1>5, <1>8 DEF Waits
  <2>3. Waits(x)'
    BY <1>5 DEF Waits
  <2>4. \A y \in 1..posted' \cup sending' : Waits(y)' \/ y \in Range(ran')
    BY <1>2, <1>3, <2>2, <2>3 DEF TInv, Conserved
  <2>5. /\ IsInjective(tasks)' /\ IsInjective(ran)' /\ (Range(tasks) \cap delayed = {})'
        /\ (Range(ran) \cap (Range(tasks) \cup delayed) = {})'
    BY <1>3, <1>5, <2>1 DEF TInv, Conserved
  <2>6. ASSUME NEW i \in DOMAIN frames
        PROVE  /\ IsInjective(frames'[i].batch)
               /\ (Taken(i) \cap (Range(tasks) \cup delayed \cup Range(ran)))' = {}
               /\ \A j \in DOMAIN frames : i # j => Taken(i)' \cap Taken(j)' = {}
    BY <1>3, <1>5, <1>8, <2>1 DEF TInv, Conserved
  <2> QED
    BY <1>3, <2>4, <2>5, <2>6 DEF Conserved
<1>11. PostOrder'
  <2>1. \A i \in DOMAIN tasks : tasks[i] \in Int /\ tasks[i] < x
    <3>1. \A i \in DOMAIN tasks : tasks[i] \in 1..posted
      BY <1>4 DEF Range
    <3> QED
      BY <1>0, <1>1, <3>1
  <2>2. InOrder(tasks')
    BY <1>1, <1>3, <2>1, InOrderGrows DEF TInv, PostOrder
  <2>3. ASSUME NEW i \in DOMAIN frames PROVE Before(Taken(i), Range(tasks'))
    <3>1. ASSUME NEW y \in Taken(i) \ Delayed PROVE y < x
      <4>1. y \in 1..posted
        BY <1>4, <3>1
      <4> QED
        BY <1>0, <1>1, <4>1
    <3>2. Before(Taken(i), Range(tasks))
      BY DEF TInv, PostOrder
    <3> QED
      BY <1>5, <3>1, <3>2 DEF Before
  <2> QED
    BY <1>3, <1>8, <2>2, <2>3 DEF TInv, PostOrder
<1>12. WakeupPending'
  BY <1>3 DEF WakeupPending
<1> QED
  BY <1>6, <1>7, <1>9, <1>10, <1>11, <1>12 DEF TInv

\* A delayed post.
LEMMA PushDelayedKeeps ==
  ASSUME TInv, NEW d \in Delayed, PushDelayed(d)
  PROVE  TInv'
<1>1. /\ delayed' = delayed \cup {d} /\ sending' = sending \cup {d}
      /\ UNCHANGED <<posted, tasks, async, timer, frames, ran, built>>
      /\ d \notin delayed /\ d \notin Range(ran)
  BY DEF PushDelayed
<1>2. \A i \in DOMAIN frames : d \notin Taken(i)
  <2>1. \A i \in DOMAIN frames : frames[i] \in Range(frames)
    BY DEF Range
  <2> QED
    BY <2>1 DEF PushDelayed, Taken
<1>3. d \notin Range(tasks)
  BY DelayAssumption DEF TInv, Numbered
<1>4. \A i : Taken(i)' = Taken(i)
  BY <1>1 DEF Taken
<1>5. TTypes'
  <2>1. PICK wait \in Delays, lag \in 0..MaxLag : left' = [left EXCEPT ![d] = wait - lag]
    BY Zenon DEF PushDelayed
  <2>2. wait \in Nat /\ lag \in Nat /\ MaxLag \in Nat /\ lag <= MaxLag
    BY DelayAssumption, TaskAssumption
  <2>3. wait - lag \in Int /\ wait - lag >= -MaxLag - 1
    BY <2>2
  <2>4. left' \in [Delayed -> Int] /\ \A e \in Delayed : left'[e] >= -MaxLag - 1
    BY <2>1, <2>3 DEF TInv, TTypes
  <2>5. IsFiniteSet(delayed')
    BY <1>1, FS_AddElement DEF TInv, TTypes
  <2> QED
    BY <1>1, <2>4, <2>5 DEF TInv, TTypes
<1>6. TStack' /\ Numbered'
  BY <1>1, <1>4 DEF TInv, TStack, Numbered
<1>7. Conserved'
  <2>1. \A y : Waits(y) => Waits(y)'
    BY <1>1, <1>4 DEF Waits
  <2>2. Waits(d)'
    BY <1>1 DEF Waits
  <2>3. \A y \in 1..posted' \cup sending' : Waits(y)' \/ y \in Range(ran')
    BY <1>1, <2>1, <2>2 DEF TInv, Conserved
  <2> QED
    BY <1>1, <1>2, <1>3, <1>4, <2>3 DEF TInv, Conserved
<1>8. PostOrder'
  BY <1>1, <1>4 DEF TInv, PostOrder
<1>9. WakeupPending'
  BY <1>1 DEF WakeupPending
<1> QED
  BY <1>5, <1>6, <1>7, <1>8, <1>9 DEF TInv

\* The wake-up of a post.
LEMMA SendKeeps ==
  ASSUME TInv, NEW x, Send(x)
  PROVE  TInv'
<1>1. /\ sending' \subseteq sending /\ async' = TRUE
      /\ UNCHANGED <<posted, tasks, delayed, left, timer, frames, ran, built>>
  BY DEF Send
<1>2. frames' \in Seq(Call)
  BY <1>1 DEF TInv, TTypes
<1>3. Numbered' /\ Conserved' /\ PostOrder'
  BY <1>1, <1>2, SameBatches
<1>4. TTypes' /\ TStack'
  BY <1>1 DEF TInv, TTypes, TStack
<1>5. WakeupPending'
  BY <1>1 DEF WakeupPending
<1> QED
  BY <1>3, <1>4, <1>5 DEF TInv

\* The loop calls RunTasks, or SnapshotBuilder DrainTasks.
LEMMA CallKeeps ==
  ASSUME TInv, ImmediateProcessor \/ TimerProcessor \/ SnapshotDrain
  PROVE  TInv'
<1>1. PICK b \in BOOLEAN :
        /\ Push(Frame(b)) /\ Polls
        /\ UNCHANGED <<posted, tasks, delayed, left, sending, ran>>
        /\ timer' \in {timer, Off}
        /\ b \/ (async' = async /\ timer' = timer)
  <2>1. CASE ImmediateProcessor
    BY <2>1, Zenon DEF ImmediateProcessor
  <2>2. CASE TimerProcessor
    BY <2>2, Zenon DEF TimerProcessor
  <2>3. CASE SnapshotDrain
    BY <2>3, Zenon DEF SnapshotDrain, Polls
  <2> QED
    BY <2>1, <2>2, <2>3
<1>2. /\ frames' \in Seq(Call) /\ TStack' /\ Numbered' /\ Conserved' /\ PostOrder'
      /\ \E f \in Range(frames') : f.pc = "drain" /\ f.arms = b
      /\ Range(frames) \subseteq Range(frames')
  BY <1>1, PushKeeps
<1>3. TTypes'
  BY <1>1, <1>2 DEF TInv, TTypes, Off
<1>4. WakeupPending'
  <2>1. CASE b
    BY <1>2, <2>1, Zenon DEF WakeupPending
  <2>2. CASE ~b
    BY <1>1, <1>2, <2>2 DEF TInv, WakeupPending
  <2> QED
    BY <2>1, <2>2
<1> QED
  BY <1>2, <1>3, <1>4 DEF TInv

\* The innermost call changes; the others stay.
LEMMA TopChanges ==
  ASSUME TInv, frames # <<>>, NEW g \in Call, SetTop(g), g.arms = Top.arms,
         Top.pc \in {"drain", "run"}
  PROVE  /\ frames' \in Seq(Call) /\ DOMAIN frames' = DOMAIN frames
         /\ 1 \in DOMAIN frames /\ frames'[1] = g /\ Taken(1)' = Range(g.batch)
         /\ \A i \in DOMAIN frames : i # 1 => i > 1 /\ frames'[i] = frames[i] /\ Taken(i)' = Taken(i)
         /\ (\E f \in Range(frames) : f.arms) => \E f \in Range(frames') : f.arms
         /\ \A f \in Range(frames) : f.pc = "drain" => f = Top
<1>1. /\ frames \in Seq(Call) /\ Len(frames) \in Nat \ {0} /\ DOMAIN frames = 1..Len(frames)
  BY LenProperties, EmptySeq DEF TInv, TTypes
<1>2. /\ frames' \in Seq(Call) /\ DOMAIN frames' = DOMAIN frames /\ frames'[1] = g
      /\ \A i \in 2..Len(frames) : frames'[i] = frames[i]
  BY <1>1, SetFacts, LenProperties DEF SetTop
<1>3. 1 \in DOMAIN frames /\ \A i \in DOMAIN frames : i # 1 => i \in 2..Len(frames) /\ i > 1
  BY <1>1
<1>4. ASSUME NEW f \in Range(frames), f.arms PROVE \E h \in Range(frames') : h.arms
  <2>1. PICK i \in DOMAIN frames : f = frames[i]
    BY DEF Range
  <2>2. frames'[i].arms /\ frames'[i] \in Range(frames')
    BY <1>2, <1>3, <1>4, <2>1 DEF Range, Top
  <2> QED
    BY <2>2
<1>5. ASSUME NEW f \in Range(frames), f.pc = "drain" PROVE f = Top
  <2>1. PICK i \in DOMAIN frames : f = frames[i]
    BY DEF Range
  <2>2. i > 1 => f.pc = "task"
    BY <2>1 DEF TInv, TStack
  <2> QED
    BY <1>3, <1>5, <2>1, <2>2 DEF Top
<1> QED
  BY <1>2, <1>3, <1>4, <1>5 DEF Taken

\* DrainTasks.
LEMMA DrainKeeps == TInv /\ Drain => TInv'
<1> SUFFICES ASSUME TInv, Drain PROVE TInv'
  OBVIOUS
<1> DEFINE D == Due(Top)
<1>1. PICK ripe \in Orders(D) :
        SetTop([Top EXCEPT !.pc = "run", !.age = 0, !.batch = tasks \o ripe])
  BY DEF Drain
<1>2. /\ frames # <<>> /\ Top.pc = "drain" /\ tasks' = <<>>
      /\ delayed' = delayed \ D
      /\ UNCHANGED <<posted, left, sending, async, timer, ran, built>>
  BY DEF Drain
<1>3. /\ tasks \in Seq(Task) /\ frames \in Seq(Call) /\ delayed \subseteq Delayed
      /\ IsFiniteSet(delayed) /\ D \subseteq delayed
  BY DEF TInv, TTypes, Due
<1>4. PICK E : E = D
  OBVIOUS
<1>5. IsFiniteSet(E) /\ E \subseteq delayed /\ E \subseteq Delayed /\ ripe \in Orders(E)
  BY <1>3, <1>4, FS_Subset
<1>6. ripe \in Seq(E) /\ IsInjective(ripe) /\ Range(ripe) = E
  BY <1>5, AllListed
<1>7. ripe \in Seq(Task) /\ \A i \in DOMAIN ripe : ripe[i] \in Delayed
  <2>1. \A i \in DOMAIN ripe : ripe[i] \in E
    BY <1>6 DEF Range
  <2> QED
    BY <1>5, <1>6, <2>1, SeqMonotonic DEF Task
<1>8. PICK b : b = tasks \o ripe
  BY Zenon
<1>9. b \in Seq(Task) /\ Range(b) = Range(tasks) \cup E
  BY <1>3, <1>6, <1>7, <1>8, ConcatProperties, RangeConcatenation
<1>10. Range(tasks) \cap delayed = {} /\ IsInjective(tasks) /\ InOrder(tasks)
  BY DEF TInv, Conserved, PostOrder
<1>11. IsInjective(b) /\ InOrder(b)
  BY <1>3, <1>5, <1>6, <1>7, <1>8, <1>10, ConcatHolds, InOrderDelayed
<1>12. PICK g : g = [Top EXCEPT !.pc = "run", !.age = 0, !.batch = tasks \o ripe]
  OBVIOUS
<1>13. Top \in Call
  BY <1>2, <1>3, ElementOfSeq, EmptySeq DEF Top
<1>14. g \in Call /\ g.pc = "run" /\ g.batch = b /\ g.arms = Top.arms
  BY <1>8, <1>9, <1>12, <1>13, Zenon DEF Call
<1>15. /\ frames' \in Seq(Call) /\ DOMAIN frames' = DOMAIN frames
       /\ 1 \in DOMAIN frames /\ frames'[1] = g /\ Taken(1)' = Range(b)
       /\ \A i \in DOMAIN frames : i # 1 => i > 1 /\ frames'[i] = frames[i] /\ Taken(i)' = Taken(i)
       /\ (\E f \in Range(frames) : f.arms) => \E f \in Range(frames') : f.arms
  BY <1>1, <1>2, <1>12, <1>14, TopChanges, Zenon
<1>16. Taken(1) = {} /\ Range(tasks') = {}
  <2>1. Top.batch = <<>>
    BY <1>2, <1>15 DEF TInv, TStack, Top
  <2> QED
    BY <1>2, <2>1 DEF Taken, Range, Top
<1>17. TTypes'
  <2>1. IsFiniteSet(delayed') /\ tasks' \in Seq(Task)
    BY <1>2, <1>3, FS_Subset
  <2> QED
    BY <1>2, <1>15, <2>1 DEF TInv, TTypes
<1>18. TStack'
  <2> SUFFICES ASSUME NEW i \in DOMAIN frames
               PROVE  /\ frames'[i].pc \in {"drain", "arm"} => frames'[i].batch = <<>>
                      /\ i > 1 => frames'[i].pc = "task"
    BY <1>15 DEF TStack
  <2> QED
    BY <1>14, <1>15 DEF TInv, TStack
<1>19. Numbered'
  <2>1. ASSUME NEW i \in DOMAIN frames PROVE Taken(i)' \subseteq 1..posted \cup Delayed
    <3>1. CASE i = 1
      BY <1>5, <1>9, <1>15, <3>1 DEF TInv, Numbered
    <3>2. CASE i # 1
      BY <1>15, <3>2 DEF TInv, Numbered
    <3> QED
      BY <3>1, <3>2
  <2> QED
    BY <1>2, <1>15, <1>16, <2>1 DEF TInv, Numbered
<1>20. Conserved'
  <2>1. ASSUME NEW i \in DOMAIN frames
        PROVE  /\ IsInjective(frames'[i].batch)
               /\ Taken(i)' \cap (Range(tasks') \cup delayed' \cup Range(ran')) = {}
    <3>1. CASE i = 1
      BY <1>2, <1>4, <1>9, <1>10, <1>11, <1>14, <1>15, <1>16, <3>1, <1>5 DEF TInv, Conserved
    <3>2. CASE i # 1
      BY <1>2, <1>15, <1>16, <3>2 DEF TInv, Conserved
    <3> QED
      BY <3>1, <3>2
  <2>2. ASSUME NEW i \in DOMAIN frames, i # 1 PROVE Taken(i) \cap Range(b) = {}
    BY <1>5, <1>9, <2>2 DEF TInv, Conserved
  <2>3. ASSUME NEW i \in DOMAIN frames, NEW j \in DOMAIN frames, i # j
        PROVE  Taken(i)' \cap Taken(j)' = {}
    <3>1. CASE i = 1
      BY <1>15, <2>2, <2>3, <3>1
    <3>2. CASE j = 1
      BY <1>15, <2>2, <2>3, <3>2
    <3>3. CASE i # 1 /\ j # 1
      BY <1>15, <2>3, <3>3 DEF TInv, Conserved
    <3> QED
      BY <3>1, <3>2, <3>3
  <2>4. ASSUME NEW x, Waits(x) PROVE Waits(x)'
    <3>1. CASE x \in Range(b)
      BY <1>15, <3>1 DEF Waits
    <3>2. CASE x \in delayed /\ x \notin Range(b)
      BY <1>2, <1>4, <1>9, <3>2 DEF Waits
    <3>3. ASSUME NEW i \in DOMAIN frames, x \in Taken(i) PROVE Waits(x)'
      <4>1. i # 1
        BY <1>16, <3>3
      <4> QED
        BY <1>15, <3>3, <4>1 DEF Waits
    <3> QED
      BY <1>9, <2>4, <3>1, <3>2, <3>3 DEF Waits
  <2>5. \A x \in (1..posted \cup sending)' : Waits(x)' \/ x \in Range(ran')
    BY <1>2, <2>4 DEF TInv, Conserved
  <2>6. IsInjective(tasks') /\ IsInjective(ran')
    BY <1>2 DEF TInv, Conserved, IsInjective
  <2>7. /\ Range(tasks') \cap delayed' = {}
        /\ Range(ran') \cap (Range(tasks') \cup delayed') = {}
    BY <1>2, <1>16 DEF TInv, Conserved
  <2> QED
    BY <1>15, <2>1, <2>3, <2>5, <2>6, <2>7 DEF Conserved
<1>21. PostOrder'
  <2>1. InOrder(tasks')
    BY <1>2 DEF InOrder
  <2>2. ASSUME NEW i \in DOMAIN frames
        PROVE  InOrder(frames'[i].batch) /\ Before(Taken(i)', Range(tasks'))
    <3>1. InOrder(frames'[i].batch)
      BY <1>11, <1>14, <1>15 DEF TInv, PostOrder
    <3> QED
      BY <1>16, <3>1 DEF Before
  <2>3. ASSUME NEW i \in DOMAIN frames, NEW j \in DOMAIN frames, i < j
        PROVE  Before(Taken(j)', Taken(i)')
    <3>1. j # 1
      <4>1. i \in Nat /\ i > 0
        BY <1>3, LenProperties
      <4> QED
        BY <2>3, <4>1
    <3>2. CASE i = 1
      <4>1. Before(Taken(j), Range(tasks))
        BY DEF TInv, PostOrder
      <4>2. Before(Taken(j), Range(b))
        BY <1>5, <1>9, <4>1 DEF Before
      <4> QED
        BY <1>15, <3>1, <3>2, <4>2
    <3>3. CASE i # 1
      BY <1>15, <2>3, <3>1, <3>3 DEF TInv, PostOrder
    <3> QED
      BY <3>2, <3>3
  <2> QED
    BY <1>15, <2>1, <2>2, <2>3 DEF PostOrder
<1>22. WakeupPending'
  BY <1>2, <1>15 DEF TInv, WakeupPending
<1> QED
  BY <1>17, <1>18, <1>19, <1>20, <1>21, <1>22 DEF TInv

\* A task begins.
LEMMA RunTaskKeeps == TInv /\ RunTask => TInv'
<1> SUFFICES ASSUME TInv, RunTask PROVE TInv'
  OBVIOUS
<1>1. /\ frames # <<>> /\ Top.pc = "run" /\ Top.batch # <<>>
      /\ SetTop([Top EXCEPT !.pc = "task", !.batch = Tail(Top.batch)])
      /\ ran' = Append(ran, Head(Top.batch))
      /\ UNCHANGED <<posted, tasks, delayed, left, sending, async, timer, built>>
  BY DEF RunTask
<1>2. frames \in Seq(Call) /\ ran \in Seq(Task)
  BY DEF TInv, TTypes
<1>3. Top \in Call /\ 1 \in DOMAIN frames
  BY <1>1, <1>2, ElementOfSeq, EmptySeq, LenProperties DEF Top
<1>4. Top.batch \in Seq(Task)
  BY <1>3 DEF Call
<1>5. IsInjective(Top.batch) /\ InOrder(Top.batch) /\ Range(Top.batch) = Taken(1)
  BY <1>3 DEF TInv, Conserved, PostOrder, Top, Taken
<1>6. PICK x, b : x = Head(Top.batch) /\ b = Tail(Top.batch)
  BY Zenon
<1>7. /\ b \in Seq(Task) /\ x \in Task /\ x \in Taken(1)
      /\ Taken(1) = Range(b) \cup {x} /\ x \notin Range(b) /\ IsInjective(b) /\ InOrder(b)
  BY <1>1, <1>4, <1>5, <1>6, TailHolds, InOrderTail
<1>8. PICK g : g = [Top EXCEPT !.pc = "task", !.batch = Tail(Top.batch)]
  OBVIOUS
<1>9. g \in Call /\ g.pc = "task" /\ g.batch = b /\ g.arms = Top.arms
  BY <1>3, <1>6, <1>7, <1>8, Zenon DEF Call
<1>10. /\ frames' \in Seq(Call) /\ DOMAIN frames' = DOMAIN frames
       /\ frames'[1] = g /\ Taken(1)' = Range(b)
       /\ \A i \in DOMAIN frames : i # 1 => i > 1 /\ frames'[i] = frames[i] /\ Taken(i)' = Taken(i)
       /\ (\E f \in Range(frames) : f.arms) => \E f \in Range(frames') : f.arms
       /\ \A f \in Range(frames) : f.pc = "drain" => f = Top
  BY <1>1, <1>8, <1>9, TopChanges, Zenon
<1>11. x \notin Range(ran) /\ x \notin Range(tasks) /\ x \notin delayed
  BY <1>3, <1>7 DEF TInv, Conserved
<1>12. ran' \in Seq(Task) /\ Range(ran') = Range(ran) \cup {x} /\ IsInjective(ran')
  BY <1>1, <1>2, <1>6, <1>7, <1>11, AppendHolds DEF TInv, Conserved
<1>13. \A i \in DOMAIN frames : Taken(i)' \subseteq Taken(i)
  BY <1>7, <1>10
<1>14. TTypes'
  BY <1>1, <1>10, <1>12 DEF TInv, TTypes
<1>15. TStack'
  <2> SUFFICES ASSUME NEW i \in DOMAIN frames
               PROVE  /\ frames'[i].pc \in {"drain", "arm"} => frames'[i].batch = <<>>
                      /\ i > 1 => frames'[i].pc = "task"
    BY <1>10 DEF TStack
  <2> QED
    BY <1>9, <1>10 DEF TInv, TStack
<1>16. Numbered'
  <2>1. x \in 1..posted \cup Delayed
    BY <1>3, <1>7 DEF TInv, Numbered
  <2> QED
    BY <1>1, <1>10, <1>12, <1>13, <2>1 DEF TInv, Numbered
<1>17. Conserved'
  <2>1. ASSUME NEW i \in DOMAIN frames
        PROVE  IsInjective(frames'[i].batch) /\ x \notin Taken(i)'
    <3>1. CASE i = 1
      BY <1>7, <1>9, <1>10, <3>1
    <3>2. CASE i # 1
      BY <1>3, <1>7, <1>10, <3>2 DEF TInv, Conserved
    <3> QED
      BY <3>1, <3>2
  <2>2. ASSUME NEW i \in DOMAIN frames
        PROVE  /\ Taken(i)' \cap (Range(tasks') \cup delayed' \cup Range(ran')) = {}
               /\ \A j \in DOMAIN frames : i # j => Taken(i)' \cap Taken(j)' = {}
    <3>1. Taken(i)' \cap (Range(tasks') \cup delayed' \cup Range(ran')) = {}
      BY <1>1, <1>12, <1>13, <2>1 DEF TInv, Conserved
    <3>2. ASSUME NEW j \in DOMAIN frames, i # j PROVE Taken(i) \cap Taken(j) = {}
      BY <3>2 DEF TInv, Conserved
    <3> QED
      BY <1>13, <3>1, <3>2
  <2>3. ASSUME NEW y, Waits(y) PROVE Waits(y)' \/ y = x
    <3>1. ASSUME NEW i \in DOMAIN frames, y \in Taken(i), y # x PROVE y \in Taken(i)'
      BY <1>7, <1>10, <3>1
    <3> QED
      BY <1>1, <1>10, <2>3, <3>1 DEF Waits
  <2>4. \A y \in (1..posted \cup sending)' : Waits(y)' \/ y \in Range(ran')
    BY <1>1, <1>12, <2>3 DEF TInv, Conserved
  <2>5. /\ IsInjective(tasks') /\ Range(tasks') \cap delayed' = {}
        /\ Range(ran') \cap (Range(tasks') \cup delayed') = {}
    BY <1>1, <1>11, <1>12 DEF TInv, Conserved
  <2> QED
    BY <1>10, <1>12, <2>1, <2>2, <2>4, <2>5 DEF Conserved
<1>18. PostOrder'
  <2>1. ASSUME NEW i \in DOMAIN frames
        PROVE  /\ InOrder(frames'[i].batch) /\ Before(Taken(i)', Range(tasks'))
               /\ \A j \in DOMAIN frames : i < j => Before(Taken(j)', Taken(i)')
    <3>1. InOrder(frames'[i].batch)
      BY <1>7, <1>9, <1>10 DEF TInv, PostOrder
    <3>2. Before(Taken(i), Range(tasks)) /\ \A j \in DOMAIN frames : i < j => Before(Taken(j), Taken(i))
      BY DEF TInv, PostOrder
    <3> QED
      BY <1>1, <1>13, <3>1, <3>2 DEF Before
  <2> QED
    BY <1>1, <1>10, <2>1 DEF TInv, PostOrder
<1>19. WakeupPending'
  BY <1>1, <1>10 DEF TInv, WakeupPending
<1> QED
  BY <1>14, <1>15, <1>16, <1>17, <1>18, <1>19 DEF TInv

\* A task returns; RunTasks has run its batch.
LEMMA ReturnKeeps == ASSUME TInv, TaskReturns \/ Drained PROVE TInv'
<1>1. /\ frames # <<>> /\ Top.pc \in {"task", "run"}
      /\ UNCHANGED <<posted, tasks, delayed, left, sending, async, timer, ran, built>>
  BY DEF TaskReturns, Drained
<1>2. \A f \in Range(frames) : f.pc = "drain" => f # Top
  BY <1>1
<1>3. CASE TaskReturns \/ (Drained /\ Top.arms)
  <2>1. PICK p \in {"run", "arm"} :
          SetTop([Top EXCEPT !.pc = p]) /\ (p = "arm" => Top.batch = <<>>)
    BY <1>3 DEF TaskReturns, Drained
  <2>2. /\ frames' \in Seq(Call) /\ TStack' /\ Numbered' /\ Conserved' /\ PostOrder'
        /\ \A f \in Range(frames) : f.arms => \E g \in Range(frames') : g.arms
        /\ \A f \in Range(frames) : f = Top \/ f \in Range(frames')
    BY <1>1, <2>1, TopMoves
  <2>3. TTypes'
    BY <1>1, <2>2 DEF TInv, TTypes
  <2>4. WakeupPending'
    BY <1>1, <1>2, <2>2 DEF TInv, WakeupPending
  <2> QED
    BY <2>2, <2>3, <2>4 DEF TInv
<1>4. CASE Drained /\ ~Top.arms
  <2>1. Top.batch = <<>> /\ frames' = Tail(frames)
    BY <1>4 DEF Drained
  <2>2. /\ frames' \in Seq(Call) /\ TStack' /\ Numbered' /\ Conserved' /\ PostOrder'
        /\ \A f \in Range(frames) : f = Top \/ f \in Range(frames')
    BY <1>1, <2>1, PopKeeps
  <2>3. TTypes'
    BY <1>1, <2>2 DEF TInv, TTypes
  <2>4. WakeupPending'
    BY <1>1, <1>2, <1>4, <2>2 DEF TInv, WakeupPending
  <2> QED
    BY <2>2, <2>3, <2>4 DEF TInv
<1> QED
  BY <1>3, <1>4

\* RunTasks arms or stops the timer.
LEMMA ArmKeeps == TInv /\ Arm => TInv'
<1> SUFFICES ASSUME TInv, Arm PROVE TInv'
  OBVIOUS
<1>1. /\ frames # <<>> /\ Top.pc = "arm" /\ frames' = Tail(frames)
      /\ UNCHANGED <<posted, tasks, delayed, left, sending, async, ran, built>>
  BY DEF Arm
<1>2. Top \in Call /\ Top.batch = <<>>
  <2>1. frames \in Seq(Call)
    BY DEF TInv, TTypes
  <2>2. Top \in Call /\ 1 \in DOMAIN frames
    BY <1>1, <2>1, ElementOfSeq, EmptySeq, LenProperties DEF Top
  <2> QED
    BY <1>1, <2>2 DEF TInv, TStack, Top
<1>3. /\ frames' \in Seq(Call) /\ TStack' /\ Numbered' /\ Conserved' /\ PostOrder'
      /\ \A f \in Range(frames) : f = Top \/ f \in Range(frames')
  BY <1>1, <1>2, PopKeeps
<1>4. timer' \in Int /\ (delayed # {} => timer' # Off)
  <2>1. CASE delayed = {}
    BY <2>1 DEF Arm, Off
  <2>2. CASE delayed # {}
    BY <1>2, <2>2, ArmStarts DEF Arm
  <2> QED
    BY <2>1, <2>2
<1>5. TTypes'
  BY <1>1, <1>3, <1>4 DEF TInv, TTypes
<1>6. WakeupPending'
  BY <1>1, <1>3, <1>4 DEF TInv, WakeupPending
<1> QED
  BY <1>3, <1>5, <1>6 DEF TInv

\* Time passes.
LEMMA TickKeeps == TInv /\ Tick => TInv'
<1> SUFFICES ASSUME TInv, Tick PROVE TInv'
  OBVIOUS
<1>1. UNCHANGED <<posted, tasks, delayed, sending, async, ran, built>>
  BY DEF Tick
<1>2. /\ frames \in Seq(Call) /\ DOMAIN frames = 1..Len(frames) /\ Len(frames) \in Nat
  BY LenProperties DEF TInv, TTypes
<1>3. ASSUME NEW i \in DOMAIN frames
      PROVE  /\ frames'[i] \in Call /\ frames'[i].pc = frames[i].pc
             /\ frames'[i].batch = frames[i].batch /\ frames'[i].arms = frames[i].arms
  <2>1. frames[i] \in Call
    BY <1>2, ElementOfSeq
  <2>2. frames'[i] = IF ReadsClock(frames[i]) THEN [frames[i] EXCEPT !.age = @ + 1] ELSE frames[i]
    BY DEF Tick
  <2> QED
    BY <2>1, <2>2 DEF Call
<1>4. DOMAIN frames' = DOMAIN frames /\ frames' \in Seq(Call)
  <2>1. DOMAIN frames' = DOMAIN frames /\ frames' = [i \in DOMAIN frames |-> frames'[i]]
    BY DEF Tick
  <2>2. frames' \in [1..Len(frames) -> Call]
    BY <1>2, <1>3, <2>1
  <2> QED
    BY <1>2, <2>1, <2>2
<1>5. Numbered' /\ Conserved' /\ PostOrder'
  BY <1>1, <1>3, <1>4, SameBatches
<1>6. TStack'
  BY <1>3, <1>4 DEF TInv, TStack
<1>7. MaxLag \in Nat /\ left \in [Delayed -> Int] /\ \A d \in Delayed : left[d] >= -MaxLag - 1
  BY TaskAssumption DEF TInv, TTypes
<1>8. left' \in [Delayed -> Int] /\ \A d \in Delayed : left'[d] >= -MaxLag - 1
  <2>1. \A d \in Delayed : left'[d] \in Int /\ left'[d] >= -MaxLag - 1
    BY <1>7 DEF Tick
  <2>2. left' = [d \in Delayed |-> left'[d]]
    BY DEF Tick
  <2> QED
    BY <2>1, <2>2
<1>9. timer' \in Int /\ (timer # Off => timer' # Off)
  BY DEF TInv, TTypes, Tick, Off
<1>10. TTypes'
  BY <1>1, <1>4, <1>8, <1>9 DEF TInv, TTypes
<1>11. \A f \in Range(frames) : \E g \in Range(frames') : g.pc = f.pc /\ g.arms = f.arms
  <2>1. \A i \in DOMAIN frames : frames'[i] \in Range(frames')
    BY <1>4 DEF Range
  <2> QED
    BY <1>3, <2>1 DEF Range
<1>12. WakeupPending'
  BY <1>1, <1>9, <1>11 DEF TInv, WakeupPending
<1> QED
  BY <1>5, <1>6, <1>10, <1>12 DEF TInv

\* Nothing has been posted.
LEMMA InitTInv == TaskInit => TInv
<1> SUFFICES ASSUME TaskInit PROVE TInv
  OBVIOUS
<1>1. /\ posted = 0 /\ tasks = <<>> /\ delayed = {} /\ left = [d \in Delayed |-> 0]
      /\ sending = {} /\ timer = -1 /\ frames = <<>> /\ ran = <<>>
  BY DEF TaskInit, Off
<1>2. Range(<<>>) = {} /\ DOMAIN <<>> = {}
  BY DEF Range
<1>3. TTypes
  BY <1>1, TaskAssumption, FS_EmptySet DEF TTypes
<1>4. TStack /\ Numbered /\ PostOrder /\ WakeupPending
  BY <1>1, <1>2 DEF TStack, Numbered, PostOrder, WakeupPending, InOrder
<1>5. Conserved
  BY <1>1, <1>2 DEF Conserved, IsInjective
<1> QED
  BY <1>3, <1>4, <1>5 DEF TInv

\* Every step keeps the invariant.
LEMMA StepTInv == TInv /\ [TaskNext]_taskVars => TInv'
<1> SUFFICES ASSUME TInv, [TaskNext]_taskVars PROVE TInv'
  OBVIOUS
<1>1. CASE UNCHANGED taskVars
  BY <1>1, Zenon DEF TInv, TTypes, TStack, Numbered, Conserved, PostOrder, WakeupPending, Taken, Waits,
              taskVars
<1>2. ASSUME NEW d \in Delayed, PushDelayed(d) PROVE TInv'
  BY <1>2, PushDelayedKeeps
<1>3. ASSUME NEW x \in Delayed \cup 1..MaxTasks, Send(x) PROVE TInv'
  BY <1>3, SendKeeps
<1>4. CASE MainStep
  BY <1>4, DrainKeeps, RunTaskKeeps, ReturnKeeps, ArmKeeps DEF MainStep
<1> QED
  BY <1>1, <1>2, <1>3, <1>4, PushTaskKeeps, CallKeeps, TickKeeps DEF TaskNext

\* Each task that was posted is in one queue, in the batch of one call of
\* RunTasks, or has run, and none runs twice; they wait in the order they were
\* posted, an outer call's before an inner one's; and a queue that holds a task
\* has a signal, a timer or a call pending (ForegroundTaskRunner::PostTask,
\* DrainTasks, RunTasks).
THEOREM TasksAreKept == TaskSpec => []TasksKept
<1>1. TInv => TasksKept
  BY DEF TInv, TasksKept
<1> QED
  BY <1>1, InitTInv, StepTInv, PTL DEF TaskSpec

-----------------------------------------------------------------------------
(***************************************************************************)
(* The reference count of the data channel, for any number of calls,       *)
(* triggers and streams.  SetsOK says which piece of work may be where: a  *)
(* call is pending, dropped, resolved or done and a stream is opened only  *)
(* by a resolved fetch or a new trigger, so that every Ref adds a new      *)
(* piece of work and every Unref removes one.                              *)
(***************************************************************************)

Starting == phase \in {"connecting", "credentials", "failed"}

SetsOK ==
  /\ made \subseteq Calls /\ seen \subseteq Triggers /\ running \subseteq seen
  /\ OpenCalls \subseteq made /\ resolved \subseteq made
  /\ OpenStreams \subseteq FetchCalls \cup Triggers
  /\ OpenStreams \subseteq made \cup seen
  /\ pending \cap dropped = {} /\ open \cap cancelled = {}
  /\ resolved \cap OpenCalls = {}
  /\ OpenStreams \cap (OpenCalls \cup resolved) = {}
  /\ Starting => made = {} /\ seen = {}

\* Between two turns of the event loop no continuation is left.
TicksOK == missed = {} /\ (ticking \/ resolved = {})

\* The handle of a socket is referenced while the count is not zero.
HandleOK == /\ uvRef => socket
            /\ phase = "serving" /\ socket => (uvRef <=> refCount > 0)

CInv == SetsOK /\ TicksOK /\ RefsAccounted /\ HandleOK /\ FaultsAtBoundary

-----------------------------------------------------------------------------
(* Counting *)

\* The sets of outstanding work are finite.
LEMMA Finite ==
  ASSUME SetsOK
  PROVE  /\ IsFiniteSet(OpenCalls) /\ IsFiniteSet(running) /\ IsFiniteSet(OpenStreams)
         /\ Cardinality(OpenCalls) \in Nat /\ Cardinality(running) \in Nat
         /\ Cardinality(OpenStreams) \in Nat
<1>1. IsFiniteSet(Calls \cup Triggers)
  BY FS_Union, FiniteAssumption, Zenon
<1>2. /\ OpenCalls \in SUBSET (Calls \cup Triggers)
      /\ running \in SUBSET (Calls \cup Triggers)
      /\ OpenStreams \in SUBSET (Calls \cup Triggers)
  BY DEF SetsOK
<1>3. IsFiniteSet(OpenCalls) /\ IsFiniteSet(running) /\ IsFiniteSet(OpenStreams)
  BY <1>1, <1>2, FS_Subset
<1> QED
  BY <1>3, FS_CardinalityType

\* A set from which an element is taken, or to which a new one is added.
LEMMA AddOne ==
  ASSUME NEW S, IsFiniteSet(S), NEW x, x \notin S
  PROVE  Cardinality(S \cup {x}) = Cardinality(S) + 1
BY FS_AddElement

\* One call less is pending.
LEMMA RemoveOne ==
  ASSUME NEW S, IsFiniteSet(S), NEW x \in S
  PROVE  /\ Cardinality(S \ {x}) = Cardinality(S) - 1
         /\ Cardinality(S) # 0
<1>1. Cardinality(S \ {x}) = Cardinality(S) - 1
  BY FS_RemoveElement
<1>2. Cardinality(S) # 0
  BY FS_EmptySet
<1> QED
  BY <1>1, <1>2

\* A refed channel never uses a lost socket: its own reference keeps the count
\* above zero, and above one while any other work is outstanding.
LEMMA NoFault ==
  ASSUME CInv, Refed, phase = "serving"
  PROVE  /\ ~RefFaults
         /\ running # {} \/ OpenStreams # {} => ~UnrefFaults
<1>1. /\ Cardinality(OpenCalls) \in Nat /\ Cardinality(running) \in Nat
      /\ Cardinality(OpenStreams) \in Nat
  BY Finite DEF CInv
<1>2. /\ running # {} => Cardinality(running) # 0
      /\ OpenStreams # {} => Cardinality(OpenStreams) # 0
  BY Finite, FS_EmptySet DEF CInv
<1> QED
  BY <1>1, <1>2 DEF CInv, RefsAccounted, ChannelRef, RefFaults, UnrefFaults

\* A crash leaves the books as they are.
LEMMA CrashInv ==
  ASSUME CInv, phase = "serving", Crash, ~Refed, RefFaults \/ UnrefFaults
  PROVE  CInv'
<1> USE DEF CInv, Crash, refVars, callVars, triggerVars, streamVars, resourceVars
<1>1. SetsOK' /\ TicksOK'
  BY DEF SetsOK, TicksOK, Starting, OpenCalls, OpenStreams
<1>2. RefsAccounted'
  BY DEF RefsAccounted, ChannelRef, OpenCalls, OpenStreams
<1> QED
  BY <1>1, <1>2 DEF HandleOK, FaultsAtBoundary, RefFaults, UnrefFaults

\* What a step that leaves the work and the count alone must keep.
LEMMA SameWork ==
  ASSUME CInv, SetsOK', TicksOK',
         OpenCalls' = OpenCalls, running' = running, OpenStreams' = OpenStreams,
         refCount' = refCount, uvRef' = uvRef, socket' = socket,
         phase' = phase \/ (phase = "serving" /\ phase' = "exited")
  PROVE  CInv'
<1>1. RefsAccounted'
  BY DEF CInv, RefsAccounted, ChannelRef
<1> QED
  BY <1>1 DEF CInv, HandleOK, FaultsAtBoundary

\* Ref and Unref keep the handle in step with the count.
LEMMA RefHandle ==
  ASSUME HandleOK, phase = "serving", refCount \in Nat, Ref
  PROVE  HandleOK'
<1>1. uvRef' <=> (uvRef \/ refCount = 0)
  BY Zenon DEF Ref
<1>2. /\ refCount' = refCount + 1 /\ socket' = socket /\ phase' = phase
      /\ refCount = 0 => socket
  BY DEF Ref, RefFaults, socketVars
<1>3. refCount' > 0
  BY <1>2
<1>4. refCount > 0 \/ refCount = 0
  OBVIOUS
<1> QED
  BY <1>1, <1>2, <1>3, <1>4 DEF HandleOK

\* A callback that releases its reference keeps the handle and the count together.
LEMMA UnrefHandle ==
  ASSUME HandleOK, phase = "serving", refCount \in Nat \ {0}, CallbackUnref,
         socket' = socket
  PROVE  HandleOK'
<1>1. uvRef' <=> (uvRef /\ refCount # 1)
  BY Zenon DEF CallbackUnref
<1>2. refCount > 0 /\ (refCount' > 0 <=> refCount # 1)
  BY DEF CallbackUnref
<1> QED
  BY <1>1, <1>2 DEF HandleOK

\* So does a callback that releases its reference and takes another.
LEMMA UnrefThenRefHandle ==
  ASSUME HandleOK, phase = "serving", refCount \in Nat \ {0}, UnrefThenRef
  PROVE  HandleOK'
<1>1. uvRef' <=> (uvRef \/ refCount = 1)
  BY Zenon DEF UnrefThenRef
<1>2. /\ refCount' = refCount /\ socket' = socket /\ phase' = phase
      /\ refCount = 1 => socket
  BY DEF UnrefThenRef, UnrefFaults, socketVars
<1>3. refCount > 0 /\ refCount' > 0
  BY <1>2
<1> QED
  BY <1>1, <1>2, <1>3 DEF HandleOK

-----------------------------------------------------------------------------
(* The steps *)

\* Nothing is outstanding at the start.
LEMMA InitCInv == ChannelInit => CInv
<1> SUFFICES ASSUME ChannelInit PROVE CInv
  OBVIOUS
<1> USE DEF ChannelInit
<1>1. OpenCalls = {} /\ OpenStreams = {}
  BY DEF OpenCalls, OpenStreams
<1>2. SetsOK /\ TicksOK
  BY <1>1 DEF SetsOK, TicksOK
<1>3. RefsAccounted
  BY <1>1, FS_EmptySet DEF RefsAccounted, ChannelRef
<1> QED
  BY <1>2, <1>3 DEF CInv, HandleOK, FaultsAtBoundary

\* Connecting changes only the socket and, for a refed channel, the count.
LEMMA ConnectInv ==
  ASSUME CInv,
         \/ \E ok \in BOOLEAN : OnConnect(ok)
         \/ CredentialsAccepted \/ CredentialsRejected \/ Disconnected
  PROVE  CInv'
<1> USE DEF CInv, callVars, triggerVars, streamVars, resourceVars, refVars
<1>0. /\ OpenCalls' = OpenCalls /\ running' = running /\ OpenStreams' = OpenStreams
      /\ made' = made /\ seen' = seen /\ resolved' = resolved /\ ticking' = ticking
      /\ pending' = pending /\ dropped' = dropped /\ open' = open /\ cancelled' = cancelled
      /\ missed' = missed
  BY DEF OnConnect, CredentialsAccepted, CredentialsRejected, Disconnected, OpenCalls, OpenStreams
<1>1. Starting' => Starting
  BY DEF Starting, OnConnect, CredentialsAccepted, CredentialsRejected, Disconnected, Polling
<1>2. SetsOK' /\ TicksOK'
  BY <1>0, <1>1 DEF SetsOK, TicksOK
<1>3. /\ Cardinality(OpenCalls) \in Nat /\ Cardinality(running) \in Nat
      /\ Cardinality(OpenStreams) \in Nat
  BY Finite
<1>4. Starting => refCount = 0
  <2> SUFFICES ASSUME Starting PROVE refCount = 0
    OBVIOUS
  <2>1. OpenCalls = {} /\ running = {} /\ OpenStreams = {}
    BY DEF SetsOK
  <2> QED
    BY <2>1, FS_EmptySet DEF RefsAccounted, ChannelRef, Starting
<1>5. ASSUME NEW ok \in BOOLEAN, OnConnect(ok) PROVE CInv'
  <2>1. RefsAccounted'
    BY <1>0, <1>3, <1>5 DEF RefsAccounted, ChannelRef, OnConnect
  <2> QED
    BY <1>2, <1>5, <2>1 DEF HandleOK, FaultsAtBoundary, OnConnect
<1>6. ASSUME CredentialsAccepted PROVE CInv'
  <2>1. /\ refCount' = ChannelRef' /\ ChannelRef' \in {0, 1}
        /\ refCount = 0 /\ ChannelRef = 0
    BY <1>4, <1>6 DEF CredentialsAccepted, ChannelRef, Starting
  <2>2. RefsAccounted'
    BY <1>0, <1>3, <2>1 DEF RefsAccounted
  <2>3. HandleOK'
    BY <1>4, <1>6, FlagsAssumption DEF HandleOK, CredentialsAccepted, Starting
  <2> QED
    BY <1>2, <1>6, <2>2, <2>3 DEF FaultsAtBoundary, CredentialsAccepted
<1>7. ASSUME CredentialsRejected PROVE CInv'
  <2>1. RefsAccounted'
    BY <1>0, <1>3, <1>7 DEF RefsAccounted, ChannelRef, CredentialsRejected
  <2> QED
    BY <1>2, <1>7, <2>1 DEF HandleOK, FaultsAtBoundary, CredentialsRejected
<1>8. ASSUME Disconnected PROVE CInv'
  <2>1. RefsAccounted'
    BY <1>0, <1>3, <1>8 DEF RefsAccounted, ChannelRef, Disconnected
  <2> QED
    BY <1>2, <1>8, <2>1 DEF HandleOK, FaultsAtBoundary, Disconnected
<1> QED
  BY <1>5, <1>6, <1>7, <1>8

\* Calls: a new one takes a reference, a callback gives it back.
LEMMA JsCallInv ==
  ASSUME CInv, NEW c \in Calls, JsCall(c)
  PROVE  CInv'
<1> USE DEF CInv
<1>1. CASE RefFaults /\ Crash
  BY <1>1, NoFault, CrashInv, FlagsAssumption DEF JsCall
<1>2. CASE Ref /\ Request(c) /\ UNCHANGED <<triggerVars, streamVars, resourceVars, missed>>
  <2> USE <1>2 DEF Ref, Request, socketVars, triggerVars, streamVars, resourceVars
  <2>1. OpenCalls' = OpenCalls \cup {c} /\ c \notin OpenCalls /\ OpenStreams' = OpenStreams
    BY DEF OpenCalls, OpenStreams, SetsOK
  <2>2. phase = "serving"
    BY DEF JsCall
  <2>3. SetsOK'
    <3>1. c \notin OpenStreams
      BY DisjointAssumption DEF SetsOK
    <3> QED
      BY <2>1, <2>2, <3>1 DEF SetsOK, Starting, OpenCalls, OpenStreams
  <2>4. TicksOK'
    BY DEF TicksOK
  <2>5. Cardinality(OpenCalls') = Cardinality(OpenCalls) + 1
    BY <2>1, Finite, AddOne
  <2>6. RefsAccounted' /\ refCount \in Nat
    BY <2>1, <2>2, <2>5, Finite DEF RefsAccounted, ChannelRef
  <2>7. HandleOK'
    BY <2>2, <2>6, RefHandle
  <2> QED
    BY <2>2, <2>3, <2>4, <2>6, <2>7 DEF FaultsAtBoundary
<1> QED
  BY <1>1, <1>2 DEF JsCall

\* The callback of a call, with an answer or an error, keeps the invariant.
LEMMA CallbackInv ==
  ASSUME CInv, NEW c \in Calls, CallbackOk(c) \/ CallbackError(c)
  PROVE  CInv'
<1> USE DEF CInv
<1>0. /\ phase = "serving" /\ c \in pending /\ CallbackUnref
      /\ pending' = pending \ {c} /\ dropped' = dropped /\ ticking' = TRUE
      /\ resolved' \subseteq resolved \cup {c}
      /\ made' = made /\ seen' = seen /\ running' = running
      /\ open' = open /\ cancelled' = cancelled /\ missed' = missed
      /\ socket' = socket /\ phase' \in {"serving", "exited"}
  BY DEF CallbackOk, CallbackError, Polling, Uncaught, socketVars, triggerVars,
         streamVars, resourceVars
<1>1. OpenCalls' = OpenCalls \ {c} /\ c \in OpenCalls /\ OpenStreams' = OpenStreams
  BY <1>0 DEF OpenCalls, OpenStreams, SetsOK
<1>2. SetsOK'
  BY <1>0, <1>1 DEF SetsOK, Starting, OpenCalls, OpenStreams
<1>3. TicksOK'
  BY <1>0 DEF TicksOK
<1>4. Cardinality(OpenCalls') = Cardinality(OpenCalls) - 1 /\ Cardinality(OpenCalls) # 0
  BY <1>1, Finite, RemoveOne
<1>5. RefsAccounted' /\ refCount \in Nat \ {0}
  BY <1>0, <1>1, <1>4, Finite DEF RefsAccounted, ChannelRef, CallbackUnref
<1>6. HandleOK'
  BY <1>0, <1>5, UnrefHandle
<1> QED
  BY <1>0, <1>2, <1>3, <1>5, <1>6 DEF FaultsAtBoundary

\* A fetch's continuation opens a stream that was not open.
LEMMA ContinueFetchInv ==
  ASSUME CInv, NEW c \in FetchCalls, ContinueFetch(c) \/ ContinueFetchFaults(c)
  PROVE  CInv'
<1> USE DEF CInv
<1>1. CASE ContinueFetchFaults(c)
  BY <1>1, NoFault, CrashInv, FlagsAssumption DEF ContinueFetchFaults
<1>2. CASE ContinueFetch(c)
  <2>0. /\ phase = "serving" /\ c \in resolved /\ resolved' = resolved \ {c}
        /\ pending' = pending /\ dropped' = dropped /\ ticking' = ticking
        /\ made' = made /\ seen' = seen /\ running' = running
        /\ cancelled' = cancelled /\ missed' = missed
    BY <1>2 DEF ContinueFetch, triggerVars, resourceVars
  <2>1. TicksOK'
    BY <2>0 DEF TicksOK
  <2>2. OpenCalls' = OpenCalls
    BY <2>0 DEF OpenCalls
  <2>3. CASE UNCHANGED <<socketVars, refVars, open>>
    <3>1. OpenStreams' = OpenStreams /\ SetsOK'
      BY <2>0, <2>2, <2>3 DEF SetsOK, OpenStreams, OpenCalls, Starting, socketVars
    <3>2. uvRef' = uvRef /\ refCount' = refCount /\ socket' = socket /\ phase' = phase
      BY <2>3 DEF socketVars, refVars
    <3> QED
      BY <2>0, <2>1, <2>2, <3>1, <3>2, SameWork
  <2>4. CASE Ref /\ open' = open \cup {c}
    <3>1. OpenStreams' = OpenStreams \cup {c} /\ c \notin OpenStreams
      BY <2>0, <2>4 DEF OpenStreams, SetsOK
    <3>2. SetsOK'
      BY <2>0, <2>2, <2>4, <3>1 DEF SetsOK, OpenCalls, OpenStreams, Starting, Ref, socketVars
    <3>3. Cardinality(OpenStreams') = Cardinality(OpenStreams) + 1
      BY <3>1, Finite, AddOne
    <3>4. RefsAccounted' /\ refCount \in Nat
      BY <2>0, <2>2, <2>4, <3>3, Finite DEF RefsAccounted, ChannelRef, Ref, socketVars
    <3>5. HandleOK'
      BY <2>0, <2>4, <3>4, RefHandle
    <3> QED
      BY <2>0, <2>1, <2>4, <3>2, <3>4, <3>5 DEF FaultsAtBoundary, Ref, socketVars
  <2> QED
    BY <1>2, <2>3, <2>4 DEF ContinueFetch
<1> QED
  BY <1>1, <1>2

\* Steps that move no reference.
LEMMA QuietInv ==
  ASSUME CInv,
         \/ TickDone
         \/ \E c \in AcquireCalls : ContinueAcquire(c) \/ ResourceNotification(c)
         \/ \E s \in Streams : PushChunk(s) \/ Cancel(s)
  PROVE  CInv'
<1>1. ASSUME TickDone PROVE CInv'
  <2> USE <1>1 DEF TickDone, socketVars, refVars, triggerVars, streamVars
  <2>1. OpenCalls' = OpenCalls /\ OpenStreams' = OpenStreams
    BY DEF OpenCalls, OpenStreams
  <2>2. SetsOK' /\ TicksOK'
    BY <2>1 DEF CInv, SetsOK, TicksOK, Starting, OpenCalls, OpenStreams
  <2> QED
    BY <2>1, <2>2, SameWork
<1>2. ASSUME NEW c \in AcquireCalls, ContinueAcquire(c) PROVE CInv'
  <2> USE <1>2 DEF ContinueAcquire, socketVars, refVars, triggerVars, streamVars
  <2>1. OpenCalls' = OpenCalls /\ OpenStreams' = OpenStreams
    BY DEF OpenCalls, OpenStreams
  <2>2. SetsOK' /\ TicksOK'
    BY <2>1 DEF CInv, SetsOK, TicksOK, Starting, OpenCalls, OpenStreams
  <2> QED
    BY <2>1, <2>2, SameWork
<1>3. ASSUME NEW c \in AcquireCalls, ResourceNotification(c) PROVE CInv'
  <2> USE <1>3 DEF ResourceNotification, socketVars, refVars, callVars, triggerVars, streamVars
  <2>1. OpenCalls' = OpenCalls /\ OpenStreams' = OpenStreams
    BY DEF OpenCalls, OpenStreams
  <2>2. SetsOK' /\ TicksOK'
    BY <2>1 DEF CInv, SetsOK, TicksOK, Starting, OpenCalls, OpenStreams, Polling
  <2> QED
    BY <2>1, <2>2, SameWork
<1>4. ASSUME NEW s \in Streams, PushChunk(s) PROVE CInv'
  <2> USE <1>4 DEF PushChunk, Polling, Uncaught, socketVars, refVars, callVars,
                  triggerVars, streamVars, resourceVars
  <2>1. OpenCalls' = OpenCalls /\ OpenStreams' = OpenStreams
    BY DEF OpenCalls, OpenStreams
  <2>2. phase = "serving" /\ phase' \in {"serving", "exited"} /\ socket' = socket
    BY Zenon
  <2>3. SetsOK' /\ TicksOK'
    BY <2>1, <2>2 DEF CInv, SetsOK, TicksOK, Starting, OpenCalls, OpenStreams
  <2> QED
    BY <2>1, <2>2, <2>3, SameWork
<1>5. ASSUME NEW s \in Streams, Cancel(s) PROVE CInv'
  <2> USE <1>5 DEF Cancel, socketVars, refVars, callVars, triggerVars
  <2>1. OpenCalls' = OpenCalls /\ OpenStreams' = OpenStreams
    BY DEF OpenCalls, OpenStreams
  <2>2. SetsOK' /\ TicksOK'
    BY <2>1 DEF CInv, SetsOK, TicksOK, Starting, OpenCalls, OpenStreams
  <2> QED
    BY <2>1, <2>2, SameWork
<1> QED
  BY <1>1, <1>2, <1>3, <1>4, <1>5

\* A trigger takes one reference, and one more for its input.
LEMMA TriggerInv ==
  ASSUME CInv, NEW t \in Triggers, NEW hasInput \in BOOLEAN, Trigger(t, hasInput)
  PROVE  CInv'
<1> USE DEF CInv, Trigger, Polling, socketVars, callVars, resourceVars
<1>1. OpenCalls' = OpenCalls /\ running' = running \cup {t} /\ t \notin running
  BY DEF OpenCalls, SetsOK
<1>2. t \notin OpenStreams /\ OpenStreams' = OpenStreams \cup (IF hasInput THEN {t} ELSE {})
  BY DisjointAssumption DEF OpenStreams, SetsOK
<1>3. SetsOK'
  BY <1>1, <1>2, DisjointAssumption DEF SetsOK, OpenCalls, OpenStreams, Starting
<1>4. TicksOK'
  BY DEF TicksOK
<1>5. Cardinality(running') = Cardinality(running) + 1
  BY <1>1, Finite, AddOne
<1>6. Cardinality(OpenStreams') = Cardinality(OpenStreams) + (IF hasInput THEN 1 ELSE 0)
  <2>1. CASE hasInput
    BY <1>2, <2>1, Finite, AddOne
  <2>2. CASE ~hasInput
    BY <1>2, <2>2, Finite
  <2> QED
    BY <2>1, <2>2
<1>7. RefsAccounted' /\ refCount' > 0
  BY <1>1, <1>5, <1>6, Finite DEF RefsAccounted, ChannelRef
<1>8. HandleOK'
  BY <1>7 DEF HandleOK
<1> QED
  BY <1>3, <1>4, <1>7, <1>8 DEF FaultsAtBoundary

\* Feedback gives a trigger's reference back.
LEMMA FeedbackInv ==
  ASSUME CInv, NEW t \in Triggers,
         Feedback(t) \/ FeedbackAndPush(t) \/ FeedbackError(t)
  PROVE  CInv'
<1>0. phase = "serving" /\ t \in running
  BY DEF Feedback, FeedbackAndPush, FeedbackError
<1>1. CASE UnrefFaults /\ Crash
  BY <1>0, <1>1, NoFault, CrashInv, FlagsAssumption
<1>2. /\ Cardinality(running \ {t}) = Cardinality(running) - 1
      /\ Cardinality(running) # 0
  BY <1>0, Finite, RemoveOne DEF CInv
<1>3. refCount \in Nat \ {0}
  BY <1>2, Finite DEF CInv, RefsAccounted, ChannelRef
<1>4. CASE /\ CallbackUnref /\ socket' = socket /\ phase' \in {"serving", "exited"}
           /\ running' = running \ {t}
           /\ UNCHANGED <<callVars, seen, streamVars, resourceVars, missed>>
  <2> USE <1>4 DEF callVars, streamVars, resourceVars
  <2>1. OpenCalls' = OpenCalls /\ OpenStreams' = OpenStreams
    BY DEF OpenCalls, OpenStreams
  <2>2. SetsOK' /\ TicksOK'
    BY <1>0, <2>1 DEF CInv, SetsOK, TicksOK, Starting, OpenCalls, OpenStreams
  <2>3. RefsAccounted'
    BY <1>0, <1>2, <2>1, Finite DEF CInv, RefsAccounted, ChannelRef, CallbackUnref
  <2>4. HandleOK'
    BY <1>0, <1>3, UnrefHandle DEF CInv
  <2> QED
    BY <1>0, <2>2, <2>3, <2>4 DEF CInv, FaultsAtBoundary
<1>5. CASE /\ UnrefThenRef
           /\ running' = running \ {t}
           /\ Request(PushOf(t))
           /\ UNCHANGED <<seen, streamVars, resourceVars, missed>>
  <2> USE <1>5 DEF Request, streamVars, resourceVars
  <2>1. OpenCalls' = OpenCalls \cup {PushOf(t)} /\ PushOf(t) \notin OpenCalls
    BY DEF OpenCalls, CInv, SetsOK
  <2>2. OpenStreams' = OpenStreams /\ phase' = phase /\ PushOf(t) \in Calls
    BY DEF OpenStreams, UnrefThenRef, socketVars, Calls, PushCalls
  <2>3. PushOf(t) \notin OpenStreams
    BY <2>2, DisjointAssumption DEF CInv, SetsOK
  <2>4. SetsOK' /\ TicksOK'
    BY <1>0, <2>1, <2>2, <2>3 DEF CInv, SetsOK, TicksOK, Starting, OpenCalls, OpenStreams
  <2>5. Cardinality(OpenCalls') = Cardinality(OpenCalls) + 1
    BY <2>1, Finite, AddOne DEF CInv
  <2>6. RefsAccounted'
    BY <1>0, <1>2, <2>2, <2>5, Finite DEF CInv, RefsAccounted, ChannelRef, UnrefThenRef
  <2>7. HandleOK'
    BY <1>0, <1>3, UnrefThenRefHandle DEF CInv
  <2> QED
    BY <1>0, <2>2, <2>4, <2>6, <2>7 DEF CInv, FaultsAtBoundary
<1>6. ASSUME Feedback(t) PROVE CInv'
  BY <1>0, <1>1, <1>4, <1>6 DEF Feedback, Unref, CallbackUnref, socketVars
<1>7. ASSUME FeedbackAndPush(t) PROVE CInv'
  BY <1>1, <1>5, <1>7 DEF FeedbackAndPush
<1>8. ASSUME FeedbackError(t) PROVE CInv'
  BY <1>0, <1>1, <1>4, <1>8 DEF FeedbackError, Uncaught
<1> QED
  BY <1>6, <1>7, <1>8

\* The end of a stream gives its reference back if the stream is forgotten.
LEMMA PushInv ==
  ASSUME CInv, NEW s \in Streams, PushEnd(s) \/ PushError(s)
  PROVE  CInv'
<1> USE DEF CInv
<1>0. /\ phase = "serving" /\ socket /\ ~ticking
      /\ missed' = missed \cup ({s} \cap resolved)
      /\ OpenCalls' = OpenCalls /\ running' = running
      /\ made' = made /\ seen' = seen /\ resolved' = resolved /\ ticking' = ticking
      /\ pending' = pending /\ dropped' = dropped
      /\ socket' = socket /\ phase' \in {"serving", "exited"}
  BY DEF PushEnd, PushError, Polling, callVars, triggerVars, OpenCalls, Unref,
         Uncaught, socketVars
<1>1. TicksOK'
  BY <1>0 DEF TicksOK
<1>2. CASE /\ s \in OpenStreams /\ Unref
           /\ open' = open \ {s} /\ cancelled' = cancelled \ {s}
  <2>1. OpenStreams' = OpenStreams \ {s}
    BY <1>2 DEF OpenStreams
  <2>2. SetsOK'
    BY <1>0, <1>2, <2>1 DEF SetsOK, Starting, OpenCalls, OpenStreams
  <2>3. Cardinality(OpenStreams') = Cardinality(OpenStreams) - 1 /\ Cardinality(OpenStreams) # 0
    BY <1>2, <2>1, Finite, RemoveOne
  <2>4. RefsAccounted' /\ refCount \in Nat \ {0}
    BY <1>0, <1>2, <2>3, Finite DEF RefsAccounted, ChannelRef, Unref
  <2>5. HandleOK'
    BY <1>0, <1>2, <2>4, UnrefHandle DEF Unref, CallbackUnref
  <2> QED
    BY <1>0, <1>1, <2>2, <2>4, <2>5 DEF FaultsAtBoundary
<1>3. CASE UNCHANGED <<refVars, open, cancelled>>
  <2>1. OpenStreams' = OpenStreams
    BY <1>3 DEF OpenStreams
  <2>2. SetsOK'
    BY <1>0, <1>3, <2>1 DEF SetsOK, Starting, OpenCalls, OpenStreams
  <2>3. refCount' = refCount /\ uvRef' = uvRef
    BY <1>3 DEF refVars
  <2> QED
    BY <1>0, <1>1, <2>1, <2>2, <2>3, SameWork
<1>4. ASSUME PushEnd(s) PROVE CInv'
  <2>1. s \in open => s \in OpenStreams /\ cancelled \ {s} = cancelled
    BY DEF OpenStreams, SetsOK
  <2> QED
    BY <1>2, <1>3, <1>4, <2>1 DEF PushEnd
<1>5. ASSUME PushError(s) PROVE CInv'
  <2>1. s \notin open \cup cancelled => open \ {s} = open /\ cancelled \ {s} = cancelled
    OBVIOUS
  <2> QED
    BY <1>2, <1>3, <1>5, <2>1 DEF PushError, OpenStreams
<1> QED
  BY <1>4, <1>5

\* An abort trades the stream's reference for that of the call fetchAbort.
LEMMA AbortInv ==
  ASSUME CInv, NEW c \in FetchCalls, AbortFetch(c)
  PROVE  CInv'
<1>0. phase = "serving"
  BY DEF AbortFetch
<1>1. CASE (IF c \in open \cup cancelled THEN UnrefFaults ELSE RefFaults) /\ Crash
  BY <1>0, <1>1, NoFault, CrashInv, FlagsAssumption DEF OpenStreams
<1>2. CASE /\ IF c \in open \cup cancelled THEN UnrefThenRef ELSE Ref
           /\ open' = open \ {c}
           /\ cancelled' = cancelled \ {c}
           /\ Request(AbortOf(c))
           /\ UNCHANGED <<triggerVars, ended, resourceVars, missed>>
  <2> USE <1>2 DEF CInv, Request, triggerVars, resourceVars
  <2>1. OpenCalls' = OpenCalls \cup {AbortOf(c)} /\ AbortOf(c) \notin OpenCalls
    BY DEF OpenCalls, SetsOK
  <2>2. /\ OpenStreams' = OpenStreams \ {c} /\ phase' = phase
        /\ AbortOf(c) \in Calls /\ AbortOf(c) \notin made
    BY DEF OpenStreams, UnrefThenRef, Ref, socketVars, Calls
  <2>3. AbortOf(c) \notin OpenStreams
    BY <2>2, DisjointAssumption DEF SetsOK
  <2>4. SetsOK' /\ TicksOK'
    BY <1>0, <2>1, <2>2, <2>3 DEF SetsOK, TicksOK, Starting, OpenCalls, OpenStreams
  <2>5. Cardinality(OpenCalls') = Cardinality(OpenCalls) + 1
    BY <2>1, Finite, AddOne
  <2>6. CASE c \in OpenStreams
    <3>1. Cardinality(OpenStreams') = Cardinality(OpenStreams) - 1 /\ Cardinality(OpenStreams) # 0
      BY <2>2, <2>6, Finite, RemoveOne
    <3>2. UnrefThenRef
      BY <2>6 DEF OpenStreams
    <3>3. RefsAccounted' /\ refCount \in Nat \ {0}
      BY <1>0, <2>2, <2>5, <3>1, <3>2, Finite DEF RefsAccounted, ChannelRef, UnrefThenRef
    <3>4. HandleOK'
      BY <1>0, <3>2, <3>3, UnrefThenRefHandle
    <3> QED
      BY <1>0, <2>2, <2>4, <3>3, <3>4 DEF FaultsAtBoundary
  <2>7. CASE c \notin OpenStreams
    <3>1. OpenStreams' = OpenStreams /\ Ref
      BY <2>2, <2>7 DEF OpenStreams
    <3>2. refCount \in Nat /\ ChannelRef \in Nat /\ ChannelRef' = ChannelRef
      BY <2>2, Finite DEF RefsAccounted, ChannelRef
    <3>3. refCount' = refCount + 1 /\ running' = running
      BY <3>1 DEF Ref
    <3>4. RefsAccounted'
      BY <2>5, <3>1, <3>2, <3>3, Finite DEF RefsAccounted
    <3>5. HandleOK'
      BY <1>0, <3>1, <3>2, RefHandle
    <3> QED
      BY <1>0, <2>2, <2>4, <3>4, <3>5 DEF FaultsAtBoundary
  <2> QED
    BY <2>6, <2>7
<1> QED
  BY <1>1, <1>2 DEF AbortFetch

\* Every step keeps the invariant.
LEMMA NextCInv == CInv /\ [ChannelNext]_channelVars => CInv'
<1> SUFFICES ASSUME CInv, [ChannelNext]_channelVars PROVE CInv'
  OBVIOUS
<1>1. CASE UNCHANGED channelVars
  BY <1>1 DEF CInv, SetsOK, TicksOK, RefsAccounted, HandleOK, FaultsAtBoundary, Starting,
     OpenCalls, OpenStreams, ChannelRef, channelVars, socketVars, refVars, callVars,
     triggerVars, streamVars, resourceVars
<1>2. CASE ChannelNext
  BY <1>2, ConnectInv, JsCallInv, CallbackInv, ContinueFetchInv, QuietInv, TriggerInv,
     FeedbackInv, PushInv, AbortInv DEF ChannelNext
<1> QED
  BY <1>1, <1>2

-----------------------------------------------------------------------------
(* Theorems *)

\* The inductive invariant holds in every behaviour of the channel.
THEOREM ChannelInvariance == ChannelSpec => []CInv
BY InitCInv, NextCInv, PTL DEF ChannelSpec

\* ref_count_ is exactly the outstanding work, for any number of calls,
\* triggers and streams (RefsAccounted).
THEOREM ReferencesAccounted == ChannelSpec => []RefsAccounted
<1>1. CInv => RefsAccounted
  BY DEF CInv
<1> QED
  BY <1>1, ChannelInvariance, PTL

\* The socket keeps the event loop alive exactly while there is outstanding
\* work, and its loss is used at the boundary only (KeptAliveByWork).
THEOREM AliveByWork == ChannelSpec => []KeptAliveByWork
<1>1. CInv => KeptAliveByWork
  <2> SUFFICES ASSUME CInv, phase = "serving", socket
               PROVE  uvRef <=> (Refed \/ OpenCalls # {} \/ running # {} \/ OpenStreams # {})
    BY DEF KeptAliveByWork, CInv
  <2>1. uvRef <=> refCount > 0
    BY DEF CInv, HandleOK
  <2>2. /\ OpenCalls = {} <=> Cardinality(OpenCalls) = 0
        /\ running = {} <=> Cardinality(running) = 0
        /\ OpenStreams = {} <=> Cardinality(OpenStreams) = 0
    BY Finite, FS_EmptySet DEF CInv
  <2> DEFINE a == Cardinality(OpenCalls)
             b == Cardinality(running)
             d == Cardinality(OpenStreams)
  <2>3. /\ refCount = ChannelRef + a + b + d
        /\ a \in Nat /\ b \in Nat /\ d \in Nat
        /\ ChannelRef = IF Refed THEN 1 ELSE 0
    BY Finite DEF CInv, RefsAccounted, ChannelRef
  <2>4. refCount > 0 <=> (Refed \/ a # 0 \/ b # 0 \/ d # 0)
    <3> HIDE DEF a, b, d
    <3>1. CASE Refed
      BY <2>3, <3>1
    <3>2. CASE ~Refed
      BY <2>3, <3>2
    <3> QED
      BY <3>1, <3>2
  <2> QED
    BY <2>1, <2>2, <2>4
<1> QED
  BY <1>1, ChannelInvariance, PTL

\* No push or notification comes before its reader (NothingMissed).
THEOREM NoneMissed == ChannelSpec => []NothingMissed
<1>1. CInv => NothingMissed
  BY DEF CInv, TicksOK, NothingMissed
<1> QED
  BY <1>1, ChannelInvariance, PTL

\* Ref and Unref use a lost socket at the boundary of the count only, and with
\* --ref-agent never (FaultsAtBoundary).
THEOREM RefedNeverFaults == ChannelSpec => [](FaultsAtBoundary /\ (Refed => phase # "crashed"))
<1>1. CInv => FaultsAtBoundary /\ (Refed => phase # "crashed")
  BY DEF CInv, FaultsAtBoundary
<1> QED
  BY <1>1, ChannelInvariance, PTL

=============================================================================
