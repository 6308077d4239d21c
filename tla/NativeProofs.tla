---------------------------- MODULE NativeProofs ----------------------------
(***************************************************************************)
(* Native work that answers JavaScript: the streams of zlib, and the       *)
(* timers that end scripts.                                                *)
(***************************************************************************)
EXTENDS ZlibStreams, AlarmTimer, StackFacts

-----------------------------------------------------------------------------
(***************************************************************************)
(* The tasks of a zlib stream are answered in the order they were pushed,  *)
(* each once, however the streams share the macro task queue and wherever  *)
(* a callback throws.                                                      *)
(***************************************************************************)

(* One wrapper: its members W, and the sets of the pushes made to it (O), of *)
(* those of them in the macro task queue (F), being called back (C), and     *)
(* answered (G).                                                             *)

WrapperRecs ==
  [type : {"UNZIP", "ZIP", "GUNZIP", "INFLATE"}, sniffed : Nat, head : Nat,
   queue : Seq(Nat), inited : BOOLEAN, open : BOOLEAN, running : BOOLEAN,
   finished : BOOLEAN, errored : BOOLEAN, ended : BOOLEAN,
   held : BOOLEAN, collected : BOOLEAN]

\* The tasks of the wrapper are its own pushes; what waits in it was pushed
\* after what it has handed over, which was pushed after what is answered.
Lined(W, O, F, C, G) ==
  /\ F \subseteq O /\ C \subseteq O /\ G \subseteq O
  /\ W.head # NoTask => W.head \in O
  /\ \A i \in 1..Len(W.queue) : W.queue[i] \in O
  /\ \A i, j \in 1..Len(W.queue) : i < j => W.queue[i] < W.queue[j]
  /\ \A x \in F \cup C \cup G, i \in 1..Len(W.queue) : x < W.queue[i]
  /\ \A x \in C \cup G, y \in F : x < y

\* Nothing was ever handed over.
Unused(W, F, C, G) == W.queue = <<>> /\ ~W.running /\ F = {} /\ C = {} /\ G = {}

\* A wrapper with a head task, or not initialised, is unused; one whose stream
\* has not ended has at most one task under way, and one if it says so.
Engaged(W, F, C, G) ==
  /\ ~W.inited => Unused(W, F, C, G)
  /\ W.head # NoTask => Unused(W, F, C, G)
  /\ W.inited => W.type # "UNZIP"
  /\ ~W.ended => /\ W.running <=> F \cup C # {}
                 /\ \A x, y \in F \cup C : x = y
                 /\ W.queue # <<>> => W.running

\* A stream ends by its last chunk or an error, or else with its wrapper; it
\* is open until then, unless its initialisation threw (t).
Ending(W, F, C, t) ==
  /\ W.ended /\ ~(W.finished \/ W.errored) =>
       ~W.held /\ W.queue = <<>> /\ F = {} /\ C = {}
  /\ W.inited /\ ~W.ended /\ ~W.open => t

OneWrapper(W, O, F, C, G, t) ==
  /\ W \in WrapperRecs
  /\ Lined(W, O, F, C, G) /\ Engaged(W, F, C, G) /\ Ending(W, F, C, t)

\* What the operations make of the members: a head task kept, the queue q
\* waiting, its first task handed over; nothing left to do after a callback,
\* the next task handed over; the wrapper dropped by JavaScript, and collected.
KeptHead(W, n) == [W EXCEPT !.sniffed = 1, !.head = n]
Waiting(U, q) == [U EXCEPT !.head = NoTask, !.queue = q]
Started(U, q) == [U EXCEPT !.head = NoTask, !.queue = Tail(q), !.running = TRUE]
Rested(W) == [W EXCEPT !.running = FALSE]
GoneOn(W) == [W EXCEPT !.queue = Tail(W.queue)]
Forgotten(W) == [W EXCEPT !.held = FALSE]
Taken(W) == [W EXCEPT !.collected = TRUE, !.open = FALSE, !.ended = TRUE]
Finished(W) ==
  [W EXCEPT !.running = FALSE, !.ended = TRUE, !.open = FALSE, !.finished = TRUE]
Errored(W) ==
  [W EXCEPT !.running = FALSE, !.ended = TRUE, !.open = FALSE, !.errored = TRUE]

\* A push that queues no task.
LEMMA PushAside ==
  ASSUME NEW W, NEW O \in SUBSET Nat, NEW F, NEW C, NEW G, NEW t \in BOOLEAN,
         OneWrapper(W, O, F, C, G, t), NEW n \in Nat, NEW s \in BOOLEAN, t => s
  PROVE  OneWrapper(W, O \cup {n}, F, C, G, s)
BY DEF OneWrapper, Lined, Engaged, Ending

\* A push kept as the head task.
LEMMA PushKept ==
  ASSUME NEW W, NEW O \in SUBSET Nat, NEW F, NEW C, NEW G, NEW t \in BOOLEAN,
         OneWrapper(W, O, F, C, G, t), NEW n \in Nat, n # NoTask, W.type = "UNZIP", NEW V,
         V = KeptHead(W, n)
  PROVE  OneWrapper(V, O \cup {n}, F, C, G, t)
<1>1. ~W.inited /\ Unused(W, F, C, G) /\ W \in WrapperRecs
  BY DEF OneWrapper, Engaged, WrapperRecs
<1>2. /\ V \in WrapperRecs /\ V.head = n /\ V.queue = W.queue /\ V.inited = W.inited
      /\ V.running = W.running /\ V.ended = W.ended /\ V.finished = W.finished
      /\ V.errored = W.errored /\ V.held = W.held /\ V.open = W.open
  BY <1>1, Zenon DEF KeptHead, WrapperRecs
<1>3. Lined(V, O \cup {n}, F, C, G)
  BY <1>1, <1>2 DEF OneWrapper, Lined, Unused
<1>4. Engaged(V, F, C, G)
  BY <1>1, <1>2 DEF OneWrapper, Engaged, Unused
<1>5. Ending(V, F, C, t)
  BY <1>1, <1>2 DEF OneWrapper, Ending, Unused
<1> QED
  BY <1>2, <1>3, <1>4, <1>5 DEF OneWrapper

\* h was pushed after all of F.
Beyond(h, F) == \A x \in F : x < h

\* The tasks a push adds to the queue of its wrapper.
Queued(W, n) == W.queue \o (IF W.head = NoTask THEN <<>> ELSE <<W.head>>) \o <<n>>

\* q follows what was handed over, and grows.
Follows(q, O, F, C, G) ==
  /\ q \in Seq(Nat) /\ q # <<>>
  /\ \A i \in 1..Len(q) : q[i] \in O
  /\ \A i, j \in 1..Len(q) : i < j => q[i] < q[j]
  /\ \A x \in F \cup C \cup G, i \in 1..Len(q) : x < q[i]

\* They follow what waits there.
LEMMA QueuedFacts ==
  ASSUME NEW W, NEW O \in SUBSET Nat, NEW F, NEW C, NEW G, NEW t \in BOOLEAN,
         NEW n \in Nat, OneWrapper(W, O, F, C, G, t), Beyond(n, O)
  PROVE  Follows(Queued(W, n), O \cup {n}, F, C, G)
<1> DEFINE Q == W.queue
<1>1. Q \in Seq(Nat) /\ Len(Q) \in Nat /\ W.head \in Nat /\ n \in Nat
  BY LenProperties DEF OneWrapper, WrapperRecs
<1>2. /\ W.head # NoTask => Q = <<>> /\ F = {} /\ C = {} /\ G = {} /\ W.head \in O
      /\ F \cup C \cup G \subseteq O
      /\ \A i \in 1..Len(Q) : Q[i] \in O
      /\ \A i, j \in 1..Len(Q) : i < j => Q[i] < Q[j]
      /\ \A x \in F \cup C \cup G, i \in 1..Len(Q) : x < Q[i]
  BY DEF OneWrapper, Lined, Engaged, Unused
<1>3. CASE W.head = NoTask
  <2>1. Q \o <<>> = Q
    BY <1>1, ConcatEmptySeq
  <2>2. Queued(W, n) = Append(Q, n)
    BY <1>1, <1>3, <2>1, AppendIsConcat DEF Queued
  <2> HIDE DEF Q
  <2>3. /\ Append(Q, n) \in Seq(Nat) /\ Append(Q, n) # <<>> /\ Len(Append(Q, n)) = Len(Q) + 1
        /\ \A i \in 1..Len(Q) : Append(Q, n)[i] = Q[i]
        /\ Append(Q, n)[Len(Q) + 1] = n
    BY <1>1, AppendProperties
  <2>4. \A i \in 1..(Len(Q) + 1) : i \in 1..Len(Q) \/ i = Len(Q) + 1
    BY <1>1
  <2>5. \A i \in 1..Len(Q) : Q[i] \in Nat /\ Q[i] < n
    BY <1>2, Zenon DEF Beyond
  <2>6. \A x \in F \cup C \cup G : x < n
    BY <1>2, Zenon DEF Beyond
  <2> DEFINE A == Append(Q, n)
  <2> HIDE DEF A
  <2>7. \A i \in 1..(Len(Q) + 1) : A[i] \in O \cup {n}
    BY <1>2, <2>3, <2>4 DEF A
  <2>8. \A i, j \in 1..(Len(Q) + 1) : i < j => A[i] < A[j]
    BY <1>1, <1>2, <2>3, <2>4, <2>5 DEF A
  <2>9. \A x \in F \cup C \cup G, i \in 1..(Len(Q) + 1) : x < A[i]
    BY <1>2, <2>3, <2>4, <2>6 DEF A
  <2> QED
    BY <2>2, <2>3, <2>7, <2>8, <2>9 DEF A, Follows
<1>4. CASE W.head # NoTask
  <2>1. Q = <<>> /\ W.head \in O /\ W.head < n /\ F = {} /\ C = {} /\ G = {}
    BY <1>2, <1>4, Zenon DEF Beyond
  <2>2. <<>> \o <<W.head>> = <<W.head>>
    BY <1>1, ConcatEmptySeq
  <2> DEFINE P == <<W.head>> \o <<n>>
  <2>3. <<W.head>> \in Seq(Nat) /\ <<n>> \in Seq(Nat)
    BY <1>1
  <2>4. P \in Seq(Nat) /\ Len(P) = 2 /\ P[1] = W.head /\ P[2] = n
    BY <2>3, ConcatProperties
  <2>5. Queued(W, n) = P
    BY <1>4, <2>1, <2>2 DEF Queued
  <2> HIDE DEF P
  <2>6. P # <<>> /\ \A i \in 1..2 : i = 1 \/ i = 2
    BY <2>4
  <2>7. \A i \in 1..2 : P[i] \in O \cup {n}
    BY <2>1, <2>4, <2>6
  <2>8. \A i, j \in 1..2 : i < j => P[i] < P[j]
    BY <2>1, <2>4, <2>6
  <2> QED
    BY <2>1, <2>4, <2>5, <2>6, <2>7, <2>8, Zenon DEF Follows
<1> QED
  BY <1>3, <1>4

\* The members a push that queues a task may set first: the type, and an open
\* stream.
Prepared(W, U) ==
  /\ U \in WrapperRecs /\ U.inited /\ U.type # "UNZIP"
  /\ U.head = W.head /\ U.queue = W.queue /\ U.running = W.running
  /\ U.finished = W.finished /\ U.errored = W.errored /\ U.ended = W.ended
  /\ U.held = W.held
  /\ U.open \/ (W.inited /\ U.open = W.open)

\* A push to a wrapper that has a task under way.
LEMMA PushWaits ==
  ASSUME NEW W, NEW O \in SUBSET Nat, NEW F, NEW C, NEW G, NEW t \in BOOLEAN,
         OneWrapper(W, O, F, C, G, t), NEW n \in Nat, Beyond(n, O),
         W.held, NEW U, Prepared(W, U), W.running, NEW V,
         V = Waiting(U, Queued(W, n))
  PROVE  OneWrapper(V, O \cup {n}, F, C, G, t)
<1>0. Follows(Queued(W, n), O \cup {n}, F, C, G)
  BY QueuedFacts
<1>1. /\ Queued(W, n) \in Seq(Nat) /\ Queued(W, n) # <<>>
      /\ \A i \in 1..Len(Queued(W, n)) : Queued(W, n)[i] \in O \cup {n}
      /\ \A i, j \in 1..Len(Queued(W, n)) : i < j => Queued(W, n)[i] < Queued(W, n)[j]
      /\ \A x \in F \cup C \cup G, i \in 1..Len(Queued(W, n)) : x < Queued(W, n)[i]
  BY <1>0 DEF Follows
<1>2. /\ V \in WrapperRecs /\ V.head = NoTask /\ V.queue = Queued(W, n) /\ V.inited
      /\ V.running = W.running /\ V.ended = W.ended /\ V.finished = W.finished
      /\ V.errored = W.errored /\ V.held = W.held /\ V.type # "UNZIP"
      /\ V.open \/ (W.inited /\ V.open = W.open)
  BY <1>1, Zenon DEF Waiting, WrapperRecs, Prepared, NoTask
<1>3. Lined(V, O \cup {n}, F, C, G)
  BY <1>1, <1>2, Zenon DEF OneWrapper, Lined
<1>4. Engaged(V, F, C, G)
  BY <1>2 DEF OneWrapper, Engaged
<1>5. Ending(V, F, C, t)
  BY <1>2 DEF OneWrapper, Ending
<1> QED
  BY <1>2, <1>3, <1>4, <1>5 DEF OneWrapper

\* A push to a wrapper that has none hands the oldest task over.
LEMMA PushStarts ==
  ASSUME NEW W, NEW O \in SUBSET Nat, NEW F, NEW C, NEW G, NEW t \in BOOLEAN,
         OneWrapper(W, O, F, C, G, t), NEW n \in Nat, Beyond(n, O),
         W.held, NEW U, Prepared(W, U), ~W.running
  PROVE  /\ OneWrapper(Started(U, Queued(W, n)), O \cup {n}, F \cup {Head(Queued(W, n))}, C, G, t)
         /\ Head(Queued(W, n)) \in O \cup {n}
         /\ Beyond(Head(Queued(W, n)), F)
<1> DEFINE V == Started(U, Queued(W, n))
           Q == Queued(W, n)
           h == Head(Queued(W, n))
<1>0. Follows(Q, O \cup {n}, F, C, G)
  BY QueuedFacts
<1>1. /\ Q \in Seq(Nat) /\ Q # <<>>
      /\ \A i \in 1..Len(Q) : Q[i] \in O \cup {n}
      /\ \A i, j \in 1..Len(Q) : i < j => Q[i] < Q[j]
      /\ \A x \in F \cup C \cup G, i \in 1..Len(Q) : x < Q[i]
  BY <1>0 DEF Follows
<1>2. /\ Tail(Q) \in Seq(Nat) /\ Len(Tail(Q)) = Len(Q) - 1 /\ Len(Q) \in Nat \ {0}
      /\ \A i \in 1..(Len(Q) - 1) : Tail(Q)[i] = Q[i + 1]
      /\ h = Q[1]
  BY <1>1, PopFacts
<1> HIDE DEF Q, h
<1>3. /\ V \in WrapperRecs /\ V.head = NoTask /\ V.queue = Tail(Q) /\ V.inited
      /\ V.running /\ V.ended = W.ended /\ V.finished = W.finished
      /\ V.errored = W.errored /\ V.held = W.held /\ V.type # "UNZIP"
      /\ V.open \/ (W.inited /\ V.open = W.open)
  BY <1>2, Zenon DEF Started, WrapperRecs, Prepared, NoTask, Q
<1> HIDE DEF V
<1>4. /\ h \in O \cup {n} /\ \A x \in F \cup C \cup G : x < h
      /\ \A i \in 1..(Len(Q) - 1) : h < Tail(Q)[i] /\ Tail(Q)[i] \in O \cup {n}
      /\ \A x \in F \cup C \cup G, i \in 1..(Len(Q) - 1) : x < Tail(Q)[i]
  BY <1>1, <1>2
<1>5. \A i, j \in 1..(Len(Q) - 1) : i < j => Tail(Q)[i] < Tail(Q)[j]
  BY <1>1, <1>2
<1>6. Lined(V, O \cup {n}, F \cup {h}, C, G)
  <2>1. F \subseteq O /\ C \subseteq O /\ G \subseteq O /\ \A x \in C \cup G, y \in F : x < y
    BY DEF OneWrapper, Lined
  <2> QED
    BY <1>2, <1>3, <1>4, <1>5, <2>1, Zenon DEF Lined
<1>7. Engaged(V, F \cup {h}, C, G)
  <2>1. ~W.ended => F \cup C = {}
    BY DEF OneWrapper, Engaged
  <2> QED
    BY <1>3, <2>1 DEF Engaged
<1>8. Ending(V, F \cup {h}, C, t)
  BY <1>3 DEF OneWrapper, Ending
<1> QED
  BY <1>3, <1>4, <1>6, <1>7, <1>8 DEF OneWrapper, h, V, Beyond

\* A push whose initialisation throws.
LEMMA PushFails ==
  ASSUME NEW W, NEW O \in SUBSET Nat, NEW F, NEW C, NEW G, NEW t \in BOOLEAN,
         OneWrapper(W, O, F, C, G, t), NEW n \in Nat, ~W.inited, NEW V,
         V \in WrapperRecs, V.inited, V.type # "UNZIP", V.head = W.head,
         V.queue = W.queue, V.running = W.running, V.finished = W.finished,
         V.errored = W.errored, V.ended = W.ended, V.held = W.held
  PROVE  OneWrapper(V, O \cup {n}, F, C, G, TRUE)
<1>1. Lined(V, O \cup {n}, F, C, G)
  BY Zenon DEF OneWrapper, Lined
<1>2. Engaged(V, F, C, G)
  BY DEF OneWrapper, Engaged, Unused
<1>3. Ending(V, F, C, TRUE)
  BY DEF OneWrapper, Ending
<1> QED
  BY <1>1, <1>2, <1>3, Zenon DEF OneWrapper

\* The callback has returned, and nothing waits.
LEMMA CallbackRests ==
  ASSUME NEW W, NEW O \in SUBSET Nat, NEW F, NEW C, NEW G, NEW t \in BOOLEAN,
         OneWrapper(W, O, F, C, G, t), C # {}, W.queue = <<>>, NEW V,
         V = Rested(W)
  PROVE  OneWrapper(V, O, F, {}, G, t)
<1>1. W \in WrapperRecs /\ W.inited /\ W.head = NoTask
  BY DEF OneWrapper, Engaged, Unused, WrapperRecs
<1>2. /\ V \in WrapperRecs /\ V.head = NoTask /\ V.queue = <<>> /\ V.inited
      /\ ~V.running /\ V.ended = W.ended /\ V.finished = W.finished
      /\ V.errored = W.errored /\ V.held = W.held /\ V.type = W.type /\ V.open = W.open
  BY <1>1, Zenon DEF Rested, WrapperRecs
<1>3. Lined(V, O, F, {}, G)
  BY <1>2, Zenon DEF OneWrapper, Lined
<1>4. ~W.ended => F = {}
  <2> SUFFICES ASSUME ~W.ended, NEW y \in F PROVE FALSE
    OBVIOUS
  <2>1. PICK x \in C : TRUE
    OBVIOUS
  <2>2. x = y /\ x < y /\ x \in Nat
    BY DEF OneWrapper, Engaged, Lined
  <2> QED
    BY <2>2
<1>5. Engaged(V, F, {}, G)
  BY <1>1, <1>2, <1>4 DEF OneWrapper, Engaged, WrapperRecs
<1>6. Ending(V, F, {}, t)
  BY <1>1, <1>2 DEF OneWrapper, Ending, WrapperRecs
<1> QED
  BY <1>2, <1>3, <1>5, <1>6 DEF OneWrapper

\* ... and the next task is handed over.
LEMMA CallbackGoesOn ==
  ASSUME NEW W, NEW O \in SUBSET Nat, NEW F, NEW C, NEW G, NEW t \in BOOLEAN,
         OneWrapper(W, O, F, C, G, t), C # {}, W.queue # <<>>
  PROVE  /\ OneWrapper(GoneOn(W), O, F \cup {Head(W.queue)}, {}, G, t)
         /\ Head(W.queue) \in O
         /\ Beyond(Head(W.queue), F)
<1> DEFINE V == GoneOn(W)
           Q == W.queue
           h == Head(W.queue)
<1>1. W \in WrapperRecs /\ W.inited /\ W.head = NoTask /\ Q \in Seq(Nat)
  BY DEF OneWrapper, Engaged, Unused, WrapperRecs
<1>2. /\ Tail(Q) \in Seq(Nat) /\ Len(Tail(Q)) = Len(Q) - 1 /\ Len(Q) \in Nat \ {0}
      /\ \A i \in 1..(Len(Q) - 1) : Tail(Q)[i] = Q[i + 1]
      /\ h = Q[1]
  BY <1>1, PopFacts
<1>3. /\ F \subseteq O /\ G \subseteq O /\ \A x \in G, y \in F : x < y
      /\ \A i \in 1..Len(Q) : Q[i] \in O
      /\ \A i, j \in 1..Len(Q) : i < j => Q[i] < Q[j]
      /\ \A x \in F \cup G, i \in 1..Len(Q) : x < Q[i]
  BY DEF OneWrapper, Lined
<1>4. /\ V \in WrapperRecs /\ V.head = NoTask /\ V.queue = Tail(Q) /\ V.inited
      /\ V.running = W.running /\ V.ended = W.ended /\ V.finished = W.finished
      /\ V.errored = W.errored /\ V.held = W.held /\ V.type = W.type /\ V.open = W.open
  BY <1>1, <1>2, Zenon DEF GoneOn, WrapperRecs
<1> HIDE DEF Q, h, V
<1>5. /\ h \in O /\ \A x \in F \cup G : x < h
      /\ \A i \in 1..(Len(Q) - 1) : h < Tail(Q)[i] /\ Tail(Q)[i] \in O
      /\ \A x \in F \cup G, i \in 1..(Len(Q) - 1) : x < Tail(Q)[i]
  BY <1>2, <1>3
<1>6. \A i, j \in 1..(Len(Q) - 1) : i < j => Tail(Q)[i] < Tail(Q)[j]
  BY <1>2, <1>3
<1>7. Lined(V, O, F \cup {h}, {}, G)
  BY <1>2, <1>3, <1>4, <1>5, <1>6, Zenon DEF Lined
<1>8. ~W.ended => F = {} /\ W.running
  <2> SUFFICES ASSUME ~W.ended PROVE W.running /\ \A y \in F : FALSE
    OBVIOUS
  <2>1. PICK x \in C : TRUE
    OBVIOUS
  <2>2. W.running /\ x \in Nat /\ \A y \in F : x = y /\ x < y
    BY DEF OneWrapper, Engaged, Lined
  <2> QED
    BY <2>2
<1>9. Engaged(V, F \cup {h}, {}, G)
  BY <1>1, <1>4, <1>8 DEF OneWrapper, Engaged, WrapperRecs
<1>10. Ending(V, F \cup {h}, {}, t)
  BY <1>1, <1>4 DEF OneWrapper, Ending, WrapperRecs
<1> QED
  BY <1>4, <1>5, <1>7, <1>9, <1>10 DEF OneWrapper, h, V, Beyond

\* The members after a round of the macro task queue on a task of the wrapper:
\* as before, or of a stream that has ended.
Worked(W, V) == V = W \/ V = Finished(W) \/ V = Errored(W)

\* k was pushed before the others in F.
Before(k, F) == \A x \in F \ {k} : k < x

\* Such a round takes the oldest task of the wrapper.
LEMMA TaskTaken ==
  ASSUME NEW W, NEW O \in SUBSET Nat, NEW F, NEW G, NEW t \in BOOLEAN,
         OneWrapper(W, O, F, {}, G, t), NEW k \in F, Before(k, F),
         NEW V, Worked(W, V), NEW H, H = G \/ H = G \cup {k}
  PROVE  OneWrapper(V, O, F \ {k}, {k}, H, t)
<1>1. W \in WrapperRecs /\ W.inited /\ W.head = NoTask
  BY DEF OneWrapper, Engaged, Unused, WrapperRecs
<1>2. /\ V \in WrapperRecs /\ V.head = NoTask /\ V.queue = W.queue /\ V.inited
      /\ V.held = W.held /\ V.type = W.type
  BY <1>1, Zenon DEF WrapperRecs, Worked, Finished, Errored
<1>3. \/ V = W
      \/ V.ended /\ (V.finished \/ V.errored)
  BY <1>1, Zenon DEF WrapperRecs, Worked, Finished, Errored
<1>4. Lined(V, O, F \ {k}, {k}, H)
  BY <1>2 DEF OneWrapper, Lined, Before
<1>5. Engaged(V, F \ {k}, {k}, H)
  BY <1>1, <1>2, <1>3 DEF OneWrapper, Engaged
<1>6. Ending(V, F \ {k}, {k}, t)
  BY <1>2, <1>3 DEF OneWrapper, Ending
<1> QED
  BY <1>2, <1>4, <1>5, <1>6 DEF OneWrapper

\* JavaScript forgets the wrapper.
LEMMA WrapperDropped ==
  ASSUME NEW W, NEW O \in SUBSET Nat, NEW F, NEW C, NEW G, NEW t \in BOOLEAN,
         OneWrapper(W, O, F, C, G, t), NEW V, V = Forgotten(W)
  PROVE  OneWrapper(V, O, F, C, G, t)
<1>1. W \in WrapperRecs
  BY DEF OneWrapper
<1>2. /\ V \in WrapperRecs /\ V.head = W.head /\ V.queue = W.queue /\ V.inited = W.inited
      /\ V.running = W.running /\ V.ended = W.ended /\ V.finished = W.finished
      /\ V.errored = W.errored /\ ~V.held /\ V.type = W.type /\ V.open = W.open
  BY <1>1, Zenon DEF Forgotten, WrapperRecs
<1>3. Lined(V, O, F, C, G)
  BY <1>2 DEF OneWrapper, Lined
<1>4. Engaged(V, F, C, G)
  BY <1>2 DEF OneWrapper, Engaged, Unused
<1>5. Ending(V, F, C, t)
  BY <1>2 DEF OneWrapper, Ending
<1> QED
  BY <1>2, <1>3, <1>4, <1>5 DEF OneWrapper

\* The collector takes a wrapper that nothing holds.
LEMMA WrapperCollected ==
  ASSUME NEW W, NEW O \in SUBSET Nat, NEW G, NEW t \in BOOLEAN,
         OneWrapper(W, O, {}, {}, G, t), ~W.held, W.queue = <<>>, NEW V,
         V = Taken(W)
  PROVE  OneWrapper(V, O, {}, {}, G, t)
<1>1. W \in WrapperRecs
  BY DEF OneWrapper
<1>2. /\ V \in WrapperRecs /\ V.head = W.head /\ V.queue = W.queue /\ V.inited = W.inited
      /\ V.running = W.running /\ V.ended /\ V.finished = W.finished
      /\ V.errored = W.errored /\ V.held = W.held /\ V.type = W.type
  BY <1>1, Zenon DEF Taken, WrapperRecs
<1>3. Lined(V, O, {}, {}, G)
  BY <1>2 DEF OneWrapper, Lined
<1>4. Engaged(V, {}, {}, G)
  BY <1>2 DEF OneWrapper, Engaged, Unused
<1>5. Ending(V, {}, {}, t)
  BY <1>2 DEF OneWrapper, Ending
<1> QED
  BY <1>2, <1>3, <1>4, <1>5 DEF OneWrapper

-----------------------------------------------------------------------------
(* Sequences of pushes, T being the tasks *)

\* Those in s that were made to v.
Of(s, T, v) == {k \in Range(s) : T[k].w = v}

\* Those of each wrapper are in the order they were made.
Sorted(s, T) == \A i, j \in 1..Len(s) : i < j /\ T[s[i]].w = T[s[j]].w => s[i] < s[j]

\* ... and so none is there twice.
LEMMA SortedOnce ==
  ASSUME NEW s \in Seq(Nat), NEW T, Sorted(s, T)
  PROVE  IsInjective(s)
<1>1. DOMAIN s = 1..Len(s) /\ Len(s) \in Nat /\ \A i \in 1..Len(s) : s[i] \in Nat
  BY LenProperties, ElementOfSeq
<1> SUFFICES ASSUME NEW i \in 1..Len(s), NEW j \in 1..Len(s), s[i] = s[j] PROVE i = j
  BY <1>1 DEF IsInjective
<1>2. i \in Nat /\ j \in Nat /\ s[i] \in Nat /\ ~(s[i] < s[j]) /\ ~(s[j] < s[i])
  BY <1>1
<1>3. ~(i < j) /\ ~(j < i)
  BY <1>2 DEF Sorted
<1> QED
  BY <1>2, <1>3

\* One more.
LEMMA SortedMore ==
  ASSUME NEW s \in Seq(Nat), NEW T, Sorted(s, T), NEW h \in Nat,
         \A x \in Of(s, T, T[h].w) : x < h
  PROVE  /\ Append(s, h) \in Seq(Nat) /\ Sorted(Append(s, h), T)
         /\ Range(Append(s, h)) = Range(s) \cup {h}
<1>1. DOMAIN s = 1..Len(s) /\ Len(s) \in Nat /\ \A i \in 1..Len(s) : s[i] \in Range(s)
  BY LenProperties DEF Range
<1>2. /\ Append(s, h) \in Seq(Nat) /\ Len(Append(s, h)) = Len(s) + 1
      /\ \A i \in 1..Len(s) : Append(s, h)[i] = s[i]
      /\ Append(s, h)[Len(s) + 1] = h
  BY AppendProperties
<1>3. \A i \in 1..Len(s) : T[s[i]].w = T[h].w => s[i] < h
  BY <1>1 DEF Of
<1>4. \A i, j \in 1..Len(s) : i < j /\ T[s[i]].w = T[s[j]].w => s[i] < s[j]
  BY DEF Sorted
<1> DEFINE A == Append(s, h)
<1>5. SUFFICES ASSUME NEW i \in 1..(Len(s) + 1), NEW j \in 1..(Len(s) + 1), i < j,
                      T[A[i]].w = T[A[j]].w
               PROVE  A[i] < A[j]
  BY <1>2, AppendHolds DEF Sorted
<1>6. i \in 1..Len(s) /\ (j \in 1..Len(s) \/ j = Len(s) + 1)
  BY <1>1, <1>5
<1> QED
  BY <1>2, <1>3, <1>4, <1>5, <1>6

\* One less.
LEMMA SortedLess ==
  ASSUME NEW s \in Seq(Nat), NEW T, Sorted(s, T), s # <<>>
  PROVE  /\ Tail(s) \in Seq(Nat) /\ Sorted(Tail(s), T) /\ Head(s) \in Range(s)
         /\ Range(Tail(s)) = Range(s) \ {Head(s)}
         /\ \A x \in Of(s, T, T[Head(s)].w) \ {Head(s)} : Head(s) < x
<1>1. /\ Tail(s) \in Seq(Nat) /\ Len(Tail(s)) = Len(s) - 1 /\ Len(s) \in Nat \ {0}
      /\ \A i \in 1..(Len(s) - 1) : Tail(s)[i] = s[i + 1]
      /\ \A i \in 2..Len(s) : Tail(s)[i - 1] = s[i]
      /\ Head(s) = s[1] /\ DOMAIN s = 1..Len(s)
  BY PopFacts, LenProperties
<1>2. /\ Range(s) = Range(Tail(s)) \cup {Head(s)} /\ Head(s) \notin Range(Tail(s))
  BY SortedOnce, TailHolds
<1>3. Sorted(Tail(s), T)
  <2> SUFFICES ASSUME NEW i \in 1..(Len(s) - 1), NEW j \in 1..(Len(s) - 1), i < j,
                      T[Tail(s)[i]].w = T[Tail(s)[j]].w
               PROVE  Tail(s)[i] < Tail(s)[j]
    BY <1>1 DEF Sorted
  <2>1. /\ i + 1 \in 1..Len(s) /\ j + 1 \in 1..Len(s) /\ i + 1 < j + 1
        /\ Tail(s)[i] = s[i + 1] /\ Tail(s)[j] = s[j + 1]
    BY <1>1
  <2> QED
    BY <2>1 DEF Sorted
<1>4. ASSUME NEW x \in Of(s, T, T[Head(s)].w), x # Head(s) PROVE Head(s) < x
  <2>1. PICK i \in 1..Len(s) : s[i] = x
    BY <1>1, <1>4 DEF Of, Range
  <2>2. 1 \in 1..Len(s) /\ 1 < i /\ T[s[1]].w = T[s[i]].w
    BY <1>1, <1>4, <2>1 DEF Of
  <2> QED
    BY <1>1, <2>1, <2>2 DEF Sorted
<1> QED
  BY <1>1, <1>2, <1>3, <1>4

\* Whose they are when one more is there, or one less.
LEMMA OfMore ==
  ASSUME NEW s \in Seq(Nat), NEW T, NEW h \in Nat, NEW v
  PROVE  Of(Append(s, h), T, v) =
           IF T[h].w = v THEN Of(s, T, v) \cup {h} ELSE Of(s, T, v)
<1>1. Range(Append(s, h)) = Range(s) \cup {h}
  BY AppendHolds
<1> QED
  BY <1>1 DEF Of

\* And when the first one is gone.
LEMMA OfLess ==
  ASSUME NEW s \in Seq(Nat), NEW T, NEW v, s # <<>>, Sorted(s, T)
  PROVE  Of(Tail(s), T, v) =
           IF T[Head(s)].w = v THEN Of(s, T, v) \ {Head(s)} ELSE Of(s, T, v)
<1>1. Range(Tail(s)) = Range(s) \ {Head(s)}
  BY SortedLess
<1> QED
  BY <1>1 DEF Of

-----------------------------------------------------------------------------
(* The inductive invariant *)

Own(v) == {k \in 1..Len(task) : task[k].w = v}
Cur(v) == {k \in {tick.cur} \ {NoTask} : Owner(k) = v}
Thrown == \E k \in DOMAIN outcome : outcome[k] = "thrown"

Tasks == [w : Wrappers, flush : Flush, chunks : Nat]
Outcomes == {"queued", "ok", "error", "thrown"}

ZTypes ==
  /\ task \in Seq(Tasks) /\ outcome \in Seq(Outcomes) /\ Len(outcome) = Len(task)
  /\ macro \in Seq(Nat) /\ Range(macro) \subseteq 1..Len(task)
  /\ log \in Seq(Nat) /\ Range(log) \subseteq 1..Len(task)
  /\ tick \in [stage : {"none", "loop", "callback"}, processed : Nat, cur : 0..Len(task)]
  /\ tick.stage = "callback" <=> tick.cur # NoTask
  /\ wrapper \in [Wrappers -> WrapperRecs]
  /\ \A w \in Zips : wrapper[w].type = "ZIP"

EachWrapper ==
  \A v \in Wrappers :
    OneWrapper(wrapper[v], Own(v), Of(macro, task, v), Cur(v), Of(log, task, v), Thrown)

ZInv == /\ ZTypes /\ EachWrapper
        /\ Sorted(macro, task) /\ Sorted(log, task)
        /\ EndedOnce

\* It implies what the streams promise.
LEMMA ZInvStreams == ZInv => StreamsKept
<1> SUFFICES ASSUME ZInv PROVE StreamsKept
  OBVIOUS
<1>1. AnsweredInOrder
  BY DEF ZInv, Sorted, AnsweredInOrder, Owner
<1>2. ASSUME NEW w \in Wrappers, ~wrapper[w].ended
      PROVE  /\ \A j, k \in InFlight(w) : j = k
             /\ wrapper[w].queue # <<>> => InFlight(w) # {}
             /\ wrapper[w].inited => wrapper[w].type # "UNZIP"
  <2>1. InFlight(w) = Of(macro, task, w) \cup Cur(w)
    BY DEF InFlight, Of, Cur, Owner, Range
  <2>2. /\ wrapper[w].running <=> InFlight(w) # {}
        /\ \A x, y \in InFlight(w) : x = y
        /\ wrapper[w].queue # <<>> => wrapper[w].running
        /\ wrapper[w].inited => wrapper[w].type # "UNZIP"
    BY <1>2, <2>1 DEF ZInv, EachWrapper, OneWrapper, Engaged
  <2> QED
    BY <2>2, Zenon
<1>3. StreamExclusive
  BY <1>2 DEF StreamExclusive
<1> QED
  BY <1>1, <1>3 DEF ZInv, StreamsKept

\* The invariant holds before the first push.
LEMMA InitZInv == ZlibInit => ZInv
<1> SUFFICES ASSUME ZlibInit PROVE ZInv
  OBVIOUS
<1>1. /\ task = <<>> /\ outcome = <<>> /\ macro = <<>> /\ log = <<>> /\ aborted = FALSE
      /\ tick = [stage |-> "none", processed |-> 0, cur |-> 0]
  BY DEF ZlibInit, NoTurn, NoTask
<1>2. Range(macro) = {} /\ Range(log) = {}
  BY <1>1 DEF Range
<1>3. \A w \in Wrappers :
        /\ wrapper[w] \in WrapperRecs /\ wrapper[w].queue = <<>> /\ wrapper[w].head = NoTask
        /\ ~wrapper[w].inited /\ ~wrapper[w].running /\ ~wrapper[w].ended
        /\ w \notin Unzips => wrapper[w].type = "ZIP"
  BY DEF ZlibInit, NewWrapper, WrapperRecs, NoTask
<1>4. ZTypes
  <2>1. wrapper \in [Wrappers -> WrapperRecs]
    BY <1>3 DEF ZlibInit
  <2>2. \A w \in Zips : wrapper[w].type = "ZIP"
    BY <1>3, WrappersApart DEF Wrappers
  <2> QED
    BY <1>1, <1>2, <2>1, <2>2 DEF ZTypes, NoTask
<1>5. \A v \in Wrappers : Of(macro, task, v) = {} /\ Of(log, task, v) = {} /\ Cur(v) = {}
  BY <1>1, <1>2 DEF Of, Cur, NoTask
<1>6. EachWrapper
  <2> SUFFICES ASSUME NEW v \in Wrappers
               PROVE  OneWrapper(wrapper[v], Own(v), {}, {}, {}, Thrown)
    BY <1>5 DEF EachWrapper
  <2> QED
    BY <1>3 DEF OneWrapper, Lined, Engaged, Ending, Unused
<1>7. Sorted(macro, task) /\ Sorted(log, task)
  BY <1>1 DEF Sorted
<1> QED
  BY <1>1, <1>4, <1>6, <1>7 DEF ZInv, EndedOnce

\* The pushes of the invariant, as numbers.
LEMMA Numbers ==
  ASSUME ZTypes
  PROVE  /\ Len(task) \in Nat /\ \A k \in 1..Len(task) : task[k] \in Tasks
         /\ \A v \in Wrappers : /\ Own(v) \in SUBSET Nat
                                 /\ \A x \in Own(v) : x < Len(task) + 1
         /\ Thrown \in BOOLEAN
         /\ DOMAIN outcome = 1..Len(task) /\ DOMAIN task = 1..Len(task)
<1>1. Len(task) \in Nat /\ \A k \in 1..Len(task) : task[k] \in Tasks
  BY LenProperties, ElementOfSeq DEF ZTypes
<1>2. DOMAIN outcome = 1..Len(task) /\ DOMAIN task = 1..Len(task)
  BY LenProperties DEF ZTypes
<1> QED
  BY <1>1, <1>2 DEF Own, Thrown

\* What a push hands to the macro task queue, and which tasks of its wrapper
\* are then there.
HandedOver(w, F) ==
  \/ macro' = macro /\ F = Of(macro, task, w)
  \/ \E h \in Own(w) \cup {Len(task) + 1} :
       /\ macro' = Append(macro, h) /\ F = Of(macro, task, w) \cup {h}
       /\ Beyond(h, Of(macro, task, w))

\* A push, by what it does to its wrapper and hands over.
LEMMA PushKeeps ==
  ASSUME ZInv, NEW w \in Wrappers, NEW f \in Flush, NEW o \in Outcomes, NewPush(w, f, o),
         UNCHANGED <<log, tick, aborted>>,
         NEW V, wrapper' = [wrapper EXCEPT ![w] = V], w \in Zips => V.type = "ZIP",
         NEW F, HandedOver(w, F),
         OneWrapper(V, Own(w) \cup {Len(task) + 1}, F, Cur(w), Of(log, task, w),
                    Thrown \/ o = "thrown")
  PROVE  ZInv'
<1> DEFINE n == Len(task) + 1
           r == [w |-> w, flush |-> f, chunks |-> 0]
<1>1. /\ ZTypes /\ EachWrapper /\ Sorted(macro, task) /\ Sorted(log, task) /\ ~aborted
      /\ task' = Append(task, r) /\ outcome' = Append(outcome, o) /\ log' = log
      /\ tick' = tick /\ aborted' = aborted
  BY DEF ZInv, NewPush, JsRuns
<1>2. /\ Len(task) \in Nat /\ DOMAIN outcome = 1..Len(task)
      /\ \A v \in Wrappers : Own(v) \in SUBSET Nat
      /\ \A k \in 1..Len(task) : task[k] \in Tasks
  BY <1>1, Numbers
<1>3. r \in Tasks /\ r.w = w
  BY DEF Tasks
<1> HIDE DEF r
<1>4. /\ task' \in Seq(Tasks) /\ Len(task') = n /\ task'[n].w = w
      /\ \A k \in 1..Len(task) : task'[k] = task[k]
  BY <1>1, <1>3, AppendProperties DEF ZTypes
<1>5. /\ outcome' \in Seq(Outcomes) /\ Len(outcome') = n /\ outcome'[n] = o
      /\ \A k \in 1..Len(task) : outcome'[k] = outcome[k]
      /\ DOMAIN outcome' = 1..n
  BY <1>1, <1>2, AppendProperties, LenProperties DEF ZTypes
<1>6. \A k \in 1..n : k \in 1..Len(task) \/ k = n
  BY <1>2
<1>7. n \in Nat /\ 1..Len(task) \subseteq 1..n /\ n \in 1..n /\ n \notin 1..Len(task)
  BY <1>2
<1> HIDE DEF n
<1>8. Own(w)' = Own(w) \cup {n} /\ \A v \in Wrappers \ {w} : Own(v)' = Own(v)
  BY <1>4, <1>6, <1>7 DEF Own
<1>9. Thrown' <=> Thrown \/ o = "thrown"
  BY <1>2, <1>5, <1>6, <1>7 DEF Thrown
<1>10. \A k \in 1..Len(task) : task'[k].w = task[k].w
  BY <1>4
<1>11. \A v : Cur(v)' = Cur(v)
  <2>1. \A k \in {tick.cur} \ {NoTask} : k \in 1..Len(task)
    BY <1>1, <1>2 DEF ZTypes, NoTask
  <2> QED
    BY <1>1, <1>10, <2>1 DEF Cur, Owner
<1>12. /\ \A v : Of(log, task, v)' = Of(log, task, v)
       /\ \A v : Of(macro, task', v) = Of(macro, task, v)
  BY <1>1, <1>10 DEF ZTypes, Of
<1>13. Sorted(log, task)' /\ Sorted(macro, task')
  <2>1. /\ \A i \in 1..Len(log) : task'[log[i]].w = task[log[i]].w
        /\ \A i \in 1..Len(macro) : task'[macro[i]].w = task[macro[i]].w
    <3>1. DOMAIN log = 1..Len(log) /\ DOMAIN macro = 1..Len(macro)
      BY <1>1, LenProperties DEF ZTypes
    <3> QED
      BY <1>1, <1>10, <3>1, Zenon DEF ZTypes, Range
  <2> QED
    BY <1>1, <2>1, Zenon DEF Sorted
<1> DEFINE Joined ==
             /\ macro' \in Seq(Nat) /\ Range(macro') \subseteq 1..n /\ Sorted(macro', task')
             /\ Of(macro', task', w) = F
             /\ \A v \in Wrappers \ {w} : Of(macro', task', v) = Of(macro, task, v)
<1>14. Joined
  <2>1. CASE macro' = macro /\ F = Of(macro, task, w)
    BY <1>1, <1>7, <1>12, <1>13, <2>1 DEF ZTypes
  <2>2. ASSUME NEW h \in Own(w) \cup {n}, macro' = Append(macro, h),
               F = Of(macro, task, w) \cup {h}, Beyond(h, Of(macro, task, w))
        PROVE  Joined
    <3>1. h \in 1..n /\ task'[h].w = w /\ h \in Nat
      BY <1>2, <1>4, <1>7 DEF Own
    <3>2. macro \in Seq(Nat) /\ \A x \in Of(macro, task', task'[h].w) : x < h
      BY <1>1, <1>12, <2>2, <3>1 DEF ZTypes, Beyond
    <3>3. /\ macro' \in Seq(Nat) /\ Sorted(macro', task') /\ Range(macro') = Range(macro) \cup {h}
      BY <1>13, <2>2, <3>1, <3>2, SortedMore
    <3>4. /\ Of(macro', task', w) = F
          /\ \A v \in Wrappers \ {w} : Of(macro', task', v) = Of(macro, task, v)
      <4>1. \A v : Of(macro', task', v) =
                    IF task'[h].w = v THEN Of(macro, task', v) \cup {h} ELSE Of(macro, task', v)
        BY <2>2, <3>1, <3>2, OfMore
      <4> QED
        BY <1>12, <2>2, <3>1, <4>1
    <3> QED
      BY <1>1, <1>7, <3>1, <3>3, <3>4 DEF ZTypes
  <2> QED
    BY <2>1, <2>2 DEF n, HandedOver
<1>15. V \in WrapperRecs
  BY DEF OneWrapper
<1>16. /\ wrapper' \in [Wrappers -> WrapperRecs] /\ wrapper'[w] = V
       /\ \A v \in Wrappers \ {w} : wrapper'[v] = wrapper[v]
  BY <1>1, <1>15 DEF ZTypes
<1>17. ZTypes'
  <2>1. \A v \in Zips : wrapper'[v].type = "ZIP"
    BY <1>1, <1>16 DEF ZTypes, Wrappers
  <2>2. tick' \in [stage : {"none", "loop", "callback"}, processed : Nat, cur : 0..n]
    BY <1>1, <1>2 DEF ZTypes, n
  <2> QED
    BY <1>1, <1>4, <1>5, <1>7, <1>14, <1>16, <2>1, <2>2 DEF ZTypes
<1>18. EachWrapper'
  <2> SUFFICES ASSUME NEW v \in Wrappers
               PROVE  OneWrapper(wrapper'[v], Own(v)', Of(macro', task', v), Cur(v)',
                                 Of(log', task', v), Thrown')
    BY DEF EachWrapper
  <2>1. CASE v = w
    <3>1. OneWrapper(V, Own(w) \cup {n}, F, Cur(w), Of(log, task, w), Thrown')
      BY <1>9, Zenon DEF n
    <3> QED
      BY <1>8, <1>11, <1>12, <1>14, <1>16, <2>1, <3>1, Zenon
  <2>2. CASE v # w
    <3>1. OneWrapper(wrapper[v], Own(v), Of(macro, task, v), Cur(v), Of(log, task, v), Thrown)
      BY <1>1 DEF EachWrapper
    <3>2. OneWrapper(wrapper[v], Own(v), Of(macro, task, v), Cur(v), Of(log, task, v), Thrown')
      BY <1>9, <3>1 DEF OneWrapper, Ending
    <3> QED
      BY <1>8, <1>11, <1>12, <1>14, <1>16, <2>2, <3>2
  <2> QED
    BY <2>1, <2>2
<1> QED
  BY <1>1, <1>13, <1>14, <1>17, <1>18 DEF ZInv, EndedOnce

\* A push with nothing to do.
LEMMA EmptyInv ==
  ASSUME ZInv, NEW w \in Wrappers, NEW f \in Flush, PushEmpty(w, f)
  PROVE  ZInv'
<1>1. /\ OneWrapper(wrapper[w], Own(w), Of(macro, task, w), Cur(w), Of(log, task, w), Thrown)
      /\ Own(w) \in SUBSET Nat /\ Len(task) + 1 \in Nat /\ Thrown \in BOOLEAN
      /\ wrapper \in [Wrappers -> WrapperRecs] /\ (w \in Zips => wrapper[w].type = "ZIP")
  BY Numbers DEF ZInv, EachWrapper, ZTypes
<1>2. OneWrapper(wrapper[w], Own(w) \cup {Len(task) + 1}, Of(macro, task, w), Cur(w),
                 Of(log, task, w), Thrown \/ "ok" = "thrown")
  BY <1>1, PushAside
<1>3. /\ NewPush(w, f, "ok") /\ UNCHANGED <<log, tick, aborted>> /\ "ok" \in Outcomes
      /\ wrapper' = [wrapper EXCEPT ![w] = wrapper[w]]
      /\ HandedOver(w, Of(macro, task, w))
  BY <1>1 DEF PushEmpty, HandedOver, Outcomes
<1> QED
  BY <1>1, <1>2, <1>3, PushKeeps, Zenon

\* A push of the first byte alone.
LEMMA HeadInv ==
  ASSUME ZInv, NEW w \in Unzips, NEW f \in Flush, PushHead(w, f)
  PROVE  ZInv'
<1> DEFINE n == Len(task) + 1
           V == KeptHead(wrapper[w], n)
<1>1. /\ OneWrapper(wrapper[w], Own(w), Of(macro, task, w), Cur(w), Of(log, task, w), Thrown)
      /\ Own(w) \in SUBSET Nat /\ n \in Nat /\ n # NoTask /\ Thrown \in BOOLEAN
      /\ wrapper \in [Wrappers -> WrapperRecs] /\ w \in Wrappers /\ w \notin Zips
  BY Numbers, WrappersApart DEF ZInv, EachWrapper, ZTypes, Wrappers, NoTask
<1>0. wrapper[w].type = "UNZIP"
  BY DEF PushHead
<1>5. wrapper' = [wrapper EXCEPT ![w] = V]
  BY <1>1, Zenon DEF PushHead, KeptHead
<1> HIDE DEF n
<1>2. OneWrapper(V, Own(w) \cup {n}, Of(macro, task, w), Cur(w), Of(log, task, w), Thrown)
  BY <1>0, <1>1, PushKept
<1>3. OneWrapper(V, Own(w) \cup {n}, Of(macro, task, w), Cur(w), Of(log, task, w),
                 Thrown \/ "ok" = "thrown")
  BY <1>1, <1>2
<1>4. /\ NewPush(w, f, "ok") /\ UNCHANGED <<log, tick, aborted>> /\ "ok" \in Outcomes
      /\ HandedOver(w, Of(macro, task, w))
  BY DEF PushHead, HandedOver, Outcomes
<1> QED
  BY <1>1, <1>3, <1>4, <1>5, PushKeeps, Zenon DEF n

\* A push whose initialisation throws, u being the wrapper it leaves.
LEMMA ThrowsInv ==
  ASSUME ZInv, NEW w \in Wrappers, NEW f \in Flush, NEW u, PushThrows(w, f, u),
         ~wrapper[w].inited, u \in WrapperRecs, u.inited, u.type # "UNZIP",
         w \in Zips => u.type = "ZIP", u.head = wrapper[w].head,
         u.queue = wrapper[w].queue, u.running = wrapper[w].running,
         u.finished = wrapper[w].finished, u.errored = wrapper[w].errored,
         u.ended = wrapper[w].ended, u.held = wrapper[w].held
  PROVE  ZInv'
<1>1. /\ OneWrapper(wrapper[w], Own(w), Of(macro, task, w), Cur(w), Of(log, task, w), Thrown)
      /\ Own(w) \in SUBSET Nat /\ Len(task) + 1 \in Nat /\ Thrown \in BOOLEAN
  BY Numbers DEF ZInv, EachWrapper, ZTypes
<1>2. OneWrapper(u, Own(w) \cup {Len(task) + 1}, Of(macro, task, w), Cur(w),
                 Of(log, task, w), TRUE)
  BY <1>1, PushFails, Zenon
<1>3. OneWrapper(u, Own(w) \cup {Len(task) + 1}, Of(macro, task, w), Cur(w),
                 Of(log, task, w), Thrown \/ "thrown" = "thrown")
  BY <1>2, Zenon
<1>4. /\ NewPush(w, f, "thrown") /\ UNCHANGED <<log, tick, aborted>> /\ "thrown" \in Outcomes
      /\ wrapper' = [wrapper EXCEPT ![w] = u]
      /\ HandedOver(w, Of(macro, task, w))
  BY DEF PushThrows, HandedOver, Outcomes
<1> QED
  BY <1>3, <1>4, PushKeeps, Zenon

\* A push that queues its task, u being the wrapper it queues it in.
LEMMA QueueInv ==
  ASSUME ZInv, NEW w \in Wrappers, NEW f \in Flush, NEW u, QueueTask(w, f, u),
         Prepared(wrapper[w], u), w \in Zips => u.type = "ZIP"
  PROVE  ZInv'
<1> DEFINE n == Len(task) + 1
           W == wrapper[w]
           q == Queued(W, n)
           V == Waiting(u, q)
           X == Started(u, q)
<1>1. /\ OneWrapper(W, Own(w), Of(macro, task, w), Cur(w), Of(log, task, w), Thrown)
      /\ Own(w) \in SUBSET Nat /\ n \in Nat /\ Thrown \in BOOLEAN
      /\ Beyond(n, Own(w))
  BY Numbers DEF ZInv, EachWrapper, ZTypes, Beyond
<1>2. u.queue \o (IF u.head = NoTask THEN <<>> ELSE <<u.head>>) \o <<n>> = q
  BY DEF Prepared, Queued
<1>3. /\ NewPush(w, f, "queued") /\ UNCHANGED <<log, tick, aborted>> /\ "queued" \in Outcomes
      /\ W.held /\ u.running = W.running
  BY DEF QueueTask, Outcomes, NewPush, Prepared
<1>4. /\ u.running => wrapper' = [wrapper EXCEPT ![w] = V] /\ macro' = macro
      /\ ~u.running => wrapper' = [wrapper EXCEPT ![w] = X] /\ macro' = Append(macro, Head(q))
  BY <1>2, Zenon DEF QueueTask, Enqueue, Waiting, Started
<1>5. V.type = u.type /\ X.type = u.type
  BY DEF Prepared, WrapperRecs, Waiting, Started
<1>6. CASE W.running
  <2>3. HandedOver(w, Of(macro, task, w)) /\ wrapper' = [wrapper EXCEPT ![w] = V]
    BY <1>3, <1>4, <1>6 DEF HandedOver
  <2> HIDE DEF n, W
  <2>1. OneWrapper(V, Own(w) \cup {n}, Of(macro, task, w), Cur(w), Of(log, task, w), Thrown)
    BY <1>1, <1>3, <1>6, PushWaits DEF W
  <2>2. OneWrapper(V, Own(w) \cup {n}, Of(macro, task, w), Cur(w), Of(log, task, w),
                   Thrown \/ "queued" = "thrown")
    BY <1>1, <2>1
  <2> QED
    BY <1>3, <1>5, <2>2, <2>3, PushKeeps, Zenon DEF n
<1>7. CASE ~W.running
  <2> DEFINE h == Head(q)
             F == Of(macro, task, w) \cup {h}
  <2>1. macro' = Append(macro, h) /\ wrapper' = [wrapper EXCEPT ![w] = X]
    BY <1>3, <1>4, <1>7
  <2> HIDE DEF n, W
  <2>3. /\ OneWrapper(X, Own(w) \cup {n}, F, Cur(w), Of(log, task, w), Thrown)
        /\ h \in Own(w) \cup {n} /\ Beyond(h, Of(macro, task, w))
    BY <1>1, <1>3, <1>7, PushStarts DEF W
  <2>4. OneWrapper(X, Own(w) \cup {n}, F, Cur(w), Of(log, task, w), Thrown \/ "queued" = "thrown")
    BY <1>1, <2>3
  <2>5. HandedOver(w, F)
    BY <2>1, <2>3 DEF HandedOver, n
  <2> HIDE DEF F
  <2> QED
    BY <1>3, <1>5, <2>1, <2>4, <2>5, PushKeeps, Zenon DEF n
<1> QED
  BY <1>6, <1>7

\* A push to a compressor.
LEMMA ZipPushInv ==
  ASSUME ZInv, NEW w \in Zips, NEW f \in Flush, NEW d, ZipPush(w, d, f)
  PROVE  ZInv'
<1> DEFINE W == wrapper[w]
           U == IF W.inited THEN W ELSE ZipInit(W, TRUE)
           X == ZipInit(W, FALSE)
<1>1. w \in Wrappers /\ W \in WrapperRecs /\ W.type = "ZIP"
  BY DEF ZInv, ZTypes, Wrappers
<1>2. Prepared(W, U) /\ U.type = "ZIP"
  <2>1. CASE W.inited
    BY <1>1, <2>1 DEF Prepared
  <2>2. CASE ~W.inited
    BY <1>1, <2>2, Zenon DEF Prepared, ZipInit, WrapperRecs
  <2> QED
    BY <2>1, <2>2, Zenon
<1>3. /\ X \in WrapperRecs /\ X.inited /\ X.type = "ZIP" /\ X.head = W.head
      /\ X.queue = W.queue /\ X.running = W.running /\ X.finished = W.finished
      /\ X.errored = W.errored /\ X.ended = W.ended /\ X.held = W.held
  BY <1>1, Zenon DEF ZipInit, WrapperRecs
<1>4. PushEmpty(w, f) \/ QueueTask(w, f, U) \/ (~W.inited /\ PushThrows(w, f, X))
  BY Zenon DEF ZipPush
<1> HIDE DEF U, X
<1>5. CASE PushEmpty(w, f)
  BY <1>1, <1>5, EmptyInv
<1>6. CASE QueueTask(w, f, U)
  BY <1>1, <1>2, <1>6, QueueInv
<1>7. CASE ~W.inited /\ PushThrows(w, f, X)
  <2>1. X.type # "UNZIP"
    BY <1>3
  <2> QED
    BY <1>1, <1>3, <1>7, <2>1, ThrowsInv
<1> QED
  BY <1>4, <1>5, <1>6, <1>7

\* A push to a decompressor.
LEMMA UnzipPushInv ==
  ASSUME ZInv, NEW w \in Unzips, NEW f \in Flush, NEW d, UnzipPush(w, d, f)
  PROVE  ZInv'
<1> DEFINE W == wrapper[w]
           S == Sniff(w, d)
           U == IF S.inited THEN S ELSE UnzipInit(S, TRUE)
           X == UnzipInit(S, FALSE)
<1>1. w \in Wrappers /\ w \notin Zips /\ W \in WrapperRecs
  BY WrappersApart DEF ZInv, ZTypes, Wrappers
<1>2. /\ S \in WrapperRecs /\ S.type # "UNZIP" /\ S.head = W.head /\ S.inited = W.inited
      /\ S.queue = W.queue /\ S.running = W.running /\ S.finished = W.finished
      /\ S.errored = W.errored /\ S.ended = W.ended /\ S.held = W.held /\ S.open = W.open
  <2>1. CASE W.type # "UNZIP"
    BY <1>1, <2>1 DEF Sniff
  <2>2. CASE W.type = "UNZIP"
    BY <1>1, <2>2, Zenon DEF Sniff, WrapperRecs
  <2> QED
    BY <2>1, <2>2
<1>3. PushEmpty(w, f) \/ PushHead(w, f) \/ QueueTask(w, f, U)
      \/ (~W.inited /\ PushThrows(w, f, X))
  BY <1>2, Zenon DEF UnzipPush
<1> HIDE DEF S
<1>4. Prepared(W, U)
  <2>1. CASE S.inited
    BY <1>2, <2>1 DEF Prepared
  <2>2. CASE ~S.inited
    BY <1>2, <2>2, Zenon DEF Prepared, UnzipInit, WrapperRecs
  <2> QED
    BY <2>1, <2>2, Zenon
<1>5. /\ X \in WrapperRecs /\ X.inited /\ X.type # "UNZIP" /\ X.head = W.head
      /\ X.queue = W.queue /\ X.running = W.running /\ X.finished = W.finished
      /\ X.errored = W.errored /\ X.ended = W.ended /\ X.held = W.held
  BY <1>2, Zenon DEF UnzipInit, WrapperRecs
<1> HIDE DEF U, X
<1>6. CASE PushEmpty(w, f)
  BY <1>1, <1>6, EmptyInv
<1>7. CASE PushHead(w, f)
  BY <1>1, <1>7, HeadInv
<1>8. CASE QueueTask(w, f, U)
  BY <1>1, <1>4, <1>8, QueueInv
<1>9. CASE ~W.inited /\ PushThrows(w, f, X)
  BY <1>1, <1>5, <1>9, ThrowsInv
<1> QED
  BY <1>3, <1>6, <1>7, <1>8, <1>9

\* Steps that change nothing but one wrapper, and what is under way of it.
LEMMA WrapperKeeps ==
  ASSUME ZInv, NEW w \in Wrappers, UNCHANGED <<task, outcome, log, macro, tick>>,
         NEW V, wrapper' = [wrapper EXCEPT ![w] = V], w \in Zips => V.type = "ZIP",
         OneWrapper(V, Own(w), Of(macro, task, w), Cur(w), Of(log, task, w), Thrown),
         EndedOnce'
  PROVE  ZInv'
<1>1. ZTypes /\ EachWrapper /\ Sorted(macro, task) /\ Sorted(log, task)
  BY DEF ZInv
<1>2. V \in WrapperRecs
  BY DEF OneWrapper
<1>3. /\ wrapper' \in [Wrappers -> WrapperRecs] /\ wrapper'[w] = V
      /\ \A v \in Wrappers \ {w} : wrapper'[v] = wrapper[v]
  BY <1>1, <1>2 DEF ZTypes
<1>4. ZTypes'
  <2>1. \A v \in Zips : wrapper'[v].type = "ZIP"
    BY <1>1, <1>3 DEF ZTypes, Wrappers
  <2> QED
    BY <1>1, <1>3, <2>1 DEF ZTypes
<1>5. /\ \A v : Own(v)' = Own(v) /\ Cur(v)' = Cur(v)
      /\ Thrown' <=> Thrown
  BY DEF Own, Cur, Owner, Thrown
<1>6. EachWrapper'
  <2> SUFFICES ASSUME NEW v \in Wrappers
               PROVE  OneWrapper(wrapper'[v], Own(v)', Of(macro', task', v), Cur(v)',
                                 Of(log', task', v), Thrown')
    BY DEF EachWrapper
  <2>1. OneWrapper(wrapper'[v], Own(v), Of(macro, task, v), Cur(v), Of(log, task, v), Thrown)
    BY <1>1, <1>3 DEF EachWrapper
  <2>2. OneWrapper(wrapper'[v], Own(v), Of(macro, task, v), Cur(v), Of(log, task, v), Thrown')
    BY <1>5, <2>1 DEF OneWrapper, Ending
  <2> QED
    BY <1>5, <2>2
<1> QED
  BY <1>1, <1>4, <1>6 DEF ZInv

\* JavaScript forgets a wrapper.
LEMMA DropInv ==
  ASSUME ZInv, NEW w \in Wrappers, Drop(w)
  PROVE  ZInv'
<1> DEFINE W == wrapper[w]
           V == Forgotten(W)
<1>1. /\ OneWrapper(W, Own(w), Of(macro, task, w), Cur(w), Of(log, task, w), Thrown)
      /\ Own(w) \in SUBSET Nat /\ Thrown \in BOOLEAN /\ W \in WrapperRecs
      /\ (w \in Zips => W.type = "ZIP") /\ EndedOnce
      /\ wrapper \in [Wrappers -> WrapperRecs]
  BY Numbers DEF ZInv, EachWrapper, ZTypes
<1>2. OneWrapper(V, Own(w), Of(macro, task, w), Cur(w), Of(log, task, w), Thrown)
  BY <1>1, WrapperDropped
<1>3. wrapper' = [wrapper EXCEPT ![w] = V] /\ V.type = W.type
  BY <1>1 DEF Drop, Forgotten, WrapperRecs
<1>4. UNCHANGED <<task, outcome, log, macro, tick, aborted>>
  BY DEF Drop
<1>5. EndedOnce'
  BY <1>1, <1>4 DEF EndedOnce, Owner
<1> HIDE DEF V
<1> QED
  BY <1>1, <1>2, <1>3, <1>4, <1>5, WrapperKeeps, Zenon

\* The collector takes one.
LEMMA CollectInv ==
  ASSUME ZInv, NEW w \in Wrappers, Collect(w)
  PROVE  ZInv'
<1> DEFINE W == wrapper[w]
           V == Taken(W)
<1>1. /\ OneWrapper(W, Own(w), Of(macro, task, w), Cur(w), Of(log, task, w), Thrown)
      /\ Own(w) \in SUBSET Nat /\ Thrown \in BOOLEAN /\ W \in WrapperRecs
      /\ (w \in Zips => W.type = "ZIP")
      /\ wrapper \in [Wrappers -> WrapperRecs]
  BY Numbers DEF ZInv, EachWrapper, ZTypes
<1>2. Of(macro, task, w) \cup Cur(w) = InFlight(w)
  BY DEF InFlight, Of, Cur, Owner, Range
<1>3. ~W.held /\ W.queue = <<>> /\ Of(macro, task, w) = {} /\ Cur(w) = {}
  BY <1>2 DEF Collect, Reachable
<1>4. OneWrapper(V, Own(w), Of(macro, task, w), Cur(w), Of(log, task, w), Thrown)
  <2>1. OneWrapper(W, Own(w), {}, {}, Of(log, task, w), Thrown)
    BY <1>1, <1>3
  <2>2. OneWrapper(V, Own(w), {}, {}, Of(log, task, w), Thrown)
    BY <1>1, <1>3, <2>1, WrapperCollected
  <2> QED
    BY <1>3, <2>2
<1>5. wrapper' = [wrapper EXCEPT ![w] = V] /\ V.type = W.type
  BY <1>1, Zenon DEF Collect, Taken, WrapperRecs
<1>6. UNCHANGED <<task, outcome, log, macro, tick>>
  BY DEF Collect
<1>7. EndedOnce'
  <2>1. aborted' => W.inited /\ ~W.ended /\ ~W.open
    BY Zenon DEF Collect
  <2>2. aborted' => Thrown
    BY <1>1, <2>1 DEF OneWrapper, Ending
  <2> QED
    BY <1>6, <2>2 DEF EndedOnce, Thrown
<1> HIDE DEF V
<1> QED
  BY <1>1, <1>4, <1>5, <1>6, <1>7, WrapperKeeps, Zenon

\* The macro task queue begins and ends its turn.
LEMMA TurnInv ==
  ASSUME ZInv, TickBegin \/ TickEnd
  PROVE  ZInv'
<1>1. /\ ZTypes /\ EachWrapper /\ Sorted(macro, task) /\ Sorted(log, task) /\ EndedOnce
      /\ Len(task) \in Nat
  BY Numbers DEF ZInv
<1>2. /\ tick' \in [stage : {"none", "loop", "callback"}, processed : Nat, cur : 0..Len(task)]
      /\ tick'.stage # "callback" /\ tick'.cur = NoTask /\ tick.cur = NoTask
      /\ UNCHANGED <<wrapper, task, outcome, log, macro, aborted>>
  BY <1>1 DEF TickBegin, TickEnd, NoTurn, NoTask, ZTypes
<1>3. ZTypes'
  BY <1>1, <1>2 DEF ZTypes
<1>4. /\ \A v : Own(v)' = Own(v) /\ Cur(v)' = Cur(v)
      /\ Thrown' = Thrown
  BY <1>2 DEF Own, Cur, Owner, Thrown
<1>5. EachWrapper'
  BY <1>1, <1>2, <1>4 DEF EachWrapper
<1>6. EndedOnce'
  BY <1>1, <1>2 DEF EndedOnce, Owner
<1> QED
  BY <1>1, <1>2, <1>3, <1>5, <1>6 DEF ZInv

\* The task in its callback is the only one there.
LEMMA OneCurrent ==
  ASSUME ZTypes, NEW v
  PROVE  Cur(v) = IF tick.cur # NoTask /\ Owner(tick.cur) = v THEN {tick.cur} ELSE {}
BY DEF Cur

\* A callback returns.
LEMMA DoneInv ==
  ASSUME ZInv, TickDone
  PROVE  ZInv'
<1> DEFINE k == tick.cur
           w == Owner(tick.cur)
           W == wrapper[w]
           h == Head(W.queue)
<1>1. /\ ZTypes /\ EachWrapper /\ Sorted(macro, task) /\ Sorted(log, task) /\ EndedOnce
      /\ Len(task) \in Nat /\ \A j \in 1..Len(task) : task[j] \in Tasks
      /\ UNCHANGED <<task, outcome, log, aborted>> /\ TryTriggerNextTask(w)
      /\ tick' = [stage |-> "loop", processed |-> tick.processed + 1, cur |-> NoTask]
  BY Numbers DEF ZInv, TickDone
<1>2. k \in 1..Len(task) /\ k # NoTask
  BY <1>1 DEF TickDone, ZTypes, NoTask
<1>3. w \in Wrappers
  BY <1>1, <1>2 DEF Owner, Tasks
<1>4. /\ OneWrapper(W, Own(w), Of(macro, task, w), Cur(w), Of(log, task, w), Thrown)
      /\ Own(w) \in SUBSET Nat /\ Thrown \in BOOLEAN /\ W \in WrapperRecs
      /\ (w \in Zips => W.type = "ZIP")
      /\ wrapper \in [Wrappers -> WrapperRecs]
  BY <1>1, <1>3, Numbers DEF EachWrapper, ZTypes
<1>5. Cur(w) = {k} /\ \A v : v # w => Cur(v) = {}
  BY <1>1, <1>2, OneCurrent
<1>6. /\ tick' \in [stage : {"none", "loop", "callback"}, processed : Nat, cur : 0..Len(task)]
      /\ tick'.stage # "callback" /\ tick'.cur = NoTask
  BY <1>1 DEF ZTypes, NoTask
<1>7. /\ \A v : Own(v)' = Own(v) /\ Cur(v)' = {}
      /\ Thrown' = Thrown /\ EndedOnce' /\ Sorted(log, task)'
      /\ \A v : Of(log', task', v) = Of(log, task, v)
  BY <1>1, <1>6 DEF Own, Cur, Owner, Thrown, EndedOnce, Sorted
<1> HIDE DEF W, h, k, w
<1>8. ASSUME NEW V, wrapper' = [wrapper EXCEPT ![w] = V], V.type = W.type, NEW F,
             OneWrapper(V, Own(w), F, {}, Of(log, task, w), Thrown),
             Of(macro', task', w) = F, macro' \in Seq(Nat), Sorted(macro', task'),
             Range(macro') \subseteq 1..Len(task),
             \A v \in Wrappers \ {w} : Of(macro', task', v) = Of(macro, task, v)
      PROVE  ZInv'
  <2>1. V \in WrapperRecs
    BY <1>8 DEF OneWrapper
  <2>2. /\ wrapper' \in [Wrappers -> WrapperRecs] /\ wrapper'[w] = V
        /\ \A v \in Wrappers \ {w} : wrapper'[v] = wrapper[v]
    BY <1>3, <1>4, <1>8, <2>1
  <2>3. \A v \in Zips : wrapper'[v].type = "ZIP"
    BY <1>1, <1>4, <1>8, <2>2 DEF ZTypes, Wrappers
  <2>4. ZTypes'
    BY <1>1, <1>6, <1>8, <2>2, <2>3 DEF ZTypes
  <2>5. EachWrapper'
    <3> SUFFICES ASSUME NEW v \in Wrappers
                 PROVE  OneWrapper(wrapper'[v], Own(v)', Of(macro', task', v), Cur(v)',
                                   Of(log', task', v), Thrown')
      BY DEF EachWrapper
    <3>1. CASE v = w
      BY <1>7, <1>8, <2>2, <3>1, Zenon
    <3>2. CASE v # w
      <4>1. OneWrapper(wrapper[v], Own(v), Of(macro, task, v), {}, Of(log, task, v), Thrown)
        BY <1>1, <1>5, <3>2, Zenon DEF EachWrapper
      <4> QED
        BY <1>7, <1>8, <2>2, <3>2, <4>1, Zenon
    <3> QED
      BY <3>1, <3>2
  <2> QED
    BY <1>7, <1>8, <2>4, <2>5 DEF ZInv
<1>9. CASE W.queue = <<>>
  <2>1. wrapper' = [wrapper EXCEPT ![w] = Rested(W)] /\ macro' = macro
    BY <1>1, <1>3, <1>4, <1>9 DEF TryTriggerNextTask, W, Rested
  <2>2. OneWrapper(Rested(W), Own(w), Of(macro, task, w), {}, Of(log, task, w), Thrown)
    <3>1. Cur(w) # {}
      BY <1>5
    <3> QED
      BY <1>4, <1>9, <3>1, CallbackRests
  <2>3. Rested(W).type = W.type
    BY <1>4 DEF Rested, WrapperRecs
  <2>4. /\ macro' \in Seq(Nat) /\ Sorted(macro', task') /\ Range(macro') \subseteq 1..Len(task)
        /\ \A v : Of(macro', task', v) = Of(macro, task, v)
    BY <1>1, <2>1 DEF ZTypes
  <2> QED
    BY <1>8, <2>1, <2>2, <2>3, <2>4, Zenon
<1>10. CASE W.queue # <<>>
  <2>1. wrapper' = [wrapper EXCEPT ![w] = GoneOn(W)] /\ macro' = Append(macro, h)
    BY <1>1, <1>3, <1>4, <1>10 DEF TryTriggerNextTask, Enqueue, W, h, GoneOn
  <2>2. /\ OneWrapper(GoneOn(W), Own(w), Of(macro, task, w) \cup {h}, {}, Of(log, task, w), Thrown)
        /\ h \in Own(w) /\ Beyond(h, Of(macro, task, w))
    <3>1. Cur(w) # {}
      BY <1>5
    <3> QED
      BY <1>4, <1>10, <3>1, CallbackGoesOn, Zenon DEF h
  <2>3. GoneOn(W).type = W.type
    BY <1>4 DEF GoneOn, WrapperRecs
  <2>4. h \in 1..Len(task) /\ task[h].w = w /\ h \in Nat /\ macro \in Seq(Nat)
    BY <1>1, <2>2 DEF Own, ZTypes
  <2>5. \A x \in Of(macro, task, task[h].w) : x < h
    BY <2>2, <2>4 DEF Beyond
  <2>6. macro' \in Seq(Nat) /\ Sorted(macro', task') /\ Range(macro') = Range(macro) \cup {h}
    BY <1>1, <2>1, <2>4, <2>5, SortedMore
  <2>7. \A v : Of(macro', task', v) =
              IF task[h].w = v THEN Of(macro, task, v) \cup {h} ELSE Of(macro, task, v)
    BY <1>1, <2>1, <2>4, OfMore
  <2>8. Range(macro') \subseteq 1..Len(task)
    BY <1>1, <2>4, <2>6 DEF ZTypes
  <2>9. /\ Of(macro', task', w) = Of(macro, task, w) \cup {h}
        /\ \A v \in Wrappers \ {w} : Of(macro', task', v) = Of(macro, task, v)
    BY <2>4, <2>7
  <2> QED
    BY <1>8, <2>1, <2>2, <2>3, <2>6, <2>8, <2>9, Zenon
<1> QED
  BY <1>9, <1>10

\* The task a round of the macro task queue works on.
LEMMA Oldest ==
  ASSUME ZInv, tick.stage = "loop", macro # <<>>, NEW k, k = Head(macro)
  PROVE  /\ k \in 1..Len(task) /\ Owner(k) \in Wrappers /\ task[k] \in Tasks
         /\ k \in Of(macro, task, Owner(k)) /\ \A v : Cur(v) = {}
         /\ macro \in Seq(Nat) /\ Tail(macro) \in Seq(Nat) /\ Sorted(Tail(macro), task)
         /\ Range(Tail(macro)) \subseteq 1..Len(task)
         /\ \A x \in Of(macro, task, Owner(k)) \ {k} : k < x
         /\ \A v : Of(Tail(macro), task, v) =
                   IF Owner(k) = v THEN Of(macro, task, v) \ {k} ELSE Of(macro, task, v)
<1>1. /\ ZTypes /\ Sorted(macro, task) /\ macro \in Seq(Nat) /\ Range(macro) \subseteq 1..Len(task)
      /\ \A j \in 1..Len(task) : task[j] \in Tasks
  BY Numbers DEF ZInv, ZTypes
<1>2. /\ Tail(macro) \in Seq(Nat) /\ Sorted(Tail(macro), task) /\ Head(macro) \in Range(macro)
      /\ Range(Tail(macro)) = Range(macro) \ {Head(macro)}
      /\ \A x \in Of(macro, task, task[Head(macro)].w) \ {Head(macro)} : Head(macro) < x
  BY <1>1, SortedLess
<1>3. /\ k \in 1..Len(task) /\ task[k] \in Tasks /\ Owner(k) = task[k].w
  BY <1>1, <1>2 DEF Owner
<1>4. Owner(k) \in Wrappers /\ k \in Of(macro, task, Owner(k))
  BY <1>2, <1>3 DEF Tasks, Of
<1>5. \A v : Of(Tail(macro), task, v) =
             IF task[Head(macro)].w = v THEN Of(macro, task, v) \ {Head(macro)}
             ELSE Of(macro, task, v)
  BY <1>1, OfLess
<1>6. tick.cur = NoTask
  BY <1>1 DEF ZTypes
<1>7. \A v : Cur(v) = {}
  BY <1>1, <1>6, OneCurrent
<1>8. Range(Tail(macro)) \subseteq 1..Len(task)
  BY <1>1, <1>2
<1>9. \A x \in Of(macro, task, Owner(k)) \ {k} : k < x
  BY <1>2, <1>3
<1>10. \A v : Of(Tail(macro), task, v) =
              IF Owner(k) = v THEN Of(macro, task, v) \ {k} ELSE Of(macro, task, v)
  BY <1>3, <1>5
<1> QED
  BY <1>1, <1>2, <1>3, <1>4, <1>7, <1>8, <1>9, <1>10

\* A round that fills its chunk while inflate was asked to finish.
LEMMA FullInv ==
  ASSUME ZInv, tick.stage = "loop", macro # <<>>, "full" \in OnWorkTick(Head(macro)),
         aborted' = TRUE, UNCHANGED <<wrapper, task, outcome, log, macro, active, tick>>
  PROVE  ZInv'
<1> DEFINE k == Head(macro)
           w == Owner(k)
<1>1. k \in 1..Len(task) /\ w \in Wrappers
  BY Oldest
<1>2. w \notin Zips /\ task[k].flush = "FINISH"
  BY DEF OnWorkTick, ZipOnWorkTick, UnzipOnWorkTick, Inflate, Deflate, More
<1>3. DOMAIN task = 1..Len(task)
  BY Numbers DEF ZInv
<1>4. EndedOnce'
  BY <1>1, <1>2, <1>3 DEF EndedOnce, Wrappers, Owner
<1>5. /\ wrapper' = [wrapper EXCEPT ![w] = wrapper[w]]
      /\ OneWrapper(wrapper[w], Own(w), Of(macro, task, w), Cur(w), Of(log, task, w), Thrown)
  BY <1>1 DEF ZInv, ZTypes, EachWrapper
<1> HIDE DEF w
<1> QED
  BY <1>1, <1>2, <1>4, <1>5, WrapperKeeps, Zenon

\* A round that fills its chunk: the task goes to the end of the queue.
Requeue(k) ==
  /\ "more" \in OnWorkTick(k)
  /\ macro' = Append(Tail(macro), k)
  /\ task' = [task EXCEPT ![k].chunks = @ + 1]
  /\ tick' = [tick EXCEPT !.processed = @ + 1]
  /\ UNCHANGED <<wrapper, outcome, log, active, aborted>>

\* The task that is requeued stays the only one of its wrapper.
LEMMA MoreInv ==
  ASSUME ZInv, tick.stage = "loop", macro # <<>>, NEW k, k = Head(macro), Requeue(k)
  PROVE  ZInv'
<1> DEFINE w == Owner(k)
           W == wrapper[w]
<1>1. /\ k \in 1..Len(task) /\ w \in Wrappers /\ task[k] \in Tasks
      /\ k \in Of(macro, task, w) /\ \A v : Cur(v) = {}
  BY Oldest
<1>2. /\ macro \in Seq(Nat) /\ Tail(macro) \in Seq(Nat) /\ Sorted(Tail(macro), task)
      /\ Range(Tail(macro)) \subseteq 1..Len(task)
      /\ \A v : Of(Tail(macro), task, v) =
                IF w = v THEN Of(macro, task, v) \ {k} ELSE Of(macro, task, v)
  BY Oldest
<1>3. /\ ZTypes /\ EachWrapper /\ Sorted(log, task) /\ EndedOnce /\ Len(task) \in Nat
      /\ \A j \in 1..Len(task) : task[j] \in Tasks
      /\ DOMAIN task = 1..Len(task)
  BY Numbers DEF ZInv
<1>4. ~W.ended
  <2>1. ~(W.finished \/ W.errored)
    BY DEF Requeue, OnWorkTick, ZipOnWorkTick, UnzipOnWorkTick, Over
  <2> QED
    BY <1>1, <1>3, <2>1 DEF EachWrapper, OneWrapper, Ending
<1>5. Of(macro, task, w) = {k}
  <2>1. \A x, y \in Of(macro, task, w) \cup Cur(w) : x = y
    BY <1>1, <1>3, <1>4, Zenon DEF EachWrapper, OneWrapper, Engaged
  <2> QED
    BY <1>1, <2>1
<1>6. /\ task' \in Seq(Tasks) /\ Len(task') = Len(task)
      /\ \A j \in 1..Len(task) : task'[j].w = task[j].w /\ task'[j].flush = task[j].flush
  <2> DEFINE r == [task[k] EXCEPT !.chunks = task[k].chunks + 1]
  <2>1. r \in Tasks /\ r.w = task[k].w /\ r.flush = task[k].flush
    BY <1>1 DEF Tasks
  <2>2. task' = [task EXCEPT ![k] = r]
    BY DEF Requeue
  <2> HIDE DEF r
  <2>3. task \in Seq(Tasks)
    BY <1>3 DEF ZTypes
  <2>4. /\ [task EXCEPT ![k] = r] \in Seq(Tasks) /\ Len([task EXCEPT ![k] = r]) = Len(task)
        /\ \A j \in 1..Len(task) : [task EXCEPT ![k] = r][j] = IF j = k THEN r ELSE task[j]
    BY <1>1, <2>1, <2>3, ExceptSeq
  <2> QED
    BY <2>1, <2>2, <2>4
<1>a. /\ macro' = Append(Tail(macro), k) /\ UNCHANGED <<wrapper, outcome, log, aborted>>
      /\ k \in Nat
  BY <1>1 DEF Requeue
<1> HIDE DEF W
<1>7. Append(Tail(macro), k) \in Seq(Nat) /\ Sorted(Append(Tail(macro), k), task)
      /\ Range(Append(Tail(macro), k)) = Range(Tail(macro)) \cup {k}
  <2>1. Of(Tail(macro), task, task[k].w) = {}
    BY <1>2, <1>5 DEF Owner
  <2> QED
    BY <1>a, <1>2, <2>1, SortedMore, Zenon
<1>8. \A v : Of(Append(Tail(macro), k), task, v) = Of(macro, task, v)
  <2>1. \A v : Of(Append(Tail(macro), k), task, v) =
              IF task[k].w = v THEN Of(Tail(macro), task, v) \cup {k} ELSE Of(Tail(macro), task, v)
    <3>1. k \in Nat /\ Tail(macro) \in Seq(Nat)
      BY <1>a, <1>2
    <3> QED
      BY ONLY <3>1, OfMore, Zenon
  <2> QED
    BY <1>1, <1>2, <1>5, <2>1, Zenon DEF Owner
<1>9. macro' \in Seq(Nat) /\ Range(macro') \subseteq 1..Len(task)
  BY <1>a, <1>1, <1>2, <1>7
<1>10. /\ Sorted(macro', task') /\ Sorted(log', task')
  <2>1. /\ \A i \in 1..Len(macro') : task'[macro'[i]].w = task[macro'[i]].w
        /\ \A i \in 1..Len(log) : task'[log[i]].w = task[log[i]].w
    <3>1. DOMAIN macro' = 1..Len(macro') /\ DOMAIN log = 1..Len(log)
      BY <1>3, <1>9, LenProperties DEF ZTypes
    <3> QED
      BY <1>3, <1>6, <1>9, <3>1, Zenon DEF ZTypes, Range
  <2>2. log' = log /\ Sorted(macro', task) /\ Sorted(log, task)
    BY <1>a, <1>3, <1>7
  <2> QED
    BY <2>1, <2>2 DEF Sorted
<1>11. /\ \A v : Of(macro', task', v) = Of(macro, task, v)
       /\ \A v : Of(log', task', v) = Of(log, task, v)
  <2>1. /\ \A v : Of(macro', task', v) = Of(macro', task, v)
        /\ \A v : Of(log', task', v) = Of(log, task, v)
    BY <1>a, <1>3, <1>6, <1>9 DEF Of, ZTypes
  <2> QED
    BY <1>a, <1>8, <2>1
<1>12. /\ tick' \in [stage : {"none", "loop", "callback"}, processed : Nat, cur : 0..Len(task)]
       /\ tick'.stage = tick.stage /\ tick'.cur = tick.cur /\ tick.cur = NoTask
  <2>1. tick' = [tick EXCEPT !.processed = tick.processed + 1]
    BY DEF Requeue
  <2>2. tick \in [stage : {"none", "loop", "callback"}, processed : Nat, cur : 0..Len(task)]
        /\ tick.cur = NoTask
    BY <1>3 DEF ZTypes
  <2> QED
    BY <2>1, <2>2
<1>13. ZTypes'
  BY <1>a, <1>3, <1>6, <1>9, <1>12 DEF ZTypes
<1>14. /\ \A v : Own(v)' = Own(v) /\ Cur(v)' = Cur(v)
       /\ Thrown' = Thrown
  BY <1>a, <1>1, <1>6, <1>12 DEF Own, Cur, Owner, Thrown
<1>15. EachWrapper'
  BY <1>a, <1>3, <1>11, <1>14 DEF EachWrapper
<1>16. EndedOnce'
  <2>1. DOMAIN task' = 1..Len(task)
    BY <1>6, LenProperties
  <2> QED
    BY <1>a, <1>3, <1>6, <2>1 DEF EndedOnce, Owner
<1> QED
  BY <1>10, <1>13, <1>15, <1>16 DEF ZInv

\* A round that finishes its task, and calls back.
Finish(k, o) ==
  /\ o \in OnWorkTick(k)
  /\ CASE o = "fit" -> UNCHANGED <<wrapper, aborted>>
       [] o = "end" -> End(Owner(k))
       [] o = "fail" -> OccurError(Owner(k))
  /\ macro' = Tail(macro)
  /\ tick' = [tick EXCEPT !.stage = "callback", !.cur = k]
  /\ DoTaskCallback(k, IF o = "fail" THEN "error" ELSE "ok")
  /\ UNCHANGED <<task, active>>

\* The round that finishes a task keeps every wrapper in order.
LEMMA FinishInv ==
  ASSUME ZInv, ~aborted, tick.stage = "loop", macro # <<>>, NEW k, k = Head(macro),
         NEW o \in {"end", "fit", "fail"}, Finish(k, o)
  PROVE  ZInv'
<1> DEFINE w == Owner(k)
           W == wrapper[w]
           V == wrapper'[w]
<1>1. /\ k \in 1..Len(task) /\ w \in Wrappers /\ task[k] \in Tasks
      /\ k \in Of(macro, task, w) /\ \A v : Cur(v) = {}
      /\ Before(k, Of(macro, task, w))
  BY Oldest DEF Before
<1>2. /\ macro \in Seq(Nat) /\ Tail(macro) \in Seq(Nat) /\ Sorted(Tail(macro), task)
      /\ Range(Tail(macro)) \subseteq 1..Len(task)
      /\ \A v : Of(Tail(macro), task, v) =
                IF w = v THEN Of(macro, task, v) \ {k} ELSE Of(macro, task, v)
  BY Oldest
<1>3. /\ ZTypes /\ EachWrapper /\ Sorted(log, task) /\ Len(task) \in Nat
      /\ DOMAIN outcome = 1..Len(task) /\ wrapper \in [Wrappers -> WrapperRecs]
      /\ Thrown \in BOOLEAN /\ \A v \in Wrappers : Own(v) \in SUBSET Nat
  BY Numbers DEF ZInv, ZTypes
<1>4. /\ OneWrapper(W, Own(w), Of(macro, task, w), {}, Of(log, task, w), Thrown)
      /\ W \in WrapperRecs /\ W.inited
  BY <1>1, <1>3 DEF EachWrapper, OneWrapper, Engaged, Unused
<1>5. /\ macro' = Tail(macro) /\ task' = task
      /\ tick' = [tick EXCEPT !.stage = "callback", !.cur = k]
  BY DEF Finish
<1>6. /\ Worked(W, V) /\ wrapper' \in [Wrappers -> WrapperRecs] /\ V.type = W.type
      /\ \A v \in Wrappers \ {w} : wrapper'[v] = wrapper[v]
      /\ aborted' => ~W.open /\ ~W.ended
  <2>1. CASE o = "fit"
    BY <1>3, <2>1 DEF Finish, Worked
  <2>2. CASE o = "end"
    <3>1. W.open
      BY <2>2 DEF Finish, OnWorkTick, ZipOnWorkTick, UnzipOnWorkTick, Inflate, Deflate, More
    <3>2. wrapper' = [wrapper EXCEPT ![w] = Finished(W)] /\ aborted' = ~W.open
      BY <2>2 DEF Finish, End, DoZlibEnd, Finished
    <3>3. Finished(W) \in WrapperRecs /\ Finished(W).type = W.type
      BY <1>4, Zenon DEF Finished, WrapperRecs
    <3> QED
      BY <1>1, <1>3, <3>1, <3>2, <3>3, Zenon DEF Worked
  <2>3. CASE o = "fail" /\ W.ended
    BY <1>3, <2>3 DEF Finish, OccurError, Worked
  <2>4. CASE o = "fail" /\ ~W.ended
    <3>1. wrapper' = [wrapper EXCEPT ![w] = Errored(W)] /\ aborted' = ~W.open
      BY <2>4 DEF Finish, OccurError, DoZlibEnd, Errored
    <3>2. Errored(W) \in WrapperRecs /\ Errored(W).type = W.type
      BY <1>4, Zenon DEF Errored, WrapperRecs
    <3> QED
      BY <1>1, <1>3, <2>4, <3>1, <3>2, Zenon DEF Worked
  <2> QED
    BY <2>1, <2>2, <2>3, <2>4
<1> HIDE DEF V, W, w
<1>7. /\ outcome' \in Seq(Outcomes) /\ Len(outcome') = Len(task) /\ (Thrown' <=> Thrown)
      /\ (log' = log \/ log' = Append(log, k))
  <2> DEFINE how == IF o = "fail" THEN "error" ELSE "ok"
  <2>1. DoTaskCallback(k, how)
    BY DEF Finish
  <2>2. how \in Outcomes /\ how # "thrown"
    BY DEF Outcomes
  <2> HIDE DEF how
  <2>3. CASE outcome[k] # "queued"
    BY <1>3, <2>1, <2>3 DEF DoTaskCallback, ZTypes, Thrown
  <2>4. CASE outcome[k] = "queued"
    <3>1. outcome' = [outcome EXCEPT ![k] = how] /\ log' = Append(log, k)
      BY <2>1, <2>4 DEF DoTaskCallback
    <3>2. outcome \in Seq(Outcomes) /\ Len(outcome) = Len(task) /\ k \in 1..Len(outcome)
      BY <1>1, <1>3 DEF ZTypes
    <3>3. /\ outcome' \in Seq(Outcomes) /\ Len(outcome') = Len(task)
          /\ \A j \in 1..Len(task) : outcome'[j] = IF j = k THEN how ELSE outcome[j]
      BY <2>2, <3>1, <3>2, ExceptSeq
    <3>4. DOMAIN outcome' = 1..Len(task)
      BY <1>3, <3>1
    <3>5. Thrown' <=> Thrown
      BY <1>1, <1>3, <2>2, <2>4, <3>3, <3>4 DEF Thrown
    <3> QED
      BY <3>1, <3>3, <3>5
  <2> QED
    BY <2>3, <2>4
<1>8. /\ log' \in Seq(Nat) /\ Range(log') \subseteq 1..Len(task) /\ Sorted(log', task)
      /\ Of(log', task, w) = Of(log, task, w) \/ Of(log', task, w) = Of(log, task, w) \cup {k}
      /\ \A v \in Wrappers \ {w} : Of(log', task, v) = Of(log, task, v)
  <2>0. log \in Seq(Nat) /\ Range(log) \subseteq 1..Len(task) /\ k \in Nat
    BY <1>1, <1>3 DEF ZTypes
  <2>1. CASE log' = log
    BY <1>3, <2>0, <2>1
  <2>2. CASE log' = Append(log, k)
    <3>1. task[k].w = w
      BY DEF w, Owner
    <3>2. \A x \in Of(log, task, task[k].w) : x < k
      BY <1>1, <1>4, <3>1 DEF OneWrapper, Lined
    <3>3. /\ Append(log, k) \in Seq(Nat) /\ Sorted(Append(log, k), task)
          /\ Range(Append(log, k)) = Range(log) \cup {k}
      BY <1>3, <2>0, <3>2, SortedMore
    <3>4. \A v : Of(Append(log, k), task, v) =
                IF task[k].w = v THEN Of(log, task, v) \cup {k} ELSE Of(log, task, v)
      BY <2>0, OfMore
    <3> QED
      BY <1>1, <2>0, <2>2, <3>1, <3>3, <3>4
  <2> QED
    BY <1>7, <2>1, <2>2
<1>9. /\ tick' \in [stage : {"none", "loop", "callback"}, processed : Nat, cur : 0..Len(task)]
      /\ tick'.stage = "callback" /\ tick'.cur = k /\ k # NoTask
  <2>1. tick \in [stage : {"none", "loop", "callback"}, processed : Nat, cur : 0..Len(task)]
    BY <1>3 DEF ZTypes
  <2>2. k \in 0..Len(task) /\ k # NoTask
    BY <1>1, <1>3 DEF NoTask
  <2> QED
    BY <1>5, <2>1, <2>2, Zenon
<1>10. ZTypes'
  <2>1. \A v \in Zips : wrapper'[v].type = "ZIP"
    BY <1>3, <1>6 DEF ZTypes, Wrappers, V, W
  <2>2. task' \in Seq(Tasks) /\ Len(task') = Len(task) /\ Len(outcome') = Len(task')
    BY <1>3, <1>5, <1>7 DEF ZTypes
  <2>3. macro' \in Seq(Nat) /\ Range(macro') \subseteq 1..Len(task')
    BY <1>2, <1>5
  <2>4. log' \in Seq(Nat) /\ Range(log') \subseteq 1..Len(task')
    BY <1>5, <1>8
  <2>5. /\ tick' \in [stage : {"none", "loop", "callback"}, processed : Nat, cur : 0..Len(task')]
        /\ tick'.stage = "callback" /\ tick'.cur # NoTask
    BY <1>5, <1>9
  <2> QED
    BY <1>6, <1>7, <2>1, <2>2, <2>3, <2>4, <2>5 DEF ZTypes
<1>11. /\ \A v : Own(v)' = Own(v)
       /\ Cur(w)' = {k} /\ \A v : v # w => Cur(v)' = {}
  BY <1>5, <1>9 DEF Own, Cur, Owner, w
<1>12. EachWrapper'
  <2> SUFFICES ASSUME NEW v \in Wrappers
               PROVE  OneWrapper(wrapper'[v], Own(v)', Of(macro', task', v), Cur(v)',
                                 Of(log', task', v), Thrown')
    BY DEF EachWrapper
  <2>1. CASE v = w
    <3>1. OneWrapper(V, Own(w), Of(macro, task, w) \ {k}, {k}, Of(log', task, w), Thrown)
      BY <1>1, <1>3, <1>4, <1>6, <1>8, TaskTaken
    <3>2. OneWrapper(V, Own(w), Of(macro, task, w) \ {k}, {k}, Of(log', task, w), Thrown')
      BY <1>7, <3>1 DEF OneWrapper, Ending
    <3> QED
      BY <1>2, <1>5, <1>11, <2>1, <3>2, Zenon DEF V
  <2>2. CASE v # w
    <3>1. OneWrapper(wrapper[v], Own(v), Of(macro, task, v), {}, Of(log, task, v), Thrown)
      BY <1>1, <1>3, Zenon DEF EachWrapper
    <3>2. OneWrapper(wrapper[v], Own(v), Of(macro, task, v), {}, Of(log, task, v), Thrown')
      BY <1>7, <3>1 DEF OneWrapper, Ending
    <3> QED
      BY <1>2, <1>5, <1>6, <1>8, <1>11, <2>2, <3>2, Zenon
  <2> QED
    BY <2>1, <2>2
<1>13. EndedOnce'
  <2>1. aborted' => Thrown
    BY <1>4, <1>6 DEF OneWrapper, Ending
  <2> QED
    BY <1>7, <2>1 DEF EndedOnce, Thrown
<1> QED
  BY <1>2, <1>5, <1>8, <1>10, <1>12, <1>13 DEF ZInv

\* Every step keeps the invariant.
LEMMA NextZInv == ZInv /\ [ZlibNext]_zlibVars => ZInv'
<1> SUFFICES ASSUME ZInv, [ZlibNext]_zlibVars PROVE ZInv'
  OBVIOUS
<1>1. ASSUME NEW w \in Wrappers, NEW f \in Flush, NEW d \in DataOf(w), Push(w, d, f)
      PROVE  ZInv'
  <2>1. CASE w \in Zips
    BY <1>1, <2>1, ZipPushInv DEF Push
  <2>2. CASE w \notin Zips
    <3>1. w \in Unzips /\ UnzipPush(w, d, f)
      BY <1>1, <2>2 DEF Push, Wrappers
    <3> QED
      BY <1>1, <3>1, UnzipPushInv
  <2> QED
    BY <2>1, <2>2
<1>2. ASSUME NEW w \in Wrappers, Drop(w) PROVE ZInv'
  BY <1>2, DropInv
<1>3. ASSUME NEW w \in Wrappers, Collect(w) PROVE ZInv'
  BY <1>3, CollectInv
<1>4. CASE TickBegin \/ TickEnd
  BY <1>4, TurnInv
<1>5. CASE TickDone
  BY <1>5, DoneInv
<1>6. CASE TickWork
  <2> DEFINE k == Head(macro)
  <2>1. ~aborted /\ tick.stage = "loop" /\ macro # <<>>
    BY <1>6 DEF TickWork
  <2>2. \/ /\ "full" \in OnWorkTick(k) /\ aborted' = TRUE
           /\ UNCHANGED <<wrapper, task, outcome, log, macro, active, tick>>
        \/ Requeue(k)
        \/ \E o \in {"end", "fit", "fail"} : Finish(k, o)
    BY <1>6, Zenon DEF TickWork, Requeue, Finish
  <2> QED
    BY <2>1, <2>2, FullInv, MoreInv, FinishInv, Zenon
<1>7. CASE UNCHANGED zlibVars
  <2>1. /\ ZTypes' /\ EndedOnce' /\ Sorted(macro, task)' /\ Sorted(log, task)'
    BY <1>7 DEF zlibVars, ZInv, ZTypes, EndedOnce, Owner
  <2>2. EachWrapper'
    BY <1>7, Zenon DEF zlibVars, ZInv, EachWrapper, Own, Cur, Owner, Thrown
  <2> QED
    BY <2>1, <2>2 DEF ZInv
<1> QED
  BY <1>1, <1>2, <1>3, <1>4, <1>5, <1>6, <1>7 DEF ZlibNext, Loop

\* The streams keep what they promise: one user of a z_stream at a time, pushes
\* answered in the order they were made and each once, and no stream ended
\* twice (UnzipWrapper::Push, ZlibWrapper::TryTriggerNextTask,
\* ZlibTask::OnDone, DoZlibEnd), for any number of wrappers, pushes and chunks,
\* and however many tasks a turn of the macro task queue works on.
THEOREM StreamsAreKept == ZlibSpec => []StreamsKept
BY InitZInv, NextZInv, ZInvStreams, PTL DEF ZlibSpec

-----------------------------------------------------------------------------
(***************************************************************************)
(* Script timeouts, for any limits, any nesting and any lateness of the    *)
(* signal.                                                                 *)
(***************************************************************************)

\* A timer of the set, and an execution on the stack.
Timer == [id : Nat, trigger : Nat, timeouted : BOOLEAN]
Execution == [id : Nat, timeout : BOOLEAN, pc : {"run", "close"}]

\* The first of some positions.
LEMMA FirstFacts ==
  ASSUME NEW S, NEW s \in Seq(S), NEW P \in SUBSET DOMAIN s
  PROVE  /\ First(P, s) \in 1..(Len(s) + 1)
         /\ First(P, s) \in P \/ First(P, s) = Len(s) + 1
         /\ \A i \in P : First(P, s) <= i
<1>1. Len(s) \in Nat /\ DOMAIN s = 1..Len(s)
  BY LenProperties
<1> DEFINE Q == P \cup {Len(s) + 1}
<1>2. Q \in SUBSET Nat /\ Q # {} /\ Q \subseteq 1..(Len(s) + 1)
  BY <1>1
<1> HIDE DEF Q
<1>3. \E x \in Q : \A y \in Q : x <= y
  BY <1>2, LeastNumber, Zenon
<1>4. First(P, s) \in Q /\ \A y \in Q : First(P, s) <= y
  BY <1>3 DEF First, Q
<1> QED
  BY <1>1, <1>2, <1>4 DEF Q

\* a comes before b in the set.
Precedes(a, b) == a.trigger < b.trigger \/ (a.trigger = b.trigger /\ a.id < b.id)
Ordered(s) == \A i, j \in DOMAIN s : i < j => Precedes(s[i], s[j])
IdsApart(s) == \A i, j \in DOMAIN s : s[i].id = s[j].id => i = j

\* r is s without some elements.
Thins(r, s) ==
  \E back \in [DOMAIN r -> DOMAIN s] :
    /\ \A j \in DOMAIN r : r[j] = s[back[j]]
    /\ \A i, j \in DOMAIN r : i < j => back[i] < back[j]

\* What is without some elements keeps the order.
LEMMA ThinsKeeps ==
  ASSUME NEW s \in Seq(Timer), NEW r \in Seq(Timer), Thins(r, s), Ordered(s), IdsApart(s)
  PROVE  /\ Ordered(r) /\ IdsApart(r)
         /\ \A j \in DOMAIN r : \E i \in DOMAIN s : r[j] = s[i]
<1>1. PICK back \in [DOMAIN r -> DOMAIN s] :
        /\ \A j \in DOMAIN r : r[j] = s[back[j]]
        /\ \A i, j \in DOMAIN r : i < j => back[i] < back[j]
  BY DEF Thins
<1>2. Ordered(r)
  BY <1>1 DEF Ordered
<1>3. ASSUME NEW i \in DOMAIN r, NEW j \in DOMAIN r, r[i].id = r[j].id
      PROVE  i = j
  <2>1. back[i] = back[j] /\ back[i] \in DOMAIN s
    BY <1>1, <1>3 DEF IdsApart
  <2>2. ~(back[i] < back[j]) /\ ~(back[j] < back[i])
    BY <2>1, LenProperties
  <2>3. ~(i < j) /\ ~(j < i)
    BY <1>1, <2>2
  <2> QED
    BY <2>3, LenProperties
<1> QED
  BY <1>1, <1>2, <1>3 DEF IdsApart

\* What create_timer deletes first.
LEMMA DropThins ==
  ASSUME NEW s \in Seq(Timer)
  PROVE  DropTimeouted(s) \in Seq(Timer) /\ Thins(DropTimeouted(s), s)
<1> DEFINE P == {i \in DOMAIN s : ~s[i].timeouted}
<1>1. PICK n \in Nat : n = Len(s) /\ DOMAIN s = 1..n
  BY LenProperties
<1>2. First(P, s) \in 1..(n + 1)
  BY <1>1, FirstFacts, P \in SUBSET DOMAIN s
<1>3. PICK p \in 1..(n + 1) : p = First(P, s)
  BY <1>2, Zenon
<1>4. PICK r : r = SubSeq(s, p, n)
  BY Zenon
<1>5. DropTimeouted(s) = r
  BY <1>1, <1>3, <1>4 DEF DropTimeouted
<1>6. r \in Seq(Timer) /\ Len(r) = n - p + 1 /\ \A j \in 1..(n - p + 1) : r[j] = s[p + j - 1]
  BY <1>1, <1>4, CutFacts
<1>7. DOMAIN r = 1..(n - p + 1)
  BY <1>6
<1>8. PICK back : back = [j \in 1..(n - p + 1) |-> p + j - 1]
  BY Zenon
<1>9. back \in [DOMAIN r -> DOMAIN s]
  BY <1>1, <1>7, <1>8
<1>10. \A j \in DOMAIN r : r[j] = s[back[j]]
  BY <1>6, <1>7, <1>8
<1>11. \A i, j \in DOMAIN r : i < j => back[i] < back[j]
  BY <1>7, <1>8
<1> QED
  BY <1>5, <1>6, <1>9, <1>10, <1>11, Zenon DEF Thins

\* What close deletes.
LEMMA EraseThins ==
  ASSUME NEW s \in Seq(Timer), IdsApart(s), NEW id
  PROVE  /\ Erase(s, id) \in Seq(Timer) /\ Thins(Erase(s, id), s)
         /\ \A j \in DOMAIN Erase(s, id) : Erase(s, id)[j].id # id
<1> DEFINE P == {i \in DOMAIN s : s[i].id = id}
<1>1. PICK n \in Nat : n = Len(s) /\ DOMAIN s = 1..n
  BY LenProperties
<1>2. First(P, s) \in 1..(n + 1) /\ (First(P, s) \in P \/ First(P, s) = n + 1) /\ \A i \in P : First(P, s) <= i
  BY <1>1, FirstFacts, P \in SUBSET DOMAIN s
<1>3. PICK p \in 1..(n + 1) : p = First(P, s)
  BY <1>2, Zenon
<1>4. PICK a, c : a = SubSeq(s, 1, p - 1) /\ c = SubSeq(s, p + 1, n)
  BY Zenon
<1>5. /\ a \in Seq(Timer) /\ Len(a) = p - 1 /\ \A j \in 1..(p - 1) : a[j] = s[j]
      /\ c \in Seq(Timer) /\ Len(c) = (IF p <= n THEN n - p ELSE 0)
      /\ \A j \in 1..(n - p) : c[j] = s[p + j]
  BY <1>1, <1>4, CutFacts
<1>6. PICK r : r = a \o c
  BY Zenon
<1>7. Erase(s, id) = r
  BY <1>1, <1>3, <1>4, <1>6 DEF Erase
<1>8. PICK m \in Nat : m = IF p <= n THEN n - 1 ELSE n
  OBVIOUS
<1>9. /\ r \in Seq(Timer) /\ Len(r) = m
      /\ \A j \in 1..(p - 1) : r[j] = a[j]
      /\ \A j \in p..m : r[j] = c[j - (p - 1)]
  <2>1. PICK k \in Nat, l \in Nat : k = Len(a) /\ l = Len(c) /\ k = p - 1 /\ k + l = m
    BY <1>5, <1>8
  <2>2. Chained(Timer, r, a, c, k, l)
    BY <1>5, <1>6, <2>1, ConcatFacts, Zenon
  <2>3. k + 1 = p
    BY <2>1
  <2> QED
    BY <2>1, <2>2, <2>3 DEF Chained
<1>10. DOMAIN r = 1..m
  BY <1>9
<1>11. PICK back : back = [j \in 1..m |-> IF j < p THEN j ELSE j + 1]
  BY Zenon
<1>12. back \in [DOMAIN r -> DOMAIN s]
  BY <1>1, <1>8, <1>10, <1>11
<1>13. ASSUME NEW j \in 1..m
       PROVE  r[j] = s[back[j]] /\ back[j] # p
  <2>1. CASE j < p
    BY <1>5, <1>9, <1>11, <2>1
  <2>2. CASE ~(j < p)
    <3>1. back[j] = j + 1 /\ j - (p - 1) \in 1..(n - p) /\ p + (j - (p - 1)) = j + 1 /\ j + 1 # p
      BY <1>8, <1>11, <2>2
    <3>2. r[j] = c[j - (p - 1)]
      BY <1>9, <2>2
    <3> QED
      BY <1>5, <3>1, <3>2
  <2> QED
    BY <2>1, <2>2
<1>14. \A i, j \in DOMAIN r : i < j => back[i] < back[j]
  BY <1>10, <1>11
<1>15. ASSUME NEW j \in 1..m
       PROVE  r[j].id # id
  <2>1. back[j] \in DOMAIN s
    BY <1>10, <1>12
  <2>2. SUFFICES ASSUME s[back[j]].id = id PROVE FALSE
    BY <1>13
  <2>3. back[j] \in P
    BY <2>1, <2>2
  <2>4. First(P, s) \in P
    <3>1. First(P, s) <= back[j] /\ back[j] \in 1..n
      BY <1>1, <1>2, <2>1, <2>3
    <3> QED
      BY <1>2, <3>1
  <2>5. p \in DOMAIN s /\ s[p].id = id
    BY <1>3, <2>4
  <2> QED
    BY <1>13, <2>1, <2>2, <2>5 DEF IdsApart
<1> QED
  BY <1>7, <1>9, <1>10, <1>12, <1>13, <1>14, <1>15, Zenon DEF Thins

\* What create_timer inserts.
LEMMA InsertFacts ==
  ASSUME NEW s \in Seq(Timer), NEW t \in Timer, Ordered(s), IdsApart(s),
         \A i \in DOMAIN s : s[i].id < t.id
  PROVE  LET r == Insert(t, s)
         IN /\ r \in Seq(Timer) /\ r # <<>> /\ Ordered(r) /\ IdsApart(r)
            /\ \A j \in DOMAIN r : r[j] = t \/ \E i \in DOMAIN s : r[j] = s[i]
<1> DEFINE P == {i \in DOMAIN s : AlarmTimerCompare(t, s[i])}
<1>1. PICK n \in Nat : n = Len(s) /\ DOMAIN s = 1..n
  BY LenProperties
<1>2. First(P, s) \in 1..(n + 1) /\ (First(P, s) \in P \/ First(P, s) = n + 1) /\ \A i \in P : First(P, s) <= i
  BY <1>1, FirstFacts, P \in SUBSET DOMAIN s
<1>3. PICK p \in 1..(n + 1) : p = First(P, s)
  BY <1>2, Zenon
<1>4. PICK a, b : a = SubSeq(s, 1, p - 1) /\ b = SubSeq(s, p, n)
  BY Zenon
<1>5. /\ a \in Seq(Timer) /\ Len(a) = p - 1 /\ \A j \in 1..(p - 1) : a[j] = s[j]
      /\ b \in Seq(Timer) /\ Len(b) = n - p + 1
      /\ \A j \in 1..(n - p + 1) : b[j] = s[p + j - 1]
  BY <1>1, <1>4, CutFacts, Zenon
<1>6. PICK d, r : d = a \o <<t>> /\ r = d \o b
  BY Zenon
<1>7. Insert(t, s) = r
  BY <1>1, <1>3, <1>4, <1>6 DEF Insert
<1>8. d \in Seq(Timer) /\ Len(d) = p /\ d[p] = t /\ \A j \in 1..(p - 1) : d[j] = s[j]
  <2>0. <<t>> \in Seq(Timer) /\ Len(<<t>>) = 1 /\ <<t>>[1] = t
    OBVIOUS
  <2>1. PICK u : u = <<t>> /\ u \in Seq(Timer) /\ Len(u) = 1 /\ u[1] = t
    BY <2>0, Zenon
  <2>2. PICK k \in Nat : k = Len(a) /\ k = p - 1
    BY <1>5
  <2>3. Chained(Timer, d, a, u, k, 1)
    BY <1>5, <1>6, <2>1, <2>2, 1 \in Nat, ConcatFacts, Zenon
  <2>4. p = k + 1 /\ p - k = 1 /\ p \in (k + 1)..(k + 1)
    BY <2>2
  <2>5. d[p] = t
    BY <2>1, <2>3, <2>4 DEF Chained
  <2> QED
    BY <1>5, <2>2, <2>3, <2>4, <2>5 DEF Chained
<1>9. /\ r \in Seq(Timer) /\ Len(r) = n + 1
      /\ \A j \in 1..p : r[j] = d[j]
      /\ \A j \in (p + 1)..(n + 1) : r[j] = b[j - p]
  <2>1. PICK l \in Nat : l = Len(b) /\ p + l = n + 1
    BY <1>5
  <2>2. Chained(Timer, r, d, b, p, l)
    BY <1>5, <1>6, <1>8, <2>1, p \in Nat, ConcatFacts, Zenon
  <2> QED
    BY <2>1, <2>2 DEF Chained
<1>10. DOMAIN r = 1..(n + 1) /\ r # <<>>
  BY <1>9, EmptySeq
<1>11. /\ \A j \in 1..(p - 1) : r[j] = s[j]
       /\ r[p] = t
       /\ \A j \in (p + 1)..(n + 1) : r[j] = s[j - 1] /\ j - 1 \in 1..n
  <2>1. ASSUME NEW j \in (p + 1)..(n + 1)
        PROVE  r[j] = s[j - 1] /\ j - 1 \in 1..n
    <3>0. j - p \in 1..(n - p + 1) /\ p + (j - p) - 1 = j - 1 /\ j - 1 \in 1..n
      <4>1. p \in Int /\ j \in Int /\ 1 <= p /\ p + 1 <= j /\ j <= n + 1
        OBVIOUS
      <4>2. 1 <= j - p /\ j - p <= n - p + 1 /\ p + (j - p) - 1 = j - 1 /\ 1 <= j - 1 /\ j - 1 <= n
        BY <4>1
      <4> QED
        BY <4>1, <4>2
    <3>1. PICK k \in 1..(n - p + 1) : k = j - p /\ p + k - 1 = j - 1 /\ j - 1 \in 1..n
      BY <3>0, Zenon
    <3>2. r[j] = b[k] /\ b[k] = s[p + k - 1]
      BY <1>5, <1>9, <3>1
    <3> QED
      BY <3>1, <3>2
  <2> QED
    BY <1>8, <1>9, <2>1
<1>12. \A i \in 1..n : s[i] \in Timer
  BY <1>1
<1>13. \A i \in 1..(p - 1) : Precedes(s[i], t)
  <2>1. ASSUME NEW i \in 1..(p - 1)
        PROVE  Precedes(s[i], t)
    <3>1. i \in DOMAIN s /\ i \notin P
      <4>1. i \in 1..n /\ ~(p <= i)
        OBVIOUS
      <4> QED
        BY <1>1, <1>2, <1>3, <4>1
    <3> QED
      BY <3>1, <1>1, <1>12 DEF AlarmTimerCompare, Precedes, Timer
  <2> QED
    BY <2>1
<1>14. \A i \in p..n : Precedes(t, s[i])
  <2>1. ASSUME NEW i \in p..n
        PROVE  Precedes(t, s[i])
    <3>1. p \in DOMAIN s /\ AlarmTimerCompare(t, s[p]) /\ i \in DOMAIN s /\ i \in 1..n /\ p \in 1..n
      BY <1>1, <1>2, <1>3
    <3>2. t.trigger < s[p].trigger
      BY <3>1, <1>12 DEF AlarmTimerCompare, Timer
    <3>3. s[p].trigger <= s[i].trigger
      <4>1. CASE p = i
        BY <4>1, <3>1, <1>12 DEF Timer
      <4>2. CASE p < i
        <5>1. Precedes(s[p], s[i])
          BY <3>1, <4>2 DEF Ordered
        <5> QED
          BY <5>1, <3>1, <1>12 DEF Precedes, Timer
      <4> QED
        BY <4>1, <4>2
    <3> QED
      BY <3>1, <3>2, <3>3, <1>12 DEF Precedes, Timer
  <2> QED
    BY <2>1
<1>15. ASSUME NEW i \in 1..(n + 1), NEW j \in 1..(n + 1), i < j
       PROVE  Precedes(r[i], r[j])
  <2>1. CASE j < p
    BY <1>1, <1>11, <1>15, <2>1 DEF Ordered
  <2>2. CASE j = p
    BY <1>11, <1>13, <1>15, <2>2
  <2>3. CASE j > p /\ i = p
    BY <1>11, <1>14, <1>15, <2>3
  <2>4. CASE j > p /\ i < p
    BY <1>1, <1>11, <1>15, <2>4 DEF Ordered
  <2>5. CASE j > p /\ i > p
    <3>1. PICK k \in 1..n, l \in 1..n : k = i - 1 /\ l = j - 1 /\ k < l /\ r[i] = s[k] /\ r[j] = s[l]
      BY <1>11, <1>15, <2>5
    <3> QED
      BY <1>1, <3>1 DEF Ordered
  <2> QED
    BY <2>1, <2>2, <2>3, <2>4, <2>5
<1>16. ASSUME NEW i \in 1..(n + 1), NEW j \in 1..(n + 1), r[i].id = r[j].id
       PROVE  i = j
  <2>1. t.id \in Nat /\ \A k \in 1..n : s[k].id \in Nat /\ s[k].id < t.id
    BY <1>1, <1>12, Zenon DEF Timer
  <2>9. ASSUME NEW k \in 1..(n + 1), k # p
        PROVE  r[k].id # t.id
    <3>1. PICK l \in 1..n : r[k] = s[l]
      BY <1>11, <2>9
    <3>2. s[l].id \in Nat /\ s[l].id < t.id
      BY <2>1
    <3> QED
      BY <2>1, <3>1, <3>2
  <2>2. CASE i = p
    BY <1>11, <1>16, <2>9, <2>2
  <2>3. CASE j = p
    BY <1>11, <1>16, <2>9, <2>3
  <2>4. CASE i # p /\ j # p
    <3>1. PICK k \in 1..n : r[i] = s[k] /\ k = IF i < p THEN i ELSE i - 1
      BY <1>11, <2>4
    <3>2. PICK l \in 1..n : r[j] = s[l] /\ l = IF j < p THEN j ELSE j - 1
      BY <1>11, <2>4
    <3>3. k = l
      BY <1>1, <1>16, <3>1, <3>2 DEF IdsApart
    <3> QED
      BY <2>4, <3>1, <3>2, <3>3
  <2> QED
    BY <2>2, <2>3, <2>4
<1>17. ASSUME NEW j \in 1..(n + 1)
       PROVE  r[j] = t \/ \E i \in DOMAIN s : r[j] = s[i]
  <2>1. CASE j < p
    BY <1>1, <1>11, <2>1
  <2>2. CASE j > p
    BY <1>1, <1>11, <2>2
  <2> QED
    BY <1>11, <2>1, <2>2
<1> QED
  BY <1>7, <1>9, <1>10, <1>15, <1>16, <1>17 DEF Ordered, IdsApart

-----------------------------------------------------------------------------
\* A timer's number is one that was given out, and its handler ran if and only
\* if it is timed out.
Linked(s, n, tr) ==
  \A i \in DOMAIN s : s[i].id < n /\ (tr[s[i].id] = 1 <=> s[i].timeouted)

\* The same of an execution.
Framed(fs, n, tr) ==
  \A f \in DOMAIN fs : fs[f].id < n /\ (fs[f].timeout <=> tr[fs[f].id] = 1)

\* No handler ran twice, and none of a timer that is still to come.
Counted(n, tr) == \A k \in 0..(MaxId - 1) : tr[k] <= 1 /\ (k >= n => tr[k] = 0)

\* ContextAlive and ArmedInTime, of any state.
Alive(s, fs) ==
  \A i \in DOMAIN s : ~s[i].timeouted => \E f \in DOMAIN fs : fs[f].id = s[i].id
Armed(s, h, it, ra, ro) ==
  \A i \in DOMAIN s : ~s[i].timeouted /\ ~ro =>
    \/ ra
    \/ it # Disarmed /\ it <= (IF s[i].trigger > h THEN s[i].trigger ELSE h) + Micro

AlarmTypes ==
  /\ hrtime \in Nat /\ _set \in Seq(Timer) /\ nextId \in 0..MaxId /\ itimer \in Int
  /\ raised \in BOOLEAN /\ frames \in Seq(Execution) /\ rounded \in BOOLEAN
  /\ triggers \in [0..(MaxId - 1) -> Nat]

\* The inductive invariant.  It adds to AlarmsKept that no two timers of the set
\* share a number, that every number is below nextId, and that the flag of a
\* timer, that of its execution and the count of its handler agree.
AlarmInv ==
  /\ AlarmTypes
  /\ Ordered(_set) /\ IdsApart(_set)
  /\ Linked(_set, nextId, triggers) /\ Framed(frames, nextId, triggers)
  /\ Counted(nextId, triggers)
  /\ Alive(_set, frames) /\ Armed(_set, hrtime, itimer, raised, rounded)

\* What a timer of the set holds.
LEMMA TimerFacts ==
  ASSUME NEW s \in Seq(Timer), NEW i \in DOMAIN s
  PROVE  s[i] \in Timer /\ s[i].id \in Nat /\ s[i].trigger \in Nat /\ s[i].timeouted \in BOOLEAN
<1>1. s[i] \in Timer
  BY LenProperties
<1> QED
  BY <1>1 DEF Timer

\* The same of an execution.
LEMMA FrameFacts ==
  ASSUME NEW fs \in Seq(Execution), NEW f \in DOMAIN fs
  PROVE  fs[f] \in Execution /\ fs[f].id \in Nat /\ fs[f].timeout \in BOOLEAN
<1>1. fs[f] \in Execution
  BY LenProperties
<1> QED
  BY <1>1 DEF Execution

\* Whole microseconds are not more than the time asked for.
LEMMA WholeMicros ==
  ASSUME NEW a \in Nat
  PROVE  a \div Micro \in Nat /\ (a \div Micro) * Micro <= a
BY AlarmConstants

\* Arming for one timer arms for every later one.
LEMMA ArmedFrom ==
  ASSUME NEW s \in Seq(Timer), Ordered(s), NEW k \in DOMAIN s, NEW h \in Nat, NEW ra, NEW it, NEW ro,
         NEW micros, micros = IF s[k].trigger >= h THEN (s[k].trigger - h) \div Micro ELSE 1,
         it = IF micros = 0 THEN Disarmed ELSE h + micros * Micro,
         ro \in BOOLEAN, ro <=> micros = 0,
         \A i \in DOMAIN s : i < k => s[i].timeouted
  PROVE  Armed(s, h, it, ra, ro) /\ it \in Int
<1>1. PICK t \in Nat : t = s[k].trigger
  BY TimerFacts
<1>2. micros \in Nat /\ (t >= h => h + micros * Micro <= t) /\ (~(t >= h) => micros = 1)
  <2>1. CASE t >= h
    <3>1. PICK a \in Nat : a = t - h
      BY <2>1
    <3>2. a \div Micro \in Nat /\ (a \div Micro) * Micro <= a
      BY WholeMicros
    <3>3. micros = a \div Micro
      BY <1>1, <2>1, <3>1
    <3>4. PICK b \in Nat : b = (a \div Micro) * Micro
      BY <3>2, AlarmConstants
    <3>5. h + b <= t
      BY <3>1, <3>2, <3>4
    <3> QED
      BY <2>1, <3>2, <3>3, <3>4, <3>5
  <2>2. CASE ~(t >= h)
    BY <1>1, <2>2
  <2> QED
    BY <2>1, <2>2
<1>3. PICK e \in Nat : e = micros * Micro /\ (micros = 1 => e = Micro)
  BY <1>2, AlarmConstants
<1>5. it \in Int
  BY <1>3 DEF Disarmed
<1>4. ASSUME NEW i \in DOMAIN s, ~s[i].timeouted, ~ro
      PROVE  it # Disarmed /\ it <= (IF s[i].trigger > h THEN s[i].trigger ELSE h) + Micro
  <2>1. PICK u \in Nat : u = s[i].trigger
    BY TimerFacts
  <2>2. t <= u
    <3>1. ~(i < k) /\ i \in Nat /\ k \in Nat
      BY <1>4, LenProperties
    <3>2. CASE i = k
      BY <1>1, <2>1, <3>2
    <3>3. CASE k < i
      <4>1. Precedes(s[k], s[i])
        BY <3>3 DEF Ordered
      <4> QED
        BY <1>1, <2>1, <4>1 DEF Precedes
    <3> QED
      BY <3>1, <3>2, <3>3
  <2>3. it = h + e
    BY <1>3, <1>4
  <2>4. CASE t >= h
    <3>1. h + e <= t
      BY <1>2, <1>3, <2>4
    <3> QED
      BY <2>1, <2>2, <2>3, <3>1, <2>4, AlarmConstants DEF Disarmed
  <2>5. CASE ~(t >= h)
    <3>1. e = Micro
      BY <1>2, <1>3, <2>5
    <3> QED
      BY <2>1, <2>3, <3>1, AlarmConstants DEF Disarmed
  <2> QED
    BY <2>4, <2>5
<1> QED
  BY <1>4, <1>5 DEF Armed

\* The initial state satisfies the invariant.
LEMMA AlarmInitInv == AlarmInit => AlarmInv
<1> SUFFICES ASSUME AlarmInit PROVE AlarmInv
  OBVIOUS
<1> USE DEF AlarmInit
<1>1. DOMAIN _set = {} /\ DOMAIN frames = {}
  OBVIOUS
<1>2. AlarmTypes
  <2>1. _set \in Seq(Timer) /\ frames \in Seq(Execution)
    OBVIOUS
  <2>2. raised \in BOOLEAN /\ rounded \in BOOLEAN
    BY Zenon
  <2>3. hrtime \in Nat /\ nextId \in 0..MaxId /\ itimer \in Int /\ triggers \in [0..(MaxId - 1) -> Nat]
    BY AlarmConstants DEF Disarmed
  <2> QED
    BY <2>1, <2>2, <2>3 DEF AlarmTypes
<1>3. Counted(nextId, triggers)
  BY AlarmConstants DEF Counted
<1> QED
  BY <1>1, <1>2, <1>3 DEF AlarmInv, Ordered, IdsApart, Linked, Framed, Alive, Armed

\* create_timer keeps the invariant.
LEMMA ExecuteKeeps ==
  ASSUME AlarmInv, NEW timeout \in Limits, Execute(timeout)
  PROVE  AlarmInv'
<1> DEFINE fresh == [id |-> nextId, trigger |-> hrtime + timeout, timeouted |-> FALSE]
           frame == [id |-> nextId, timeout |-> FALSE, pc |-> "run"]
<1>1. /\ hrtime \in Nat /\ _set \in Seq(Timer) /\ nextId \in 0..(MaxId - 1) /\ MaxId \in Nat
      /\ frames \in Seq(Execution) /\ triggers \in [0..(MaxId - 1) -> Nat] /\ raised \in BOOLEAN
      /\ hrtime' = hrtime /\ raised' = raised /\ triggers' = triggers /\ nextId' = nextId + 1
      /\ frames' = <<frame>> \o frames /\ timeout \in Nat
  BY AlarmConstants DEF AlarmInv, AlarmTypes, Execute
<1>2. fresh \in Timer /\ fresh.id = nextId /\ fresh.timeouted = FALSE
  BY <1>1 DEF Timer
<1>3. frame \in Execution /\ frame.id = nextId /\ frame.timeout = FALSE
  BY <1>1 DEF Execution
<1>4. PICK d : d = DropTimeouted(_set)
  OBVIOUS
<1>5. _set' = Insert(fresh, d)
  BY <1>4 DEF Execute
<1> HIDE DEF fresh, frame
<1>6. /\ d \in Seq(Timer) /\ Ordered(d) /\ IdsApart(d)
      /\ \A j \in DOMAIN d : \E i \in DOMAIN _set : d[j] = _set[i]
  BY <1>1, <1>4, DropThins, ThinsKeeps DEF AlarmInv
<1>7. \A i \in DOMAIN _set : _set[i].id < nextId
  BY DEF AlarmInv, Linked
<1>8. \A j \in DOMAIN d : d[j].id < fresh.id
  BY <1>2, <1>6, <1>7
<1>9. /\ _set' \in Seq(Timer) /\ _set' # <<>> /\ Ordered(_set') /\ IdsApart(_set')
      /\ \A j \in DOMAIN _set' : _set'[j] = fresh \/ \E i \in DOMAIN d : _set'[j] = d[i]
  BY <1>2, <1>5, <1>6, <1>8, InsertFacts
<1>10. \A j \in DOMAIN _set' : _set'[j] = fresh \/ \E i \in DOMAIN _set : _set'[j] = _set[i]
  BY <1>6, <1>9
<1>11. /\ frames' \in Seq(Execution) /\ Len(frames') = Len(frames) + 1 /\ frames'[1] = frame
       /\ \A f \in 1..Len(frames) : frames'[f + 1] = frames[f]
       /\ \A f \in 2..(Len(frames) + 1) : frames'[f] = frames[f - 1]
  BY <1>1, <1>3, PushFacts
<1>12. PICK m \in Nat : m = Len(frames) /\ DOMAIN frames = 1..m /\ DOMAIN frames' = 1..(m + 1)
  BY <1>1, <1>11, LenProperties
<1>13. triggers[nextId] = 0 /\ Counted(nextId', triggers')
  BY <1>1 DEF AlarmInv, Counted
<1>14. Linked(_set', nextId', triggers')
  <2> SUFFICES ASSUME NEW j \in DOMAIN _set'
               PROVE  _set'[j].id < nextId + 1 /\ (triggers[_set'[j].id] = 1 <=> _set'[j].timeouted)
    BY <1>1 DEF Linked
  <2>1. CASE _set'[j] = fresh
    BY <1>1, <1>2, <1>13, <2>1
  <2>2. CASE \E i \in DOMAIN _set : _set'[j] = _set[i]
    <3>1. PICK i \in DOMAIN _set : _set'[j] = _set[i]
      BY <2>2
    <3>2. _set[i].id \in Nat /\ _set[i].id < nextId /\ (triggers[_set[i].id] = 1 <=> _set[i].timeouted)
      BY <1>1, TimerFacts DEF AlarmInv, Linked
    <3> QED
      BY <1>1, <3>1, <3>2
  <2> QED
    BY <1>10, <2>1, <2>2
<1>15. Framed(frames', nextId', triggers')
  <2> SUFFICES ASSUME NEW f \in DOMAIN frames'
               PROVE  frames'[f].id < nextId + 1 /\ (frames'[f].timeout <=> triggers[frames'[f].id] = 1)
    BY <1>1 DEF Framed
  <2>1. CASE f = 1
    BY <1>1, <1>3, <1>11, <1>13, <2>1
  <2>2. CASE f # 1
    <3>1. PICK g \in DOMAIN frames : frames'[f] = frames[g]
      <4>1. f \in 2..(m + 1) /\ f - 1 \in 1..m
        BY <1>12, <2>2
      <4> QED
        BY <1>11, <1>12, <4>1
    <3>2. frames[g].id \in Nat /\ frames[g].id < nextId /\ (frames[g].timeout <=> triggers[frames[g].id] = 1)
      BY <1>1, FrameFacts DEF AlarmInv, Framed
    <3>3. frames[g].id < nextId + 1
      BY <1>1, <3>2
    <3> QED
      BY <3>1, <3>2, <3>3, Zenon
  <2> QED
    BY <2>1, <2>2
<1>16. Alive(_set', frames')
  <2> SUFFICES ASSUME NEW j \in DOMAIN _set', ~_set'[j].timeouted
               PROVE  \E f \in DOMAIN frames' : frames'[f].id = _set'[j].id
    BY DEF Alive
  <2>1. CASE _set'[j] = fresh
    BY <1>2, <1>3, <1>11, <1>12, <2>1
  <2>2. CASE \E i \in DOMAIN _set : _set'[j] = _set[i]
    <3>1. PICK i \in DOMAIN _set : _set'[j] = _set[i]
      BY <2>2
    <3>2. PICK f \in DOMAIN frames : frames[f].id = _set[i].id
      BY <3>1 DEF AlarmInv, Alive
    <3>3. f + 1 \in DOMAIN frames' /\ frames'[f + 1] = frames[f]
      BY <1>11, <1>12
    <3> QED
      BY <3>1, <3>2, <3>3
  <2> QED
    BY <1>10, <2>1, <2>2
<1>17. Armed(_set', hrtime', itimer', raised', rounded') /\ itimer' \in Int /\ rounded' \in BOOLEAN
  <2>1. 1 \in DOMAIN _set' /\ \A i \in DOMAIN _set' : ~(i < 1)
    BY <1>9, LenProperties, EmptySeq
  <2>2. PICK micros : micros = IF _set'[1].trigger >= hrtime THEN (_set'[1].trigger - hrtime) \div Micro ELSE 1
    OBVIOUS
  <2>3. itimer' = (IF micros = 0 THEN Disarmed ELSE hrtime + micros * Micro) /\ rounded' = (micros = 0)
    BY <2>2 DEF Execute, SetNextITimer
  <2> QED
    BY <1>1, <1>9, <2>1, <2>2, <2>3, ArmedFrom, Zenon
<1>18. AlarmTypes'
  <2>1. nextId + 1 \in 0..MaxId
    BY <1>1, AlarmConstants
  <2> QED
    BY <1>1, <1>9, <1>11, <1>17, <2>1, Zenon DEF AlarmTypes
<1> QED
  BY <1>9, <1>13, <1>14, <1>15, <1>16, <1>17, <1>18 DEF AlarmInv

\* The return of the script keeps the invariant: a timed-out execution leaves a
\* timer that is timed out.
LEMMA RunReturnsKeeps ==
  ASSUME AlarmInv, RunReturns
  PROVE  AlarmInv'
<1>1. /\ _set \in Seq(Timer) /\ frames \in Seq(Execution) /\ frames # <<>>
      /\ hrtime' = hrtime /\ _set' = _set /\ nextId' = nextId /\ itimer' = itimer
      /\ raised' = raised /\ rounded' = rounded /\ triggers' = triggers
  BY DEF AlarmInv, AlarmTypes, RunReturns
<1>2. /\ 1 \in DOMAIN frames
      /\ frames[1].timeout <=> triggers[frames[1].id] = 1
  <2>1. 1 \in DOMAIN frames
    BY <1>1, LenProperties, EmptySeq
  <2> QED
    BY <2>1, Zenon DEF AlarmInv, Framed
<1>3. PICK m \in Nat : m = Len(frames) /\ DOMAIN frames = 1..m
  BY <1>1, LenProperties
<1>4. CASE frames[1].timeout
  <2>1. /\ frames' \in Seq(Execution) /\ Len(frames') = m - 1
        /\ \A f \in 1..(m - 1) : frames'[f] = frames[f + 1]
        /\ \A f \in 2..m : frames'[f - 1] = frames[f]
    BY <1>1, <1>3, <1>4, PopFacts DEF RunReturns
  <2>2. DOMAIN frames' = 1..(m - 1)
    BY <1>3, <2>1, LenProperties
  <2>3. Framed(frames', nextId, triggers)
    <3>1. \A f \in DOMAIN frames' : f + 1 \in DOMAIN frames /\ frames'[f] = frames[f + 1]
      BY <1>3, <2>1, <2>2
    <3> QED
      BY <3>1, Zenon DEF AlarmInv, Framed
  <2>4. Alive(_set, frames')
    <3> SUFFICES ASSUME NEW i \in DOMAIN _set, ~_set[i].timeouted
                 PROVE  \E f \in DOMAIN frames' : frames'[f].id = _set[i].id
      BY DEF Alive
    <3>1. PICK f \in DOMAIN frames : frames[f].id = _set[i].id
      BY DEF AlarmInv, Alive
    <3>2. triggers[_set[i].id] # 1
      BY Zenon DEF AlarmInv, Linked
    <3>3. f # 1
      BY <1>2, <1>4, <3>1, <3>2, Zenon
    <3>4. f - 1 \in DOMAIN frames' /\ frames'[f - 1] = frames[f]
      BY <1>3, <2>1, <2>2, <3>3
    <3> QED
      BY <3>1, <3>4
  <2> QED
    BY <1>1, <2>1, <2>3, <2>4 DEF AlarmInv, AlarmTypes
<1>5. CASE ~frames[1].timeout
  <2>1. PICK fr : fr = [frames[1] EXCEPT !.pc = "close"]
    BY Zenon
  <2>2. fr \in Execution /\ fr.id = frames[1].id /\ fr.timeout = frames[1].timeout
    BY <1>1, <1>2, <2>1, FrameFacts, Zenon DEF Execution
  <2>3. frames' = [frames EXCEPT ![1] = fr]
    BY <1>5, <2>1 DEF RunReturns
  <2>4. /\ frames' \in Seq(Execution) /\ Len(frames') = m /\ frames'[1] = fr
        /\ \A f \in 2..m : frames'[f] = frames[f]
    BY <1>1, <1>3, <2>2, <2>3, SetFacts
  <2>5. DOMAIN frames' = DOMAIN frames
    BY <1>3, <2>4, LenProperties
  <2>6. \A f \in DOMAIN frames : frames'[f].id = frames[f].id /\ frames'[f].timeout = frames[f].timeout
    BY <1>3, <2>2, <2>4
  <2>7. Framed(frames', nextId, triggers)
    BY <2>5, <2>6, Zenon DEF AlarmInv, Framed
  <2>8. Alive(_set, frames')
    BY <2>5, <2>6, Zenon DEF AlarmInv, Alive
  <2> QED
    BY <1>1, <2>4, <2>7, <2>8 DEF AlarmInv, AlarmTypes
<1> QED
  BY <1>4, <1>5

\* AlarmTimerLathe::close keeps the invariant: the timer goes before the context
\* on the frame does.
LEMMA CloseTimerKeeps ==
  ASSUME AlarmInv, CloseTimer
  PROVE  AlarmInv'
<1>1. /\ _set \in Seq(Timer) /\ frames \in Seq(Execution) /\ frames # <<>>
      /\ hrtime' = hrtime /\ nextId' = nextId /\ raised' = raised /\ triggers' = triggers
      /\ frames' = Tail(frames) /\ _set' = Erase(_set, frames[1].id) /\ hrtime \in Nat
      /\ Ordered(_set) /\ IdsApart(_set)
  BY DEF AlarmInv, AlarmTypes, CloseTimer
<1>2. /\ _set' \in Seq(Timer) /\ Thins(_set', _set)
      /\ \A j \in DOMAIN _set' : _set'[j].id # frames[1].id
  BY <1>1, EraseThins
<1>3. /\ Ordered(_set') /\ IdsApart(_set')
      /\ \A j \in DOMAIN _set' : \E i \in DOMAIN _set : _set'[j] = _set[i]
  BY <1>1, <1>2, ThinsKeeps
<1>4. PICK m \in Nat : m = Len(frames) /\ DOMAIN frames = 1..m
  BY <1>1, LenProperties
<1>5. /\ frames' \in Seq(Execution) /\ Len(frames') = m - 1
      /\ \A f \in 1..(m - 1) : frames'[f] = frames[f + 1]
      /\ \A f \in 2..m : frames'[f - 1] = frames[f]
  BY <1>1, <1>4, PopFacts
<1>6. DOMAIN frames' = 1..(m - 1)
  BY <1>4, <1>5, LenProperties
<1>7. Linked(_set', nextId, triggers)
  BY <1>3, Zenon DEF AlarmInv, Linked
<1>8. Framed(frames', nextId, triggers)
  <2>1. \A f \in DOMAIN frames' : f + 1 \in DOMAIN frames /\ frames'[f] = frames[f + 1]
    BY <1>4, <1>5, <1>6
  <2> QED
    BY <2>1, Zenon DEF AlarmInv, Framed
<1>9. Alive(_set', frames')
  <2> SUFFICES ASSUME NEW j \in DOMAIN _set', ~_set'[j].timeouted
               PROVE  \E f \in DOMAIN frames' : frames'[f].id = _set'[j].id
    BY DEF Alive
  <2>1. PICK i \in DOMAIN _set : _set'[j] = _set[i]
    BY <1>3
  <2>2. PICK f \in DOMAIN frames : frames[f].id = _set[i].id
    BY <2>1, Zenon DEF AlarmInv, Alive
  <2>3. f # 1
    BY <1>2, <2>1, <2>2
  <2>4. f - 1 \in DOMAIN frames' /\ frames'[f - 1] = frames[f]
    BY <1>4, <1>5, <1>6, <2>3
  <2> QED
    BY <2>1, <2>2, <2>4
<1>10. Armed(_set', hrtime, itimer', raised, rounded') /\ itimer' \in Int /\ rounded' \in BOOLEAN
  <2>1. CASE _set' = <<>>
    <3>1. itimer' = Disarmed /\ rounded' = FALSE /\ DOMAIN _set' = {}
      BY <2>1 DEF CloseTimer
    <3>2. Armed(_set', hrtime, itimer', raised, rounded')
      BY <3>1, Zenon DEF Armed
    <3>3. itimer' \in Int
      BY <3>1 DEF Disarmed
    <3> QED
      BY <3>1, <3>2, <3>3, Zenon
  <2>2. CASE _set' # <<>>
    <3>1. 1 \in DOMAIN _set' /\ \A i \in DOMAIN _set' : ~(i < 1)
      BY <1>2, <2>2, LenProperties, EmptySeq
    <3>2. PICK micros : micros = IF _set'[1].trigger >= hrtime THEN (_set'[1].trigger - hrtime) \div Micro ELSE 1
      OBVIOUS
    <3>3. itimer' = (IF micros = 0 THEN Disarmed ELSE hrtime + micros * Micro) /\ rounded' = (micros = 0)
      BY <2>2, <3>2 DEF CloseTimer, SetNextITimer
    <3> QED
      BY <1>1, <1>2, <1>3, <3>1, <3>2, <3>3, ArmedFrom, Zenon
  <2> QED
    BY <2>1, <2>2
<1> QED
  BY <1>1, <1>2, <1>3, <1>5, <1>7, <1>8, <1>9, <1>10 DEF AlarmInv, AlarmTypes

\* DispatchSignal keeps the invariant: the handlers that run are those of the past
\* timers that were not timed out, each of which is one timer of the set.
LEMMA DispatchSignalKeeps ==
  ASSUME AlarmInv, DispatchSignal
  PROVE  AlarmInv'
<1>1. /\ hrtime \in Nat /\ _set \in Seq(Timer) /\ nextId \in 0..MaxId /\ frames \in Seq(Execution)
      /\ triggers \in [0..(MaxId - 1) -> Nat] /\ MaxId \in Nat
      /\ hrtime' = hrtime /\ nextId' = nextId /\ raised' = FALSE
      /\ Ordered(_set) /\ IdsApart(_set)
  BY AlarmConstants DEF AlarmInv, AlarmTypes, DispatchSignal
<1>2. PICK n \in Nat : n = Len(_set) /\ DOMAIN _set = 1..n
  BY <1>1, LenProperties
<1>3. PICK m \in Nat : m = Len(frames) /\ DOMAIN frames = 1..m
  BY <1>1, LenProperties
<1> DEFINE P == {i \in DOMAIN _set : _set[i].trigger > hrtime}
<1>4. PICK next \in 1..(n + 1) : next = First(P, _set) /\ (next \in P \/ next = n + 1)
  BY <1>1, <1>2, FirstFacts, P \in SUBSET DOMAIN _set, Zenon
<1>5. PICK past \in 0..n : past = next - 1
  <2>1. next - 1 \in 0..n
    OBVIOUS
  <2> QED
    BY <2>1, Zenon
<1> DEFINE H == Handled(past)
<1>6. /\ _set' = [i \in DOMAIN _set |-> IF i <= past THEN [_set[i] EXCEPT !.timeouted = TRUE] ELSE _set[i]]
      /\ frames' = [f \in DOMAIN frames |->
           IF frames[f].id \in H THEN [frames[f] EXCEPT !.timeout = TRUE] ELSE frames[f]]
      /\ triggers' = [i \in DOMAIN triggers |-> triggers[i] + IF i \in H THEN 1 ELSE 0]
      /\ IF next > Len(_set) THEN itimer' = itimer /\ rounded' = rounded
                             ELSE SetNextITimer(_set[next].trigger)
  BY <1>4, <1>5 DEF DispatchSignal
<1>7. \A k : k \in H <=> \E j \in 1..past : ~_set[j].timeouted /\ _set[j].id = k
  BY DEF Handled
<1> HIDE DEF P, H
<1>8. /\ _set' \in Seq(Timer) /\ DOMAIN _set' = DOMAIN _set
      /\ \A i \in DOMAIN _set :
           /\ _set'[i].id = _set[i].id /\ _set'[i].trigger = _set[i].trigger
           /\ i <= past => _set'[i].timeouted = TRUE
           /\ ~(i <= past) => _set'[i].timeouted = _set[i].timeouted
  <2>1. ASSUME NEW i \in DOMAIN _set
        PROVE  /\ _set'[i] \in Timer
               /\ _set'[i].id = _set[i].id /\ _set'[i].trigger = _set[i].trigger
               /\ i <= past => _set'[i].timeouted = TRUE
               /\ ~(i <= past) => _set'[i].timeouted = _set[i].timeouted
    <3>1. _set[i] \in Timer
      BY <1>1, TimerFacts
    <3> QED
      BY <1>6, <3>1, Zenon DEF Timer
  <2>2. _set' = [i \in 1..n |-> _set'[i]]
    BY <1>2, <1>6
  <2>3. _set' \in [1..n -> Timer]
    BY <1>2, <2>1, <2>2, Zenon
  <2>4. _set' \in Seq(Timer)
    BY <2>3, SeqDef, Zenon
  <2>5. DOMAIN _set' = DOMAIN _set
    BY <1>2, <2>2, Zenon
  <2> QED
    BY <2>1, <2>4, <2>5, Zenon
<1>9. /\ frames' \in Seq(Execution) /\ DOMAIN frames' = DOMAIN frames
      /\ \A f \in DOMAIN frames :
           /\ frames'[f].id = frames[f].id
           /\ frames[f].id \in H => frames'[f].timeout = TRUE
           /\ frames[f].id \notin H => frames'[f].timeout = frames[f].timeout
  <2>1. ASSUME NEW f \in DOMAIN frames
        PROVE  /\ frames'[f] \in Execution
               /\ frames'[f].id = frames[f].id
               /\ frames[f].id \in H => frames'[f].timeout = TRUE
               /\ frames[f].id \notin H => frames'[f].timeout = frames[f].timeout
    <3>1. frames[f] \in Execution
      BY <1>1, FrameFacts
    <3> QED
      BY <1>6, <3>1, Zenon DEF Execution
  <2>2. frames' = [f \in 1..m |-> frames'[f]]
    BY <1>3, <1>6
  <2>3. frames' \in [1..m -> Execution]
    BY <1>3, <2>1, <2>2, Zenon
  <2>4. frames' \in Seq(Execution)
    BY <2>3, SeqDef, Zenon
  <2>5. DOMAIN frames' = DOMAIN frames
    BY <1>3, <2>2, Zenon
  <2> QED
    BY <2>1, <2>4, <2>5, Zenon
<1>10. /\ triggers' \in [0..(MaxId - 1) -> Nat]
       /\ \A k \in 0..(MaxId - 1) : /\ k \in H => triggers'[k] = triggers[k] + 1
                                    /\ k \notin H => triggers'[k] = triggers[k]
  BY <1>1, <1>6
<1>11. \A i \in DOMAIN _set : _set[i].id \in 0..(MaxId - 1) /\ _set[i].id < nextId
  <2> SUFFICES ASSUME NEW i \in DOMAIN _set
               PROVE  _set[i].id \in 0..(MaxId - 1) /\ _set[i].id < nextId
    OBVIOUS
  <2>1. PICK k : k = _set[i].id
    OBVIOUS
  <2>2. k \in Nat /\ k < nextId
    BY <1>1, <2>1, TimerFacts, Zenon DEF AlarmInv, Linked
  <2>3. nextId \in Nat /\ MaxId \in Nat /\ nextId <= MaxId
    BY <1>1, AlarmConstants
  <2> QED
    BY <2>1, <2>2, <2>3
<1>12. \A f \in DOMAIN frames : frames[f].id \in 0..(MaxId - 1) /\ frames[f].id < nextId
  <2> SUFFICES ASSUME NEW f \in DOMAIN frames
               PROVE  frames[f].id \in 0..(MaxId - 1) /\ frames[f].id < nextId
    OBVIOUS
  <2>1. PICK k : k = frames[f].id
    OBVIOUS
  <2>2. k \in Nat /\ k < nextId
    BY <1>1, <2>1, FrameFacts, Zenon DEF AlarmInv, Framed
  <2>3. nextId \in Nat /\ MaxId \in Nat /\ nextId <= MaxId
    BY <1>1, AlarmConstants
  <2> QED
    BY <2>1, <2>2, <2>3
<1>13. \A k \in H : k \in 0..(MaxId - 1) /\ k < nextId /\ triggers[k] = 0
  <2> SUFFICES ASSUME NEW k \in H
               PROVE  k \in 0..(MaxId - 1) /\ k < nextId /\ triggers[k] = 0
    OBVIOUS
  <2>1. PICK j \in 1..past : ~_set[j].timeouted /\ _set[j].id = k
    BY <1>7
  <2>2. j \in DOMAIN _set
    BY <1>2
  <2>3. k \in 0..(MaxId - 1) /\ k < nextId
    BY <1>11, <2>1, <2>2
  <2>4. triggers[k] # 1
    BY <2>1, <2>2, Zenon DEF AlarmInv, Linked
  <2>5. triggers[k] \in Nat /\ triggers[k] <= 1
    BY <1>1, <2>3 DEF AlarmInv, Counted
  <2> QED
    BY <2>3, <2>4, <2>5
<1>14. Ordered(_set') /\ IdsApart(_set')
  <2>1. ASSUME NEW i \in DOMAIN _set', NEW j \in DOMAIN _set', i < j
        PROVE  Precedes(_set'[i], _set'[j])
    <3>1. Precedes(_set[i], _set[j])
      BY <1>1, <1>8, <2>1, Zenon DEF Ordered
    <3>2. /\ _set'[i].id = _set[i].id /\ _set'[i].trigger = _set[i].trigger
          /\ _set'[j].id = _set[j].id /\ _set'[j].trigger = _set[j].trigger
      BY <1>8, Zenon
    <3> QED
      BY <3>1, <3>2, Zenon DEF Precedes
  <2>2. ASSUME NEW i \in DOMAIN _set', NEW j \in DOMAIN _set', _set'[i].id = _set'[j].id
        PROVE  i = j
    <3>1. _set[i].id = _set[j].id
      BY <1>8, <2>2, Zenon
    <3> QED
      BY <1>1, <1>8, <3>1, Zenon DEF IdsApart
  <2> QED
    BY <2>1, <2>2, Zenon DEF Ordered, IdsApart
<1>15. Linked(_set', nextId, triggers')
  <2> SUFFICES ASSUME NEW i \in DOMAIN _set
               PROVE  _set'[i].id < nextId /\ (triggers'[_set'[i].id] = 1 <=> _set'[i].timeouted)
    BY <1>8 DEF Linked
  <2>1. PICK k \in 0..(MaxId - 1) : k = _set[i].id /\ k = _set'[i].id /\ k < nextId
    BY <1>8, <1>11
  <2>2. triggers[k] = 1 <=> _set[i].timeouted
    BY <2>1, Zenon DEF AlarmInv, Linked
  <2>3. k \in H <=> i <= past /\ ~_set[i].timeouted
    <3>1. ASSUME k \in H PROVE i <= past /\ ~_set[i].timeouted
      <4>1. PICK j \in 1..past : ~_set[j].timeouted /\ _set[j].id = k
        BY <1>7, <3>1
      <4>2. j \in DOMAIN _set /\ j <= past
        BY <1>2
      <4>3. j = i
        BY <1>1, <2>1, <4>1, <4>2, Zenon DEF IdsApart
      <4> QED
        BY <4>1, <4>2, <4>3
    <3>2. ASSUME i <= past, ~_set[i].timeouted PROVE k \in H
      <4>1. i \in 1..past
        BY <1>2, <3>2
      <4> QED
        BY <1>7, <2>1, <3>2, <4>1, Zenon
    <3> QED
      BY <3>1, <3>2
  <2>4. CASE k \in H
    <3>1. triggers'[k] = 1
      BY <1>10, <1>13, <2>4
    <3>2. _set'[i].timeouted = TRUE
      BY <1>8, <2>3, <2>4
    <3> QED
      BY <2>1, <3>1, <3>2, Zenon
  <2>5. CASE k \notin H /\ i <= past
    <3>1. triggers'[k] = triggers[k] /\ _set[i].timeouted
      BY <1>10, <2>3, <2>5, Zenon
    <3>2. _set'[i].timeouted = TRUE
      BY <1>8, <2>5
    <3> QED
      BY <2>1, <2>2, <3>1, <3>2, Zenon
  <2>6. CASE k \notin H /\ ~(i <= past)
    BY <1>8, <1>10, <2>1, <2>2, <2>6, Zenon
  <2> QED
    BY <2>4, <2>5, <2>6
<1>16. Framed(frames', nextId, triggers')
  <2> SUFFICES ASSUME NEW f \in DOMAIN frames
               PROVE  frames'[f].id < nextId /\ (frames'[f].timeout <=> triggers'[frames'[f].id] = 1)
    BY <1>9 DEF Framed
  <2>1. PICK k \in 0..(MaxId - 1) : k = frames[f].id /\ k = frames'[f].id /\ k < nextId
    BY <1>9, <1>12
  <2>2. frames[f].timeout <=> triggers[k] = 1
    BY <2>1, Zenon DEF AlarmInv, Framed
  <2>3. CASE k \in H
    <3>1. triggers'[k] = 1
      BY <1>10, <1>13, <2>3
    <3> QED
      BY <1>9, <2>1, <2>3, <3>1, Zenon
  <2>4. CASE k \notin H
    BY <1>9, <1>10, <2>1, <2>2, <2>4, Zenon
  <2> QED
    BY <2>3, <2>4
<1>17. Counted(nextId, triggers')
  <2> SUFFICES ASSUME NEW k \in 0..(MaxId - 1)
               PROVE  triggers'[k] <= 1 /\ (k >= nextId => triggers'[k] = 0)
    BY DEF Counted
  <2>1. CASE k \in H
    BY <1>1, <1>10, <1>13, <2>1
  <2>2. CASE k \notin H
    BY <1>10, <2>2, Zenon DEF AlarmInv, Counted
  <2> QED
    BY <2>1, <2>2
<1>18. Alive(_set', frames')
  <2> SUFFICES ASSUME NEW i \in DOMAIN _set, ~_set'[i].timeouted
               PROVE  \E f \in DOMAIN frames' : frames'[f].id = _set'[i].id
    BY <1>8 DEF Alive
  <2>1. ~_set[i].timeouted /\ _set'[i].id = _set[i].id
    BY <1>8, Zenon
  <2> QED
    BY <1>9, <2>1, Zenon DEF AlarmInv, Alive
<1>19. Armed(_set', hrtime, itimer', raised', rounded') /\ itimer' \in Int /\ rounded' \in BOOLEAN
  <2>1. CASE next > n
    <3>1. \A i \in DOMAIN _set' : i <= past
      BY <1>2, <1>5, <1>8, <2>1
    <3>2. \A i \in DOMAIN _set' : _set'[i].timeouted
      BY <1>8, <3>1, Zenon
    <3>3. itimer' = itimer /\ rounded' = rounded
      BY <1>2, <1>6, <2>1
    <3> QED
      BY <3>2, <3>3, Zenon DEF Armed, AlarmInv, AlarmTypes
  <2>2. CASE ~(next > n)
    <3>1. next \in DOMAIN _set' /\ \A i \in DOMAIN _set' : i < next => i <= past
      BY <1>2, <1>5, <1>8, <2>2
    <3>2. \A i \in DOMAIN _set' : i < next => _set'[i].timeouted
      BY <1>8, <3>1, Zenon
    <3>3. PICK micros : micros = IF _set'[next].trigger >= hrtime THEN (_set'[next].trigger - hrtime) \div Micro ELSE 1
      OBVIOUS
    <3>4. _set'[next].trigger = _set[next].trigger
      BY <1>8, <3>1
    <3>5. itimer' = (IF micros = 0 THEN Disarmed ELSE hrtime + micros * Micro) /\ rounded' = (micros = 0)
      BY <1>2, <1>6, <2>2, <3>3, <3>4 DEF SetNextITimer
    <3> QED
      BY <1>1, <1>8, <1>14, <3>1, <3>2, <3>3, <3>5, ArmedFrom, Zenon
  <2> QED
    BY <2>1, <2>2
<1> QED
  BY <1>1, <1>8, <1>9, <1>10, <1>14, <1>15, <1>16, <1>17, <1>18, <1>19, Zenon DEF AlarmInv, AlarmTypes

\* Every step keeps the invariant.
LEMMA AlarmStep == AlarmInv /\ [AlarmNext]_alarmVars => AlarmInv'
<1> SUFFICES ASSUME AlarmInv, [AlarmNext]_alarmVars PROVE AlarmInv'
  OBVIOUS
<1>1. CASE \E t \in Limits : Execute(t)
  BY <1>1, ExecuteKeeps
<1>2. CASE RunReturns
  BY <1>2, RunReturnsKeeps
<1>3. CASE CloseTimer
  BY <1>3, CloseTimerKeeps
<1>4. CASE Expire
  <2>1. /\ hrtime' = hrtime /\ _set' = _set /\ nextId' = nextId /\ frames' = frames
        /\ rounded' = rounded /\ triggers' = triggers /\ itimer' = Disarmed /\ raised' = TRUE
    BY <1>4 DEF Expire
  <2>2. itimer' \in Int
    BY <2>1 DEF Disarmed
  <2> QED
    BY <2>1, <2>2, Zenon DEF AlarmInv, AlarmTypes, Armed
<1>5. CASE DispatchSignal
  BY <1>5, DispatchSignalKeeps
<1>6. CASE Elapse
  <2>1. /\ hrtime' = hrtime + 1 /\ _set' = _set /\ nextId' = nextId /\ frames' = frames
        /\ rounded' = rounded /\ triggers' = triggers /\ itimer' = itimer /\ raised' = raised
        /\ hrtime \in Nat /\ _set \in Seq(Timer) /\ itimer \in Int
    BY <1>6 DEF Elapse, AlarmInv, AlarmTypes
  <2>2. \A i \in DOMAIN _set :
          itimer <= (IF _set[i].trigger > hrtime THEN _set[i].trigger ELSE hrtime) + Micro
            => itimer <= (IF _set[i].trigger > hrtime + 1 THEN _set[i].trigger ELSE hrtime + 1) + Micro
    <3> SUFFICES ASSUME NEW i \in DOMAIN _set, NEW t, t = _set[i].trigger
                 PROVE  itimer <= (IF t > hrtime THEN t ELSE hrtime) + Micro
                          => itimer <= (IF t > hrtime + 1 THEN t ELSE hrtime + 1) + Micro
      OBVIOUS
    <3>1. t \in Nat /\ hrtime \in Nat /\ itimer \in Int /\ Micro \in Nat
      BY <2>1, TimerFacts, AlarmConstants
    <3> QED
      BY <3>1
  <2>3. Armed(_set, hrtime', itimer, raised, rounded)
    BY <2>1, <2>2, Zenon DEF AlarmInv, Armed
  <2> QED
    BY <2>1, <2>3 DEF AlarmInv, AlarmTypes
<1>7. CASE UNCHANGED alarmVars
  BY <1>7 DEF alarmVars, AlarmInv, AlarmTypes
<1> QED
  BY <1>1, <1>2, <1>3, <1>4, <1>5, <1>6, <1>7 DEF AlarmNext

\* Time limits expire in order and within their bound, each triggers once, and a
\* limit that fires finds its execution on the stack, for any limits, any nesting
\* and any lateness of the alarm (AlarmTimerLathe, DoExecute).
THEOREM AlarmsAreKept == AlarmSpec => []AlarmsKept
<1>1. AlarmInv => AlarmsKept
  <2> SUFFICES ASSUME AlarmInv PROVE AlarmsKept
    OBVIOUS
  <2>1. InExpiryOrder /\ ContextAlive /\ ArmedInTime
    BY Zenon DEF AlarmInv, Ordered, Precedes, Alive, Armed, InExpiryOrder, ContextAlive, ArmedInTime
  <2>2. \A i \in DOMAIN triggers : triggers[i] <= 1
    BY DEF AlarmInv, AlarmTypes, Counted
  <2>3. \A f \in DOMAIN frames : frames[f].timeout <=> triggers[frames[f].id] = 1
    BY Zenon DEF AlarmInv, Framed
  <2> QED
    BY <2>1, <2>2, <2>3, Zenon DEF AlarmsKept, TriggerOnce
<1> QED
  BY <1>1, AlarmInitInv, AlarmStep, PTL DEF AlarmSpec

=============================================================================
