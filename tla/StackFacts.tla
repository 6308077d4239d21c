----------------------------- MODULE StackFacts -----------------------------
(***************************************************************************)
(* Stacks of calls, innermost first, as the models of the main thread use  *)
(* them, what a sequence without repetitions holds when it grows or        *)
(* shrinks, the parts of a sequence, and the least of a set of numbers.    *)
(***************************************************************************)
EXTENDS Integers, Sequences, Functions, SequenceTheorems, WellFoundedInduction, TLAPS

\* x is somewhere in s.
In(x, s) == \E i \in DOMAIN s : s[i] = x

\* Pushing a call.
LEMMA PushFacts ==
  ASSUME NEW S, NEW s \in Seq(S), NEW f \in S
  PROVE  /\ <<f>> \o s \in Seq(S) /\ Len(<<f>> \o s) = Len(s) + 1
         /\ (<<f>> \o s)[1] = f /\ <<f>> \o s # <<>>
         /\ \A i \in 1..Len(s) : (<<f>> \o s)[i + 1] = s[i]
         /\ \A i \in 2..(Len(s) + 1) : (<<f>> \o s)[i] = s[i - 1]
<1>1. <<f>> \in Seq(S) /\ Len(<<f>>) = 1 /\ <<f>>[1] = f /\ Len(s) \in Nat
  BY LenProperties
<1>2. /\ <<f>> \o s \in Seq(S) /\ Len(<<f>> \o s) = 1 + Len(s)
      /\ \A i \in 1..(1 + Len(s)) : (<<f>> \o s)[i] = IF i <= 1 THEN f ELSE s[i - 1]
  BY <1>1, ConcatProperties
<1> QED
  BY <1>1, <1>2, EmptySeq

\* Returning from the innermost call.
LEMMA PopFacts ==
  ASSUME NEW S, NEW s \in Seq(S), s # <<>>
  PROVE  /\ Tail(s) \in Seq(S) /\ Len(Tail(s)) = Len(s) - 1 /\ Len(s) \in Nat \ {0}
         /\ \A i \in 1..(Len(s) - 1) : Tail(s)[i] = s[i + 1]
         /\ \A i \in 2..Len(s) : Tail(s)[i - 1] = s[i]
BY HeadTailProperties, EmptySeq

\* Changing the innermost call.
LEMMA SetFacts ==
  ASSUME NEW S, NEW s \in Seq(S), s # <<>>, NEW f \in S
  PROVE  /\ [s EXCEPT ![1] = f] \in Seq(S) /\ Len([s EXCEPT ![1] = f]) = Len(s)
         /\ Len(s) \in Nat \ {0}
         /\ [s EXCEPT ![1] = f][1] = f /\ [s EXCEPT ![1] = f] # <<>>
         /\ \A i \in 2..Len(s) : [s EXCEPT ![1] = f][i] = s[i]
<1>1. Len(s) \in Nat \ {0}
  BY EmptySeq
<1>2. 1 \in 1..Len(s) /\ \A i \in 2..Len(s) : i \in 1..Len(s) /\ i # 1
  BY <1>1
<1> QED
  BY <1>1, <1>2, ExceptSeq, EmptySeq

\* Adding one at the end.
LEMMA AppendHolds ==
  ASSUME NEW S, NEW s \in Seq(S), NEW x \in S
  PROVE  /\ Append(s, x) \in Seq(S) /\ Append(s, x) # <<>>
         /\ Range(Append(s, x)) = Range(s) \cup {x}
         /\ IsInjective(s) /\ x \notin Range(s) => IsInjective(Append(s, x))
<1>1. /\ Append(s, x) \in Seq(S) /\ Len(Append(s, x)) = Len(s) + 1 /\ Len(s) \in Nat
      /\ \A i \in 1..Len(s) : Append(s, x)[i] = s[i]
      /\ Append(s, x)[Len(s) + 1] = x
  BY AppendProperties, LenProperties
<1>2. DOMAIN Append(s, x) = 1..(Len(s) + 1) /\ DOMAIN s = 1..Len(s)
  BY <1>1, LenProperties
<1>3. Range(Append(s, x)) = Range(s) \cup {x}
  BY <1>1, <1>2 DEF Range
<1>4. ASSUME IsInjective(s), x \notin Range(s) PROVE IsInjective(Append(s, x))
  <2> SUFFICES ASSUME NEW i \in 1..(Len(s) + 1), NEW j \in 1..(Len(s) + 1),
                      Append(s, x)[i] = Append(s, x)[j]
               PROVE  i = j
    BY <1>2 DEF IsInjective
  <2>1. \A k \in 1..Len(s) : s[k] # x
    BY <1>2, <1>4 DEF Range
  <2>2. \A k, l \in 1..Len(s) : s[k] = s[l] => k = l
    BY <1>2, <1>4 DEF IsInjective
  <2> QED
    BY <1>1, <2>1, <2>2
<1> QED
  BY <1>1, <1>3, <1>4, EmptySeq

\* Taking the first.
LEMMA TailHolds ==
  ASSUME NEW S, NEW s \in Seq(S), s # <<>>, IsInjective(s)
  PROVE  /\ Tail(s) \in Seq(S) /\ Head(s) \in S /\ Head(s) \in Range(s)
         /\ Range(s) = Range(Tail(s)) \cup {Head(s)}
         /\ Head(s) \notin Range(Tail(s))
         /\ IsInjective(Tail(s))
<1>1. /\ Tail(s) \in Seq(S) /\ Len(Tail(s)) = Len(s) - 1 /\ Len(s) \in Nat \ {0}
      /\ \A i \in 1..(Len(s) - 1) : Tail(s)[i] = s[i + 1]
      /\ \A i \in 2..Len(s) : Tail(s)[i - 1] = s[i]
  BY PopFacts
<1>2. DOMAIN s = 1..Len(s) /\ DOMAIN Tail(s) = 1..(Len(s) - 1) /\ Head(s) = s[1] /\ s[1] \in S
  BY <1>1, LenProperties, ElementOfSeq
<1>3. \A k, l \in 1..Len(s) : s[k] = s[l] => k = l
  BY <1>2 DEF IsInjective
<1>4. \A i \in 1..(Len(s) - 1) : Tail(s)[i] # Head(s)
  BY <1>1, <1>2, <1>3
<1>5. Range(Tail(s)) \subseteq Range(s) /\ Head(s) \in Range(s)
  <2>1. ASSUME NEW i \in 1..(Len(s) - 1) PROVE Tail(s)[i] \in Range(s)
    BY <1>1, <1>2 DEF Range
  <2> QED
    BY <1>1, <1>2, <2>1 DEF Range
<1>6. ASSUME NEW i \in 1..Len(s) PROVE s[i] = Head(s) \/ s[i] \in Range(Tail(s))
  <2>1. CASE i = 1
    BY <2>1, <1>2
  <2>2. CASE i # 1
    <3>1. i - 1 \in 1..(Len(s) - 1) /\ Tail(s)[i - 1] = s[i]
      BY <2>2, <1>1
    <3> QED
      BY <3>1, <1>2, Zenon DEF Range
  <2> QED
    BY <2>1, <2>2
<1>7. Range(s) = Range(Tail(s)) \cup {Head(s)}
  BY <1>2, <1>5, <1>6 DEF Range
<1>8. IsInjective(Tail(s))
  BY <1>1, <1>2, <1>3 DEF IsInjective
<1> QED
  BY <1>1, <1>2, <1>4, <1>5, <1>7, <1>8 DEF Range

\* Putting two together.
LEMMA ConcatHolds ==
  ASSUME NEW S, NEW s \in Seq(S), NEW t \in Seq(S), IsInjective(s), IsInjective(t),
         Range(s) \cap Range(t) = {}
  PROVE  IsInjective(s \o t)
<1>1. /\ Len(s) \in Nat /\ Len(t) \in Nat /\ DOMAIN s = 1..Len(s) /\ DOMAIN t = 1..Len(t)
      /\ DOMAIN (s \o t) = 1..(Len(s) + Len(t))
      /\ \A i \in 1..(Len(s) + Len(t)) :
           (s \o t)[i] = IF i <= Len(s) THEN s[i] ELSE t[i - Len(s)]
  BY ConcatProperties, LenProperties
<1>2. \A k, l \in 1..Len(s) : s[k] = s[l] => k = l
  BY <1>1 DEF IsInjective
<1>3. \A k, l \in 1..Len(t) : t[k] = t[l] => k = l
  BY <1>1 DEF IsInjective
<1>4. \A k \in 1..Len(s), l \in 1..Len(t) : s[k] # t[l]
  BY <1>1, Zenon DEF Range
<1> SUFFICES ASSUME NEW i \in 1..(Len(s) + Len(t)), NEW j \in 1..(Len(s) + Len(t)),
                    (s \o t)[i] = (s \o t)[j]
             PROVE  i = j
  BY <1>1 DEF IsInjective
<1>5. CASE i <= Len(s) /\ j <= Len(s)
  BY <1>1, <1>2, <1>5
<1>6. CASE i > Len(s) /\ j > Len(s)
  BY <1>1, <1>3, <1>6
<1>7. CASE i <= Len(s) /\ j > Len(s)
  BY <1>1, <1>4, <1>7
<1>8. CASE i > Len(s) /\ j <= Len(s)
  BY <1>1, <1>4, <1>8
<1> QED
  BY <1>1, <1>5, <1>6, <1>7, <1>8

\* Adding one at the front.
LEMMA PushHolds ==
  ASSUME NEW S, NEW s \in Seq(S), NEW x \in S, IsInjective(s), x \notin Range(s)
  PROVE  /\ <<x>> \o s \in Seq(S) /\ IsInjective(<<x>> \o s)
         /\ Range(<<x>> \o s) = Range(s) \cup {x}
<1>0. PICK t : t = <<x>> \o s
  BY Zenon
<1>1. PICK n \in Nat : n = Len(s) /\ DOMAIN s = 1..n
  BY LenProperties
<1>2. /\ t \in Seq(S) /\ DOMAIN t = 1..(n + 1) /\ t[1] = x
      /\ \A i \in 1..n : t[i + 1] = s[i]
      /\ \A i \in 2..(n + 1) : t[i] = s[i - 1]
  BY <1>0, <1>1, PushFacts, LenProperties
<1>3. \A i \in 1..n : s[i] # x
  BY <1>1, Zenon DEF Range
<1>4. \A k, l \in 1..n : s[k] = s[l] => k = l
  BY <1>1 DEF IsInjective
<1>5. ASSUME NEW i \in 1..(n + 1), NEW j \in 1..(n + 1), t[i] = t[j]
      PROVE  i = j
  BY <1>2, <1>3, <1>4, <1>5
<1>6. \A y : y \in Range(t) <=> y \in Range(s) \/ y = x
  <2>1. ASSUME NEW y, y \in Range(t) PROVE y \in Range(s) \/ y = x
    <3>1. PICK i \in 1..(n + 1) : y = t[i]
      BY <1>2, <2>1, Zenon DEF Range
    <3>2. CASE i = 1
      BY <1>2, <3>1, <3>2
    <3>3. CASE i # 1
      <4>1. i \in 2..(n + 1) /\ i - 1 \in 1..n
        BY <3>3
      <4> QED
        BY <1>1, <1>2, <3>1, <4>1, Zenon DEF Range
    <3> QED
      BY <3>2, <3>3
  <2>2. ASSUME NEW i \in 1..n PROVE s[i] \in Range(t)
    <3>1. i + 1 \in 1..(n + 1)
      OBVIOUS
    <3> QED
      BY <1>2, <3>1, Zenon DEF Range
  <2>3. 1 \in 1..(n + 1)
    OBVIOUS
  <2>4. ASSUME NEW y, y \in Range(s) \/ y = x PROVE y \in Range(t)
    <3>1. CASE y \in Range(s)
      BY <1>1, <2>2, <3>1, Zenon DEF Range
    <3>2. CASE y = x
      BY <1>2, <2>3, <3>2, Zenon DEF Range
    <3> QED
      BY <2>4, <3>1, <3>2
  <2> QED
    BY <2>1, <2>4, Zenon
<1> QED
  BY <1>0, <1>2, <1>5, <1>6, Zenon DEF IsInjective

\* The parts of a sequence around a position.
LEMMA CutFacts ==
  ASSUME NEW S, NEW s \in Seq(S), NEW p \in 1..(Len(s) + 1)
  PROVE  LET a == SubSeq(s, 1, p - 1)
             b == SubSeq(s, p, Len(s))
             c == SubSeq(s, p + 1, Len(s))
         IN /\ a \in Seq(S) /\ Len(a) = p - 1 /\ \A j \in 1..(p - 1) : a[j] = s[j]
            /\ b \in Seq(S) /\ Len(b) = Len(s) - p + 1
            /\ \A j \in 1..(Len(s) - p + 1) : b[j] = s[p + j - 1]
            /\ c \in Seq(S) /\ Len(c) = IF p <= Len(s) THEN Len(s) - p ELSE 0
            /\ \A j \in 1..(Len(s) - p) : c[j] = s[p + j]
<1>1. PICK n \in Nat : n = Len(s)
  BY LenProperties
<1> QED
  BY <1>1

\* r is a and b, of m and n elements, one after the other.
Chained(S, r, a, b, m, n) ==
  /\ r \in Seq(S) /\ Len(r) = m + n
  /\ \A j \in 1..m : r[j] = a[j]
  /\ \A j \in (m + 1)..(m + n) : r[j] = b[j - m]

\* One sequence after another, position by position.
LEMMA ConcatFacts ==
  ASSUME NEW S, NEW a \in Seq(S), NEW b \in Seq(S),
         NEW m \in Nat, NEW n \in Nat, m = Len(a), n = Len(b)
  PROVE  Chained(S, a \o b, a, b, m, n)
<1>1. PICK r : r = a \o b
  BY Zenon
<1>2. /\ r \in Seq(S) /\ Len(r) = m + n
      /\ \A j \in 1..(m + n) : r[j] = IF j <= m THEN a[j] ELSE b[j - m]
  BY <1>1, ConcatProperties
<1>3. Chained(S, r, a, b, m, n)
  BY <1>2 DEF Chained
<1> QED
  BY <1>1, <1>3

\* Taking one out of the middle.
LEMMA CutHolds ==
  ASSUME NEW S, NEW s \in Seq(S), NEW k \in DOMAIN s, IsInjective(s),
         NEW t, t = SubSeq(s, 1, k - 1) \o SubSeq(s, k + 1, Len(s))
  PROVE  t \in Seq(S) /\ IsInjective(t) /\ Range(t) = Range(s) \ {s[k]}
<1>1. PICK n \in Nat : n = Len(s) /\ DOMAIN s = 1..n
  BY LenProperties
<1>2. k \in 1..n /\ k - 1 \in 0..n /\ k + 1 \in 1..(n + 1)
  BY <1>1
<1>3. PICK a, c : a = SubSeq(s, 1, k - 1) /\ c = SubSeq(s, k + 1, n)
  BY Zenon
<1>4. /\ a \in Seq(S) /\ Len(a) = k - 1 /\ \A j \in 1..(k - 1) : a[j] = s[j]
      /\ c \in Seq(S) /\ Len(c) = n - k /\ \A j \in 1..(n - k) : c[j] = s[k + j]
  <2>1. k \in 1..(Len(s) + 1) /\ k <= n
    BY <1>1, <1>2
  <2> QED
    BY <1>1, <1>3, <2>1, CutFacts, Zenon
<1>5. t = a \o c
  BY <1>1, <1>3
<1>6. /\ t \in Seq(S) /\ DOMAIN t = 1..(n - 1)
      /\ \A j \in 1..(k - 1) : t[j] = a[j]
      /\ \A j \in k..(n - 1) : t[j] = c[j - (k - 1)]
  <2>1. PICK p \in Nat, q \in Nat : p = k - 1 /\ q = n - k /\ p + q = n - 1
    BY <1>2
  <2>2. a \in Seq(S) /\ c \in Seq(S) /\ Len(a) = p /\ Len(c) = q
    BY <1>4, <2>1
  <2>3. Chained(S, t, a, c, p, q)
    BY <1>5, <2>2, ConcatFacts, Zenon
  <2>4. DOMAIN t = 1..(p + q)
    BY <2>3, LenProperties DEF Chained
  <2>5. p + 1 = k
    BY <2>1
  <2> QED
    BY <2>1, <2>3, <2>4, <2>5, Zenon DEF Chained
<1>7. ASSUME NEW j \in 1..(n - 1)
      PROVE  /\ j < k => t[j] = s[j]
             /\ ~(j < k) => t[j] = s[j + 1]
  <2>1. CASE j < k
    BY <1>2, <1>4, <1>6, <2>1
  <2>2. CASE ~(j < k)
    <3>1. j - (k - 1) \in 1..(n - k) /\ k + (j - (k - 1)) = j + 1 /\ j \in k..(n - 1)
      <4>1. k \in Int /\ j \in Int /\ 1 <= k /\ k <= j /\ j <= n - 1
        BY <1>2, <2>2
      <4> QED
        BY <4>1
    <3> QED
      BY <1>4, <1>6, <2>2, <3>1, Zenon
  <2> QED
    BY <2>1, <2>2, Zenon
<1>8. \A i, j \in 1..n : s[i] = s[j] => i = j
  BY <1>1, Zenon DEF IsInjective
<1>9. ASSUME NEW i \in 1..(n - 1), NEW j \in 1..(n - 1), t[i] = t[j]
      PROVE  i = j
  <2>1. PICK p \in 1..n : t[i] = s[p] /\ p = IF i < k THEN i ELSE i + 1
    <3>1. (IF i < k THEN i ELSE i + 1) \in 1..n
      BY <1>2
    <3>2. t[i] = s[IF i < k THEN i ELSE i + 1]
      BY <1>7, Zenon
    <3> QED
      BY <3>1, <3>2, Zenon
  <2>2. PICK q \in 1..n : t[j] = s[q] /\ q = IF j < k THEN j ELSE j + 1
    <3>1. (IF j < k THEN j ELSE j + 1) \in 1..n
      BY <1>2
    <3>2. t[j] = s[IF j < k THEN j ELSE j + 1]
      BY <1>7, Zenon
    <3> QED
      BY <3>1, <3>2, Zenon
  <2>3. p = q
    BY <1>8, <1>9, <2>1, <2>2, Zenon
  <2> QED
    BY <1>2, <2>1, <2>2, <2>3
<1>10. ASSUME NEW j \in 1..(n - 1) PROVE t[j] \in Range(s) /\ t[j] # s[k]
  <2>1. CASE j < k
    <3>1. j \in 1..n /\ j # k
      BY <1>2, <2>1
    <3> QED
      BY <1>1, <1>2, <1>7, <1>8, <2>1, <3>1, Zenon DEF Range
  <2>2. CASE ~(j < k)
    <3>1. j + 1 \in 1..n /\ j + 1 # k
      BY <1>2, <2>2
    <3> QED
      BY <1>1, <1>2, <1>7, <1>8, <2>2, <3>1, Zenon DEF Range
  <2> QED
    BY <2>1, <2>2, Zenon
<1>11. ASSUME NEW i \in 1..n, i # k PROVE s[i] \in Range(t)
  <2>1. CASE i < k
    <3>1. i \in 1..(n - 1)
      BY <1>2, <2>1
    <3> QED
      BY <1>6, <1>7, <2>1, <3>1, Zenon DEF Range
  <2>2. CASE ~(i < k)
    <3>1. i - 1 \in 1..(n - 1) /\ ~(i - 1 < k) /\ (i - 1) + 1 = i
      BY <1>2, <1>11, <2>2
    <3>2. t[i - 1] = s[i]
      BY <1>7, <3>1, Zenon
    <3> QED
      BY <1>6, <3>1, <3>2, Zenon DEF Range
  <2> QED
    BY <2>1, <2>2
<1>12. \A y : y \in Range(t) <=> y \in Range(s) /\ y # s[k]
  BY <1>1, <1>6, <1>10, <1>11, Zenon DEF Range
<1> QED
  BY <1>6, <1>9, <1>12, Zenon DEF IsInjective

\* Of some numbers one is the least.
LEMMA LeastNumber ==
  ASSUME NEW S \in SUBSET Nat, S # {}
  PROVE  \E x \in S : \A y \in S : x <= y
<1> DEFINE below == {ss \in Nat \X Nat : ss[1] < ss[2]}
<1>1. IsWellFoundedOn(below, Nat)
  BY NatLessThanWellFounded DEF OpToRel
<1>2. PICK x \in S : \A y \in S : ~(<<y, x>> \in below)
  <2> HIDE DEF below
  <2> QED
    BY <1>1, WFMin, Zenon
<1>3. ASSUME NEW y \in S PROVE x <= y
  <2>1. ~(y < x)
    BY <1>2, Zenon
  <2> QED
    BY <2>1
<1> QED
  BY <1>3
=============================================================================
