---------------------------- MODULE SequenceFacts ----------------------------
(* The queues of the kernel (waiters, IPI requests) as sequences: what Append *)
(* and Tail do to their elements.                                             *)
EXTENDS Sequences, Integers, TLAPS

\* Append keeps every element in its place and adds one.
LEMMA AppendElements ==
    ASSUME NEW S, NEW s \in Seq(S), NEW x \in S
    PROVE  /\ Append(s, x) \in Seq(S)
           /\ DOMAIN Append(s, x) = 1 .. Len(s) + 1
           /\ DOMAIN s = 1 .. Len(s)
           /\ \A i \in 1 .. Len(s) : Append(s, x)[i] = s[i]
           /\ Append(s, x)[Len(s) + 1] = x
  OBVIOUS

\* Tail moves every element but the first one place down.
LEMMA TailElements ==
    ASSUME NEW S, NEW s \in Seq(S), s # <<>>
    PROVE  /\ Tail(s) \in Seq(S)
           /\ Head(s) = s[1] /\ Head(s) \in S
           /\ Len(s) \in Nat \ {0}
           /\ DOMAIN s = 1 .. Len(s)
           /\ DOMAIN Tail(s) = 1 .. Len(s) - 1
           /\ \A i \in 1 .. Len(s) - 1 : Tail(s)[i] = s[i + 1]
  OBVIOUS


\* x is queued in s.
In(x, s) == \E i \in DOMAIN s : s[i] = x

\* Nothing is queued twice in s.
NoRepeat(s) == \A i, j \in DOMAIN s : s[i] = s[j] => i = j

\* push_back of what is not queued yet queues just that, and nothing twice.
LEMMA AppendIn ==
    ASSUME NEW S, NEW s \in Seq(S), NEW x \in S
    PROVE  /\ \A y : In(y, Append(s, x)) <=> (In(y, s) \/ y = x)
           /\ NoRepeat(s) /\ ~In(x, s) => NoRepeat(Append(s, x))
<1> DEFINE a == Append(s, x)  n == Len(s)
<1>1. /\ DOMAIN a = 1 .. n + 1 /\ DOMAIN s = 1 .. n /\ n \in Nat
      /\ \A i \in 1 .. n : a[i] = s[i]
      /\ a[n + 1] = x
  BY AppendElements
<1>2. \A i \in 1 .. n + 1 : i \in 1 .. n \/ i = n + 1
  BY <1>1
<1>3. 1 .. n \subseteq 1 .. n + 1 /\ n + 1 \in 1 .. n + 1
  BY <1>1
<1> HIDE DEF a, n
<1>4. \A y : In(y, a) <=> (In(y, s) \/ y = x)
  BY <1>1, <1>2, <1>3 DEF In
<1>5. ASSUME NoRepeat(s), ~In(x, s) PROVE NoRepeat(a)
  BY <1>1, <1>2, <1>3, <1>5 DEF In, NoRepeat
<1> QED
  BY <1>4, <1>5 DEF a

\* pop_front of a queue without repetitions takes just its first element out.
LEMMA TailIn ==
    ASSUME NEW S, NEW s \in Seq(S), s # <<>>, NoRepeat(s)
    PROVE  /\ In(Head(s), s)
           /\ \A y : In(y, Tail(s)) <=> (In(y, s) /\ y # Head(s))
           /\ NoRepeat(Tail(s))
<1> DEFINE t == Tail(s)  n == Len(s)
<1>1. /\ Head(s) = s[1] /\ n \in Nat \ {0}
      /\ DOMAIN s = 1 .. n /\ DOMAIN t = 1 .. n - 1
      /\ \A i \in 1 .. n - 1 : t[i] = s[i + 1]
  BY TailElements
<1>2. \A i \in 1 .. n - 1 : i \in Int /\ i + 1 \in 1 .. n /\ i + 1 # 1
  BY <1>1
<1>3. \A j \in 1 .. n : j # 1 => j - 1 \in 1 .. n - 1 /\ (j - 1) + 1 = j
  BY <1>1
<1>4. 1 \in 1 .. n
  BY <1>1
<1> HIDE DEF t, n
<1>5. In(Head(s), s)
  BY <1>1, <1>4 DEF In
<1>6. ASSUME NEW y PROVE In(y, t) <=> (In(y, s) /\ y # Head(s))
  <2>1. ASSUME In(y, t) PROVE In(y, s) /\ y # Head(s)
    <3>1. PICK i \in 1 .. n - 1 : t[i] = y
      BY <1>1, <2>1 DEF In
    <3>2. s[i + 1] = y /\ i + 1 \in 1 .. n /\ i + 1 # 1
      BY <1>1, <1>2, <3>1
    <3> QED
      BY <1>1, <1>4, <3>2 DEF In, NoRepeat
  <2>2. ASSUME In(y, s), y # Head(s) PROVE In(y, t)
    <3>1. PICK j \in 1 .. n : s[j] = y
      BY <1>1, <2>2 DEF In
    <3>2. j - 1 \in 1 .. n - 1 /\ (j - 1) + 1 = j
      BY <1>1, <1>3, <2>2, <3>1
    <3>3. t[j - 1] = y
      BY <1>1, <3>1, <3>2
    <3> QED
      BY <1>1, <3>2, <3>3 DEF In
  <2> QED
    BY <2>1, <2>2
<1>7. NoRepeat(t)
  <2> SUFFICES ASSUME NEW i \in 1 .. n - 1, NEW j \in 1 .. n - 1, t[i] = t[j]
               PROVE  i = j
    BY <1>1 DEF NoRepeat
  <2>1. s[i + 1] = s[j + 1]
    BY <1>1
  <2>2. i + 1 = j + 1
    BY <1>1, <1>2, <2>1 DEF NoRepeat
  <2> QED
    BY <1>2, <2>2
<1> QED
  BY <1>5, <1>6, <1>7 DEF t

\* Two queues without repetitions and with nothing in common make one without repetitions.
LEMMA ConcatIn ==
    ASSUME NEW S, NEW s \in Seq(S), NEW t \in Seq(S)
    PROVE  /\ s \o t \in Seq(S)
           /\ \A x : In(x, s \o t) <=> (In(x, s) \/ In(x, t))
           /\ NoRepeat(s) /\ NoRepeat(t) /\ (\A x \in S : ~(In(x, s) /\ In(x, t))) => NoRepeat(s \o t)
<1> DEFINE u == s \o t  m == Len(s)  n == Len(t)
<1>1. /\ m \in Nat /\ n \in Nat
      /\ DOMAIN s = 1 .. m /\ DOMAIN t = 1 .. n /\ DOMAIN u = 1 .. m + n
      /\ \A i \in 1 .. m : u[i] = s[i] /\ s[i] \in S
      /\ \A i \in 1 .. n : u[m + i] = t[i] /\ t[i] \in S
  OBVIOUS
<1>2. u \in Seq(S)
  OBVIOUS
<1> HIDE DEF u, m, n
<1>3. \A i \in 1 .. m + n : i \in 1 .. m \/ (i - m \in 1 .. n /\ i = m + (i - m))
  BY <1>1
<1>4. (\A i \in 1 .. m : i \in 1 .. m + n) /\ (\A i \in 1 .. n : m + i \in 1 .. m + n)
  BY <1>1
<1>5. ASSUME NEW x PROVE In(x, u) <=> (In(x, s) \/ In(x, t))
  <2>1. ASSUME In(x, u) PROVE In(x, s) \/ In(x, t)
    BY <1>1, <1>3, <2>1 DEF In
  <2>2. ASSUME In(x, s) \/ In(x, t) PROVE In(x, u)
    BY <1>1, <1>4, <2>2 DEF In
  <2> QED
    BY <2>1, <2>2
<1>6. ASSUME NoRepeat(s), NoRepeat(t), \A x \in S : ~(In(x, s) /\ In(x, t)) PROVE NoRepeat(u)
  <2> SUFFICES ASSUME NEW i \in 1 .. m + n, NEW j \in 1 .. m + n, u[i] = u[j] PROVE i = j
    BY <1>1 DEF NoRepeat
  <2>1. CASE i \in 1 .. m /\ j \in 1 .. m
    BY <1>1, <1>6, <2>1 DEF NoRepeat
  <2>2. CASE i \notin 1 .. m /\ j \notin 1 .. m
    <3>1. i - m \in 1 .. n /\ i = m + (i - m) /\ j - m \in 1 .. n /\ j = m + (j - m)
      BY <1>3, <2>2
    <3>2. t[i - m] = t[j - m]
      BY <1>1, <3>1
    <3>3. i - m = j - m
      BY <1>1, <1>6, <3>1, <3>2 DEF NoRepeat
    <3> QED
      BY <3>1, <3>3
  <2>3. ASSUME NEW k \in 1 .. m, NEW l \in 1 .. m + n, l \notin 1 .. m, u[k] = u[l] PROVE FALSE
    <3>1. l - m \in 1 .. n /\ l = m + (l - m)
      BY <1>3, <2>3
    <3>2. s[k] = t[l - m] /\ s[k] \in S
      BY <1>1, <2>3, <3>1
    <3>3. In(s[k], s) /\ In(s[k], t)
      BY <1>1, <3>1, <3>2 DEF In
    <3> QED
      BY <1>6, <3>2, <3>3
  <2> QED
    BY <2>1, <2>2, <2>3
<1> QED
  BY <1>2, <1>5, <1>6 DEF u

\* Taking one element out of a queue without repetitions takes out just that one.
LEMMA RemoveIn ==
    ASSUME NEW S, NEW s \in Seq(S), NEW i \in DOMAIN s, NEW t, s[i] = t, NoRepeat(s)
    PROVE  LET r == SubSeq(s, 1, i - 1) \o SubSeq(s, i + 1, Len(s))
           IN  /\ r \in Seq(S)
               /\ \A y : In(y, r) <=> (In(y, s) /\ y # t)
               /\ NoRepeat(r)
<1> DEFINE n == Len(s)
           a == SubSeq(s, 1, i - 1)
           b == SubSeq(s, i + 1, n)
<1>1. n \in Nat /\ DOMAIN s = 1 .. n /\ \A k \in 1 .. n : s[k] \in S
  OBVIOUS
<1> HIDE DEF n
<1>2. /\ a \in Seq(S) /\ DOMAIN a = 1 .. i - 1
      /\ \A k \in 1 .. i - 1 : a[k] = s[k]
  BY <1>1
<1>3. /\ b \in Seq(S) /\ DOMAIN b = 1 .. n - i
      /\ \A k \in 1 .. n - i : b[k] = s[i + k]
  BY <1>1
<1> HIDE DEF a, b
<1>4. \A y : In(y, a) <=> \E k \in 1 .. n : k < i /\ s[k] = y
  <2>1. \A k : k \in 1 .. i - 1 <=> k \in 1 .. n /\ k < i
    BY <1>1
  <2> QED
    BY <1>2, <2>1 DEF In
<1>5. \A y : In(y, b) <=> \E k \in 1 .. n : i < k /\ s[k] = y
  <2>1. \A k \in 1 .. n - i : i + k \in 1 .. n /\ i < i + k
    BY <1>1
  <2>2. \A k \in 1 .. n : i < k => k - i \in 1 .. n - i /\ i + (k - i) = k
    BY <1>1
  <2> QED
    BY <1>3, <2>1, <2>2 DEF In
<1>6. NoRepeat(a)
  BY <1>1, <1>2 DEF NoRepeat
<1>7. NoRepeat(b)
  <2> SUFFICES ASSUME NEW k \in 1 .. n - i, NEW l \in 1 .. n - i, b[k] = b[l] PROVE k = l
    BY <1>3 DEF NoRepeat
  <2>1. i + k \in 1 .. n /\ i + l \in 1 .. n /\ s[i + k] = s[i + l]
    BY <1>1, <1>3
  <2>2. i + k = i + l
    BY <1>1, <2>1 DEF NoRepeat
  <2> QED
    BY <1>1, <2>2
<1>8. \A y \in S : ~(In(y, a) /\ In(y, b))
  <2> SUFFICES ASSUME NEW y, In(y, a), In(y, b) PROVE FALSE
    OBVIOUS
  <2>1. PICK k \in 1 .. n : k < i /\ s[k] = y
    BY <1>4
  <2>2. PICK l \in 1 .. n : i < l /\ s[l] = y
    BY <1>5
  <2>3. k = l
    BY <1>1, <2>1, <2>2 DEF NoRepeat
  <2> QED
    BY <1>1, <2>1, <2>2, <2>3
<1>9. \A y : (In(y, a) \/ In(y, b)) <=> (In(y, s) /\ y # t)
  <2>1. \A k \in 1 .. n : k # i <=> s[k] # t
    BY <1>1 DEF NoRepeat
  <2>2. \A k \in 1 .. n : k # i <=> (k < i \/ i < k)
    BY <1>1
  <2> QED
    BY <1>1, <1>4, <1>5, <2>1, <2>2 DEF In
<1> QED
  BY <1>2, <1>3, <1>6, <1>7, <1>8, <1>9, ConcatIn DEF a, b, n

\* Nothing is on an empty list ...
LEMMA NothingIn == \A x : ~In(x, <<>>)
  BY DEF In

\* ... and nothing is on it twice.
LEMMA EmptyNoRepeat == NoRepeat(<<>>)
  BY DEF NoRepeat
==============================================================================
