-------------------------------- MODULE Queues --------------------------------
(***************************************************************************)
(* Channels are sequences: what sending to one and receiving from it does  *)
(* to its elements.  The proofs about the run loop, the cache of names and *)
(* the watchers that are called back rest on these lemmas.                 *)
(***************************************************************************)
EXTENDS Integers, Sequences, TLAPS

\* What is sent comes last.
LEMMA Appending ==
    ASSUME NEW S, NEW s \in Seq(S), NEW e \in S
    PROVE  /\ Append(s, e) \in Seq(S)
           /\ Len(Append(s, e)) = Len(s) + 1
           /\ Len(s) \in Nat
           /\ \A i \in 1..Len(s) : Append(s, e)[i] = s[i]
           /\ Append(s, e)[Len(s) + 1] = e
  OBVIOUS

\* What is received was first, and the others move up.
LEMMA Taking ==
    ASSUME NEW S, NEW s \in Seq(S), s # <<>>
    PROVE  /\ Tail(s) \in Seq(S)
           /\ Head(s) \in S
           /\ Head(s) = s[1]
           /\ Len(s) \in Nat \ {0}
           /\ Len(Tail(s)) = Len(s) - 1
           /\ \A i \in 1..(Len(s) - 1) : Tail(s)[i] = s[i + 1]
  OBVIOUS

\* What has no elements is the empty queue.
LEMMA NoElements ==
    ASSUME NEW S, NEW s \in Seq(S), Len(s) = 0
    PROVE  s = <<>>
  OBVIOUS

-----------------------------------------------------------------------------
(***************************************************************************)
(* The elements of a queue that are in a set A: notices about a process.   *)
(***************************************************************************)
Held(s, A) == \E i \in 1..Len(s) : s[i] \in A

LastOf(s, A, i) ==
    /\ i \in 1..Len(s) /\ s[i] \in A
    /\ \A j \in 1..Len(s) : i < j => s[j] \notin A

LEMMA NoneHeld == \A A : ~Held(<<>>, A)
<1>1. Len(<<>>) = 0
  OBVIOUS
<1> QED BY <1>1 DEF Held

LEMMA OneHeld ==
    ASSUME NEW S, NEW e \in S, NEW A
    PROVE  Held(<<e>>, A) <=> e \in A
<1>1. Len(<<e>>) = 1 /\ <<e>>[1] = e
  OBVIOUS
<1> QED BY <1>1 DEF Held

\* After a send the last one is the element sent, or that of before.
LEMMA LastSent ==
    ASSUME NEW S, NEW s \in Seq(S), NEW e \in S, NEW A
    PROVE  LET after == Append(s, e)
           IN  /\ Held(after, A) <=> Held(s, A) \/ e \in A
               /\ \A i \in 1..Len(after) : LastOf(after, A, i) =>
                     \/ e \in A /\ after[i] = e
                     \/ /\ e \notin A /\ after[i] = s[i]
                        /\ i \in 1..Len(s) /\ LastOf(s, A, i)
<1> DEFINE after == Append(s, e)
<1>1. /\ Len(after) = Len(s) + 1 /\ Len(s) \in Nat
      /\ \A i \in 1..Len(s) : after[i] = s[i]
      /\ after[Len(s) + 1] = e
  BY Appending
<1> HIDE DEF after
<1>2. \A i \in 1..Len(after) : i \in 1..Len(s) \/ i = Len(s) + 1
  BY <1>1
<1>3. Held(after, A) <=> Held(s, A) \/ e \in A
  BY <1>1, <1>2 DEF Held
<1>4. ASSUME NEW i \in 1..Len(after), LastOf(after, A, i), e \in A
      PROVE  after[i] = e
  BY <1>1, <1>2, <1>4 DEF LastOf
<1>5. ASSUME NEW i \in 1..Len(after), LastOf(after, A, i), e \notin A
      PROVE  after[i] = s[i] /\ i \in 1..Len(s) /\ LastOf(s, A, i)
  <2>1. i \in 1..Len(s)
    BY <1>1, <1>2, <1>5 DEF LastOf
  <2> QED BY <1>1, <1>5, <2>1 DEF LastOf
<1> QED BY <1>3, <1>4, <1>5 DEF after

\* After a receive the last one is that of before; the element received was
\* the last one if none is left.
LEMMA LastReceived ==
    ASSUME NEW S, NEW s \in Seq(S), s # <<>>, NEW A
    PROVE  LET rest == Tail(s)
           IN  /\ Held(s, A) <=> Head(s) \in A \/ Held(rest, A)
               /\ \A i \in 1..Len(rest) : LastOf(rest, A, i) =>
                     /\ rest[i] = s[i + 1] /\ i + 1 \in 1..Len(s)
                     /\ LastOf(s, A, i + 1)
               /\ Head(s) \in A /\ ~Held(rest, A) =>
                     /\ Head(s) = s[1] /\ 1 \in 1..Len(s)
                     /\ LastOf(s, A, 1)
<1> DEFINE rest == Tail(s)
           first == Head(s)
<1>1. /\ first = s[1] /\ Len(s) \in Nat \ {0}
      /\ Len(rest) = Len(s) - 1
      /\ \A i \in 1..(Len(s) - 1) : rest[i] = s[i + 1]
  BY Taking
<1> HIDE DEF rest, first
<1>2. \A j \in 1..Len(s) : j = 1 \/ (j - 1 \in 1..Len(rest) /\ s[j] = rest[j - 1])
  <2> TAKE j \in 1..Len(s)
  <2>1. CASE j = 1
    BY <2>1
  <2>2. CASE j # 1
    <3>1. j - 1 \in 1..(Len(s) - 1) /\ (j - 1) + 1 = j
      BY <1>1, <2>2
    <3> QED BY <1>1, <3>1
  <2> QED BY <2>1, <2>2
<1>3. \A i \in 1..Len(rest) : i + 1 \in 1..Len(s) /\ rest[i] = s[i + 1]
  BY <1>1
<1>4. 1 \in 1..Len(s)
  BY <1>1
<1>5. Held(s, A) <=> first \in A \/ Held(rest, A)
  BY <1>1, <1>2, <1>3, <1>4 DEF Held
<1>6. ASSUME NEW i \in 1..Len(rest), LastOf(rest, A, i)
      PROVE  LastOf(s, A, i + 1)
  <2>1. ASSUME NEW j \in 1..Len(s), i + 1 < j
        PROVE  s[j] \notin A
    <3>1. j - 1 \in 1..Len(rest) /\ s[j] = rest[j - 1] /\ i < j - 1
      BY <1>1, <1>2, <2>1
    <3> QED BY <1>6, <3>1 DEF LastOf
  <2> QED BY <1>3, <1>6, <2>1 DEF LastOf
<1>7. ASSUME first \in A, ~Held(rest, A)
      PROVE  LastOf(s, A, 1)
  <2>1. ASSUME NEW j \in 1..Len(s), 1 < j
        PROVE  s[j] \notin A
    BY <1>2, <1>7, <2>1 DEF Held
  <2> QED BY <1>1, <1>4, <1>7, <2>1 DEF LastOf
<1> QED BY <1>1, <1>3, <1>4, <1>5, <1>6, <1>7 DEF rest, first

(***************************************************************************)
(* The first element in A, and two of which none between them is.          *)
(***************************************************************************)
FirstIn(s, A, i) ==
    /\ i \in 1..Len(s) /\ s[i] \in A
    /\ \A j \in 1..Len(s) : j < i => s[j] \notin A

Adjacent(s, A, i, j) ==
    /\ i \in 1..Len(s) /\ s[i] \in A
    /\ j \in 1..Len(s) /\ s[j] \in A
    /\ i < j
    /\ \A k \in 1..Len(s) : i < k /\ k < j => s[k] \notin A

\* The first one stays the first, or an element that is sent is it.
LEMMA FirstSent ==
    ASSUME NEW S, NEW s \in Seq(S), NEW e \in S, NEW A,
           NEW i, FirstIn(Append(s, e), A, i)
    PROVE  \/ FirstIn(s, A, i) /\ Append(s, e)[i] = s[i]
           \/ e \in A /\ Append(s, e)[i] = e /\ ~Held(s, A)
<1> DEFINE after == Append(s, e)
<1>1. /\ Len(after) = Len(s) + 1 /\ Len(s) \in Nat
      /\ \A k \in 1..Len(s) : after[k] = s[k]
      /\ after[Len(s) + 1] = e
  BY Appending
<1>2. FirstIn(after, A, i)
  OBVIOUS
<1> HIDE DEF after
<1>3. \A k \in 1..Len(s) : k \in 1..Len(after) /\ k < Len(s) + 1
  BY <1>1
<1>4. i \in 1..Len(s) \/ i = Len(s) + 1
  BY <1>1, <1>2 DEF FirstIn
<1>5. CASE i \in 1..Len(s)
  <2>1. FirstIn(s, A, i) /\ after[i] = s[i]
    BY <1>1, <1>2, <1>3, <1>5 DEF FirstIn
  <2> QED BY <2>1 DEF after
<1>6. CASE i = Len(s) + 1
  <2>1. e \in A /\ after[i] = e /\ ~Held(s, A)
    BY <1>1, <1>2, <1>3, <1>6 DEF FirstIn, Held
  <2> QED BY <2>1 DEF after
<1> QED BY <1>4, <1>5, <1>6

\* An element that is sent is adjacent to the one that was the last.
LEMMA AdjacentSent ==
    ASSUME NEW S, NEW s \in Seq(S), NEW e \in S, NEW A,
           NEW i, NEW j, Adjacent(Append(s, e), A, i, j)
    PROVE  \/ Adjacent(s, A, i, j)
           \/ e \in A /\ j = Len(s) + 1 /\ LastOf(s, A, i)
<1> DEFINE after == Append(s, e)
<1>1. /\ Len(after) = Len(s) + 1 /\ Len(s) \in Nat
      /\ \A k \in 1..Len(s) : after[k] = s[k]
      /\ after[Len(s) + 1] = e
  BY Appending
<1>2. Adjacent(after, A, i, j)
  OBVIOUS
<1> HIDE DEF after
<1>3. \A k \in 1..Len(s) : k \in 1..Len(after) /\ k < Len(s) + 1
  BY <1>1
<1>4. i \in 1..Len(s) /\ (j \in 1..Len(s) \/ j = Len(s) + 1)
  BY <1>1, <1>2 DEF Adjacent
<1>5. CASE j \in 1..Len(s)
  BY <1>1, <1>2, <1>3, <1>4, <1>5 DEF Adjacent
<1>6. CASE j = Len(s) + 1
  BY <1>1, <1>2, <1>3, <1>4, <1>6 DEF Adjacent, LastOf
<1> QED BY <1>4, <1>5, <1>6

\* What is true of each element of a queue and of its rest.
LEMMA Rest ==
    ASSUME NEW S, NEW s \in Seq(S), s # <<>>
    PROVE  /\ Head(s) = s[1] /\ 1 \in 1..Len(s) /\ Len(s) \in Nat
           /\ \A i \in 1..Len(Tail(s)) :
                 /\ i \in Int /\ 1 < i + 1 /\ i + 1 \in 1..Len(s)
                 /\ Tail(s)[i] = s[i + 1]
           /\ \A k \in 1..Len(s) : 1 < k =>
                 k - 1 \in 1..Len(Tail(s)) /\ s[k] = Tail(s)[k - 1]
<1> DEFINE rest == Tail(s)
           first == Head(s)
<1>1. /\ first = s[1] /\ Len(s) \in Nat \ {0}
      /\ Len(rest) = Len(s) - 1
      /\ \A i \in 1..(Len(s) - 1) : rest[i] = s[i + 1]
  BY Taking
<1> HIDE DEF rest, first
<1>2. 1 \in 1..Len(s)
  BY <1>1
<1>3. \A i \in 1..Len(rest) : i \in Int /\ 1 < i + 1 /\ i + 1 \in 1..Len(s) /\ rest[i] = s[i + 1]
  BY <1>1
<1>4. \A k \in 1..Len(s) : 1 < k => k - 1 \in 1..Len(rest) /\ s[k] = rest[k - 1]
  <2> TAKE k \in 1..Len(s)
  <2> HAVE 1 < k
  <2>1. k - 1 \in 1..(Len(s) - 1) /\ (k - 1) + 1 = k
    BY <1>1
  <2> QED BY <1>1, <2>1
<1> QED BY <1>1, <1>2, <1>3, <1>4 DEF rest, first

\* An element in A that is received was the first one, and is adjacent to
\* the one that is the first then.
LEMMA FirstReceived ==
    ASSUME NEW S, NEW s \in Seq(S), s # <<>>, NEW A,
           NEW i, FirstIn(Tail(s), A, i)
    PROVE  /\ Tail(s)[i] = s[i + 1]
           /\ Head(s) \notin A => FirstIn(s, A, i + 1)
           /\ Head(s) \in A => Adjacent(s, A, 1, i + 1)
<1> DEFINE rest == Tail(s)
           first == Head(s)
<1>1. /\ first = s[1] /\ 1 \in 1..Len(s) /\ Len(s) \in Nat
      /\ \A k \in 1..Len(rest) :
            k \in Int /\ 1 < k + 1 /\ k + 1 \in 1..Len(s) /\ rest[k] = s[k + 1]
      /\ \A k \in 1..Len(s) : 1 < k => k - 1 \in 1..Len(rest) /\ s[k] = rest[k - 1]
  BY Rest
<1>2. FirstIn(rest, A, i)
  OBVIOUS
<1> HIDE DEF rest, first
<1>3. /\ i \in 1..Len(rest) /\ i \in Int /\ i + 1 \in 1..Len(s) /\ 1 < i + 1
      /\ rest[i] = s[i + 1] /\ s[i + 1] \in A
  BY <1>1, <1>2 DEF FirstIn
<1>4. ASSUME NEW k \in 1..Len(s), 1 < k, k < i + 1
      PROVE  s[k] \notin A
  <2>1. k - 1 \in 1..Len(rest) /\ s[k] = rest[k - 1] /\ k - 1 < i
    BY <1>1, <1>3, <1>4
  <2> QED BY <1>2, <2>1 DEF FirstIn
<1>5. \A k \in 1..Len(s) : k = 1 \/ 1 < k
  BY <1>1
<1>6. first \notin A => FirstIn(s, A, i + 1)
  BY <1>1, <1>3, <1>4, <1>5 DEF FirstIn
<1>7. first \in A => Adjacent(s, A, 1, i + 1)
  BY <1>1, <1>3, <1>4 DEF Adjacent
<1> QED BY <1>3, <1>6, <1>7 DEF rest, first

\* The others stay adjacent.
LEMMA AdjacentReceived ==
    ASSUME NEW S, NEW s \in Seq(S), s # <<>>, NEW A,
           NEW i, NEW j, Adjacent(Tail(s), A, i, j)
    PROVE  /\ Tail(s)[i] = s[i + 1] /\ Tail(s)[j] = s[j + 1]
           /\ Adjacent(s, A, i + 1, j + 1)
<1> DEFINE rest == Tail(s)
<1>1. /\ 1 \in 1..Len(s) /\ Len(s) \in Nat
      /\ \A k \in 1..Len(rest) :
            k \in Int /\ 1 < k + 1 /\ k + 1 \in 1..Len(s) /\ rest[k] = s[k + 1]
      /\ \A k \in 1..Len(s) : 1 < k => k - 1 \in 1..Len(rest) /\ s[k] = rest[k - 1]
  BY Rest
<1>2. Adjacent(rest, A, i, j)
  OBVIOUS
<1> HIDE DEF rest
<1>3. i \in 1..Len(rest) /\ j \in 1..Len(rest)
  BY <1>2 DEF Adjacent
<1>4. ASSUME NEW k \in 1..Len(s), i + 1 < k, k < j + 1
      PROVE  s[k] \notin A
  <2>1. 1 < k
    BY <1>1, <1>3, <1>4
  <2>2. k - 1 \in 1..Len(rest) /\ s[k] = rest[k - 1]
    BY <1>1, <2>1
  <2>3. i < k - 1 /\ k - 1 < j
    BY <1>1, <1>3, <1>4
  <2> QED BY <1>2, <2>2, <2>3 DEF Adjacent
<1>5. i + 1 < j + 1
  BY <1>1, <1>2, <1>3 DEF Adjacent
<1>6. /\ rest[i] = s[i + 1] /\ rest[j] = s[j + 1]
      /\ Adjacent(s, A, i + 1, j + 1)
  BY <1>1, <1>2, <1>3, <1>4, <1>5 DEF Adjacent
<1> QED BY <1>6 DEF rest

\* An element in A that is received was the first one.
LEMMA ReceivedIsFirst ==
    ASSUME NEW S, NEW s \in Seq(S), s # <<>>, NEW A, Head(s) \in A
    PROVE  Head(s) = s[1] /\ FirstIn(s, A, 1)
<1>1. Head(s) = s[1] /\ 1 \in 1..Len(s) /\ \A j \in 1..Len(s) : ~(j < 1)
  BY Rest
<1> QED BY <1>1 DEF FirstIn
=============================================================================
