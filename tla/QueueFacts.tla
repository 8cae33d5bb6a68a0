----------------------------- MODULE QueueFacts -----------------------------
(***************************************************************************)
(* Facts about the queues of the models (inboxes, sockets, scripts): what *)
(* taking the head and appending a frame do, and how they count.          *)
(***************************************************************************)
EXTENDS Integers, Sequences, FiniteSets, FiniteSetTheorems, SequenceTheorems, TLAPS

\* How many frames of the queue q are in T.
CountIn(q, T) == Cardinality({i \in DOMAIN q : q[i] \in T})
-----------------------------------------------------------------------------
\* An empty queue has no positions.
LEMMA NoFrames == DOMAIN <<>> = {}
<1>1. <<>> \in Seq({}) /\ Len(<<>>) = 0
  BY EmptySeq, Zenon
<1>2. DOMAIN <<>> = 1 .. 0
  BY <1>1, LenProperties, Zenon
<1>. QED
  BY <1>2

\* What remains of a queue when its head is taken.
LEMMA TailFacts ==
  ASSUME NEW S, NEW q \in Seq(S), q # <<>>
  PROVE  /\ Tail(q) \in Seq(S) /\ Len(q) \in Nat /\ Len(Tail(q)) = Len(q) - 1
         /\ DOMAIN q = 1 .. Len(q) /\ DOMAIN Tail(q) = 1 .. Len(q) - 1
         /\ 1 \in DOMAIN q /\ Head(q) = q[1]
         /\ \A i \in DOMAIN Tail(q) : i + 1 \in DOMAIN q /\ Tail(q)[i] = q[i + 1]
         /\ Len(q) = 1 => Tail(q) = <<>>
<1>1. /\ Tail(q) \in Seq(S) /\ Len(q) \in Nat /\ Len(Tail(q)) = Len(q) - 1
      /\ DOMAIN q = 1 .. Len(q) /\ 1 \in DOMAIN q /\ Head(q) = q[1]
  OBVIOUS
<1>2. DOMAIN Tail(q) = 1 .. Len(q) - 1
  BY <1>1
<1>3. \A i \in DOMAIN Tail(q) : i + 1 \in DOMAIN q /\ Tail(q)[i] = q[i + 1]
  BY <1>1, <1>2
<1>4. Len(q) = 1 => Tail(q) = <<>>
  <2>1. Len(q) = 1 => Len(Tail(q)) = 0
    BY <1>1
  <2>. QED
    BY <1>1, <2>1, EmptySeq, Zenon
<1>. QED
  BY <1>1, <1>2, <1>3, <1>4

\* A queue with one more frame.
LEMMA AppendFacts ==
  ASSUME NEW S, NEW q \in Seq(S), NEW x \in S
  PROVE  /\ Append(q, x) \in Seq(S) /\ Append(q, x) # <<>>
         /\ Len(q) \in Nat /\ Len(Append(q, x)) = Len(q) + 1
         /\ DOMAIN q = 1 .. Len(q) /\ DOMAIN Append(q, x) = 1 .. Len(q) + 1
         /\ \A i \in DOMAIN q : Append(q, x)[i] = q[i]
         /\ Append(q, x)[Len(q) + 1] = x
         /\ \A i \in DOMAIN Append(q, x) :
               \/ i \in DOMAIN q /\ Append(q, x)[i] = q[i]
               \/ i = Len(Append(q, x)) /\ Append(q, x)[i] = x
<1>1. /\ Append(q, x) \in Seq(S) /\ Append(q, x) # <<>>
      /\ Len(q) \in Nat /\ Len(Append(q, x)) = Len(q) + 1
      /\ DOMAIN q = 1 .. Len(q) /\ DOMAIN Append(q, x) = 1 .. Len(q) + 1
      /\ \A i \in DOMAIN q : Append(q, x)[i] = q[i]
      /\ Append(q, x)[Len(q) + 1] = x
  OBVIOUS
<1>2. \A i \in 1 .. Len(q) + 1 : i \in 1 .. Len(q) \/ i = Len(q) + 1
  BY <1>1
<1>. QED
  BY <1>1, <1>2
-----------------------------------------------------------------------------
\* A count is a number.
LEMMA CountType ==
  ASSUME NEW S, NEW q \in Seq(S), NEW T
  PROVE  /\ IsFiniteSet({i \in DOMAIN q : q[i] \in T})
         /\ CountIn(q, T) \in Nat
<1>1. DOMAIN q = 1 .. Len(q) /\ Len(q) \in Nat
  OBVIOUS
<1>2. IsFiniteSet(1 .. Len(q))
  BY <1>1, FS_Interval
<1>3. {i \in DOMAIN q : q[i] \in T} \in SUBSET (1 .. Len(q))
  BY <1>1
<1>4. IsFiniteSet({i \in DOMAIN q : q[i] \in T})
  BY <1>2, <1>3, FS_Subset
<1>. QED
  BY <1>4, FS_CardinalityType DEF CountIn

\* Nothing to count.
LEMMA CountNone ==
  ASSUME NEW q, NEW T, \A i \in DOMAIN q : q[i] \notin T
  PROVE  CountIn(q, T) = 0
<1>1. {i \in DOMAIN q : q[i] \in T} = {}
  OBVIOUS
<1>. QED
  BY <1>1, FS_EmptySet DEF CountIn

\* One more frame counts if it is in T.
LEMMA CountAppend ==
  ASSUME NEW S, NEW q \in Seq(S), NEW x \in S, NEW T
  PROVE  /\ x \in T => CountIn(Append(q, x), T) = CountIn(q, T) + 1
         /\ x \notin T => CountIn(Append(q, x), T) = CountIn(q, T)
<1>. DEFINE p == Append(q, x)
            A == {i \in DOMAIN q : q[i] \in T}
            B == {i \in DOMAIN p : p[i] \in T}
<1>1. /\ Len(q) \in Nat /\ DOMAIN q = 1 .. Len(q) /\ DOMAIN p = 1 .. Len(q) + 1
      /\ (\A i \in DOMAIN q : p[i] = q[i]) /\ p[Len(q) + 1] = x
      /\ \A i \in DOMAIN p : i \in DOMAIN q \/ i = Len(q) + 1
  BY AppendFacts
<1>. HIDE DEF p
<1>2. IsFiniteSet(A)
  BY CountType
<1>3. Len(q) + 1 \notin DOMAIN q /\ Len(q) + 1 \in DOMAIN p /\ DOMAIN q \subseteq DOMAIN p
  BY <1>1
<1>4. ASSUME x \in T PROVE Cardinality(B) = Cardinality(A) + 1
  <2>1. B = A \cup {Len(q) + 1}
    BY <1>1, <1>3, <1>4
  <2>2. Len(q) + 1 \notin A
    BY <1>3
  <2>. QED
    BY <1>2, <2>1, <2>2, FS_AddElement
<1>5. ASSUME x \notin T PROVE B = A
  BY <1>1, <1>3, <1>5
<1>. QED
  BY <1>4, <1>5 DEF CountIn, p

\* A frame taken counted if it is in T.
LEMMA CountTail ==
  ASSUME NEW S, NEW q \in Seq(S), q # <<>>, NEW T
  PROVE  /\ Head(q) \in T => CountIn(q, T) = CountIn(Tail(q), T) + 1
         /\ Head(q) \notin T => CountIn(q, T) = CountIn(Tail(q), T)
<1>. DEFINE t == Tail(q)
            A == {i \in DOMAIN t : t[i] \in T}
            F == {i \in DOMAIN q : q[i] \in T}
            B == F \ {1}
            f == [i \in A |-> i + 1]
<1>1. /\ t \in Seq(S) /\ Len(q) \in Nat
      /\ DOMAIN q = 1 .. Len(q) /\ DOMAIN t = 1 .. Len(q) - 1
      /\ 1 \in DOMAIN q /\ Head(q) = q[1]
      /\ \A i \in DOMAIN t : i + 1 \in DOMAIN q /\ t[i] = q[i + 1]
  BY TailFacts
<1>2. IsFiniteSet(A) /\ IsFiniteSet(F) /\ Cardinality(F) \in Nat /\ Cardinality(A) \in Nat
  BY <1>1, CountType DEF CountIn
<1>. HIDE DEF t
<1>3. f \in Bijection(A, B)
  <2>1. f \in [A -> B]
    BY <1>1
  <2>2. \A i, j \in A : f[i] = f[j] => i = j
    BY <1>1
  <2>3. \A j \in B : \E i \in A : f[i] = j
    <3>. SUFFICES ASSUME NEW j \in B PROVE \E i \in A : f[i] = j
      OBVIOUS
    <3>1. j - 1 \in DOMAIN t /\ (j - 1) + 1 = j
      BY <1>1
    <3>2. j - 1 \in A
      BY <1>1, <3>1
    <3>. QED
      BY <3>1, <3>2
  <2>4. f \in Injection(A, B)
    BY <2>1, <2>2 DEF Injection, IsInjective
  <2>5. f \in Surjection(A, B)
    BY <2>1, <2>3 DEF Surjection
  <2>. QED
    BY <2>4, <2>5 DEF Bijection
<1>4. Cardinality(A) = Cardinality(B)
  <2>. HIDE DEF A, B, f
  <2>1. ExistsBijection(A, B)
    BY <1>3 DEF ExistsBijection
  <2>. QED
    BY <1>2, <2>1, FS_Bijection
<1>5. Head(q) \in T => Cardinality(B) = Cardinality(F) - 1
  <2>1. Head(q) \in T => 1 \in F
    BY <1>1
  <2>. QED
    BY <1>2, <2>1, FS_RemoveElement
<1>6. Head(q) \notin T => B = F
  BY <1>1
<1>7. CountIn(q, T) = Cardinality(F) /\ CountIn(Tail(q), T) = Cardinality(A)
  BY DEF CountIn, t
<1>. HIDE DEF A, B, F
<1>. QED
  BY <1>2, <1>4, <1>5, <1>6, <1>7
=============================================================================
