------------------------------ MODULE QueueProofs ------------------------------
(***************************************************************************)
(* What the operations on queues and channels do, for queues of anything.  *)
(***************************************************************************)
EXTENDS Queues, SequenceTheorems, TLAPS

\* Producing a message keeps the ones that are there.
LEMMA AppendFacts ==
  ASSUME NEW S, NEW q \in Seq(S), NEW x \in S
  PROVE  /\ Append(q, x) \in Seq(S)
         /\ Len(Append(q, x)) = Len(q) + 1
         /\ Append(q, x)[Len(q) + 1] = x
         /\ \A i \in 1 .. Len(q) : Append(q, x)[i] = q[i]
  BY AppendProperties

\* Consuming a message shifts the others by one.
LEMMA TailFacts ==
  ASSUME NEW S, NEW q \in Seq(S), q # <<>>
  PROVE  /\ Tail(q) \in Seq(S)
         /\ Len(Tail(q)) = Len(q) - 1
         /\ Len(q) \in Nat /\ Len(q) >= 1
         /\ Head(q) = q[1] /\ q[1] \in S
         /\ \A i \in 1 .. Len(q) - 1 : Tail(q)[i] = q[i + 1]
  BY HeadTailProperties, EmptySeq

\* Enqueue adds the task and nothing else.
LEMMA PushedFacts ==
  ASSUME NEW S, NEW q \in Seq(S), NEW t \in S, NEW b \in BOOLEAN
  PROVE  /\ Pushed(q, t, b) \in Seq(S)
         /\ \A u : InQueue(u, Pushed(q, t, b)) <=> u = t \/ InQueue(u, q)
         /\ NoRepeats(q) /\ ~InQueue(t, q) => NoRepeats(Pushed(q, t, b))
<1>1. CASE b
  <2> DEFINE p == <<t>> \o q
  <2>1. /\ p \in Seq(S) /\ Len(p) = Len(q) + 1 /\ Len(q) \in Nat
        /\ p[1] = t
        /\ \A i \in 1 .. Len(q) : p[i + 1] = q[i]
    BY SMT
  <2>2. \A i \in 1 .. Len(p) : i = 1 \/ (i - 1 \in 1 .. Len(q) /\ p[i] = q[i - 1])
    BY <2>1
  <2>3. Pushed(q, t, b) = p
    BY <1>1 DEF Pushed
  <2> HIDE DEF p
  <2>4. ASSUME NEW u PROVE InQueue(u, p) <=> u = t \/ InQueue(u, q)
    <3>1. ASSUME NEW i \in 1 .. Len(p), p[i] = u PROVE u = t \/ InQueue(u, q)
      BY <3>1, <2>1, <2>2 DEF InQueue
    <3>2. CASE u = t
      BY <3>2, <2>1 DEF InQueue
    <3>3. ASSUME NEW i \in 1 .. Len(q), q[i] = u PROVE InQueue(u, p)
      <4>1. i + 1 \in 1 .. Len(p) /\ p[i + 1] = u
        BY <3>3, <2>1
      <4> QED BY <4>1 DEF InQueue
    <3> QED BY <3>1, <3>2, <3>3 DEF InQueue
  <2>5. ASSUME NoRepeats(q), ~InQueue(t, q) PROVE NoRepeats(p)
    <3> SUFFICES ASSUME NEW i \in 1 .. Len(p), NEW j \in 1 .. Len(p), p[i] = p[j]
                 PROVE  i = j
      BY DEF NoRepeats
    <3>1. \A k \in 1 .. Len(q) : q[k] # t
      BY <2>5 DEF InQueue
    <3>2. CASE i # 1 /\ j # 1
      <4>1. i - 1 = j - 1
        BY <3>2, <2>2, <2>5 DEF NoRepeats
      <4> QED BY <4>1, <2>1
    <3> QED BY <3>1, <3>2, <2>1, <2>2
  <2> QED BY <2>1, <2>3, <2>4, <2>5
<1>2. CASE ~b
  <2> DEFINE p == Append(q, t)
  <2>1. /\ p \in Seq(S) /\ Len(p) = Len(q) + 1 /\ Len(q) \in Nat
        /\ p[Len(q) + 1] = t
        /\ \A i \in 1 .. Len(q) : p[i] = q[i]
    BY AppendFacts
  <2>3. Pushed(q, t, b) = p
    BY <1>2 DEF Pushed
  <2> HIDE DEF p
  <2>4. \A u : InQueue(u, p) <=> u = t \/ InQueue(u, q)
    BY <2>1 DEF InQueue
  <2>5. NoRepeats(q) /\ ~InQueue(t, q) => NoRepeats(p)
    BY <2>1 DEF NoRepeats, InQueue
  <2> QED BY <2>1, <2>3, <2>4, <2>5
<1> QED BY <1>1, <1>2

\* Dequeue takes the first task out and nothing else.
LEMMA DequeuedFacts ==
  ASSUME NEW S, NEW q \in Seq(S), q # <<>>
  PROVE  /\ Head(q) \in S /\ InQueue(Head(q), q)
         /\ Tail(q) \in Seq(S)
         /\ \A u : InQueue(u, q) <=> u = Head(q) \/ InQueue(u, Tail(q))
         /\ NoRepeats(q) => NoRepeats(Tail(q)) /\ ~InQueue(Head(q), Tail(q))
<1>1. /\ Tail(q) \in Seq(S)
      /\ Len(Tail(q)) = Len(q) - 1
      /\ Len(q) \in Nat /\ Len(q) >= 1
      /\ Head(q) = q[1] /\ q[1] \in S
      /\ \A i \in 1 .. Len(q) - 1 : Tail(q)[i] = q[i + 1]
  BY TailFacts
<1> DEFINE p == Tail(q)
<1>2. \A i \in 1 .. Len(q) : i = 1 \/ (i - 1 \in 1 .. Len(p) /\ q[i] = p[i - 1])
  BY <1>1
<1>3. \A i \in 1 .. Len(p) : i + 1 \in 1 .. Len(q) /\ p[i] = q[i + 1]
  BY <1>1
<1> HIDE DEF p
<1>4. \A u : InQueue(u, q) <=> u = Head(q) \/ InQueue(u, p)
  BY <1>1, <1>2, <1>3 DEF InQueue
<1>5. NoRepeats(q) => NoRepeats(p) /\ ~InQueue(Head(q), p)
  BY <1>1, <1>2, <1>3 DEF InQueue, NoRepeats
<1> QED BY <1>1, <1>4, <1>5 DEF p

LEMMA ErasedType ==
  ASSUME NEW S, NEW q \in Seq(S), NEW t \in S, InQueue(t, q)
  PROVE  Erased(q, t) \in Seq(S)
<1> DEFINE pos == CHOOSE i \in 1 .. Len(q) : q[i] = t
<1>1. pos \in 1 .. Len(q) /\ Len(q) \in Nat
  BY DEF InQueue
<1>2. Erased(q, t) = [i \in 1 .. Len(q) - 1 |-> IF i < pos THEN q[i] ELSE q[i + 1]]
  BY DEF Erased
<1> HIDE DEF pos
<1> QED BY <1>1, <1>2

\* Erase takes the task out and nothing else.
LEMMA ErasedFacts ==
  ASSUME NEW S, NEW q \in Seq(S), NEW t \in S, InQueue(t, q), NoRepeats(q)
  PROVE  /\ Erased(q, t) \in Seq(S)
         /\ \A u : InQueue(u, Erased(q, t)) <=> u # t /\ InQueue(u, q)
         /\ NoRepeats(Erased(q, t))
<1> DEFINE pos == CHOOSE i \in 1 .. Len(q) : q[i] = t
           p == [i \in 1 .. Len(q) - 1 |-> IF i < pos THEN q[i] ELSE q[i + 1]]
<1>1. pos \in 1 .. Len(q) /\ q[pos] = t /\ Len(q) \in Nat
  BY DEF InQueue
<1>2. Erased(q, t) = p
  BY DEF Erased
<1> HIDE DEF pos
<1>3. p \in Seq(S) /\ Len(p) = Len(q) - 1
  BY <1>1
<1>4. \A i \in 1 .. Len(p) : p[i] = IF i < pos THEN q[i] ELSE q[i + 1]
  BY <1>1, <1>3
<1> HIDE DEF p
<1>5. \A u : InQueue(u, p) => u # t /\ InQueue(u, q)
  BY <1>1, <1>3, <1>4 DEF InQueue, NoRepeats
<1>6. \A u : u # t /\ InQueue(u, q) => InQueue(u, p)
  <2> SUFFICES ASSUME NEW u, u # t, NEW i \in 1 .. Len(q), q[i] = u
               PROVE  InQueue(u, p)
    BY DEF InQueue
  <2>1. CASE i < pos
    BY <2>1, <1>1, <1>3, <1>4 DEF InQueue
  <2>2. CASE i > pos
    <3>1. i - 1 \in 1 .. Len(p) /\ p[i - 1] = u
      BY <2>2, <1>1, <1>3, <1>4
    <3> QED BY <3>1 DEF InQueue
  <2> QED BY <2>1, <2>2, <1>1
<1>7. NoRepeats(p)
  BY <1>1, <1>3, <1>4 DEF NoRepeats
<1> QED BY <1>2, <1>3, <1>5, <1>6, <1>7
================================================================================
