------------------------- MODULE CircularQueueProofs -------------------------
(***************************************************************************)
(* What the two operations of the circular queue do to its length and to   *)
(* the sequence of its nodes, for every length of the array; each lemma    *)
(* has the operation's own assertion as a hypothesis.  And that with one   *)
(* consumer the circular queue is a bounded first-in first-out queue, for  *)
(* every length of the array and every set of items.                       *)
(*                                                                         *)
(* UsageTypeOK is inductive as it stands: its last part, that the          *)
(* consumer's slot is the one just behind head, is what keeps EnQueue away *)
(* from the node that the consumer may still be reading.                   *)
(***************************************************************************)
EXTENDS OneConsumer, SequenceTheorems, TLAPS

\* The next position of the array.
LEMMA NextSlot ==
    ASSUME NEW x \in Slots
    PROVE  /\ (x + 1) % MAX_QUEUE_LEN = IF x + 1 = MAX_QUEUE_LEN THEN 0 ELSE x + 1
           /\ (x + 1) % MAX_QUEUE_LEN \in Slots
<1> DEFINE L == MAX_QUEUE_LEN
<1>1. L \in Nat /\ L >= 2 /\ x \in Nat /\ x < L
    BY QueueLenAssumption DEF Slots
<1> HIDE DEF L
<1>2. CASE x + 1 = L
  <2>1. (x + 1) % L = 0
      BY <1>1, <1>2
  <2> QED
      BY <2>1, <1>1, <1>2 DEF L, Slots
<1>3. CASE x + 1 < L
  <2>1. (x + 1) % L = x + 1
      BY <1>1, <1>3
  <2> QED
      BY <2>1, <1>1, <1>3 DEF L, Slots
<1> QED
    BY <1>1, <1>2, <1>3

\* EnQueue makes a queue that is not full one node longer.
LEMMA EnQueueCount ==
    ASSUME NEW node, head \in Slots, tail \in Slots, ~isQueueFull, EnQueue(node)
    PROVE  head' \in Slots /\ tail' \in Slots /\ Count' = Count + 1
<1>1. MAX_QUEUE_LEN \in Nat /\ MAX_QUEUE_LEN >= 2
    BY QueueLenAssumption
<1>2. /\ tail' = IF tail + 1 = MAX_QUEUE_LEN THEN 0 ELSE tail + 1
      /\ tail' \in Slots /\ head' = head /\ head # tail'
    BY NextSlot DEF EnQueue, isQueueFull
<1> QED
    BY <1>1, <1>2 DEF Count, Slots

\* DeQueue makes a queue that is not empty one node shorter.
LEMMA DeQueueCount ==
    ASSUME head \in Slots, tail \in Slots, ~isQueueEmpty, DeQueue
    PROVE  head' \in Slots /\ tail' \in Slots /\ Count' = Count - 1
<1>1. MAX_QUEUE_LEN \in Nat /\ MAX_QUEUE_LEN >= 2
    BY QueueLenAssumption
<1>2. /\ head' = IF head + 1 = MAX_QUEUE_LEN THEN 0 ELSE head + 1
      /\ head' \in Slots /\ tail' = tail /\ head # tail
    BY NextSlot DEF DeQueue, isQueueEmpty
<1> QED
    BY <1>1, <1>2 DEF Count, Slots

\* One slot of the array stays free.
LEMMA FullCount ==
    ASSUME head \in Slots, tail \in Slots, isQueueFull
    PROVE  Count = MAX_QUEUE_LEN - 1
<1>1. MAX_QUEUE_LEN \in Nat /\ MAX_QUEUE_LEN >= 2 /\ head \in Nat /\ tail \in Nat
    BY QueueLenAssumption DEF Slots
<1>2. head = IF tail + 1 = MAX_QUEUE_LEN THEN 0 ELSE tail + 1
    BY NextSlot DEF isQueueFull
<1> QED
    BY <1>1, <1>2 DEF Count

-----------------------------------------------------------------------------
(* The sequence of the queued nodes.                                       *)

\* The position of the i-th node of the queue that begins at h.
SlotOf(h, i) == IF h + i - 1 < MAX_QUEUE_LEN THEN h + i - 1 ELSE h + i - 1 - MAX_QUEUE_LEN

LEMMA SlotOfMod ==
    ASSUME NEW h \in Slots, NEW i \in 1..MAX_QUEUE_LEN
    PROVE  (h + i - 1) % MAX_QUEUE_LEN = SlotOf(h, i) /\ SlotOf(h, i) \in Slots
<1> DEFINE L == MAX_QUEUE_LEN
           x == h + i - 1
<1>1. L \in Nat /\ L >= 2 /\ x \in Nat /\ x < 2 * L
    BY QueueLenAssumption DEF Slots
<1> HIDE DEF L, x
<1>2. CASE x < L
  <2>1. x % L = x
      BY <1>1, <1>2
  <2> QED
      BY <1>1, <1>2, <2>1 DEF L, x, SlotOf, Slots
<1>3. CASE x >= L
  <2>1. x % L = x - L
      BY <1>1, <1>3
  <2> QED
      BY <1>1, <1>3, <2>1 DEF L, x, SlotOf, Slots
<1> QED
    BY <1>1, <1>2, <1>3

\* The nodes of a queue of c nodes that begins at h.
NodesOf(q, h, c) == [i \in 1..c |-> q[(h + i - 1) % MAX_QUEUE_LEN]]

LEMMA NodesOfSlots ==
    ASSUME NEW h \in Slots, NEW c \in Nat, c < MAX_QUEUE_LEN, NEW q, NEW i \in 1..c
    PROVE  NodesOf(q, h, c)[i] = q[SlotOf(h, i)] /\ SlotOf(h, i) \in Slots
<1>1. i \in 1..MAX_QUEUE_LEN
    BY QueueLenAssumption
<1>2. (h + i - 1) % MAX_QUEUE_LEN = SlotOf(h, i) /\ SlotOf(h, i) \in Slots
    BY <1>1, SlotOfMod
<1> QED
    BY <1>2 DEF NodesOf

LEMMA NodesOfSeq ==
    ASSUME NEW h \in Slots, NEW c \in Nat, c < MAX_QUEUE_LEN, NEW q,
           NEW S, \A x \in Slots : q[x] \in S
    PROVE  NodesOf(q, h, c) \in Seq(S) /\ Len(NodesOf(q, h, c)) = c
<1>1. NodesOf(q, h, c) = [i \in 1..c |-> NodesOf(q, h, c)[i]]
    BY DEF NodesOf
<1>2. \A i \in 1..c : NodesOf(q, h, c)[i] \in S
    BY NodesOfSlots
<1> QED
    BY <1>1, <1>2

LEMMA CountRange ==
    ASSUME NEW h \in Slots, NEW t \in Slots
    PROVE  (IF t >= h THEN t - h ELSE t - h + MAX_QUEUE_LEN) \in 0..(MAX_QUEUE_LEN - 1)
BY QueueLenAssumption DEF Slots

\* EnQueue of a queue that is not full puts the node at its end.
LEMMA EnQueueContents ==
    ASSUME NEW node, head \in Slots, tail \in Slots, DOMAIN Q = Slots,
           ~isQueueFull, EnQueue(node)
    PROVE  Contents' = Append(Contents, node) /\ Len(Contents) < MAX_QUEUE_LEN - 1
<1>1. head' = head /\ tail' \in Slots /\ Count' = Count + 1
    BY EnQueueCount DEF EnQueue
<1>2. Count \in 0..(MAX_QUEUE_LEN - 1) /\ Count' \in 0..(MAX_QUEUE_LEN - 1)
    BY <1>1, CountRange DEF Count
<1>0. PICK q, r : q = Q /\ r = Q'
    OBVIOUS
<1>3. PICK h \in Slots, c \in Nat, d \in Nat :
         /\ h = head /\ c = Count /\ d = c + 1
         /\ c < MAX_QUEUE_LEN /\ d < MAX_QUEUE_LEN
    BY <1>1, <1>2, QueueLenAssumption
<1>4. Contents = NodesOf(q, h, c) /\ Contents' = NodesOf(r, h, d)
    BY <1>0, <1>1, <1>3 DEF Contents, NodesOf
<1>5. SlotOf(h, d) = tail /\ \A i \in 1..c : SlotOf(h, i) # tail
    BY <1>3, QueueLenAssumption DEF SlotOf, Count, Slots
<1>6. r[tail] = node /\ \A x \in Slots : x # tail => r[x] = q[x]
    BY <1>0 DEF EnQueue
<1> DEFINE S == {q[x] : x \in Slots} \cup {r[x] : x \in Slots}
           A == Append(NodesOf(q, h, c), node)
           B == NodesOf(r, h, d)
<1>7. node \in S
    BY <1>6
<1>8. NodesOf(q, h, c) \in Seq(S) /\ B \in Seq(S) /\ Len(B) = d
    BY <1>3, NodesOfSeq
<1>9. Len(NodesOf(q, h, c)) = c
  <2>1. \A x \in Slots : q[x] \in S
      OBVIOUS
  <2> HIDE DEF S
  <2> QED
      BY <1>3, <2>1, NodesOfSeq
<1> HIDE DEF S
<1>10. /\ A \in Seq(S) /\ Len(A) = d /\ A[d] = node
       /\ \A i \in 1..c : A[i] = NodesOf(q, h, c)[i]
    BY <1>3, <1>7, <1>8, <1>9, AppendProperties
<1>11. ASSUME NEW i \in 1..d PROVE A[i] = B[i]
  <2>1. B[i] = r[SlotOf(h, i)] /\ SlotOf(h, i) \in Slots
      BY <1>3, NodesOfSlots
  <2>2. CASE i = d
      BY <1>5, <1>6, <1>10, <2>1, <2>2
  <2>3. CASE i \in 1..c
    <3>1. NodesOf(q, h, c)[i] = q[SlotOf(h, i)]
        BY <1>3, <2>3, NodesOfSlots
    <3> QED
        BY <1>5, <1>6, <1>10, <2>1, <2>3, <3>1
  <2>4. i = d \/ i \in 1..c
      BY <1>3
  <2> QED
      BY <2>2, <2>3, <2>4
<1>12. A = B
    BY <1>8, <1>10, <1>11, SeqEqual
<1> QED
    BY <1>3, <1>4, <1>9, <1>12, QueueLenAssumption

\* DeQueue of a queue that is not empty takes its first node, the one at head.
LEMMA DeQueueContents ==
    ASSUME head \in Slots, tail \in Slots, ~isQueueEmpty, DeQueue
    PROVE  /\ Contents # <<>>
           /\ Head(Contents) = Q[head]
           /\ Contents' = Tail(Contents)
<1>1. head' \in Slots /\ tail' \in Slots /\ Count' = Count - 1 /\ Q' = Q
    BY DeQueueCount DEF DeQueue
<1>2. Count \in 0..(MAX_QUEUE_LEN - 1) /\ Count' \in 0..(MAX_QUEUE_LEN - 1)
    BY <1>1, CountRange DEF Count
<1>0. PICK q : q = Q
    OBVIOUS
<1>3. PICK h \in Slots, g \in Slots, c \in Nat, d \in Nat :
         /\ h = head /\ g = head' /\ c = Count /\ d = c - 1
         /\ c < MAX_QUEUE_LEN /\ d < MAX_QUEUE_LEN
    BY <1>1, <1>2, QueueLenAssumption
<1>4. Contents = NodesOf(q, h, c) /\ Contents' = NodesOf(q, g, d)
    BY <1>0, <1>1, <1>3 DEF Contents, NodesOf
<1>5. /\ SlotOf(h, 1) = h
      /\ \A i \in 1..d : SlotOf(h, i + 1) = SlotOf(g, i)
  <2>1. g = IF h + 1 = MAX_QUEUE_LEN THEN 0 ELSE h + 1
      BY <1>3, NextSlot DEF DeQueue
  <2> QED
      BY <1>3, <2>1, QueueLenAssumption DEF SlotOf, Slots
<1> DEFINE S == {q[x] : x \in Slots}
           A == NodesOf(q, h, c)
           B == NodesOf(q, g, d)
<1>6. A \in Seq(S) /\ Len(A) = c /\ \A i \in 1..c : A[i] = q[SlotOf(h, i)]
    BY <1>3, NodesOfSlots, NodesOfSeq
<1>7. B \in Seq(S) /\ Len(B) = d /\ \A i \in 1..d : B[i] = q[SlotOf(g, i)]
  <2>1. \A x \in Slots : q[x] \in S
      OBVIOUS
  <2>2. \A i \in 1..d : B[i] = q[SlotOf(g, i)]
      BY <1>3, NodesOfSlots
  <2> HIDE DEF S
  <2> QED
      BY <1>3, <2>1, <2>2, NodesOfSeq
<1> HIDE DEF S, A, B
<1>8. A # <<>> /\ Head(A) = A[1]
    BY <1>3, <1>6
<1>9. /\ Tail(A) \in Seq(S) /\ Len(Tail(A)) = d
      /\ \A i \in 1..d : Tail(A)[i] = A[i + 1]
    BY <1>3, <1>6, <1>8, HeadTailProperties
<1>10. ASSUME NEW i \in 1..d PROVE Tail(A)[i] = B[i]
    BY <1>3, <1>5, <1>6, <1>7, <1>9
<1>11. Tail(A) = B
    BY <1>7, <1>9, <1>10, SeqEqual
<1>12. Head(A) = q[h]
    BY <1>3, <1>5, <1>6, <1>8
<1> QED
    BY <1>0, <1>3, <1>4, <1>8, <1>11, <1>12 DEF A, B

-----------------------------------------------------------------------------
(* One producer and one consumer.                                          *)

\* The node that the consumer reads.
Got == IF pnode = -1 THEN NoItem ELSE Q[pnode]

LEMMA ProduceType ==
    ASSUME UsageTypeOK, NEW x \in Items, Produce(x)
    PROVE  UsageTypeOK'
<1>1. head' \in Slots /\ tail' \in Slots
    BY EnQueueCount DEF UsageTypeOK, QueueTypeOK, Produce
<1>2. Q' \in [Slots -> Items \cup {NoItem}] /\ head' = head /\ pnode' = pnode
    BY DEF UsageTypeOK, QueueTypeOK, Produce, EnQueue
<1> QED
    BY <1>1, <1>2 DEF UsageTypeOK, QueueTypeOK

LEMMA ConsumeType ==
    ASSUME UsageTypeOK, Consume
    PROVE  UsageTypeOK'
<1>1. head' \in Slots /\ tail' \in Slots
    BY DeQueueCount DEF UsageTypeOK, QueueTypeOK, Consume
<1> QED
    BY <1>1 DEF UsageTypeOK, QueueTypeOK, Consume, DeQueue

\* EnQueue and DeQueue keep the positions inside the array, and the node that
\* DeQueue returned just behind head.
THEOREM QueueTypes == UsageSpec => []UsageTypeOK
<1>1. UsageInit => UsageTypeOK
    BY QueueLenAssumption DEF UsageInit, InitQueue, UsageTypeOK, QueueTypeOK, Slots
<1>2. UsageTypeOK /\ [UsageNext]_usageVars => UsageTypeOK'
  <2>1. ASSUME UsageTypeOK, UNCHANGED usageVars PROVE UsageTypeOK'
      BY <2>1 DEF UsageTypeOK, QueueTypeOK, usageVars
  <2> QED
      BY <2>1, ProduceType, ConsumeType DEF UsageNext
<1> QED
    BY <1>1, <1>2, PTL DEF UsageSpec

-----------------------------------------------------------------------------
(* Every step is a step of BoundedQueue.                                   *)

LEMMA ProducePuts ==
    ASSUME UsageTypeOK, NEW x \in Items, Produce(x)
    PROVE  Abstract!Put(x)
<1>1. Contents' = Append(Contents, x) /\ Len(Contents) < MAX_QUEUE_LEN - 1
    BY EnQueueContents DEF UsageTypeOK, QueueTypeOK, Produce
<1>2. Got' = Got
  <2>1. pnode # -1 => pnode # tail
      BY DEF UsageTypeOK, Produce, isQueueFull
  <2> QED
      BY <2>1 DEF Got, UsageTypeOK, QueueTypeOK, Produce, EnQueue
<1> QED
    BY <1>1, <1>2 DEF Abstract!Put, Got, MAX_QUEUE_USELEN

LEMMA ConsumeTakes ==
    ASSUME UsageTypeOK, Consume
    PROVE  Abstract!Take
<1>1. Contents # <<>> /\ Head(Contents) = Q[head] /\ Contents' = Tail(Contents)
    BY DeQueueContents DEF UsageTypeOK, QueueTypeOK, Consume
<1>2. Got' = Q[head]
    BY QueueLenAssumption DEF Got, Consume, DeQueue, UsageTypeOK, QueueTypeOK, Slots
<1> QED
    BY <1>1, <1>2 DEF Abstract!Take, Got

\* The array with one producer and one consumer implements a first-in first-out
\* queue of MAX_QUEUE_USELEN nodes, whose last taken node stays readable.
THEOREM QueueRefinement == UsageSpec => ImplementsQueue
<1>1. UsageInit => Abstract!Init
  <2>1. ASSUME UsageInit PROVE Contents = <<>> /\ Got = NoItem
      BY <2>1 DEF UsageInit, InitQueue, Contents, Count, Got
  <2> QED
      BY <2>1 DEF Abstract!Init, Got
<1>2. UsageTypeOK /\ [UsageNext]_usageVars => [Abstract!Next]_<<Contents, Got>>
  <2>1. ASSUME UsageTypeOK, UNCHANGED usageVars PROVE UNCHANGED <<Contents, Got>>
      BY <2>1 DEF usageVars, Contents, Count, Got
  <2>2. ASSUME UsageTypeOK, UsageNext PROVE Abstract!Next
      BY <2>2, ProducePuts, ConsumeTakes DEF UsageNext, Abstract!Next
  <2> QED
      BY <2>1, <2>2
<1> QED
    BY <1>1, <1>2, QueueTypes, PTL DEF UsageSpec, ImplementsQueue, Abstract!Spec, Got
=============================================================================
