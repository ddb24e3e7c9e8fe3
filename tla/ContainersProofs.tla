-------------------------- MODULE ContainersProofs --------------------------
(***************************************************************************)
(* Proofs about the containers.                                            *)
(*                                                                         *)
(* About LFQueue, for every Capacity, every set of Values and any number   *)
(* of elements sent, under the one assumption the code does not enforce    *)
(* itself: the consumer keeps the producer within store_.size().  About    *)
(* MemPool, for every size of the pool and any order of calls.             *)
(***************************************************************************)
EXTENDS LFQueue, ModArith, SequenceTheorems

\* One step of an index that follows the count n.
LEMMA AdvanceCounts ==
  ASSUME NEW n \in Nat
  PROVE  /\ Advance(n % Capacity) = (n + 1) % Capacity
         /\ n % Capacity \in Slots
  <1>1. Advance(n % Capacity) = (n + 1) % Capacity
    <2>1. ((n % Capacity) + 1) % Capacity = (n + 1) % Capacity
      BY CapacityAssumption, ModShift, n \in Int, 1 \in Int
    <2> QED
      BY <2>1 DEF Advance
  <1>2. n % Capacity \in Slots
    BY CapacityAssumption, DivMod DEF Slots
  <1> QED
    BY <1>1, <1>2

\* Elements less than Capacity apart are in different slots.
LEMMA SlotsDiffer ==
  ASSUME NEW m \in Nat \ {0}, NEW n \in Nat \ {0},
         m < n, n - m < Capacity
  PROVE  SlotOf(m) # SlotOf(n)
  <1> DEFINE a == m - 1
             b == n - 1
  <1>1. a \in Int /\ b \in Int /\ a # b /\ a - b < Capacity /\ b - a < Capacity
    BY CapacityAssumption
  <1> HIDE DEF a, b
  <1>2. a % Capacity # b % Capacity
    BY <1>1, CapacityAssumption, ModInjective
  <1> QED
    BY <1>2 DEF a, b, SlotOf

\* The slot of the element after the n-th is the one at index n % Capacity.
LEMMA SlotOfNext ==
  ASSUME NEW n \in Nat
  PROVE  SlotOf(n + 1) = n % Capacity /\ SlotOf(n + 1) \in Slots
  <1>1. SlotOf(n + 1) = n % Capacity
    BY DEF SlotOf
  <1> QED
    BY <1>1, AdvanceCounts

LEMMA InitIInv == Init => IInv
  <1> SUFFICES ASSUME Init PROVE IInv
    OBVIOUS
  <1> USE CapacityAssumption, WindowAssumption DEF Init
  <1>1. TypeOK
    BY DEF TypeOK, Slots, Content, ProducerSteps, ConsumerSteps
  <1>2. DeliveredInOrder
    BY DEF DeliveredInOrder
  <1>3. Tracks
    <2>1. 0 % Capacity = 0
      BY ModSmall
    <2> QED
      BY <2>1 DEF Tracks, Unread
  <1> QED
    BY <1>1, <1>2, <1>3 DEF IInv

\* The slot the producer writes holds no element the consumer has yet to see.
LEMMA WriteSlotFree ==
  ASSUME IInv, Window <= Capacity, Unread < Window,
         NEW n \in Len(received) + 1 .. Len(sent)
  PROVE  SlotOf(n) # SlotOf(Len(sent) + 1)
  <1>1. Len(sent) \in Nat /\ Len(received) \in Nat
    BY LenProperties DEF IInv, TypeOK
  <1>2. n \in Nat \ {0} /\ Len(sent) + 1 \in Nat \ {0}
    BY <1>1
  <1>3. n < Len(sent) + 1 /\ (Len(sent) + 1) - n < Capacity
    BY <1>1, CapacityAssumption, WindowAssumption DEF Unread
  <1> QED
    BY <1>2, <1>3, SlotsDiffer

\* What the index of the next write points to.
LEMMA WriteIndex ==
  ASSUME IInv, producer # "advanced"
  PROVE  next_write_index_ = SlotOf(Len(sent) + 1)
  BY SlotOfNext, LenProperties DEF IInv, TypeOK, Tracks

\* What the index of the next read points to.
LEMMA ReadIndex ==
  ASSUME IInv, consumer # "advanced"
  PROVE  next_read_index_ = SlotOf(Len(received) + 1)
  BY SlotOfNext, LenProperties DEF IInv, TypeOK, Tracks

\* One step lemma per action of the producer.
LEMMA BeginWriteIInv ==
  ASSUME IInv, Window <= Capacity, NEW v \in Values, BeginWrite(v)
  PROVE  IInv'
  <1> USE DEF BeginWrite, consumerVars, history
  <1>1. next_write_index_ = SlotOf(Len(sent) + 1) /\ next_write_index_ \in Slots
    BY WriteIndex DEF IInv, TypeOK
  <1>2. \A n \in Len(received) + 1 .. Len(sent) : SlotOf(n) # SlotOf(Len(sent) + 1)
    BY WriteSlotFree
  <1>3. TypeOK'
    BY <1>1 DEF IInv, TypeOK, Content, ProducerSteps
  <1>4. DeliveredInOrder'
    BY DEF IInv, DeliveredInOrder
  <1>5. Tracks'
    <2>1. \A n \in Len(received) + 1 .. Len(sent) : store_'[SlotOf(n)] = sent[n]
      BY <1>1, <1>2 DEF IInv, TypeOK, Tracks
    <2> QED
      BY <2>1 DEF IInv, Tracks, Unread, SlotOf
  <1> QED
    BY <1>3, <1>4, <1>5 DEF IInv

LEMMA EndWriteIInv ==
  ASSUME IInv, Window <= Capacity, EndWrite
  PROVE  IInv'
  <1> USE DEF EndWrite, consumerVars, history
  <1>1. next_write_index_ = SlotOf(Len(sent) + 1) /\ next_write_index_ \in Slots
    BY WriteIndex DEF IInv, TypeOK
  <1>2. item \in Values /\ Unread < Window
    BY DEF IInv, Tracks
  <1>3. \A n \in Len(received) + 1 .. Len(sent) : SlotOf(n) # SlotOf(Len(sent) + 1)
    BY <1>2, WriteSlotFree
  <1>4. TypeOK'
    BY <1>1, <1>2 DEF IInv, TypeOK, Content, ProducerSteps
  <1>5. DeliveredInOrder'
    BY DEF IInv, DeliveredInOrder
  <1>6. Tracks'
    <2>1. \A n \in Len(received) + 1 .. Len(sent) : store_'[SlotOf(n)] = sent[n]
      BY <1>1, <1>3 DEF IInv, TypeOK, Tracks
    <2>2. store_'[SlotOf(Len(sent) + 1)] = item
      BY <1>1 DEF IInv, TypeOK
    <2> QED
      BY <2>1, <2>2 DEF IInv, Tracks, Unread, SlotOf
  <1> QED
    BY <1>4, <1>5, <1>6 DEF IInv

LEMMA UpdateWriteIndexIInv ==
  ASSUME IInv, UpdateWriteIndex
  PROVE  IInv'
  <1> USE DEF UpdateWriteIndex, consumerVars, history
  <1>1. Len(sent) \in Nat /\ Len(sent) + 1 \in Nat
    BY LenProperties DEF IInv, TypeOK
  <1>2. next_write_index_' = (Len(sent) + 1) % Capacity
    BY <1>1, AdvanceCounts DEF IInv, Tracks
  <1>3. next_write_index_' \in Slots
    BY <1>1, <1>2, AdvanceCounts
  <1>4. TypeOK'
    BY <1>3 DEF IInv, TypeOK, ProducerSteps
  <1>5. DeliveredInOrder'
    BY DEF IInv, DeliveredInOrder
  <1>6. Tracks'
    BY <1>2 DEF IInv, Tracks, Unread, SlotOf
  <1> QED
    BY <1>4, <1>5, <1>6 DEF IInv

LEMMA PublishIInv ==
  ASSUME IInv, Publish
  PROVE  IInv'
  <1> USE DEF Publish, consumerVars
  <1>1. /\ Len(sent) \in Nat /\ Len(received) \in Nat
        /\ sent \in Seq(Values) /\ item \in Values
    BY LenProperties DEF IInv, TypeOK, Tracks
  <1>2. /\ sent' \in Seq(Values)
        /\ Len(sent') = Len(sent) + 1
        /\ \A i \in 1 .. Len(sent) : sent'[i] = sent[i]
        /\ sent'[Len(sent) + 1] = item
    BY <1>1, AppendProperties
  <1>3. TypeOK'
    BY <1>2 DEF IInv, TypeOK, ProducerSteps
  <1>4. DeliveredInOrder'
    BY <1>1, <1>2 DEF IInv, DeliveredInOrder
  <1>5. Tracks'
    <2>1. (num_elements_ = Unread)' /\ (Unread <= Window)'
      BY <1>1, <1>2, WindowAssumption DEF IInv, Tracks, Unread
    <2>2. next_write_index_' = Len(sent') % Capacity
      BY <1>2 DEF IInv, Tracks
    <2>3. \A n \in Len(received) + 1 .. Len(sent') : store_[SlotOf(n)] = sent'[n]
      <3> SUFFICES ASSUME NEW n \in Len(received) + 1 .. Len(sent')
                   PROVE  store_[SlotOf(n)] = sent'[n]
        OBVIOUS
      <3>1. CASE n = Len(sent) + 1
        BY <3>1, <1>2 DEF IInv, Tracks
      <3>2. CASE n # Len(sent) + 1
        BY <3>2, <1>1, <1>2 DEF IInv, Tracks
      <3> QED
        BY <3>1, <3>2
    <2>4. consumer \in {"reading", "done", "advanced"} =>
            Unread' > 0 /\ got = sent'[Len(received) + 1]
      BY <1>1, <1>2 DEF IInv, Tracks, Unread
    <2> QED
      BY <2>1, <2>2, <2>3, <2>4 DEF IInv, Tracks, SlotOf
  <1> QED
    BY <1>3, <1>4, <1>5 DEF IInv

\* One step lemma per action of the consumer.
LEMMA BeginReadIInv ==
  ASSUME IInv, BeginRead
  PROVE  IInv'
  <1> USE DEF BeginRead, producerVars, history
  <1>1. Len(sent) \in Nat /\ Len(received) \in Nat
    BY LenProperties DEF IInv, TypeOK
  <1>2. next_read_index_ = SlotOf(Len(received) + 1)
    BY ReadIndex
  <1>3. Unread > 0 /\ Len(received) + 1 \in Len(received) + 1 .. Len(sent)
    BY <1>1 DEF IInv, TypeOK, Tracks, Unread
  <1>4. got' = sent[Len(received) + 1]
    BY <1>2, <1>3 DEF IInv, Tracks
  <1>5. TypeOK'
    BY DEF IInv, TypeOK, ConsumerSteps
  <1>6. DeliveredInOrder'
    BY DEF IInv, DeliveredInOrder
  <1>7. Tracks'
    BY <1>3, <1>4 DEF IInv, Tracks, Unread, SlotOf
  <1> QED
    BY <1>5, <1>6, <1>7 DEF IInv

LEMMA EndReadIInv ==
  ASSUME IInv, EndRead
  PROVE  IInv'
  <1> USE DEF EndRead, producerVars, history
  <1>1. Len(sent) \in Nat /\ Len(received) \in Nat
    BY LenProperties DEF IInv, TypeOK
  <1>2. next_read_index_ = SlotOf(Len(received) + 1)
    BY ReadIndex
  <1>3. /\ Len(received) + 1 \in Len(received) + 1 .. Len(sent)
        /\ got = sent[Len(received) + 1]
    BY <1>1 DEF IInv, Tracks, Unread
  <1>4. got' = got
    BY <1>2, <1>3 DEF IInv, Tracks
  <1>5. TypeOK'
    BY <1>4 DEF IInv, TypeOK, ConsumerSteps
  <1>6. DeliveredInOrder'
    BY DEF IInv, DeliveredInOrder
  <1>7. Tracks'
    BY <1>4 DEF IInv, Tracks, Unread, SlotOf
  <1> QED
    BY <1>5, <1>6, <1>7 DEF IInv

LEMMA UpdateReadIndexIInv ==
  ASSUME IInv, UpdateReadIndex
  PROVE  IInv'
  <1> USE DEF UpdateReadIndex, producerVars, history
  <1>1. Len(received) \in Nat /\ Len(received) + 1 \in Nat
    BY LenProperties DEF IInv, TypeOK
  <1>2. next_read_index_' = (Len(received) + 1) % Capacity
    BY <1>1, AdvanceCounts DEF IInv, Tracks
  <1>3. next_read_index_' \in Slots
    BY <1>1, <1>2, AdvanceCounts
  <1>4. TypeOK'
    BY <1>3 DEF IInv, TypeOK, ConsumerSteps
  <1>5. DeliveredInOrder'
    BY DEF IInv, DeliveredInOrder
  <1>6. Tracks'
    BY <1>2 DEF IInv, Tracks, Unread, SlotOf
  <1> QED
    BY <1>4, <1>5, <1>6 DEF IInv

LEMMA ReleaseIInv ==
  ASSUME IInv, Release
  PROVE  IInv'
  <1> USE DEF Release, producerVars
  <1>1. /\ Len(sent) \in Nat /\ Len(received) \in Nat
        /\ received \in Seq(Content) /\ got \in Content
    BY LenProperties DEF IInv, TypeOK
  <1>2. Unread > 0 /\ num_elements_ # 0 /\ got = sent[Len(received) + 1]
    BY <1>1 DEF IInv, Tracks, Unread
  <1>3. /\ consumer' = "idle" /\ num_elements_' = num_elements_ - 1
        /\ received' = Append(received, got)
    BY <1>2
  <1>4. /\ received' \in Seq(Content)
        /\ Len(received') = Len(received) + 1
        /\ \A i \in 1 .. Len(received) : received'[i] = received[i]
        /\ received'[Len(received) + 1] = got
    BY <1>1, <1>3, AppendProperties
  <1>5. TypeOK'
    BY <1>2, <1>3, <1>4 DEF IInv, TypeOK, ConsumerSteps
  <1>6. DeliveredInOrder'
    <2>1. Len(received') <= Len(sent)
      BY <1>1, <1>2, <1>4 DEF Unread
    <2>2. \A i \in 1 .. Len(received') : received'[i] = sent[i]
      BY <1>1, <1>2, <1>4 DEF IInv, DeliveredInOrder
    <2> QED
      BY <2>1, <2>2 DEF DeliveredInOrder
  <1>7. Tracks'
    <2>1. (num_elements_ = Unread)' /\ Unread' <= Unread /\ Unread' \in Int /\ Unread \in Int
      BY <1>1, <1>3, <1>4 DEF IInv, Tracks, Unread
    <2>2. next_read_index_' = Len(received') % Capacity
      BY <1>4 DEF IInv, Tracks
    <2>3. \A n \in Len(received') + 1 .. Len(sent) : store_[SlotOf(n)] = sent[n]
      BY <1>1, <1>4 DEF IInv, Tracks
    <2>4. (Unread <= Window)' /\ (producer # "idle" => item \in Values /\ Unread' < Window)
      BY <2>1, WindowAssumption DEF IInv, Tracks
    <2> QED
      BY <1>3, <2>1, <2>2, <2>3, <2>4 DEF IInv, Tracks, SlotOf
  <1> QED
    BY <1>5, <1>6, <1>7 DEF IInv

LEMMA StepIInv ==
  ASSUME Window <= Capacity
  PROVE  IInv /\ [Next]_vars => IInv'
  <1> SUFFICES ASSUME IInv, [Next]_vars PROVE IInv'
    OBVIOUS
  <1>1. CASE \E v \in Values : BeginWrite(v)
    BY <1>1, BeginWriteIInv
  <1>2. CASE EndWrite
    BY <1>2, EndWriteIInv
  <1>3. CASE UpdateWriteIndex
    BY <1>3, UpdateWriteIndexIInv
  <1>4. CASE Publish
    BY <1>4, PublishIInv
  <1>5. CASE BeginRead
    BY <1>5, BeginReadIInv
  <1>6. CASE EndRead
    BY <1>6, EndReadIInv
  <1>7. CASE UpdateReadIndex
    BY <1>7, UpdateReadIndexIInv
  <1>8. CASE Release
    BY <1>8, ReleaseIInv
  <1>9. CASE UNCHANGED vars
    BY <1>9 DEF vars, producerVars, consumerVars, history, IInv, TypeOK,
                DeliveredInOrder, Tracks, Unread, SlotOf
  <1>10. CASE PollEmpty
    BY <1>10, <1>9 DEF PollEmpty
  <1> QED
    BY <1>1, <1>2, <1>3, <1>4, <1>5, <1>6, <1>7, <1>8, <1>9, <1>10
       DEF Next, Producer, Consumer

\* The counter, the two indexes and the slots of LFQueue track what was
\* published and consumed, whatever the interleaving of the two threads.
THEOREM QueueInvariant ==
  ASSUME Window <= Capacity
  PROVE  Spec => []IInv
  BY InitIInv, StepIInv, PTL DEF Spec

\* What the consumer worked on is a prefix of what the producer published.
THEOREM QueueDeliversInOrder ==
  ASSUME Window <= Capacity
  PROVE  Spec => []DeliveredInOrder
  <1>1. IInv => DeliveredInOrder
    BY DEF IInv
  <1> QED
    BY <1>1, QueueInvariant, PTL

\* The producer never fills the slot the consumer is working on.
THEOREM QueueSlotsExclusive ==
  ASSUME Window <= Capacity
  PROVE  Spec => []SlotExclusive
  <1>1. IInv => SlotExclusive
    <2> SUFFICES ASSUME IInv, producer = "filling", consumer = "reading"
                 PROVE  next_write_index_ # next_read_index_
      BY DEF SlotExclusive
    <2>1. /\ next_write_index_ = SlotOf(Len(sent) + 1)
          /\ next_read_index_ = SlotOf(Len(received) + 1)
      BY WriteIndex, ReadIndex
    <2>2. Len(sent) \in Nat /\ Len(received) \in Nat
      BY LenProperties DEF IInv, TypeOK
    <2>3. Unread < Window /\ Len(received) + 1 \in Len(received) + 1 .. Len(sent)
      BY <2>2 DEF IInv, Tracks, Unread
    <2> QED
      BY <2>1, <2>3, WriteSlotFree
  <1> QED
    BY <1>1, QueueInvariant, PTL

-----------------------------------------------------------------------------
(***************************************************************************)
(* The queue implements FIFOQueue.                                         *)
(***************************************************************************)
Pending == SubSeq(sent, Len(received) + 1, Len(sent))

\* What the refinement mapping maps an unread element to.
LEMMA PendingProperties ==
  ASSUME IInv
  PROVE  /\ Pending \in Seq(Values)
         /\ Len(Pending) = Unread
         /\ \A i \in 1 .. Unread : Pending[i] = sent[Len(received) + i]
  <1>1. /\ sent \in Seq(Values) /\ Len(sent) \in Nat /\ Len(received) \in Nat
        /\ Len(received) <= Len(sent)
    BY LenProperties DEF IInv, TypeOK, DeliveredInOrder
  <1> QED
    BY <1>1 DEF Pending, Unread

\* Publishing appends to what is pending.
LEMMA PublishRefines ==
  ASSUME IInv, IInv', Publish, Window <= Capacity
  PROVE  \E v \in Values : Fifo!Send(v)
  <1>1. /\ sent \in Seq(Values) /\ Len(sent) \in Nat /\ Len(received) \in Nat
        /\ Len(received) <= Len(sent) /\ item \in Values /\ Unread < Window
    BY LenProperties DEF IInv, TypeOK, DeliveredInOrder, Tracks, Publish
  <1>2. /\ Len(sent') = Len(sent) + 1 /\ received' = received
        /\ \A i \in 1 .. Len(sent) : sent'[i] = sent[i]
        /\ sent'[Len(sent) + 1] = item
    BY <1>1, AppendProperties DEF Publish
  <1>3. /\ Pending' \in Seq(Values)
        /\ Len(Pending') = Unread'
        /\ \A i \in 1 .. Unread' : Pending'[i] = sent'[Len(received') + i]
    <2>1. /\ sent' \in Seq(Values) /\ Len(sent') \in Nat /\ Len(received') \in Nat
          /\ Len(received') <= Len(sent')
      BY LenProperties DEF IInv, TypeOK, DeliveredInOrder
    <2> QED
      BY <2>1 DEF Pending, Unread
  <1>4. Pending' = Append(Pending, item)
    <2>1. /\ Append(Pending, item) \in Seq(Values)
          /\ Len(Append(Pending, item)) = Unread + 1
          /\ \A i \in 1 .. Unread : Append(Pending, item)[i] = sent[Len(received) + i]
          /\ Append(Pending, item)[Unread + 1] = item
      BY <1>1, PendingProperties, AppendProperties
    <2>2. Unread' = Unread + 1 /\ Unread \in Nat /\ Unread = Len(sent) - Len(received)
      BY <1>1, <1>2 DEF Unread
    <2>3. \A i \in 1 .. Unread + 1 : Pending'[i] = Append(Pending, item)[i]
      <3> SUFFICES ASSUME NEW i \in 1 .. Unread + 1
                   PROVE  Pending'[i] = Append(Pending, item)[i]
        OBVIOUS
      <3>1. Pending'[i] = sent'[Len(received) + i]
        BY <1>2, <1>3, <2>2
      <3>2. CASE i = Unread + 1
        BY <3>1, <3>2, <1>1, <1>2, <2>1, <2>2
      <3>3. CASE i \in 1 .. Unread
        <4>1. Append(Pending, item)[i] = sent[Len(received) + i]
          BY <2>1, <3>3
        <4>2. Len(received) + i \in 1 .. Len(sent)
          BY <1>1, <2>2, <3>3
        <4>3. sent'[Len(received) + i] = sent[Len(received) + i]
          BY <1>2, <4>2
        <4> QED
          BY <3>1, <4>1, <4>3
      <3>4. i = Unread + 1 \/ i \in 1 .. Unread
        BY <2>2
      <3> QED
        BY <3>2, <3>3, <3>4
    <2> QED
      BY <1>3, <2>1, <2>2, <2>3, SeqEqual
  <1>5. Len(Pending) < Capacity
    BY <1>1, PendingProperties, CapacityAssumption, WindowAssumption DEF Unread
  <1> QED
    BY <1>1, <1>2, <1>4, <1>5 DEF Fifo!Send, Pending

\* Releasing removes the head of what is pending.
LEMMA ReleaseRefines ==
  ASSUME IInv, Release
  PROVE  Fifo!Receive
  <1>1. /\ sent \in Seq(Values) /\ Len(sent) \in Nat /\ Len(received) \in Nat
        /\ Len(received) + 1 \in 1 .. Len(sent) /\ num_elements_ # 0
        /\ got = sent[Len(received) + 1]
    BY LenProperties DEF IInv, TypeOK, DeliveredInOrder, Tracks, Unread, Release
  <1>2. /\ sent' = sent /\ received' = Append(received, got)
        /\ Len(received') = Len(received) + 1
    BY <1>1, AppendProperties DEF Release, IInv, TypeOK
  <1>3. /\ Head(Pending) = sent[Len(received) + 1]
        /\ Tail(Pending) = SubSeq(sent, (Len(received) + 1) + 1, Len(sent))
    BY <1>1, HeadTailOfSubSeq DEF Pending
  <1>4. Pending # << >>
    BY <1>1, PendingProperties DEF Unread
  <1>5. Pending' = Tail(Pending)
    BY <1>2, <1>3 DEF Pending
  <1> QED
    BY <1>1, <1>2, <1>3, <1>4, <1>5 DEF Fifo!Receive, Pending

\* Every step of the two threads is a step of the FIFO queue or none.
LEMMA StepRefines ==
  ASSUME Window <= Capacity
  PROVE  IInv /\ IInv' /\ [Next]_vars => [Fifo!Next]_(Fifo!vars)
  <1> SUFFICES ASSUME IInv, IInv', [Next]_vars
               PROVE  [Fifo!Next]_(Fifo!vars)
    OBVIOUS
  <1>1. CASE Publish
    BY <1>1, PublishRefines DEF Fifo!Next
  <1>2. CASE Release
    BY <1>2, ReleaseRefines DEF Fifo!Next
  <1>3. CASE sent' = sent /\ received' = received
    BY <1>3 DEF Fifo!vars
  <1>4. (sent' = sent /\ received' = received) \/ Publish \/ Release
    BY DEF Next, Producer, Consumer, vars, history, BeginWrite, EndWrite,
           UpdateWriteIndex, PollEmpty, BeginRead, EndRead, UpdateReadIndex
  <1> QED
    BY <1>1, <1>2, <1>3, <1>4

\* LFQueue with a consumer that keeps up behaves as a FIFO queue of
\* store_.size() elements.
THEOREM QueueImplementsFifo ==
  ASSUME Window <= Capacity
  PROVE  Spec => FifoSafety
  <1>1. Init => Fifo!Init
    BY DEF Init, Fifo!Init
  <1> QED
    BY <1>1, StepRefines, QueueInvariant, PTL DEF Spec, FifoSafety

-----------------------------------------------------------------------------
(***************************************************************************)
(* MemPool, for every number of blocks.                                    *)
(***************************************************************************)
CONSTANT NumElems

VARIABLES is_free_, next_free_index_, live, ended

Pool == INSTANCE MemPool

PoolInv == is_free_ \in [Pool!Blocks -> BOOLEAN] /\ Pool!PoolSound

\* PoolSound holds however allocations and deallocations alternate, for every
\* size of the pool: the search of updateNextFreeIndex keeps it.
THEOREM PoolInvariant ==
  ASSUME NumElems \in Nat \ {0}
  PROVE  Pool!Spec => []Pool!PoolSound
  <1>1. Pool!Init => PoolInv
    BY DEF Pool!Init, PoolInv, Pool!PoolSound, Pool!Blocks
  <1>2. PoolInv /\ [Pool!Next]_(Pool!vars) => PoolInv'
    <2> SUFFICES ASSUME PoolInv, [Pool!Next]_(Pool!vars) PROVE PoolInv'
      OBVIOUS
    <2>1. CASE Pool!allocate
      <3>1. is_free_' \in [Pool!Blocks -> BOOLEAN]
        BY <2>1 DEF Pool!allocate, PoolInv
      <3>2. {b \in Pool!Blocks : ~ is_free_'[b]} = {b \in Pool!Blocks : ~ is_free_[b]} \cup {next_free_index_}
        BY <2>1 DEF Pool!allocate, PoolInv, Pool!PoolSound
      <3>3. CASE ended' = "no"
        BY <2>1, <3>1, <3>2, <3>3 DEF Pool!allocate, Pool!NextFree, PoolInv, Pool!PoolSound
      <3>4. CASE ended' = "full"
        BY <2>1, <3>1, <3>4 DEF Pool!allocate, PoolInv, Pool!PoolSound
      <3> QED
        BY <2>1, <3>3, <3>4 DEF Pool!allocate
    <2>2. CASE Pool!AllocateFails
      BY <2>2 DEF Pool!AllocateFails, PoolInv, Pool!PoolSound
    <2>3. ASSUME NEW b \in Pool!Blocks, Pool!deallocate(b) PROVE PoolInv'
      BY <2>3 DEF Pool!deallocate, PoolInv, Pool!PoolSound
    <2>4. CASE Pool!DeallocateFails
      BY <2>4 DEF Pool!DeallocateFails, PoolInv, Pool!PoolSound
    <2>5. CASE UNCHANGED Pool!vars
      BY <2>5 DEF Pool!vars, PoolInv, Pool!PoolSound
    <2> QED
      BY <2>1, <2>2, <2>3, <2>4, <2>5 DEF Pool!Next
  <1>3. PoolInv => Pool!PoolSound
    BY DEF PoolInv
  <1> QED
    BY <1>1, <1>2, <1>3, PTL DEF Pool!Spec
=============================================================================
