------------------------------ MODULE LFQueue ------------------------------
(***************************************************************************)
(* Common::LFQueue (include/utils/containers/lock_free_queue.hpp) with its *)
(* two threads: the one that fills the slot getNextToWriteTo() returns and *)
(* publishes it, and the one that polls getNextToRead(), works on the slot *)
(* in place and releases it.                                               *)
(*                                                                         *)
(* An access to an element is not atomic: filling a slot and working on it *)
(* each have a beginning and an end, and what is read from a slot that is  *)
(* overwritten meanwhile is Torn.  Every access to one of the three atomic *)
(* members is a step.                                                      *)
(*                                                                         *)
(* The queue never tests whether it is full.  What keeps the producer from *)
(* overtaking the consumer is only that the consumer keeps up; Window is   *)
(* that assumption: a write begins with fewer than Window elements unread. *)
(***************************************************************************)
EXTENDS Integers, Sequences

CONSTANTS Capacity,   \* store_.size()
          Values,     \* what is sent
          Blank,      \* T(), the content of a slot never written
          Torn,       \* what is seen of a slot that is being overwritten
          Window,     \* how far the consumer lets the producer run ahead
          MaxSent     \* bound: elements the producer sends

ASSUME CapacityAssumption == Capacity \in Nat \ {0}
ASSUME WindowAssumption == Window \in Nat
ASSUME MaxSentAssumption == MaxSent \in Nat
ASSUME ValuesAssumption == Blank \notin Values /\ Torn \notin Values

VARIABLES store_, next_write_index_, next_read_index_, num_elements_,
          producer,   \* where the producer is: idle, filling, filled, advanced
          item,       \* what the producer is writing
          consumer,   \* where the consumer is: idle, reading, done, advanced,
                      \*   exited (a failed ASSERT ends the process)
          got,        \* what the consumer has seen of its slot
          sent,       \* history: the elements published, in order
          received    \* history: the elements consumed, in order

producerVars == <<producer, item>>
consumerVars == <<consumer, got>>
history == <<sent, received>>
vars == <<store_, next_write_index_, next_read_index_, num_elements_,
          producerVars, consumerVars, history>>

Slots == 0 .. Capacity - 1

Content == Values \cup {Blank, Torn}

Unread == Len(sent) - Len(received)

(***************************************************************************)
(* The constructor.                                                        *)
(***************************************************************************)
Init ==
  /\ store_ = [i \in Slots |-> Blank]
  /\ next_write_index_ = 0
  /\ next_read_index_ = 0
  /\ num_elements_ = 0
  /\ producer = "idle" /\ item = Blank
  /\ consumer = "idle" /\ got = Blank
  /\ sent = << >> /\ received = << >>

\* Mutant of Advance: a ring one slot short.
AdvanceShortRing(i) == (i + 1) % (Capacity - 1)

\* The index after i.
Advance(i) == (i + 1) % Capacity

(***************************************************************************)
(* The producer: slot = getNextToWriteTo(); *slot = v; updateWriteIndex(). *)
(***************************************************************************)
BeginWrite(v) ==
  /\ producer = "idle"
  /\ Len(sent) < MaxSent
  /\ Unread < Window
  /\ store_' = [store_ EXCEPT ![next_write_index_] = Torn]
  /\ item' = v
  /\ producer' = "filling"
  /\ UNCHANGED <<next_write_index_, next_read_index_, num_elements_,
                 consumerVars, history>>

EndWrite ==
  /\ producer = "filling"
  /\ store_' = [store_ EXCEPT ![next_write_index_] = item]
  /\ producer' = "filled"
  /\ UNCHANGED <<next_write_index_, next_read_index_, num_elements_, item,
                 consumerVars, history>>

\* updateWriteIndex(), first the index ...
UpdateWriteIndex ==
  /\ producer = "filled"
  /\ next_write_index_' = Advance(next_write_index_)
  /\ producer' = "advanced"
  /\ UNCHANGED <<store_, next_read_index_, num_elements_, item,
                 consumerVars, history>>

\* ... then the counter, which is what makes the element visible.
Publish ==
  /\ producer = "advanced"
  /\ num_elements_' = num_elements_ + 1
  /\ producer' = "idle"
  /\ sent' = Append(sent, item)
  /\ UNCHANGED <<store_, next_write_index_, next_read_index_, item,
                 consumerVars, received>>

(***************************************************************************)
(* The consumer: getNextToRead(), work on the slot, updateReadIndex().     *)
(***************************************************************************)
PollEmpty ==
  /\ consumer = "idle"
  /\ num_elements_ = 0
  /\ UNCHANGED vars

\* Mutant of BeginRead: getNextToRead() without the test of size().
BeginReadUnchecked ==
  /\ consumer = "idle"
  /\ got' = store_[next_read_index_]
  /\ consumer' = "reading"
  /\ UNCHANGED <<store_, next_write_index_, next_read_index_, num_elements_,
                 producerVars, history>>

BeginRead ==
  /\ consumer = "idle"
  /\ num_elements_ # 0
  /\ got' = store_[next_read_index_]
  /\ consumer' = "reading"
  /\ UNCHANGED <<store_, next_write_index_, next_read_index_, num_elements_,
                 producerVars, history>>

\* The consumer is done with the slot; it has seen one element of the queue
\* only if the slot is still what it was.
EndRead ==
  /\ consumer = "reading"
  /\ got' = IF store_[next_read_index_] = got THEN got ELSE Torn
  /\ consumer' = "done"
  /\ UNCHANGED <<store_, next_write_index_, next_read_index_, num_elements_,
                 producerVars, history>>

\* Mutant of UpdateReadIndex: the index moves by two.
UpdateReadIndexSkips ==
  /\ consumer = "done"
  /\ next_read_index_' = Advance(Advance(next_read_index_))
  /\ consumer' = "advanced"
  /\ UNCHANGED <<store_, next_write_index_, num_elements_, got,
                 producerVars, history>>

\* updateReadIndex(), first the index ...
UpdateReadIndex ==
  /\ consumer = "done"
  /\ next_read_index_' = Advance(next_read_index_)
  /\ consumer' = "advanced"
  /\ UNCHANGED <<store_, next_write_index_, num_elements_, got,
                 producerVars, history>>

\* Mutant of Release: the counter is not decremented.
ReleaseKeepsCount ==
  /\ consumer = "advanced"
  /\ consumer' = "idle"
  /\ received' = Append(received, got)
  /\ UNCHANGED <<store_, next_write_index_, next_read_index_, num_elements_, got,
                 producerVars, sent>>

\* ... then the ASSERT, which exits when it fails, and the counter.
Release ==
  /\ consumer = "advanced"
  /\ IF num_elements_ = 0
       THEN /\ consumer' = "exited"
            /\ UNCHANGED <<num_elements_, received>>
       ELSE /\ consumer' = "idle"
            /\ num_elements_' = num_elements_ - 1
            /\ received' = Append(received, got)
  /\ UNCHANGED <<store_, next_write_index_, next_read_index_, got,
                 producerVars, sent>>

Producer == (\E v \in Values : BeginWrite(v)) \/ EndWrite \/ UpdateWriteIndex \/ Publish

Consumer == PollEmpty \/ BeginRead \/ EndRead \/ UpdateReadIndex \/ Release

Next == Producer \/ Consumer

\* Both threads run to the end of what they began; the consumer polls for ever.
\* Nothing obliges the producer to begin a write.
Fairness ==
  /\ WF_vars(EndWrite \/ UpdateWriteIndex \/ Publish)
  /\ WF_vars(Consumer)

Spec == Init /\ [][Next]_vars /\ Fairness

-----------------------------------------------------------------------------
(***************************************************************************)
(* Properties.                                                             *)
(***************************************************************************)
ProducerSteps == {"idle", "filling", "filled", "advanced"}
ConsumerSteps == {"idle", "reading", "done", "advanced", "exited"}

\* The members of the queue and the threads' positions have their types; in
\* particular both indexes stay within store_.
TypeOK ==
  /\ store_ \in [Slots -> Content]
  /\ next_write_index_ \in Slots
  /\ next_read_index_ \in Slots
  /\ num_elements_ \in Nat
  /\ producer \in ProducerSteps
  /\ item \in Values \cup {Blank}
  /\ consumer \in ConsumerSteps
  /\ got \in Content
  /\ sent \in Seq(Values)
  /\ received \in Seq(Content)

\* The "FIFO order" of store_: what the consumer worked on is, element for
\* element, what the producer published, nothing torn, skipped or repeated.
DeliveredInOrder ==
  /\ Len(received) <= Len(sent)
  /\ \A i \in 1 .. Len(received) : received[i] = sent[i]

\* The reference getNextToRead() returned is never to the slot the producer is
\* filling: the two plain accesses to one element do not race.
SlotExclusive ==
  ~ /\ producer = "filling"
    /\ consumer = "reading"
    /\ next_write_index_ = next_read_index_

\* Slot of the element at position n of the queue's history.
SlotOf(n) == (n - 1) % Capacity

\* What relates the indexes, the counter and the slots to the two histories
\* between any two steps of the two threads.
Tracks ==
  /\ num_elements_ = Unread
  /\ next_write_index_ =
       (IF producer = "advanced" THEN Len(sent) + 1 ELSE Len(sent)) % Capacity
  /\ next_read_index_ =
       (IF consumer = "advanced" THEN Len(received) + 1 ELSE Len(received)) % Capacity
  /\ producer # "idle" => item \in Values /\ Unread < Window
  /\ Unread <= Window
  /\ consumer \in {"reading", "done", "advanced"} =>
       Unread > 0 /\ got = sent[Len(received) + 1]
  /\ consumer # "exited"
  /\ \A n \in Len(received) + 1 .. Len(sent) : store_[SlotOf(n)] = sent[n]
  /\ producer \in {"filled", "advanced"} => store_[SlotOf(Len(sent) + 1)] = item

\* The inductive invariant behind DeliveredInOrder and SlotExclusive: it holds
\* as long as the consumer keeps the producer within store_.size() elements.
IInv == TypeOK /\ DeliveredInOrder /\ Tracks

\* The queue promises FIFO delivery of everything published, at the step that
\* changes num_elements_.
Fifo == INSTANCE FIFOQueue WITH
          queue <- SubSeq(sent, Len(received) + 1, Len(sent)),
          delivered <- received

\* Each step of updateWriteIndex() and updateReadIndex() is a step of a FIFO
\* queue of store_.size() elements or none, and what is published is delivered.
FifoSpec == Fifo!Spec

\* The safety part of FifoSpec.
FifoSafety == Fifo!Init /\ [][Fifo!Next]_(Fifo!vars)
=============================================================================
