----------------------------- MODULE FIFOQueue -----------------------------
(***************************************************************************)
(* What a queue between two threads of the trading system promises: what   *)
(* the producer sends is delivered to the consumer once each, in the order *)
(* in which it was sent, and a queue that is polled is eventually drained. *)
(***************************************************************************)
EXTENDS Naturals, Sequences

CONSTANTS Values,     \* what may be sent
          Capacity    \* elements the queue holds

VARIABLES queue,      \* sent and not yet delivered
          delivered   \* everything delivered so far, in order

vars == <<queue, delivered>>

Init == queue = << >> /\ delivered = << >>

\* The producer sends v.
Send(v) ==
  /\ Len(queue) < Capacity
  /\ queue' = Append(queue, v)
  /\ UNCHANGED delivered

\* The consumer takes the oldest element.
Receive ==
  /\ queue # << >>
  /\ delivered' = Append(delivered, Head(queue))
  /\ queue' = Tail(queue)

Next == Receive \/ \E v \in Values : Send(v)

Fairness == WF_vars(Receive)

Spec == Init /\ [][Next]_vars /\ Fairness
=============================================================================
