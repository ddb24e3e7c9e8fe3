--------------------------- MODULE TradingSystem ---------------------------
(***************************************************************************)
(* The threads of main.cpp: main itself, one ingester thread per venue     *)
(* (MarketDataIngester::startReceiving) and the OBM thread                 *)
(* (OrderBookManager::run), with one queue of market updates per venue.    *)
(* main launches the threads, joins the ingesters, stops the OBM and joins *)
(* it.  main.cpp has one venue; run() goes round any number of queues.     *)
(*                                                                         *)
(* A queue is the FIFOQueue that LFQueue implements for a consumer that    *)
(* keeps up; QueueCapacity is that assumption.  What an update does to its *)
(* book and which signals follow is in StrategyManager; here an update is  *)
(* its instrument and its place in the feed of its venue.  The feeds never *)
(* end; the first MaxUpdates of a venue are numbered, those after have     *)
(* place 0 and are not in the histories.                                   *)
(***************************************************************************)
EXTENDS Integers, Sequences, FiniteSets, SequencesExt

CONSTANTS NumVenues,       \* update_queues_.size()
          Symbols,         \* instruments of a venue
          Frames,          \* what a binary frame decodes to: sequences of Symbols
          QueueCapacity,   \* how far the OBM thread lets an ingester run ahead
          MaxUpdates       \* bound: updates per venue that are numbered

Venues == 1 .. NumVenues

ASSUME VenuesAssumption == NumVenues \in Nat \ {0}
ASSUME FramesAssumption == Frames \subseteq Seq(Symbols)
ASSUME BoundAssumption == MaxUpdates \in Nat

VARIABLES main,         \* statement of main() to be executed next
          ingester,     \* per venue: where its thread is
          batch,        \* per venue: decoded and not yet enqueued
          queue,        \* per venue: its LFQueue<MarketUpdate>
          obm,          \* where the OBM thread is
          running_,     \* OrderBookManager::running_
          cursor,       \* the queue run() polls next
          current,      \* the update run() is working on, << >> if none
          published,    \* history, per venue: numbered updates enqueued
          applied       \* history, per venue: numbered updates applied to the books

feedVars == <<ingester, batch, published>>
obmVars == <<obm, cursor, current, applied>>
vars == <<main, feedVars, queue, obmVars, running_>>

Update == [venue : Venues, symbol : Symbols, place : 0 .. MaxUpdates]

Init ==
  /\ main = "launch_obm"
  /\ ingester = [v \in Venues |-> "absent"]
  /\ batch = [v \in Venues |-> << >>]
  /\ queue = [v \in Venues |-> << >>]
  /\ obm = "absent"
  /\ running_ = FALSE
  /\ cursor = 1
  /\ current = << >>
  /\ published = [v \in Venues |-> << >>]
  /\ applied = [v \in Venues |-> << >>]

-----------------------------------------------------------------------------
(***************************************************************************)
(* main().                                                                 *)
(***************************************************************************)
LaunchObm ==
  /\ main = "launch_obm"
  /\ main' = "launch_ingesters"
  /\ obm' = "entering"
  /\ UNCHANGED <<feedVars, queue, cursor, current, applied, running_>>

LaunchIngesters ==
  /\ main = "launch_ingesters"
  /\ main' = "join_ingesters"
  /\ ingester' = [v \in Venues |-> "connecting"]
  /\ UNCHANGED <<batch, published, queue, obmVars, running_>>

JoinIngesters ==
  /\ main = "join_ingesters"
  /\ \A v \in Venues : ingester[v] = "ended"
  /\ main' = "stop"
  /\ UNCHANGED <<feedVars, queue, obmVars, running_>>

\* OrderBookManager::stop().
Stop ==
  /\ main = "stop"
  /\ running_' = FALSE
  /\ main' = "join_obm"
  /\ UNCHANGED <<feedVars, queue, obmVars>>

JoinObm ==
  /\ main = "join_obm"
  /\ obm = "ended"
  /\ main' = "returned"
  /\ UNCHANGED <<feedVars, queue, obmVars, running_>>

\* The process is over.
Returned == main = "returned" /\ UNCHANGED vars

-----------------------------------------------------------------------------
(***************************************************************************)
(* The ingester of venue v.                                                *)
(***************************************************************************)
\* TLS connection and WebSocket handshake succeed ...
Connect(v) ==
  /\ ingester[v] = "connecting"
  /\ ingester' = [ingester EXCEPT ![v] = "reading"]
  /\ UNCHANGED <<main, batch, published, queue, obmVars, running_>>

\* ... or one of them fails, which ends the thread.
ConnectFails(v) ==
  /\ ingester[v] = "connecting"
  /\ ingester' = [ingester EXCEPT ![v] = "ended"]
  /\ UNCHANGED <<main, batch, published, queue, obmVars, running_>>

\* read_frame() returns a binary frame and the parser decodes it.
ReadFrame(v, f) ==
  /\ ingester[v] = "reading"
  /\ batch' = [batch EXCEPT ![v] = f]
  /\ ingester' = [ingester EXCEPT ![v] = "decoding"]
  /\ UNCHANGED <<main, published, queue, obmVars, running_>>

\* Mutant of ReadNothing: a failed read ends the thread.
ReadNothingEnds(v) ==
  /\ ingester[v] = "reading"
  /\ ingester' = [ingester EXCEPT ![v] = "ended"]
  /\ UNCHANGED <<main, batch, published, queue, obmVars, running_>>

\* read_frame() fails or returns another frame: the loop goes on.
ReadNothing(v) ==
  /\ ingester[v] = "reading"
  /\ UNCHANGED vars

\* The place of the next update of v, and a history with it.
NextPlace(v) == IF Len(published[v]) < MaxUpdates THEN Len(published[v]) + 1 ELSE 0

Noted(history, u) == IF u.place = 0 THEN history ELSE Append(history, u)

\* The decoder enqueues the next update of the frame.
Enqueue(v) ==
  LET u == [venue |-> v, symbol |-> Head(batch[v]), place |-> NextPlace(v)]
  IN  /\ ingester[v] = "decoding"
      /\ batch[v] # << >>
      /\ Len(queue[v]) < QueueCapacity
      /\ queue' = [queue EXCEPT ![v] = Append(@, u)]
      /\ published' = [published EXCEPT ![v] = Noted(@, u)]
      /\ batch' = [batch EXCEPT ![v] = Tail(@)]
      /\ UNCHANGED <<main, ingester, obmVars, running_>>

EndOfFrame(v) ==
  /\ ingester[v] = "decoding"
  /\ batch[v] = << >>
  /\ ingester' = [ingester EXCEPT ![v] = "reading"]
  /\ UNCHANGED <<main, batch, published, queue, obmVars, running_>>

-----------------------------------------------------------------------------
(***************************************************************************)
(* The OBM thread: OrderBookManager::run().                                *)
(***************************************************************************)
\* The first statement.
EnterRun ==
  /\ obm = "entering"
  /\ running_' = TRUE
  /\ obm' = "checking"
  /\ UNCHANGED <<main, feedVars, queue, cursor, current, applied>>

\* The condition of the loop.
CheckRunning ==
  /\ obm = "checking"
  /\ IF running_ THEN obm' = "polling" /\ cursor' = 1
                 ELSE obm' = "ended" /\ UNCHANGED cursor
  /\ UNCHANGED <<main, feedVars, queue, current, applied, running_>>

\* Mutants of NextQueue: one queue too many, and a queue polled until it is empty.
NextQueueBeyond ==
  IF cursor <= NumVenues
    THEN obm' = "polling" /\ cursor' = cursor + 1
    ELSE obm' = "checking" /\ UNCHANGED cursor

NextQueueDrains ==
  CASE obm = "releasing" /\ Len(queue[cursor]) > 1 -> obm' = "polling" /\ UNCHANGED cursor
    [] cursor < NumVenues -> obm' = "polling" /\ cursor' = cursor + 1
    [] OTHER -> obm' = "checking" /\ UNCHANGED cursor

\* After the queue at the cursor: the next one, or the next round.
NextQueue ==
  IF cursor < NumVenues
    THEN obm' = "polling" /\ cursor' = cursor + 1
    ELSE obm' = "checking" /\ UNCHANGED cursor

PollEmpty ==
  /\ obm = "polling"
  /\ queue[cursor] = << >>
  /\ NextQueue
  /\ UNCHANGED <<main, feedVars, queue, current, applied, running_>>

PollUpdate ==
  /\ obm = "polling"
  /\ queue[cursor] # << >>
  /\ current' = <<Head(queue[cursor])>>
  /\ obm' = "passing"
  /\ UNCHANGED <<main, feedVars, queue, cursor, applied, running_>>

\* passUpdateToOrderbook, on the slot in place.
PassUpdate ==
  /\ obm = "passing"
  /\ applied' = [applied EXCEPT ![current[1].venue] = Noted(@, current[1])]
  /\ obm' = "releasing"
  /\ UNCHANGED <<main, feedVars, queue, cursor, current, running_>>

\* Mutant of ReleaseSlot: updateReadIndex is forgotten.
ReleaseSlotForgotten ==
  /\ obm = "releasing"
  /\ current' = << >>
  /\ NextQueue
  /\ UNCHANGED <<main, feedVars, queue, applied, running_>>

\* updateReadIndex.
ReleaseSlot ==
  /\ obm = "releasing"
  /\ queue' = [queue EXCEPT ![cursor] = Tail(@)]
  /\ current' = << >>
  /\ NextQueue
  /\ UNCHANGED <<main, feedVars, applied, running_>>

-----------------------------------------------------------------------------
Main == LaunchObm \/ LaunchIngesters \/ JoinIngesters \/ Stop \/ JoinObm

Ingester(v) ==
  \/ Connect(v) \/ ConnectFails(v) \/ ReadNothing(v) \/ Enqueue(v) \/ EndOfFrame(v)
  \/ \E f \in Frames : ReadFrame(v, f)

Obm == EnterRun \/ CheckRunning \/ PollEmpty \/ PollUpdate \/ PassUpdate \/ ReleaseSlot

Next == Main \/ Returned \/ Obm \/ \E v \in Venues : Ingester(v)

\* Every thread that can run is scheduled.  The network owes nothing: connect()
\* may hang and a frame may never come.
Fairness ==
  /\ WF_vars(Main)
  /\ WF_vars(Obm)
  /\ \A v \in Venues : WF_vars(Enqueue(v) \/ EndOfFrame(v))

Spec == Init /\ [][Next]_vars /\ Fairness

-----------------------------------------------------------------------------
(***************************************************************************)
(* Properties.                                                             *)
(***************************************************************************)
\* The threads are where they can be and the queues hold updates.
TypeOK ==
  /\ main \in {"launch_obm", "launch_ingesters", "join_ingesters", "stop", "join_obm", "returned"}
  /\ ingester \in [Venues -> {"absent", "connecting", "reading", "decoding", "ended"}]
  /\ batch \in [Venues -> Seq(Symbols)]
  /\ queue \in [Venues -> Seq(Update)]
  /\ obm \in {"absent", "entering", "checking", "polling", "passing", "releasing", "ended"}
  /\ running_ \in BOOLEAN
  /\ cursor \in Venues
  /\ current \in Seq(Update) /\ Len(current) <= 1
  /\ published \in [Venues -> Seq(Update)]
  /\ applied \in [Venues -> Seq(Update)]

\* Every update is applied to the books at most once, and the updates of a
\* venue in the order in which its ingester enqueued them, whatever the
\* interleaving of the venues.
AppliedInFeedOrder == \A v \in Venues : IsPrefix(applied[v], published[v])

\* The OBM thread never stops with updates of a venue enqueued or still coming:
\* an ingester thread that has begun to read never ends.
NothingAbandoned ==
  obm = "ended" => \A v \in Venues : /\ ingester[v] = "ended"
                                     /\ queue[v] = << >>
                                     /\ applied[v] = published[v]

\* An update that was enqueued reaches its book, though other venues' queues may
\* never be empty: run() goes round the queues, takes one update of each and
\* comes back to every queue that has some.
EveryUpdateApplied ==
  \A v \in Venues :
    /\ \A n \in 1 .. MaxUpdates : Len(published[v]) >= n ~> Len(applied[v]) >= n
    /\ queue[v] # << >> ~> obm = "releasing" /\ cursor = v

\* docs/market_data.md: stop() "Sets atomic flag to exit run()": after stop()
\* the OBM thread leaves run().  Fails when run() begins after stop().
StopEndsRun == main = "join_obm" ~> obm = "ended"
=============================================================================
