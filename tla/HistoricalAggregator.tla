------------------------ MODULE HistoricalAggregator ------------------------
(***************************************************************************)
(* HistoricalDataAggergator                                                *)
(* (src/market_data/historical_data_aggregator): it sets up a table in a   *)
(* database, then takes market updates from a queue, keeps a ring of mid   *)
(* prices for the volatility and stores the updates.  The process may      *)
(* crash and be started again; the database outlives it.  A command fails  *)
(* by an error, without effect, or because the connection is lost: then it *)
(* may have taken effect although its reply never comes.                   *)
(*                                                                         *)
(* Updates are numbered, and the mid price taken at an update has its      *)
(* number; 0 is a slot never written.  The volatility is the set of prices *)
(* it was computed from.                                                   *)
(***************************************************************************)
EXTENDS Integers, Sequences, Functions

CONSTANTS TICK_DATA_SIZE,   \* slots of the ring
          QueueCapacity,    \* how far the producer may run ahead
          MaxTicks,         \* bound: updates between two starts
          MaxStarts         \* bound: starts of the process

ASSUME SizeAssumption == TICK_DATA_SIZE \in Nat /\ TICK_DATA_SIZE >= 2

VARIABLES table,        \* the database: tick_data absent, plain or hyper(table)
          stored,       \* the database: the last update inserted, 0 if none
          creator,      \* history: the start that created the table, 0 if none
          faulty,       \* history: the starts that met a fault in connectToDB()
          pc, starts,   \* where the process is, how often it was started
          conn,         \* state of the connection: ok or bad
          running,
          queue, fed,   \* the queue, and the number of the last update put there
          tick_data, write_index, num_of_elements, volatility

dbVars == <<table, stored, creator, faulty>>
ringVars == <<tick_data, write_index, num_of_elements, volatility>>
vars == <<dbVars, pc, starts, conn, running, queue, fed, ringVars>>

Slots == 0 .. TICK_DATA_SIZE - 1

EmptyRing == [i \in Slots |-> 0]

Init ==
  /\ table = "absent" /\ stored = 0 /\ creator = 0 /\ faulty = {}
  /\ pc = "down" /\ starts = 0
  /\ conn = "bad"
  /\ running = FALSE
  /\ queue = << >> /\ fed = 0
  /\ tick_data = EmptyRing
  /\ write_index = 0 /\ num_of_elements = 0 /\ volatility = {}

-----------------------------------------------------------------------------
(***************************************************************************)
(* Starts and crashes.                                                     *)
(***************************************************************************)
\* The constructor: PQconnectdb succeeds or not.
Start ==
  /\ pc = "down" /\ starts < MaxStarts
  /\ starts' = starts + 1
  /\ conn' \in {"ok", "bad"}
  /\ pc' = "connect"
  /\ running' = FALSE
  /\ queue' = << >>
  /\ tick_data' = EmptyRing
  /\ write_index' = 0 /\ num_of_elements' = 0 /\ volatility' = {}
  /\ UNCHANGED <<dbVars, fed>>

\* A fault of the current start within connectToDB().
Fault == faulty' = faulty \cup {starts}

Crash ==
  /\ pc # "down"
  /\ pc' = "down"
  /\ IF pc \in {"connect", "now", "exists", "create", "convert"} THEN Fault ELSE UNCHANGED faulty
  /\ queue' = << >>
  /\ UNCHANGED <<table, stored, creator, starts, conn, running, fed, ringVars>>

-----------------------------------------------------------------------------
(***************************************************************************)
(* connectToDB(): every command that fails ends it; run() follows anyway.  *)
(***************************************************************************)
Go(to) == pc' = to /\ UNCHANGED <<starts, conn, running, queue, fed, ringVars>>

\* The connection is lost while the reply to a command is awaited.
LoseReply(to) ==
  /\ conn = "ok"
  /\ conn' = "bad"
  /\ pc' = to
  /\ UNCHANGED <<starts, running, queue, fed, ringVars>>

CheckConnection ==
  /\ pc = "connect"
  /\ IF conn = "ok" THEN Go("now") /\ UNCHANGED faulty ELSE Go("ready") /\ Fault
  /\ UNCHANGED <<table, stored, creator>>

\* SELECT NOW() and the test for the table.
QueryFails ==
  /\ pc \in {"now", "exists"}
  /\ Go("ready") /\ Fault
  /\ UNCHANGED <<table, stored, creator>>

SelectNow ==
  /\ pc = "now" /\ conn = "ok"
  /\ Go("exists")
  /\ UNCHANGED dbVars

CheckTable ==
  /\ pc = "exists" /\ conn = "ok"
  /\ Go(IF table = "absent" THEN "create" ELSE "ready")
  /\ UNCHANGED dbVars

\* What CREATE TABLE does to the database.
Created == table' = "plain" /\ creator' = starts /\ UNCHANGED stored

\* Mutant of CreateTable: the conversion is left out.
CreateTableOnly ==
  /\ pc = "create" /\ conn = "ok"
  /\ Created /\ Go("ready")
  /\ UNCHANGED faulty

CreateTable ==
  /\ pc = "create" /\ conn = "ok"
  /\ Created /\ Go("convert")
  /\ UNCHANGED faulty

CreateFails ==
  /\ pc = "create"
  /\ Go("ready") /\ Fault
  /\ UNCHANGED <<table, stored, creator>>

\* The table is there, and connectToDB() returns as if it were not.
CreateReplyLost ==
  /\ pc = "create"
  /\ Created /\ LoseReply("ready") /\ Fault

CreateHypertable ==
  /\ pc = "convert" /\ conn = "ok"
  /\ table' = "hyper"
  /\ Go("ready")
  /\ UNCHANGED <<stored, creator, faulty>>

ConvertFails ==
  /\ pc = "convert"
  /\ Go("ready") /\ Fault
  /\ UNCHANGED <<table, stored, creator>>

ConvertReplyLost ==
  /\ pc = "convert"
  /\ table' = "hyper"
  /\ LoseReply("ready") /\ Fault
  /\ UNCHANGED <<stored, creator>>

-----------------------------------------------------------------------------
(***************************************************************************)
(* run().                                                                  *)
(***************************************************************************)
EnterRun ==
  /\ pc = "ready"
  /\ running' = TRUE
  /\ pc' = "checking"
  /\ UNCHANGED <<dbVars, starts, conn, queue, fed, ringVars>>

CheckRunning ==
  /\ pc = "checking"
  /\ Go(IF running THEN "polling" ELSE "ended")
  /\ UNCHANGED dbVars

PollEmpty ==
  /\ pc = "polling"
  /\ queue = << >>
  /\ Go("checking")
  /\ UNCHANGED dbVars

\* Mutant of WriteAt: the index never starts again.
WriteAtGrows == write_index

\* Where the next price goes: the index starts again after it has passed
\* TICK_DATA_SIZE.
WriteAt == IF write_index > TICK_DATA_SIZE THEN 0 ELSE write_index

\* tick_data[WriteAt] = mid, write_index++.  The write at TICK_DATA_SIZE is
\* outside the array.  It may fall on write_index, the member behind the array:
\* the index is then 0 if the price is 0.0 and beyond TICK_DATA_SIZE if not.
WriteTick(tick) ==
  IF WriteAt \in Slots
    THEN /\ tick_data' = [tick_data EXCEPT ![WriteAt] = tick]
         /\ write_index' = WriteAt + 1
    ELSE /\ write_index' \in {1, TICK_DATA_SIZE + 1}
         /\ UNCHANGED tick_data

insert_tick_data ==
  /\ pc = "polling"
  /\ queue # << >>
  /\ WriteTick(Head(queue))
  /\ num_of_elements' = IF num_of_elements < TICK_DATA_SIZE THEN num_of_elements + 1 ELSE num_of_elements
  /\ pc' = "computing"
  /\ UNCHANGED <<dbVars, starts, conn, running, queue, fed, volatility>>

\* computeReturns takes the returns between neighbouring slots of the whole
\* array as soon as there are two prices.
ComputeVolatility ==
  /\ pc = "computing"
  /\ volatility' = IF num_of_elements < 2 THEN {} ELSE Range(tick_data)
  /\ pc' = "writing"
  /\ UNCHANGED <<dbVars, starts, conn, running, queue, fed, tick_data, write_index,
                 num_of_elements>>

\* writeToDB: the update is inserted ...
InsertRow ==
  /\ pc = "writing"
  /\ conn = "ok" /\ table # "absent"
  /\ stored' = Head(queue)
  /\ Go("releasing")
  /\ UNCHANGED <<table, creator, faulty>>

\* Mutant of InsertFails: the update is tried again.
InsertFailsRetries ==
  /\ pc = "writing"
  /\ Go("writing")
  /\ UNCHANGED dbVars

\* ... or not, for want of a connection or a table or by an error; or it is, and
\* the reply is lost.  Either is ignored.
InsertFails ==
  /\ pc = "writing"
  /\ Go("releasing")
  /\ UNCHANGED dbVars

InsertReplyLost ==
  /\ pc = "writing"
  /\ table # "absent"
  /\ stored' = Head(queue)
  /\ LoseReply("releasing")
  /\ UNCHANGED <<table, creator, faulty>>

\* Mutant of Release: updateReadIndex is forgotten.
ReleaseForgotten ==
  /\ pc = "releasing"
  /\ pc' = "checking"
  /\ UNCHANGED <<dbVars, starts, conn, running, queue, fed, ringVars>>

\* updateReadIndex.
Release ==
  /\ pc = "releasing"
  /\ queue' = Tail(queue)
  /\ pc' = "checking"
  /\ UNCHANGED <<dbVars, starts, conn, running, fed, ringVars>>

-----------------------------------------------------------------------------
(***************************************************************************)
(* The producer of updates, the thread that calls stop(), the network.     *)
(***************************************************************************)
Feed ==
  /\ pc # "down"
  /\ fed < MaxTicks * starts
  /\ Len(queue) < QueueCapacity
  /\ fed' = fed + 1
  /\ queue' = Append(queue, fed + 1)
  /\ UNCHANGED <<dbVars, pc, starts, conn, running, ringVars>>

\* stop(); before run() has begun it changes nothing and is lost.
Stop ==
  /\ pc # "down" /\ running
  /\ running' = FALSE
  /\ UNCHANGED <<dbVars, pc, starts, conn, queue, fed, ringVars>>

LoseConnection ==
  /\ conn = "ok"
  /\ conn' = "bad"
  /\ UNCHANGED <<dbVars, pc, starts, running, queue, fed, ringVars>>

\* The process is over, or was started as often as the bound allows.
Over == /\ \/ pc = "ended"
           \/ pc = "down" /\ starts = MaxStarts
        /\ UNCHANGED vars

-----------------------------------------------------------------------------
Setup ==
  \/ CheckConnection \/ QueryFails \/ SelectNow \/ CheckTable
  \/ CreateTable \/ CreateFails \/ CreateReplyLost
  \/ CreateHypertable \/ ConvertFails \/ ConvertReplyLost

Run ==
  \/ EnterRun \/ CheckRunning \/ PollEmpty \/ insert_tick_data \/ ComputeVolatility
  \/ InsertRow \/ InsertFails \/ InsertReplyLost \/ Release

Next ==
  \/ Start \/ Crash \/ Setup \/ Run
  \/ Feed \/ Stop \/ LoseConnection \/ Over

\* The thread of the aggregator is scheduled, and a command sent to the database
\* returns, if only with an error.
Spec == Init /\ [][Next]_vars /\ WF_vars(Setup \/ Run)

-----------------------------------------------------------------------------
(***************************************************************************)
(* Properties.                                                             *)
(***************************************************************************)
\* No update is stored twice or after a later one, whatever inserts fail and
\* whenever the process crashes: what is about to be stored is later than all
\* that is.
StoredInOrder == pc = "writing" => stored < Head(queue)

\* The table is a hypertable unless the start that created it met a fault of the
\* database, the network or the process while it was in connectToDB().  In the
\* course of several starts nothing else leads to a plain table: no fault of an
\* earlier or a later start, none in run(), and no start that went well.
PlainOnlyAfterFailure ==
  table = "plain" => \/ pc = "convert" /\ creator = starts
                     \/ creator \in faulty

\* Once num_of_elements says that the ring is full, the volatility is computed
\* from prices and from no slot that was never written, and all of them but the
\* one in slot 0 are among the last TICK_DATA_SIZE + 1.  That one may be old
\* (see WriteTick).
VolatilityOfRecent ==
  num_of_elements = TICK_DATA_SIZE /\ pc = "writing" =>
    /\ 0 \notin volatility
    /\ \A i \in Slots \ {0} : tick_data[i] >= Head(queue) - TICK_DATA_SIZE

\* A database that fails, or is lost, does not hold the queue up: what the
\* producer puts there is taken out, unless run() ends first.
QueueDrains == []<>(queue = << >> \/ pc = "ended")
=============================================================================
