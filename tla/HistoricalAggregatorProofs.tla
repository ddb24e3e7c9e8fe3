--------------------- MODULE HistoricalAggregatorProofs ---------------------
(***************************************************************************)
(* Proofs about HistoricalAggregator, for any size of the ring and of the  *)
(* queue and any number of updates, crashes and starts.                    *)
(***************************************************************************)
EXTENDS HistoricalAggregator, SequenceTheorems, TLAPS

\* connectToDB() leaves a plain table only where the start that created it met a
\* fault on its way, over any number of starts, crashes and lost replies.
THEOREM TablePlainOnlyAfterFailure == Spec => []PlainOnlyAfterFailure
  <1>1. Init => PlainOnlyAfterFailure
    BY DEF Init, PlainOnlyAfterFailure
  <1>2. PlainOnlyAfterFailure /\ [Next]_vars => PlainOnlyAfterFailure'
    <2> SUFFICES ASSUME PlainOnlyAfterFailure, [Next]_vars PROVE PlainOnlyAfterFailure'
      OBVIOUS
    <2> USE DEF PlainOnlyAfterFailure
    <2>1. CASE Start
      BY <2>1 DEF Start, dbVars
    <2>2. CASE Crash
      BY <2>2 DEF Crash, Fault
    <2>3. CASE CheckConnection \/ QueryFails \/ SelectNow \/ CheckTable
      BY <2>3 DEF Go, Fault, dbVars, CheckConnection, QueryFails, SelectNow, CheckTable
    <2>4. CASE CreateTable \/ CreateFails \/ CreateReplyLost
      BY <2>4 DEF Go, LoseReply, Fault, Created, CreateTable, CreateFails, CreateReplyLost
    <2>5. CASE CreateHypertable \/ ConvertFails \/ ConvertReplyLost
      BY <2>5 DEF Go, LoseReply, Fault, CreateHypertable, ConvertFails, ConvertReplyLost
    <2>6. CASE Run
      BY <2>6 DEF Run, Go, LoseReply, dbVars, EnterRun, CheckRunning, PollEmpty,
                  insert_tick_data, ComputeVolatility, InsertRow, InsertFails, InsertReplyLost,
                  Release
    <2>7. CASE Feed \/ Stop \/ LoseConnection \/ Over \/ UNCHANGED vars
      BY <2>7 DEF Feed, Stop, LoseConnection, Over, vars, dbVars
    <2> QED
      BY <2>1, <2>2, <2>3, <2>4, <2>5, <2>6, <2>7 DEF Next, Setup
  <1> QED
    BY <1>1, <1>2, PTL DEF Spec

-----------------------------------------------------------------------------
\* The queue holds the last updates that were put there, in order.
QueueInv ==
  /\ fed \in Nat
  /\ queue \in Seq(Nat)
  /\ Len(queue) <= fed
  /\ \A i \in 1 .. Len(queue) : queue[i] = fed - Len(queue) + i

\* What is stored was taken from the queue before, or is its first update while
\* that is still to be released.
StoredInv ==
  /\ stored \in Nat
  /\ pc # "releasing" => stored <= fed - Len(queue)
  /\ pc = "releasing" => stored <= fed - Len(queue) + 1
  /\ pc \in {"computing", "writing", "releasing"} => queue # << >>

IInv == QueueInv /\ StoredInv

\* connectToDB() touches neither the queue nor the rows nor the ring.
LEMMA SetupStep ==
  ASSUME Setup
  PROVE  /\ UNCHANGED <<queue, fed, stored, ringVars>>
         /\ pc \notin {"down", "computing", "writing", "releasing"}
         /\ pc' \notin {"computing", "writing", "releasing"}
  BY DEF Setup, Go, LoseReply, Created, dbVars, CheckConnection, QueryFails, SelectNow,
         CheckTable, CreateTable, CreateFails, CreateReplyLost, CreateHypertable,
         ConvertFails, ConvertReplyLost

LEMMA HeadOfQueue ==
  ASSUME QueueInv, queue # << >>
  PROVE  Len(queue) \in Nat \ {0} /\ Head(queue) = fed - Len(queue) + 1
  <1>1. Len(queue) \in Nat \ {0} /\ Head(queue) = queue[1]
    BY EmptySeq, HeadTailProperties DEF QueueInv
  <1> QED
    BY <1>1 DEF QueueInv

LEMMA FeedKeeps ==
  ASSUME IInv, Feed
  PROVE  IInv'
  <1>1. Len(queue) \in Nat /\ fed + 1 \in Nat
    BY LenProperties DEF IInv, QueueInv
  <1>2. /\ queue' \in Seq(Nat) /\ queue' # << >>
        /\ Len(queue') = Len(queue) + 1
        /\ \A i \in 1 .. Len(queue) : queue'[i] = queue[i]
        /\ queue'[Len(queue) + 1] = fed + 1
    BY <1>1, AppendProperties DEF Feed, IInv, QueueInv
  <1>3. QueueInv'
    BY <1>1, <1>2 DEF Feed, IInv, QueueInv
  <1>4. StoredInv'
    BY <1>1, <1>2 DEF Feed, dbVars, IInv, QueueInv, StoredInv
  <1> QED
    BY <1>3, <1>4 DEF IInv

LEMMA ReleaseKeeps ==
  ASSUME IInv, Release
  PROVE  IInv'
  <1>1. queue # << >> /\ Len(queue) \in Nat \ {0}
    BY HeadOfQueue DEF Release, IInv, StoredInv
  <1>2. /\ queue' \in Seq(Nat)
        /\ Len(queue') = Len(queue) - 1
        /\ \A i \in 1 .. Len(queue') : queue'[i] = queue[i + 1]
    BY <1>1, HeadTailProperties DEF Release, IInv, QueueInv
  <1>3. QueueInv'
    BY <1>1, <1>2 DEF Release, IInv, QueueInv
  <1>4. StoredInv'
    BY <1>1, <1>2 DEF Release, dbVars, IInv, QueueInv, StoredInv
  <1> QED
    BY <1>3, <1>4 DEF IInv

\* The queue is emptied.
LEMMA RestartKeeps ==
  ASSUME IInv, Start \/ Crash
  PROVE  IInv'
  <1>1. queue' = << >> /\ UNCHANGED <<fed, stored>> /\ pc' \in {"connect", "down"}
    BY DEF Start, Crash, dbVars
  <1>2. queue' \in Seq(Nat) /\ Len(queue') = 0
    BY <1>1
  <1>3. Len(queue) \in Nat
    BY LenProperties DEF IInv, QueueInv
  <1>4. stored <= fed
    BY <1>3, HeadOfQueue DEF IInv, QueueInv, StoredInv
  <1> QED
    BY <1>1, <1>2, <1>4 DEF IInv, QueueInv, StoredInv

\* The queue and what is stored agree over any number of starts.
LEMMA QueueInvariant == Spec => []IInv
  <1>1. Init => IInv
    <2> SUFFICES ASSUME Init PROVE IInv
      OBVIOUS
    <2>1. queue \in Seq(Nat) /\ Len(queue) = 0
      BY DEF Init
    <2> QED
      BY <2>1 DEF Init, IInv, QueueInv, StoredInv
  <1>2. IInv /\ [Next]_vars => IInv'
    <2> SUFFICES ASSUME IInv, [Next]_vars PROVE IInv'
      OBVIOUS
    <2>1. Len(queue) \in Nat /\ fed \in Nat
      BY LenProperties DEF IInv, QueueInv
    <2>2. CASE Start \/ Crash
      BY <2>2, RestartKeeps
    <2>3. CASE Setup
      <3>1. /\ UNCHANGED <<queue, fed, stored>>
            /\ pc # "releasing" /\ pc' \notin {"computing", "writing", "releasing"}
        BY <2>3, SetupStep
      <3> QED
        BY <3>1 DEF IInv, QueueInv, StoredInv
    <2>4. CASE EnterRun \/ CheckRunning \/ PollEmpty \/ insert_tick_data \/ ComputeVolatility
      BY <2>4 DEF Go, dbVars, EnterRun, CheckRunning, PollEmpty, insert_tick_data,
                  ComputeVolatility, IInv, QueueInv, StoredInv
    <2>5. CASE InsertRow \/ InsertReplyLost
      <3>1. /\ pc = "writing" /\ pc' = "releasing"
            /\ stored' = Head(queue) /\ UNCHANGED <<queue, fed>>
        BY <2>5 DEF InsertRow, InsertReplyLost, Go, LoseReply
      <3>2. queue # << >>
        BY <3>1 DEF IInv, StoredInv
      <3>3. stored' = fed - Len(queue) + 1
        BY <3>1, <3>2, HeadOfQueue DEF IInv
      <3> QED
        BY <2>1, <3>1, <3>2, <3>3 DEF IInv, QueueInv, StoredInv
    <2>6. CASE InsertFails
      BY <2>1, <2>6 DEF InsertFails, Go, dbVars, IInv, QueueInv, StoredInv
    <2>7. CASE Release
      BY <2>7, ReleaseKeeps
    <2>8. CASE Feed
      BY <2>8, FeedKeeps
    <2>9. CASE Stop \/ LoseConnection \/ Over \/ UNCHANGED vars
      BY <2>9 DEF Stop, LoseConnection, Over, vars, dbVars, IInv, QueueInv, StoredInv
    <2> QED
      BY <2>2, <2>3, <2>4, <2>5, <2>6, <2>7, <2>8, <2>9 DEF Next, Run
  <1> QED
    BY <1>1, <1>2, PTL DEF Spec

\* No update is stored twice or after a later one, whatever fails and whenever
\* the process crashes: writeToDB is followed by updateReadIndex, and a new
\* process begins with an empty queue.
THEOREM UpdatesStoredInOrder == Spec => []StoredInOrder
  <1>1. IInv => StoredInOrder
    <2> SUFFICES ASSUME IInv, pc = "writing" PROVE stored < Head(queue)
      BY DEF StoredInOrder
    <2>1. queue # << >>
      BY DEF IInv, StoredInv
    <2> QED
      BY <2>1, HeadOfQueue DEF IInv, QueueInv, StoredInv
  <1> QED
    BY <1>1, QueueInvariant, PTL

-----------------------------------------------------------------------------
\* The update whose price went to the ring last.
Taken == fed - Len(queue) + (IF pc \in {"computing", "writing", "releasing"} THEN 1 ELSE 0)

\* How old the price in slot i may be: it was written on this way through the
\* array, or on the way before, which ended with the write outside the array
\* and perhaps one to slot 0.
Age(i) == IF i < write_index THEN write_index - 1 - i ELSE TICK_DATA_SIZE - i + write_index

\* The ring while the process is up.  Slot 0 has no age: after the write outside
\* the array the index may pass it.
RingInv ==
  pc # "down" =>
    /\ tick_data \in [Slots -> Nat]
    /\ write_index \in 0 .. TICK_DATA_SIZE + 1
    /\ num_of_elements \in 0 .. TICK_DATA_SIZE
    /\ num_of_elements < TICK_DATA_SIZE => write_index = num_of_elements
    /\ num_of_elements = TICK_DATA_SIZE => write_index # 0
    /\ \A i \in Slots : i < num_of_elements => tick_data[i] # 0
    /\ \A i \in Slots \ {0} : i < num_of_elements => tick_data[i] >= Taken - Age(i)

\* The prices of the last computation.
VolatilityInv ==
  pc = "writing" /\ num_of_elements = TICK_DATA_SIZE => volatility = Range(tick_data)

\* What a price in the ring means after insert_tick_data.
LEMMA InsertKeepsRing ==
  ASSUME IInv, RingInv, insert_tick_data
  PROVE  RingInv'
  <1> DEFINE T == TICK_DATA_SIZE
             h == Head(queue)
  <1>1. /\ pc = "polling" /\ pc' = "computing" /\ queue # << >>
        /\ queue' = queue /\ fed' = fed
    BY DEF insert_tick_data
  <1>2. /\ T \in Nat /\ T >= 2
        /\ tick_data \in [Slots -> Nat]
        /\ write_index \in 0 .. T + 1
        /\ num_of_elements \in 0 .. T
        /\ num_of_elements < T => write_index = num_of_elements
        /\ num_of_elements = T => write_index # 0
    BY <1>1, SizeAssumption DEF RingInv
  <1>3. /\ Len(queue) \in Nat /\ fed \in Nat
        /\ h = fed - Len(queue) + 1 /\ h \in Nat \ {0}
    BY <1>1, HeadOfQueue DEF IInv, QueueInv
  <1>4. Taken = h - 1 /\ Taken' = h
    BY <1>1, <1>3 DEF Taken
  <1>5. \A i \in Slots : i < num_of_elements => tick_data[i] # 0
    BY <1>1 DEF RingInv
  <1>6. \A i \in Slots \ {0} : i < num_of_elements => tick_data[i] >= h - 1 - Age(i)
    BY <1>1, <1>4 DEF RingInv
  <1>7. num_of_elements' = IF num_of_elements < T THEN num_of_elements + 1 ELSE num_of_elements
    BY DEF insert_tick_data
  <1> HIDE DEF h, T
  <1>8. CASE WriteAt \in Slots
    <2>1. /\ tick_data' = [tick_data EXCEPT ![WriteAt] = h]
          /\ write_index' = WriteAt + 1
      BY <1>8 DEF insert_tick_data, WriteTick, h
    <2>2. WriteAt \in 0 .. T - 1
      BY <1>8 DEF Slots, T
    <2>3. WriteAt = (IF write_index > T THEN 0 ELSE write_index)
      BY DEF WriteAt, T
    <2>4. tick_data' \in [Slots -> Nat]
      BY <2>1, <1>2, <1>3
    <2>5. \A i \in Slots : tick_data'[i] = IF i = WriteAt THEN h ELSE tick_data[i]
      BY <2>1, <1>2
    <2>6. /\ write_index' \in 0 .. T + 1
          /\ num_of_elements' \in 0 .. T
          /\ num_of_elements' < T => write_index' = num_of_elements'
          /\ num_of_elements' = T => write_index' # 0
      BY <2>1, <2>2, <2>3, <1>2, <1>7
    <2>7. \A i \in Slots : i < num_of_elements' => tick_data'[i] # 0
      BY <2>2, <2>3, <2>5, <1>2, <1>3, <1>5, <1>7 DEF Slots, T
    <2>8. ASSUME NEW i \in Slots \ {0}, i < num_of_elements'
          PROVE  tick_data'[i] >= h - Age(i)'
      <3>1. i \in 1 .. T - 1
        BY DEF Slots, T
      <3>2. CASE i = WriteAt
        BY <3>1, <3>2, <2>1, <2>2, <2>5, <1>3 DEF Age
      <3>3. CASE i # WriteAt
        <4>1. i < num_of_elements
          BY <3>1, <3>3, <2>3, <2>8, <1>2, <1>7
        <4>2. tick_data'[i] = tick_data[i] /\ tick_data[i] \in Nat /\ tick_data[i] >= h - 1 - Age(i)
          BY <4>1, <3>3, <2>5, <1>2, <1>6
        <4>3. Age(i)' >= Age(i) + 1 /\ Age(i) \in Int /\ Age(i)' \in Int
          BY <3>1, <3>3, <2>1, <2>2, <2>3, <1>2 DEF Age, T
        <4> QED
          BY <4>2, <4>3, <1>3
      <3> QED
        BY <3>2, <3>3
    <2> QED
      BY <2>4, <2>6, <2>7, <2>8, <1>4 DEF RingInv, T
  <1>9. CASE WriteAt \notin Slots
    <2>1. tick_data' = tick_data /\ write_index' \in {1, T + 1}
      BY <1>9 DEF insert_tick_data, WriteTick, T
    <2>2. write_index = T /\ num_of_elements = T
      BY <1>2, <1>9 DEF WriteAt, Slots, T
    <2>3. num_of_elements' = T
      BY <2>2, <1>2, <1>7
    <2>4. ASSUME NEW i \in Slots \ {0}
          PROVE  tick_data'[i] >= h - Age(i)'
      <3>1. i \in 1 .. T - 1
        BY DEF Slots, T
      <3>2. tick_data[i] \in Nat /\ tick_data[i] >= h - 1 - Age(i)
        BY <3>1, <2>2, <1>2, <1>6
      <3>3. Age(i)' >= Age(i) + 1 /\ Age(i) \in Int /\ Age(i)' \in Int
        <4>1. Age(i) = T - 1 - i
          BY <3>1, <2>2, <1>2 DEF Age
        <4>2. write_index' = 1 => Age(i)' = T - i + 1
          BY <3>1, <1>2 DEF Age, T
        <4>3. write_index' = T + 1 => Age(i)' = T - i
          BY <3>1, <1>2 DEF Age, T
        <4> QED
          BY <4>1, <4>2, <4>3, <3>1, <2>1, <1>2
      <3> QED
        BY <3>2, <3>3, <2>1, <1>3
    <2> QED
      BY <2>1, <2>2, <2>3, <2>4, <1>2, <1>4, <1>5 DEF RingInv, T
  <1> QED
    BY <1>8, <1>9

\* A step that leaves the ring alone and takes nothing from the queue that is
\* not in the ring.
LEMMA RingUntouched ==
  ASSUME RingInv, UNCHANGED <<tick_data, write_index, num_of_elements>>,
         pc = "down" => pc' = "down", Taken' = Taken
  PROVE  RingInv'
  BY DEF RingInv, Age

\* What is in the ring once num_of_elements says that it is full: every slot
\* has been written, and all but slot 0 within the last TICK_DATA_SIZE + 1
\* prices, although the index leaves the array once a round.
THEOREM RingHoldsRecent == Spec => []VolatilityOfRecent
  <1> DEFINE Ring == RingInv /\ VolatilityInv
  <1>1. Init => Ring
    BY DEF Init, RingInv, VolatilityInv
  <1>2. IInv /\ Ring /\ [Next]_vars => Ring'
    <2> SUFFICES ASSUME IInv, Ring, [Next]_vars PROVE Ring'
      OBVIOUS
    <2>1. Len(queue) \in Nat /\ fed \in Nat
      BY LenProperties DEF IInv, QueueInv
    <2>2. CASE Start
      <3>1. /\ tick_data' = [i \in Slots |-> 0] /\ write_index' = 0 /\ num_of_elements' = 0
            /\ pc' = "connect"
        BY <2>2 DEF Start, EmptyRing
      <3>2. tick_data' \in [Slots -> Nat]
        BY <3>1
      <3> QED
        BY <3>1, <3>2, SizeAssumption DEF RingInv, VolatilityInv, Slots
    <2>3. CASE Crash
      BY <2>3 DEF Crash, RingInv, VolatilityInv
    <2>4. CASE insert_tick_data
      BY <2>4, InsertKeepsRing DEF insert_tick_data, VolatilityInv
    <2>5. CASE ComputeVolatility
      <3>1. RingInv'
        BY <2>5, RingUntouched DEF ComputeVolatility, Taken
      <3>2. VolatilityInv'
        BY <2>5, SizeAssumption DEF ComputeVolatility, VolatilityInv
      <3> QED
        BY <3>1, <3>2
    <2>6. CASE Setup
      <3>1. /\ UNCHANGED <<queue, fed, ringVars>>
            /\ pc \notin {"down", "computing", "writing", "releasing"}
            /\ pc' \notin {"computing", "writing", "releasing"}
        BY <2>6, SetupStep
      <3> QED
        BY <3>1, RingUntouched DEF Taken, ringVars, VolatilityInv
    <2>7. CASE EnterRun \/ CheckRunning \/ PollEmpty
      <3>1. /\ UNCHANGED <<queue, fed, ringVars>>
            /\ pc \notin {"down", "computing", "writing", "releasing"}
            /\ pc' \notin {"computing", "writing", "releasing"}
        BY <2>7 DEF Go, EnterRun, CheckRunning, PollEmpty
      <3> QED
        BY <3>1, RingUntouched DEF Taken, ringVars, VolatilityInv
    <2>8. CASE InsertRow \/ InsertFails \/ InsertReplyLost
      <3>1. UNCHANGED <<queue, fed, ringVars>> /\ pc = "writing" /\ pc' = "releasing"
        BY <2>8 DEF InsertRow, InsertFails, InsertReplyLost, Go, LoseReply
      <3> QED
        BY <3>1, RingUntouched DEF Taken, ringVars, VolatilityInv
    <2>9. CASE Release
      <3>1. /\ pc = "releasing" /\ pc' = "checking" /\ queue' = Tail(queue)
            /\ UNCHANGED <<fed, ringVars>>
        BY <2>9 DEF Release
      <3>2. queue # << >> /\ queue \in Seq(Nat)
        BY <3>1 DEF IInv, QueueInv, StoredInv
      <3>3. Len(queue') = Len(queue) - 1
        BY <3>1, <3>2, HeadTailProperties
      <3>4. Taken' = Taken
        <4>1. Taken = fed - Len(queue) + 1
          BY <3>1 DEF Taken
        <4>2. Taken' = fed' - Len(queue') + 0
          BY <3>1 DEF Taken
        <4>3. fed' = fed
          BY <3>1
        <4> QED
          BY <4>1, <4>2, <4>3, <3>3, <2>1
      <3> QED
        BY <3>1, <3>4, RingUntouched DEF ringVars, VolatilityInv
    <2>10. CASE Feed
      <3>1. /\ queue' = Append(queue, fed + 1) /\ fed' = fed + 1
            /\ UNCHANGED <<pc, ringVars>>
        BY <2>10 DEF Feed
      <3>2. queue \in Seq(Nat)
        BY DEF IInv, QueueInv
      <3>3. Len(queue') = Len(queue) + 1
        BY <3>1, <3>2, <2>1, AppendProperties
      <3>4. Taken' = Taken
        <4>1. pc' = pc /\ fed' - Len(queue') = fed - Len(queue)
          BY <3>1, <3>3, <2>1
        <4> QED
          BY <4>1 DEF Taken
      <3> QED
        BY <3>1, <3>4, RingUntouched DEF ringVars, VolatilityInv
    <2>11. CASE Stop \/ LoseConnection \/ Over \/ UNCHANGED vars
      <3>1. UNCHANGED <<pc, queue, fed, ringVars>>
        BY <2>11 DEF Stop, LoseConnection, Over, vars
      <3> QED
        BY <3>1, RingUntouched DEF Taken, ringVars, VolatilityInv
    <2> QED
      BY <2>2, <2>3, <2>4, <2>5, <2>6, <2>7, <2>8, <2>9, <2>10, <2>11 DEF Next, Run
  <1>3. IInv /\ Ring => VolatilityOfRecent
    <2> SUFFICES ASSUME IInv, Ring, num_of_elements = TICK_DATA_SIZE, pc = "writing"
                 PROVE  /\ 0 \notin volatility
                        /\ \A i \in Slots \ {0} : tick_data[i] >= Head(queue) - TICK_DATA_SIZE
      BY DEF VolatilityOfRecent
    <2>1. /\ tick_data \in [Slots -> Nat] /\ volatility = Range(tick_data)
          /\ \A i \in Slots : tick_data[i] # 0
      BY SizeAssumption DEF RingInv, VolatilityInv, Slots
    <2>2. 0 \notin volatility
      BY <2>1 DEF Range
    <2>3. /\ queue # << >> /\ fed \in Nat /\ Len(queue) \in Nat
          /\ Taken = Head(queue) /\ Taken \in Int
      BY HeadOfQueue DEF IInv, QueueInv, StoredInv, Taken
    <2>4. ASSUME NEW i \in Slots \ {0}
          PROVE  tick_data[i] >= Head(queue) - TICK_DATA_SIZE
      <3>1. i \in 1 .. TICK_DATA_SIZE - 1 /\ write_index \in 0 .. TICK_DATA_SIZE + 1
        BY DEF Slots, RingInv
      <3>2. tick_data[i] \in Nat /\ tick_data[i] >= Taken - Age(i)
        BY <3>1, <2>1 DEF RingInv
      <3>3. Age(i) <= TICK_DATA_SIZE /\ Age(i) \in Int
        BY <3>1, SizeAssumption DEF Age
      <3> QED
        BY <3>2, <3>3, <2>3, SizeAssumption
    <2> QED
      BY <2>2, <2>4
  <1> QED
    BY <1>1, <1>2, <1>3, QueueInvariant, PTL DEF Spec
=============================================================================
