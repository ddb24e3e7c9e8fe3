------------------------ MODULE TradingSystemProofs ------------------------
(***************************************************************************)
(* Proofs about TradingSystem, for any number of venues, any instruments   *)
(* and frames, queues of any capacity and endless feeds, of which any      *)
(* number of updates is numbered.                                          *)
(***************************************************************************)
EXTENDS TradingSystem, SequenceTheorems, TLAPS

\* The update at the head of the queue of v has been applied and not released.
Working(v) == obm = "releasing" /\ cursor = v

\* The updates of venue v that are still to be applied.
Waiting(v) == IF Working(v) THEN Tail(queue[v]) ELSE queue[v]

\* Of the updates r that wait, the first are those that p has and a has not, in
\* order; all after them are beyond the numbered ones.
Tracked(a, p, r) ==
  /\ Len(a) <= Len(p) /\ Len(p) <= Len(a) + Len(r)
  /\ \A i \in 1 .. Len(a) : a[i] = p[i]
  /\ \A k \in 1 .. Len(r) : IF Len(a) + k <= Len(p) THEN /\ r[k].place # 0
                                                        /\ r[k] = p[Len(a) + k]
                                                   ELSE r[k].place = 0
  /\ Len(p) < Len(a) + Len(r) => Len(p) >= MaxUpdates

\* What venue v enqueued is what was applied followed by what waits in its queue.
Split(v) ==
  /\ Tracked(applied[v], published[v], Waiting(v))
  /\ \A k \in 1 .. Len(queue[v]) : queue[v][k].venue = v

\* run() works on the oldest update of the queue at the cursor.
AtCursor ==
  obm \in {"passing", "releasing"} =>
    queue[cursor] # << >> /\ current = <<Head(queue[cursor])>>

\* How far main() is says how far the others can be: an ingester that has begun
\* to read never ends, so main() calls stop() only where nothing was enqueued.
Lifecycle ==
  /\ main = "launch_obm" => obm = "absent"
  /\ main \in {"launch_obm", "launch_ingesters"} => \A v \in Venues : ingester[v] = "absent"
  /\ main \in {"stop", "join_obm", "returned"} => \A v \in Venues : ingester[v] = "ended"
  /\ \A v \in Venues : ingester[v] \in {"absent", "connecting", "ended"} =>
       published[v] = << >> /\ queue[v] = << >>
  /\ obm \in {"checking", "polling", "passing", "releasing"} /\ ~ running_ =>
       main \in {"join_obm", "returned"}
  /\ obm = "ended" => main \in {"join_obm", "returned"}

IInv ==
  /\ TypeOK
  /\ \A v \in Venues : Split(v)
  /\ AtCursor
  /\ Lifecycle

-----------------------------------------------------------------------------
LEMMA QueueTypes ==
  ASSUME TypeOK, NEW v \in Venues
  PROVE  /\ batch[v] \in Seq(Symbols) /\ Len(batch[v]) \in Nat
         /\ queue[v] \in Seq(Update) /\ Len(queue[v]) \in Nat
         /\ published[v] \in Seq(Update) /\ Len(published[v]) \in Nat
         /\ applied[v] \in Seq(Update) /\ Len(applied[v]) \in Nat
  <1>1. /\ batch[v] \in Seq(Symbols) /\ queue[v] \in Seq(Update)
        /\ published[v] \in Seq(Update) /\ applied[v] \in Seq(Update)
    BY DEF TypeOK
  <1> QED
    BY <1>1, LenProperties

\* A step that changes nothing that Split(v) is about.
LEMMA SplitUntouched ==
  ASSUME NEW v \in Venues, Split(v), Working(v)' <=> Working(v),
         published'[v] = published[v], applied'[v] = applied[v],
         queue'[v] = queue[v]
  PROVE  Split(v)'
  <1>1. Waiting(v)' = Waiting(v)
    BY DEF Waiting
  <1> QED
    BY <1>1 DEF Split, Tracked

\* An update is enqueued behind those that wait.
LEMMA TrackedEnqueue ==
  ASSUME NEW a \in Seq(Update), NEW p \in Seq(Update), NEW r \in Seq(Update), NEW u \in Update,
         Tracked(a, p, r), u.place = 0 <=> ~ (Len(p) < MaxUpdates)
  PROVE  Tracked(a, Noted(p, u), Append(r, u)) /\ Noted(p, u) \in Seq(Update)
  <1>1. Len(a) \in Nat /\ Len(p) \in Nat /\ Len(r) \in Nat /\ MaxUpdates \in Nat
    BY LenProperties, BoundAssumption
  <1>2. /\ Append(r, u) \in Seq(Update) /\ Len(Append(r, u)) = Len(r) + 1
        /\ \A k \in 1 .. Len(r) : Append(r, u)[k] = r[k]
        /\ Append(r, u)[Len(r) + 1] = u
    BY AppendProperties
  <1>3. \A k \in 1 .. Len(r) + 1 : k \in 1 .. Len(r) \/ k = Len(r) + 1
    BY <1>1
  <1>4. CASE u.place = 0
    <2>1. Noted(p, u) = p
      BY <1>4 DEF Noted
    <2>2. ~ (Len(a) + (Len(r) + 1) <= Len(p)) /\ Len(p) >= MaxUpdates
      BY <1>1, <1>4 DEF Tracked
    <2> QED
      BY <2>1, <2>2, <1>1, <1>2, <1>3, <1>4 DEF Tracked
  <1>5. CASE u.place # 0
    <2>1. Noted(p, u) = Append(p, u)
      BY <1>5 DEF Noted
    <2>2. Len(p) = Len(a) + Len(r)
      BY <1>1, <1>5 DEF Tracked
    <2>3. /\ Append(p, u) \in Seq(Update) /\ Len(Append(p, u)) = Len(p) + 1
          /\ \A k \in 1 .. Len(p) : Append(p, u)[k] = p[k]
          /\ Append(p, u)[Len(p) + 1] = u
      BY AppendProperties
    <2>4. \A i \in 1 .. Len(a) : a[i] = Append(p, u)[i]
      BY <2>3, <1>1 DEF Tracked
    <2>5. ASSUME NEW k \in 1 .. Len(r) + 1
          PROVE  /\ Len(a) + k <= Len(p) + 1 /\ Append(r, u)[k].place # 0
                 /\ Append(r, u)[k] = Append(p, u)[Len(a) + k]
      <3>1. CASE k \in 1 .. Len(r)
        <4>1. Len(a) + k <= Len(p) /\ Len(a) + k \in 1 .. Len(p)
          BY <3>1, <2>2, <1>1
        <4>2. r[k].place # 0 /\ r[k] = p[Len(a) + k]
          BY <4>1, <3>1 DEF Tracked
        <4> QED
          BY <4>1, <4>2, <3>1, <2>3, <1>1, <1>2
      <3>2. CASE k = Len(r) + 1
        <4>1. Len(a) + k = Len(p) + 1
          BY <3>2, <2>2, <1>1
        <4> QED
          BY <4>1, <3>2, <2>3, <1>1, <1>2, <1>5
      <3> QED
        BY <3>1, <3>2, <1>3
    <2>6. /\ Len(a) <= Len(p) + 1 /\ Len(p) + 1 <= Len(a) + (Len(r) + 1)
          /\ ~ (Len(p) + 1 < Len(a) + (Len(r) + 1))
      BY <2>2, <1>1
    <2>7. Tracked(a, Append(p, u), Append(r, u))
      BY <2>3, <2>4, <2>5, <2>6, <1>2 DEF Tracked
    <2> QED
      BY <2>1, <2>3, <2>7
  <1> QED
    BY <1>4, <1>5

\* The first of those that wait is applied.
LEMMA TrackedApply ==
  ASSUME NEW a \in Seq(Update), NEW p \in Seq(Update), NEW q \in Seq(Update), q # << >>,
         Tracked(a, p, q)
  PROVE  Tracked(Noted(a, Head(q)), p, Tail(q)) /\ Noted(a, Head(q)) \in Seq(Update)
  <1> DEFINE h == Head(q)
             t == Tail(q)
  <1>1. Len(a) \in Nat /\ Len(p) \in Nat /\ Len(q) \in Nat \ {0} /\ MaxUpdates \in Nat
    BY LenProperties, EmptySeq, BoundAssumption
  <1>2. /\ h \in Update /\ h = q[1] /\ t \in Seq(Update) /\ Len(t) = Len(q) - 1
        /\ \A k \in 1 .. Len(t) : t[k] = q[k + 1]
    BY HeadTailProperties
  <1> HIDE DEF h, t
  <1>3. \A k \in 1 .. Len(t) : k + 1 \in 1 .. Len(q)
    BY <1>1, <1>2
  <1>4. CASE h.place = 0
    <2>1. Noted(a, h) = a
      BY <1>4 DEF Noted
    <2>2. Len(p) = Len(a)
      <3>1. 1 \in 1 .. Len(q)
        BY <1>1
      <3>2. ~ (Len(a) + 1 <= Len(p))
        BY <3>1, <1>2, <1>4 DEF Tracked
      <3> QED
        BY <3>2, <1>1 DEF Tracked
    <2>3. ASSUME NEW k \in 1 .. Len(t) PROVE ~ (Len(a) + k <= Len(p)) /\ t[k].place = 0
      <3>1. ~ (Len(a) + (k + 1) <= Len(p)) /\ ~ (Len(a) + k <= Len(p))
        BY <2>2, <1>1
      <3>2. q[k + 1].place = 0
        BY <3>1, <1>3 DEF Tracked
      <3> QED
        BY <3>1, <3>2, <1>2
    <2>4. Len(p) >= MaxUpdates /\ Len(p) <= Len(a) + Len(t)
      BY <2>2, <1>1, <1>2 DEF Tracked
    <2> QED
      BY <2>1, <2>2, <2>3, <2>4 DEF Tracked, h, t
  <1>5. CASE h.place # 0
    <2>1. Noted(a, h) = Append(a, h)
      BY <1>5 DEF Noted
    <2>2. Len(a) + 1 <= Len(p) /\ h = p[Len(a) + 1]
      <3>1. 1 \in 1 .. Len(q)
        BY <1>1
      <3> QED
        BY <3>1, <1>2, <1>5 DEF Tracked
    <2>3. /\ Append(a, h) \in Seq(Update) /\ Len(Append(a, h)) = Len(a) + 1
          /\ \A i \in 1 .. Len(a) : Append(a, h)[i] = a[i]
          /\ Append(a, h)[Len(a) + 1] = h
      BY <1>2, AppendProperties
    <2>4. \A i \in 1 .. Len(a) + 1 : Append(a, h)[i] = p[i]
      <3>1. \A i \in 1 .. Len(a) + 1 : i \in 1 .. Len(a) \/ i = Len(a) + 1
        BY <1>1
      <3> QED
        BY <3>1, <2>2, <2>3 DEF Tracked
    <2>5. ASSUME NEW k \in 1 .. Len(t)
          PROVE  IF (Len(a) + 1) + k <= Len(p) THEN /\ t[k].place # 0
                                                   /\ t[k] = p[(Len(a) + 1) + k]
                                              ELSE t[k].place = 0
      <3>1. (Len(a) + 1) + k = Len(a) + (k + 1) /\ t[k] = q[k + 1] /\ k + 1 \in 1 .. Len(q)
        BY <1>1, <1>2, <1>3
      <3> QED
        BY <3>1 DEF Tracked
    <2>6. /\ Len(p) <= (Len(a) + 1) + Len(t)
          /\ Len(p) < (Len(a) + 1) + Len(t) => Len(p) >= MaxUpdates
      BY <1>1, <1>2 DEF Tracked
    <2> QED
      BY <2>1, <2>2, <2>3, <2>4, <2>5, <2>6 DEF Tracked, h, t
  <1> QED
    BY <1>4, <1>5 DEF h, t

LEMMA InitIInv == Init => IInv
  <1> SUFFICES ASSUME Init PROVE IInv
    OBVIOUS
  <1>1. TypeOK
    <2>1. 1 \in Venues
      BY VenuesAssumption DEF Venues
    <2>2. /\ batch \in [Venues -> Seq(Symbols)] /\ queue \in [Venues -> Seq(Update)]
          /\ published \in [Venues -> Seq(Update)] /\ applied \in [Venues -> Seq(Update)]
          /\ current \in Seq(Update) /\ Len(current) <= 1
      BY DEF Init
    <2> QED
      BY <2>1, <2>2 DEF Init, TypeOK
  <1>2. \A v \in Venues : Split(v)
    <2> TAKE v \in Venues
    <2>1. /\ published[v] = << >> /\ applied[v] = << >> /\ queue[v] = << >> /\ batch[v] = << >>
          /\ obm = "absent"
      BY DEF Init
    <2>2. Len(published[v]) = 0 /\ Len(queue[v]) = 0 /\ Len(batch[v]) = 0
      BY <2>1
    <2>3. Waiting(v) = << >>
      BY <2>1 DEF Waiting, Working
    <2> QED
      BY <2>1, <2>2, <2>3, BoundAssumption DEF Split, Tracked
  <1>3. AtCursor /\ Lifecycle
    BY DEF Init, AtCursor, Lifecycle
  <1> QED
    BY <1>1, <1>2, <1>3 DEF IInv

\* main().
LEMMA MainKeeps ==
  ASSUME IInv, Main
  PROVE  IInv'
  <1>1. /\ UNCHANGED <<batch, published, queue, cursor, current, applied>>
        /\ obm' = obm \/ (main = "launch_obm" /\ obm' = "entering")
    BY DEF Main, LaunchObm, LaunchIngesters, JoinIngesters, Stop, JoinObm, feedVars, obmVars
  <1>2. TypeOK'
    <2>1. /\ main' \in {"launch_obm", "launch_ingesters", "join_ingesters", "stop", "join_obm", "returned"}
          /\ ingester' \in [Venues -> {"absent", "connecting", "reading", "decoding", "ended"}]
          /\ obm' \in {"absent", "entering", "checking", "polling", "passing", "releasing", "ended"}
          /\ running_' \in BOOLEAN
      BY DEF IInv, TypeOK, Main, LaunchObm, LaunchIngesters, JoinIngesters, Stop, JoinObm,
             feedVars, obmVars
    <2> QED
      BY <2>1, <1>1 DEF IInv, TypeOK
  <1>3. obm # "releasing" \/ obm' = obm
    BY <1>1 DEF IInv, Lifecycle
  <1>4. ASSUME NEW v \in Venues PROVE Split(v)'
    <2>1. Working(v)' <=> Working(v)
      BY <1>1, <1>3 DEF Working
    <2> QED
      BY <2>1, <1>1, SplitUntouched DEF IInv
  <1>5. AtCursor'
    BY <1>1 DEF IInv, AtCursor
  <1>6. Lifecycle'
    <2>1. CASE LaunchObm
      BY <2>1 DEF LaunchObm, feedVars, IInv, Lifecycle
    <2>2. CASE LaunchIngesters
      BY <2>2 DEF LaunchIngesters, obmVars, IInv, Lifecycle
    <2>3. CASE JoinIngesters
      BY <2>3 DEF JoinIngesters, feedVars, obmVars, IInv, Lifecycle
    <2>4. CASE Stop
      BY <2>4 DEF Stop, feedVars, obmVars, IInv, Lifecycle
    <2>5. CASE JoinObm
      BY <2>5 DEF JoinObm, feedVars, obmVars, IInv, Lifecycle
    <2> QED
      BY <2>1, <2>2, <2>3, <2>4, <2>5 DEF Main
  <1> QED
    BY <1>2, <1>4, <1>5, <1>6 DEF IInv

\* The steps of an ingester that enqueue nothing.
LEMMA IngesterKeeps ==
  ASSUME IInv, NEW v \in Venues,
         \/ Connect(v) \/ ConnectFails(v) \/ EndOfFrame(v)
         \/ \E f \in Frames : ReadFrame(v, f)
  PROVE  IInv'
  <1>1. UNCHANGED <<main, published, queue, obm, cursor, current, applied, running_>>
    BY DEF Connect, ConnectFails, EndOfFrame, ReadFrame, obmVars
  <1>2. TypeOK /\ ingester \in [Venues -> {"absent", "connecting", "reading", "decoding", "ended"}]
    BY DEF IInv, TypeOK
  <1>3. \/ ingester[v] = "connecting" /\ ingester' = [ingester EXCEPT ![v] = "reading"]
        \/ ingester[v] = "connecting" /\ ingester' = [ingester EXCEPT ![v] = "ended"]
        \/ ingester[v] = "decoding" /\ ingester' = [ingester EXCEPT ![v] = "reading"]
        \/ ingester[v] = "reading" /\ ingester' = [ingester EXCEPT ![v] = "decoding"]
    BY DEF Connect, ConnectFails, EndOfFrame, ReadFrame
  <1>4. \/ batch' = batch
        \/ \E f \in Frames : batch' = [batch EXCEPT ![v] = f]
    BY DEF Connect, ConnectFails, EndOfFrame, ReadFrame
  <1>5. TypeOK'
    <2>1. ingester' \in [Venues -> {"absent", "connecting", "reading", "decoding", "ended"}]
      BY <1>2, <1>3
    <2>2. batch' \in [Venues -> Seq(Symbols)]
      BY <1>2, <1>4, FramesAssumption DEF TypeOK
    <2> QED
      BY <2>1, <2>2, <1>1, <1>2 DEF TypeOK
  <1>6. ASSUME NEW w \in Venues PROVE Split(w)'
    <2>1. Split(w) /\ (Working(w)' <=> Working(w))
      BY <1>1 DEF IInv, Working
    <2> QED
      BY <2>1, <1>1, SplitUntouched
  <1>7. AtCursor'
    BY <1>1 DEF IInv, AtCursor
  <1>8. Lifecycle'
    <2>1. \A w \in Venues : w # v => ingester'[w] = ingester[w]
      BY <1>2, <1>3
    <2>2. ingester[v] \notin {"absent", "ended"}
      BY <1>3
    <2>3. ingester'[v] = "ended" => ingester[v] = "connecting"
      BY <1>2, <1>3
    <2>4. ingester'[v] \in {"reading", "decoding", "ended"}
      BY <1>2, <1>3
    <2>5. main \notin {"launch_obm", "launch_ingesters", "stop", "join_obm", "returned"}
      BY <2>2 DEF IInv, Lifecycle
    <2>6. \A w \in Venues : ingester'[w] \in {"absent", "connecting", "ended"} =>
                            published[w] = << >> /\ queue[w] = << >>
      BY <2>1, <2>3, <2>4 DEF IInv, Lifecycle
    <2> QED
      BY <2>5, <2>6, <1>1 DEF IInv, Lifecycle
  <1> QED
    BY <1>5, <1>6, <1>7, <1>8 DEF IInv

LEMMA EnqueueKeeps ==
  ASSUME IInv, NEW v \in Venues, Enqueue(v)
  PROVE  IInv'
  <1> DEFINE u == [venue |-> v, symbol |-> Head(batch[v]), place |-> NextPlace(v)]
  <1>1. /\ ingester[v] = "decoding" /\ batch[v] # << >>
        /\ queue' = [queue EXCEPT ![v] = Append(queue[v], u)]
        /\ published' = [published EXCEPT ![v] = Noted(published[v], u)]
        /\ batch' = [batch EXCEPT ![v] = Tail(batch[v])]
        /\ UNCHANGED <<main, ingester, obm, cursor, current, applied, running_>>
    BY DEF Enqueue, obmVars
  <1>2. TypeOK
    BY DEF IInv
  <1>3. /\ batch[v] \in Seq(Symbols) /\ Len(batch[v]) \in Nat
        /\ queue[v] \in Seq(Update) /\ Len(queue[v]) \in Nat
        /\ published[v] \in Seq(Update) /\ Len(published[v]) \in Nat
    BY <1>2, QueueTypes
  <1>4. /\ Tail(batch[v]) \in Seq(Symbols) /\ Len(Tail(batch[v])) = Len(batch[v]) - 1
        /\ Head(batch[v]) \in Symbols /\ Len(batch[v]) # 0
    BY <1>1, <1>3, HeadTailProperties, EmptySeq
  <1>5. NextPlace(v) \in 0 .. MaxUpdates /\ (NextPlace(v) = 0 <=> ~ (Len(published[v]) < MaxUpdates))
    BY <1>3, BoundAssumption DEF NextPlace
  <1>6. u \in Update
    BY <1>4, <1>5 DEF Update
  <1>7. u.venue = v /\ (u.place = 0 <=> ~ (Len(published[v]) < MaxUpdates))
    BY <1>5
  <1> HIDE DEF u
  <1>8. /\ Append(queue[v], u) \in Seq(Update) /\ Len(Append(queue[v], u)) = Len(queue[v]) + 1
        /\ \A k \in 1 .. Len(queue[v]) : Append(queue[v], u)[k] = queue[v][k]
        /\ Append(queue[v], u)[Len(queue[v]) + 1] = u
    BY <1>3, <1>6, AppendProperties
  <1>9. Noted(published[v], u) \in Seq(Update)
    BY <1>3, <1>6, AppendProperties DEF Noted
  <1>10. /\ queue'[v] = Append(queue[v], u) /\ published'[v] = Noted(published[v], u)
         /\ batch'[v] = Tail(batch[v])
         /\ \A w \in Venues : w # v => /\ queue'[w] = queue[w] /\ published'[w] = published[w]
                                       /\ batch'[w] = batch[w]
    BY <1>1, <1>2 DEF TypeOK
  <1>11. TypeOK'
    <2>1. /\ queue' \in [Venues -> Seq(Update)] /\ published' \in [Venues -> Seq(Update)]
          /\ batch' \in [Venues -> Seq(Symbols)]
      BY <1>1, <1>2, <1>4, <1>8, <1>9 DEF TypeOK
    <2> QED
      BY <2>1, <1>1, <1>2 DEF TypeOK
  <1>12. ASSUME NEW w \in Venues PROVE Split(w)'
    <2>1. Split(w) /\ (Working(w)' <=> Working(w))
      BY <1>1 DEF IInv, Working
    <2>2. CASE w # v
      BY <2>1, <2>2, <1>1, <1>10, SplitUntouched
    <2>3. CASE w = v
      <3>1. applied'[v] = applied[v] /\ applied[v] \in Seq(Update)
        BY <1>1, <1>2, QueueTypes
      <3>2. Waiting(v)' = Append(Waiting(v), u) /\ Waiting(v) \in Seq(Update)
        <4>1. CASE Working(v)
          <5>1. queue[v] # << >>
            BY <4>1 DEF Working, IInv, AtCursor
          <5>2. Tail(queue[v]) \in Seq(Update)
            BY <5>1, <1>3, HeadTailProperties
          <5>3. Tail(queue'[v]) = Append(Tail(queue[v]), u)
            BY <5>1, <1>3, <1>10, HeadTailAppend
          <5> QED
            BY <5>2, <5>3, <4>1, <2>1, <2>3 DEF Waiting
        <4>2. CASE ~ Working(v)
          BY <4>2, <2>1, <2>3, <1>3, <1>10 DEF Waiting
        <4> QED
          BY <4>1, <4>2
      <3>3. \A k \in 1 .. Len(queue'[v]) : queue'[v][k].venue = v
        <4>1. \A k \in 1 .. Len(queue[v]) : queue[v][k].venue = v
          BY <2>1, <2>3 DEF Split
        <4>2. \A k \in 1 .. Len(queue[v]) + 1 : k \in 1 .. Len(queue[v]) \/ k = Len(queue[v]) + 1
          BY <1>3
        <4> QED
          BY <4>1, <4>2, <1>7, <1>8, <1>10
      <3>4. Tracked(applied[v], Noted(published[v], u), Append(Waiting(v), u))
        <4>1. Tracked(applied[v], published[v], Waiting(v))
          BY <2>1, <2>3 DEF Split
        <4> QED
          BY <4>1, <3>1, <3>2, <1>3, <1>6, <1>7, TrackedEnqueue
      <3>5. Tracked(applied'[v], published'[v], Waiting(v)')
        BY <3>1, <3>2, <3>4, <1>10
      <3> QED
        BY <3>3, <3>5, <2>3 DEF Split, Tracked
    <2> QED
      BY <2>2, <2>3
  <1>13. AtCursor'
    <2> SUFFICES ASSUME obm \in {"passing", "releasing"}
                 PROVE  queue'[cursor] # << >> /\ current = <<Head(queue'[cursor])>>
      BY <1>1 DEF AtCursor
    <2>1. queue[cursor] # << >> /\ current = <<Head(queue[cursor])>> /\ cursor \in Venues
      BY <1>2 DEF IInv, AtCursor, TypeOK
    <2>2. CASE cursor = v
      <3>1. Head(queue'[v]) = Head(queue[v]) /\ queue'[v] # << >>
        BY <2>1, <2>2, <1>3, <1>6, <1>10, HeadTailAppend, AppendProperties
      <3> QED
        BY <3>1, <2>1, <2>2
    <2>3. CASE cursor # v
      BY <2>1, <2>3, <1>10
    <2> QED
      BY <2>2, <2>3
  <1>14. Lifecycle'
    <2>1. \A w \in Venues : ingester[w] # "decoding" => /\ published'[w] = published[w]
                                                        /\ queue'[w] = queue[w]
      BY <1>1, <1>10
    <2> QED
      BY <2>1, <1>1 DEF IInv, Lifecycle
  <1> QED
    BY <1>11, <1>12, <1>13, <1>14 DEF IInv

\* The steps of run() that move no update.
LEMMA PollKeeps ==
  ASSUME IInv, EnterRun \/ CheckRunning \/ PollEmpty \/ PollUpdate
  PROVE  IInv'
  <1>1. /\ UNCHANGED <<main, ingester, batch, published, queue, applied>>
        /\ obm \in {"entering", "checking", "polling"}
        /\ obm' \in {"checking", "polling", "passing", "ended"}
    BY DEF EnterRun, CheckRunning, PollEmpty, PollUpdate, NextQueue, feedVars
  <1>2. TypeOK
    BY DEF IInv
  <1>3. cursor' \in Venues
    <2>1. cursor \in Venues
      BY <1>2 DEF TypeOK
    <2>2. CASE PollEmpty
      <3>1. cursor' = cursor \/ cursor' = 1 \/ (cursor < NumVenues /\ cursor' = cursor + 1)
        BY <2>1, <2>2, VenuesAssumption DEF PollEmpty, NextQueue, Venues
      <3> QED
        BY <2>1, <3>1, VenuesAssumption DEF Venues
    <2>3. CASE EnterRun \/ CheckRunning \/ PollUpdate
      <3>1. cursor' = cursor \/ cursor' = 1
        BY <2>3 DEF EnterRun, CheckRunning, PollUpdate
      <3> QED
        BY <2>1, <3>1, VenuesAssumption DEF Venues
    <2> QED
      BY <2>2, <2>3
  <1>4. /\ current' = current \/ (PollUpdate /\ current' = <<Head(queue[cursor])>>)
        /\ running_' \in BOOLEAN
    BY <1>2 DEF EnterRun, CheckRunning, PollEmpty, PollUpdate, TypeOK
  <1>5. TypeOK'
    <2>1. ASSUME PollUpdate PROVE Head(queue[cursor]) \in Update
      <3>1. cursor \in Venues /\ queue[cursor] # << >>
        BY <2>1, <1>2 DEF PollUpdate, TypeOK
      <3>2. queue[cursor] \in Seq(Update)
        BY <3>1, <1>2, QueueTypes
      <3> QED
        BY <3>1, <3>2, HeadTailProperties
    <2>2. current' \in Seq(Update) /\ Len(current') <= 1
      <3>1. CASE current' = current
        BY <3>1, <1>2 DEF TypeOK
      <3>2. CASE PollUpdate /\ current' = <<Head(queue[cursor])>>
        BY <3>2, <2>1
      <3> QED
        BY <3>1, <3>2, <1>4
    <2> QED
      BY <2>2, <1>1, <1>2, <1>3, <1>4 DEF TypeOK
  <1>6. ASSUME NEW v \in Venues PROVE Split(v)'
    <2>1. ~ Working(v) /\ ~ Working(v)'
      BY <1>1 DEF Working
    <2> QED
      BY <2>1, <1>1, SplitUntouched DEF IInv
  <1>7. AtCursor'
    <2>1. obm' = "passing" => PollUpdate
      BY <1>1 DEF EnterRun, CheckRunning, PollEmpty, PollUpdate, NextQueue
    <2>2. obm' # "releasing"
      BY <1>1
    <2> QED
      BY <2>1, <2>2 DEF AtCursor, PollUpdate
  <1>8. Lifecycle'
    <2>1. main # "launch_obm"
      BY <1>1 DEF IInv, Lifecycle
    <2>2. CASE EnterRun
      BY <2>1, <2>2, <1>1 DEF EnterRun, IInv, Lifecycle
    <2>3. CASE CheckRunning
      BY <2>1, <2>3, <1>1 DEF CheckRunning, IInv, Lifecycle
    <2>4. CASE PollEmpty \/ PollUpdate
      BY <2>1, <2>4, <1>1 DEF PollEmpty, PollUpdate, NextQueue, IInv, Lifecycle
    <2> QED
      BY <2>2, <2>3, <2>4
  <1> QED
    BY <1>5, <1>6, <1>7, <1>8 DEF IInv

\* passUpdateToOrderbook: the oldest update in the queue is the next of its feed.
LEMMA PassKeeps ==
  ASSUME IInv, PassUpdate
  PROVE  IInv'
  <1> DEFINE q == queue[cursor]
  <1>1. /\ obm = "passing" /\ obm' = "releasing"
        /\ applied' = [applied EXCEPT ![current[1].venue] = Noted(applied[current[1].venue], current[1])]
        /\ UNCHANGED <<main, ingester, batch, published, queue, cursor, current, running_>>
    BY DEF PassUpdate, feedVars
  <1>2. TypeOK /\ cursor \in Venues /\ q # << >> /\ current = <<Head(q)>>
    BY <1>1 DEF IInv, AtCursor, TypeOK
  <1>3. q \in Seq(Update) /\ applied[cursor] \in Seq(Update)
    BY <1>2, QueueTypes
  <1>4. Head(q) \in Update /\ Tail(q) \in Seq(Update)
    BY <1>2, <1>3, HeadTailProperties
  <1>5. current[1].venue = cursor
    <2>1. Len(q) \in Nat /\ Len(q) # 0 /\ Head(q) = q[1]
      BY <1>2, <1>3, EmptySeq, LenProperties
    <2>2. 1 \in 1 .. Len(q)
      BY <2>1
    <2>3. q[1].venue = cursor
      BY <2>2, <1>2 DEF IInv, Split
    <2> QED
      BY <2>1, <2>3, <1>2
  <1> HIDE DEF q
  <1>6. current[1] = Head(q)
    BY <1>2
  <1>7. /\ applied'[cursor] = Noted(applied[cursor], Head(q))
        /\ \A w \in Venues : w # cursor => applied'[w] = applied[w]
    BY <1>1, <1>2, <1>5, <1>6 DEF TypeOK
  <1>8. Noted(applied[cursor], Head(q)) \in Seq(Update)
    BY <1>3, <1>4, AppendProperties DEF Noted
  <1>9. TypeOK'
    <2>1. applied' \in [Venues -> Seq(Update)]
      BY <1>1, <1>2, <1>5, <1>6, <1>8 DEF TypeOK
    <2> QED
      BY <2>1, <1>1, <1>2 DEF TypeOK
  <1>10. ASSUME NEW v \in Venues PROVE Split(v)'
    <2>1. Split(v)
      BY DEF IInv
    <2>2. CASE v # cursor
      <3>1. Working(v)' <=> Working(v)
        BY <2>2, <1>1 DEF Working
      <3> QED
        BY <3>1, <2>1, <2>2, <1>1, <1>7, SplitUntouched
    <2>3. CASE v = cursor
      <3>1. ~ Working(v) /\ Working(v)'
        BY <2>3, <1>1 DEF Working
      <3>2. Waiting(v) = q /\ Waiting(v)' = Tail(q)
        BY <3>1, <2>3, <1>1 DEF Waiting, q
      <3>3. published[v] \in Seq(Update) /\ Tracked(applied[v], published[v], q)
        BY <3>2, <2>1, <1>2, QueueTypes DEF Split
      <3>4. Tracked(Noted(applied[v], Head(q)), published[v], Tail(q))
        BY <3>3, <2>3, <1>2, <1>3, TrackedApply
      <3>5. Tracked(applied'[v], published'[v], Waiting(v)')
        BY <3>2, <3>4, <2>3, <1>1, <1>7
      <3> QED
        BY <3>5, <2>1, <1>1 DEF Split, Tracked
    <2> QED
      BY <2>2, <2>3
  <1>11. AtCursor'
    BY <1>1, <1>2 DEF AtCursor, q
  <1>12. Lifecycle'
    BY <1>1 DEF IInv, Lifecycle
  <1> QED
    BY <1>9, <1>10, <1>11, <1>12 DEF IInv

\* updateReadIndex: the update leaves the queue it is applied from.
LEMMA ReleaseKeeps ==
  ASSUME IInv, ReleaseSlot
  PROVE  IInv'
  <1>1. /\ obm = "releasing" /\ obm' \in {"polling", "checking"}
        /\ queue' = [queue EXCEPT ![cursor] = Tail(queue[cursor])]
        /\ current' = << >>
        /\ UNCHANGED <<main, ingester, batch, published, applied, running_>>
    BY DEF ReleaseSlot, NextQueue, feedVars
  <1>2. TypeOK /\ cursor \in Venues /\ queue[cursor] # << >>
    BY <1>1 DEF IInv, AtCursor, TypeOK
  <1>3. cursor' \in Venues
    BY <1>2, VenuesAssumption DEF ReleaseSlot, NextQueue, Venues
  <1>4. queue[cursor] \in Seq(Update) /\ Len(queue[cursor]) \in Nat
    BY <1>2, QueueTypes
  <1>5. /\ Tail(queue[cursor]) \in Seq(Update)
        /\ Len(Tail(queue[cursor])) = Len(queue[cursor]) - 1
        /\ \A k \in 1 .. Len(Tail(queue[cursor])) : Tail(queue[cursor])[k] = queue[cursor][k + 1]
    BY <1>2, <1>4, HeadTailProperties
  <1>6. /\ queue'[cursor] = Tail(queue[cursor])
        /\ \A w \in Venues : w # cursor => queue'[w] = queue[w]
    BY <1>1, <1>2 DEF TypeOK
  <1>7. TypeOK'
    <2>1. queue' \in [Venues -> Seq(Update)]
      BY <1>1, <1>2, <1>5 DEF TypeOK
    <2>2. current' \in Seq(Update) /\ Len(current') <= 1
      BY <1>1
    <2> QED
      BY <2>1, <2>2, <1>1, <1>2, <1>3 DEF TypeOK
  <1>8. ASSUME NEW v \in Venues PROVE Split(v)'
    <2>1. Split(v) /\ ~ Working(v)'
      BY <1>1 DEF IInv, Working
    <2>2. CASE v # cursor
      <3>1. ~ Working(v)
        BY <2>2 DEF Working
      <3> QED
        BY <3>1, <2>1, <2>2, <1>1, <1>6, SplitUntouched
    <2>3. CASE v = cursor
      <3>1. Working(v)
        BY <2>3, <1>1 DEF Working
      <3>2. Waiting(v)' = Waiting(v)
        BY <3>1, <2>1, <2>3, <1>6 DEF Waiting
      <3>3. \A k \in 1 .. Len(queue'[v]) : queue'[v][k].venue = v
        <4> TAKE k \in 1 .. Len(queue'[v])
        <4>1. k + 1 \in 1 .. Len(queue[v]) /\ k \in 1 .. Len(Tail(queue[v]))
          BY <2>3, <1>4, <1>5, <1>6
        <4>2. queue[v][k + 1].venue = v
          BY <4>1, <2>1 DEF Split
        <4> QED
          BY <4>1, <4>2, <2>3, <1>5, <1>6
      <3> QED
        BY <3>2, <3>3, <2>1, <1>1 DEF Split, Tracked
    <2> QED
      BY <2>2, <2>3
  <1>9. AtCursor'
    BY <1>1 DEF AtCursor
  <1>10. Lifecycle'
    <2>1. ingester[cursor] \notin {"absent", "connecting", "ended"}
      BY <1>2 DEF IInv, Lifecycle
    <2>2. \A w \in Venues : ingester[w] \in {"absent", "connecting", "ended"} =>
                            queue'[w] = queue[w]
      BY <2>1, <1>6
    <2> QED
      BY <2>2, <1>1 DEF IInv, Lifecycle
  <1> QED
    BY <1>7, <1>8, <1>9, <1>10 DEF IInv

LEMMA StepIInv == IInv /\ [Next]_vars => IInv'
  <1> SUFFICES ASSUME IInv, [Next]_vars PROVE IInv'
    OBVIOUS
  <1>1. CASE Main
    BY <1>1, MainKeeps
  <1>2. CASE Obm
    BY <1>2, PollKeeps, PassKeeps, ReleaseKeeps DEF Obm
  <1>3. CASE UNCHANGED vars
    <2>1. UNCHANGED <<main, ingester, batch, published, queue, obm, cursor, current, applied, running_>>
      BY <1>3 DEF vars, feedVars, obmVars
    <2>2. TypeOK' /\ AtCursor' /\ Lifecycle'
      BY <2>1 DEF IInv, TypeOK, AtCursor, Lifecycle
    <2>3. ASSUME NEW v \in Venues PROVE Split(v)'
      <3>1. Working(v)' <=> Working(v)
        BY <2>1 DEF Working
      <3> QED
        BY <3>1, <2>1, SplitUntouched DEF IInv
    <2> QED
      BY <2>2, <2>3 DEF IInv
  <1>4. ASSUME NEW v \in Venues, Ingester(v) PROVE IInv'
    BY <1>3, <1>4, IngesterKeeps, EnqueueKeeps DEF Ingester, ReadNothing
  <1> QED
    BY <1>1, <1>2, <1>3, <1>4 DEF Next, Returned

-----------------------------------------------------------------------------
\* The threads, the queues and the books agree in every interleaving.
THEOREM SystemInvariant == Spec => []IInv
  BY InitIInv, StepIInv, PTL DEF Spec

\* run() polls only queues that exist and a queue holds only updates of the
\* feeds; no thread is where its function cannot be.
THEOREM SystemTypeOK == Spec => []TypeOK
  <1>1. IInv => TypeOK
    BY DEF IInv
  <1> QED
    BY <1>1, SystemInvariant, PTL

\* run() applies the updates of every venue once and in the order in which the
\* ingester of the venue enqueued them, for any number of venues and however
\* their threads and the OBM thread are interleaved.
THEOREM UpdatesAppliedInFeedOrder == Spec => []AppliedInFeedOrder
  <1>1. IInv => AppliedInFeedOrder
    <2> SUFFICES ASSUME IInv, NEW v \in Venues PROVE IsPrefix(applied[v], published[v])
      BY DEF AppliedInFeedOrder
    <2> DEFINE a == applied[v]
               p == published[v]
    <2>1. a \in Seq(Update) /\ p \in Seq(Update) /\ Len(a) \in Nat /\ Len(p) \in Nat
      BY QueueTypes DEF IInv
    <2>2. Len(a) <= Len(p) /\ \A i \in 1 .. Len(a) : a[i] = p[i]
      BY DEF IInv, Split, Tracked
    <2> HIDE DEF a, p
    <2>3. \A i \in 1 .. Len(a) : p[i] \in Update
      BY <2>1, <2>2, ElementOfSeq
    <2>4. /\ SubSeq(p, 1, Len(a)) \in Seq(Update) /\ Len(SubSeq(p, 1, Len(a))) = Len(a)
          /\ \A i \in 1 .. Len(a) : SubSeq(p, 1, Len(a))[i] = p[i]
      BY <2>1, <2>3, SubSeqProperties
    <2>5. SubSeq(p, 1, Len(a)) = a
      BY <2>1, <2>2, <2>4, SeqEqual
    <2> QED
      BY <2>1, <2>2, <2>5, SubSeqFull DEF IsPrefix, a, p
  <1> QED
    BY <1>1, SystemInvariant, PTL

\* When the OBM thread has left run() no update is left behind: main() calls
\* stop() only after every ingester has ended, and none ends once it reads.
THEOREM NothingIsAbandoned == Spec => []NothingAbandoned
  <1>1. IInv => NothingAbandoned
    <2> SUFFICES ASSUME IInv, obm = "ended", NEW v \in Venues
                 PROVE  ingester[v] = "ended" /\ queue[v] = << >> /\ applied[v] = published[v]
      BY DEF NothingAbandoned
    <2>1. ingester[v] = "ended" /\ published[v] = << >> /\ queue[v] = << >>
      BY DEF IInv, Lifecycle
    <2>2. applied[v] \in Seq(Update) /\ Len(applied[v]) \in Nat /\ Len(published[v]) = 0
      BY <2>1, QueueTypes DEF IInv
    <2>3. Len(applied[v]) <= Len(published[v])
      BY DEF IInv, Split, Tracked
    <2>4. applied[v] = << >>
      BY <2>2, <2>3, EmptySeq
    <2> QED
      BY <2>1, <2>4
  <1> QED
    BY <1>1, SystemInvariant, PTL
=============================================================================
