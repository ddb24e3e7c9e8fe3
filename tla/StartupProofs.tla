---------------------------- MODULE StartupProofs ----------------------------
(***************************************************************************)
(* Proofs about main()'s set-up: what Startup promises of the instruments, *)
(* of the books and of the strategies' references to them, for files of at *)
(* most IDX rows, and of the latencies reported; and what LineReader,      *)
(* which reads the file, promises of its lines and of the block its two    *)
(* threads share, for every file and every size of the blocks.             *)
(***************************************************************************)
EXTENDS Startup, LineReader, ModArith, SequenceTheorems, FiniteSetTheorems

\* The cells of a row are those under the columns of its line.
LEMMA CellsOfLine ==
  ASSUME NEW line, header \in Seq(STRING)
  PROVE  /\ parse_line(line).exchange = CellOf(line, "exchange")
         /\ parse_line(line).symbol = CellOf(line, "symbol")
  <1>1. Len(header) \in Nat
    OBVIOUS
  <1>2. Len(col_order(header)) = Len(header)
    BY <1>1 DEF col_order
  <1>3. ASSUME NEW c \in {"exchange", "symbol"}, NEW i \in 1 .. Len(header)
        PROVE  col_order(header)[i] = c <=> header[i] = c
    BY <1>3 DEF col_order, Columns
  <1>4. ASSUME NEW c \in {"exchange", "symbol"}
        PROVE  (CHOOSE i \in 1 .. Len(col_order(header)) : col_order(header)[i] = c)
                 = (CHOOSE i \in 1 .. Len(header) : header[i] = c)
    BY <1>2, <1>3
  <1> QED
    BY <1>4 DEF parse_line, CellOf

\* pack() keeps venue and symbol apart.
LEMMA PackInjective ==
  ASSUME IDX \in Nat, NEW v \in Nat, NEW w \in Nat, NEW s \in 0 .. IDX - 1, NEW t \in 0 .. IDX - 1,
         pack(v, s) = pack(w, t)
  PROVE  v = w /\ s = t
  <1>1. IDX \in Nat \ {0}
    OBVIOUS
  <1>2. PICK a \in Int : a = IDX * v + s /\ a = IDX * w + t
    BY <1>1 DEF pack
  <1>3. a % IDX = s /\ a % IDX = t
    <2>1. ASSUME NEW q \in Int, NEW r \in 0 .. IDX - 1, a = IDX * q + r PROVE a % IDX = r
      BY <1>1, <2>1, ModUnique
    <2>2. v \in Int /\ w \in Int
      OBVIOUS
    <2> QED
      BY <1>2, <2>1, <2>2, Zenon
  <1>4. IDX * v = IDX * w
    BY <1>1, <1>2, <1>3
  <1>5. ~ (v - w >= 1) /\ ~ (v - w <= -1)
    BY <1>1, <1>4
  <1> QED
    BY <1>3, <1>5

LEMMA ExtendedProperties ==
  ASSUME NEW f, NEW x, NEW y
  PROVE  /\ DOMAIN Extended(f, x, y) = DOMAIN f \cup {x}
         /\ Extended(f, x, y)[x] = y
         /\ \A z \in DOMAIN f : z # x => Extended(f, x, y)[z] = f[z]
  BY DEF Extended

-----------------------------------------------------------------------------
(***************************************************************************)
(* The registry.                                                           *)
(***************************************************************************)
\* Venues, with how many symbols each has, and instruments after k rows.
Venues(V, X, k) ==
  /\ IsFiniteSet(DOMAIN V) /\ Cardinality(DOMAIN V) <= k
  /\ \A e \in DOMAIN V : V[e] \in 0 .. Cardinality(DOMAIN V) - 1
  /\ \A e, f \in DOMAIN V : V[e] = V[f] => e = f
  /\ X = [v \in {V[e] : e \in DOMAIN V} |-> X[v]]
  /\ \A v \in DOMAIN X : X[v] \in 0 .. IDX - 1 /\ X[v] <= k

Instruments(V, X, M, k) ==
  /\ DOMAIN M = {Instrument(rows_[j]) : j \in 1 .. k}
  /\ \A i \in DOMAIN M :
       /\ i[1] \in DOMAIN V
       /\ \E s \in 0 .. IDX - 1 : M[i] = pack(V[i[1]], s) /\ (k < IDX => s < X[V[i[1]]])
  /\ \A i, j \in DOMAIN M : M[i] = M[j] => i = j

RegistryGood(reg, k) ==
  /\ reg = [venue_ids |-> reg.venue_ids, next_symbol_idx |-> reg.next_symbol_idx,
            instrument_map |-> reg.instrument_map]
  /\ Venues(reg.venue_ids, reg.next_symbol_idx, k)
  /\ Instruments(reg.venue_ids, reg.next_symbol_idx, reg.instrument_map, k)

LEMMA EmptyGood == ASSUME IDX \in Nat PROVE RegistryGood(EmptyRegistry, 0)
  <1>1. Venues(<< >>, << >>, 0)
    BY FS_EmptySet DEF Venues
  <1>2. Instruments(<< >>, << >>, << >>, 0)
    BY DEF Instruments
  <1> QED
    BY <1>1, <1>2 DEF RegistryGood, EmptyRegistry

LEMMA AddVenue ==
  ASSUME IDX \in Nat, NEW V, NEW X, NEW k \in Nat, k < IDX, Venues(V, X, k), NEW e, e \notin DOMAIN V
  PROVE  LET n == Cardinality(DOMAIN V) % IDX
         IN  /\ Venues(Extended(V, e, n), Extended(X, n, 0), k + 1)
             /\ n \notin DOMAIN X
  <1>1. PICK c \in Nat : c = Cardinality(DOMAIN V) /\ c <= k
    BY FS_CardinalityType DEF Venues
  <1>2. Cardinality(DOMAIN V) % IDX = c
    BY <1>1, ModSmall
  <1> DEFINE W == Extended(V, e, c)
             Y == Extended(X, c, 0)
  <1>3. DOMAIN W = DOMAIN V \cup {e} /\ W[e] = c /\ \A z \in DOMAIN V : W[z] = V[z]
    BY DEF Extended
  <1>4. IsFiniteSet(DOMAIN W) /\ Cardinality(DOMAIN W) = c + 1
    BY <1>1, <1>3, FS_AddElement DEF Venues
  <1>5. \A z \in DOMAIN V : V[z] \in 0 .. c - 1
    BY <1>1 DEF Venues
  <1>6. DOMAIN X = {V[z] : z \in DOMAIN V} /\ \A v \in DOMAIN X : X[v] \in 0 .. IDX - 1 /\ X[v] <= k
    BY DEF Venues
  <1>7. c \notin DOMAIN X
    BY <1>1, <1>5, <1>6
  <1>8. DOMAIN Y = {W[z] : z \in DOMAIN W}
    <2>1. DOMAIN Y = DOMAIN X \cup {c}
      BY DEF Extended
    <2> HIDE DEF W, Y
    <2> QED
      BY <1>3, <1>6, <2>1
  <1>9. Y = [v \in {W[z] : z \in DOMAIN W} |-> Y[v]]
    BY <1>8 DEF Extended
  <1>10. \A v \in DOMAIN Y : Y[v] \in 0 .. IDX - 1 /\ Y[v] <= k + 1
    <2>1. \A v \in DOMAIN X : X[v] \in 0 .. IDX - 1 /\ X[v] <= k + 1
      BY <1>6
    <2>2. DOMAIN Y = DOMAIN X \cup {c} /\ Y[c] = 0 /\ \A v \in DOMAIN X : Y[v] = X[v]
      BY <1>7 DEF Extended
    <2> QED
      BY <2>1, <2>2
  <1>11. \A x, y \in DOMAIN W : W[x] = W[y] => x = y
    <2>1. \A x, y \in DOMAIN V : V[x] = V[y] => x = y
      BY DEF Venues
    <2>2. \A x \in DOMAIN V : V[x] # c
      BY <1>1, <1>5
    <2> QED
      BY <1>3, <2>1, <2>2
  <1>12. \A x \in DOMAIN W : W[x] \in 0 .. Cardinality(DOMAIN W) - 1
    BY <1>1, <1>3, <1>4, <1>5
  <1> HIDE DEF W, Y
  <1>13. Venues(W, Y, k + 1)
    <2>1. Cardinality(DOMAIN W) <= k + 1
      BY <1>1, <1>4
    <2> QED
      BY <2>1, <1>1, <1>4, <1>9, <1>10, <1>11, <1>12 DEF Venues
  <1> QED
    BY <1>2, <1>7, <1>13 DEF W, Y

\* What a row adds when its venue is number v and has X[v] symbols.
LEMMA AddInstrument ==
  ASSUME IDX \in Nat, NEW k \in Nat, k < IDX, k + 1 <= Len(rows_), NEW V, NEW X, NEW M,
         Venues(V, X, k + 1), NEW e \in DOMAIN V, NEW v \in Nat, v = V[e],
         e = Instrument(rows_[k + 1])[1], X[v] <= k,
         DOMAIN M = {Instrument(rows_[j]) : j \in 1 .. k},
         \A i \in DOMAIN M :
           /\ i[1] \in DOMAIN V
           /\ \E s \in 0 .. IDX - 1 : M[i] = pack(V[i[1]], s) /\ s < X[V[i[1]]],
         \A i, j \in DOMAIN M : M[i] = M[j] => i = j
  PROVE  LET Y == [X EXCEPT ![v] = (@ + 1) % IDX]
         IN  /\ Venues(V, Y, k + 1)
             /\ Instruments(V, Y, Extended(M, Instrument(rows_[k + 1]), pack(v, X[v])), k + 1)
  <1> DEFINE Y == [X EXCEPT ![v] = (@ + 1) % IDX]
             new == Instrument(rows_[k + 1])
             N == Extended(M, new, pack(v, X[v]))
  <1>1. DOMAIN X = {V[x] : x \in DOMAIN V} /\ v \in DOMAIN X /\ IDX \in Nat \ {0}
    BY DEF Venues
  <1>2. PICK n \in 0 .. IDX - 1 : n = X[v] /\ n <= k
    BY <1>1 DEF Venues
  <1>3. PICK m \in 0 .. IDX - 1 : /\ m = (n + 1) % IDX /\ m <= k + 1
                                  /\ k + 1 < IDX => m = n + 1
    <2>1. CASE n + 1 < IDX
      <3>1. (n + 1) % IDX = n + 1
        <4>1. n + 1 \in 0 .. IDX - 1
          BY <1>1, <2>1
        <4> QED
          BY <1>1, <4>1, ModSmall
      <3> QED
        BY <1>2, <2>1, <3>1
    <2>2. CASE ~ (n + 1 < IDX)
      <3>1. n + 1 = IDX * 1 + 0 /\ 0 \in 0 .. IDX - 1 /\ n + 1 \in Int
        BY <1>1, <2>2
      <3>2. (n + 1) % IDX = 0
        BY <1>1, <3>1, ModUnique, SMTT(20)
      <3> QED
        BY <1>1, <1>2, <2>2, <3>2
    <2> QED
      BY <2>1, <2>2
  <1>4. DOMAIN Y = DOMAIN X /\ Y[v] = m /\ \A w \in DOMAIN X : w # v => Y[w] = X[w]
    BY <1>1, <1>2, <1>3
  <1>5. Y = [w \in {V[x] : x \in DOMAIN V} |-> Y[w]]
    BY <1>1
  <1> HIDE DEF Y, new
  <1>6. Venues(V, Y, k + 1)
    <2>1. \A w \in DOMAIN Y : Y[w] \in 0 .. IDX - 1 /\ Y[w] <= k + 1
      BY <1>3, <1>4 DEF Venues
    <2> QED
      BY <1>5, <2>1 DEF Venues
  <1>7. DOMAIN N = DOMAIN M \cup {new} /\ N[new] = pack(v, n) /\ \A i \in DOMAIN M : i # new => N[i] = M[i]
    BY <1>2 DEF Extended
  <1> HIDE DEF N
  <1>8. DOMAIN N = {Instrument(rows_[j]) : j \in 1 .. k + 1}
    <2>1. \A j : j \in 1 .. k + 1 <=> j \in 1 .. k \/ j = k + 1
      OBVIOUS
    <2> QED
      BY <1>7, <2>1 DEF new
  <1>9. ASSUME NEW i \in DOMAIN N
        PROVE  /\ i[1] \in DOMAIN V
               /\ \E s \in 0 .. IDX - 1 : N[i] = pack(V[i[1]], s) /\ (k + 1 < IDX => s < Y[V[i[1]]])
    <2>1. CASE i = new
      <3>1. i[1] = e
        BY <2>1 DEF new
      <3> QED
        BY <1>2, <1>3, <1>4, <1>7, <2>1, <3>1, SMTT(20)
    <2>2. CASE i # new
      <3>1. i \in DOMAIN M /\ N[i] = M[i] /\ i[1] \in DOMAIN V
        BY <1>7, <2>2
      <3>2. PICK s \in 0 .. IDX - 1 : M[i] = pack(V[i[1]], s) /\ s < X[V[i[1]]]
        BY <3>1
      <3>3. V[i[1]] \in DOMAIN X
        BY <1>1, <3>1
      <3>4. k + 1 < IDX => s < Y[V[i[1]]]
        <4>1. X[V[i[1]]] \in Nat
          <5>1. X[V[i[1]]] \in 0 .. IDX - 1
            BY <3>3, Zenon DEF Venues
          <5> QED
            BY <5>1
        <4>2. CASE V[i[1]] = v
          <5>1. s < n /\ (k + 1 < IDX => m = n + 1) /\ Y[V[i[1]]] = m
            BY <1>2, <1>3, <1>4, <3>2, <4>2, Zenon
          <5> QED
            BY <5>1
        <4>3. CASE V[i[1]] # v
          BY <1>4, <3>2, <3>3, <4>3
        <4> QED
          BY <4>2, <4>3
      <3> QED
        BY <3>1, <3>2, <3>4
    <2> QED
      BY <2>1, <2>2
  <1>10. ASSUME NEW i \in DOMAIN M PROVE M[i] # pack(v, n)
    <2>1. PICK s \in 0 .. IDX - 1 : M[i] = pack(V[i[1]], s) /\ s < X[V[i[1]]] /\ i[1] \in DOMAIN V
      OBVIOUS
    <2>2. V[i[1]] \in Nat
      BY <2>1 DEF Venues
    <2>3. ASSUME pack(V[i[1]], s) = pack(v, n) PROVE V[i[1]] = v /\ s = n
      BY <2>2, <2>3, PackInjective
    <2> QED
      BY <1>2, <2>1, <2>3
  <1>11. \A i, j \in DOMAIN N : N[i] = N[j] => i = j
    BY <1>7, <1>10
  <1>12. Instruments(V, Y, N, k + 1)
    BY <1>8, <1>9, <1>11 DEF Instruments
  <1> QED
    BY <1>6, <1>12 DEF Y, N, new

LEMMA AddRowKeeps ==
  ASSUME IDX \in Nat, NEW k \in Nat, k < IDX, k + 1 <= Len(rows_), NEW reg, RegistryGood(reg, k)
  PROVE  RegistryGood(AddRow(reg, rows_[k + 1]), k + 1)
  <1> DEFINE V == reg.venue_ids
             X == reg.next_symbol_idx
             M == reg.instrument_map
             row == rows_[k + 1]
             e == row.exchange
             r == get_or_add_venue(reg, e)
             v == r.venue_ids[e]
  <1>1. /\ reg = [venue_ids |-> V, next_symbol_idx |-> X, instrument_map |-> M]
        /\ Venues(V, X, k) /\ Instruments(V, X, M, k)
    BY DEF RegistryGood
  <1>2. Instrument(row)[1] = e
    BY DEF Instrument
  <1>3. \E W, Z : /\ r = [venue_ids |-> W, next_symbol_idx |-> Z, instrument_map |-> M]
                  /\ Venues(W, Z, k + 1)
                  /\ e \in DOMAIN W /\ Z[W[e]] <= k
                  /\ \A x \in DOMAIN V : x \in DOMAIN W /\ W[x] = V[x] /\ Z[V[x]] = X[V[x]]
    <2>1. CASE e \in DOMAIN V
      <3>1. r = reg
        BY <2>1 DEF get_or_add_venue
      <3>2. Venues(V, X, k + 1)
        <4> HIDE DEF V, X
        <4>1. Cardinality(DOMAIN V) \in Nat
          BY <1>1, FS_CardinalityType DEF Venues
        <4>2. \A u \in DOMAIN X : X[u] \in 0 .. IDX - 1 /\ X[u] <= k + 1
          <5>1. \A u \in DOMAIN X : X[u] \in 0 .. IDX - 1 /\ X[u] <= k
            BY <1>1, Zenon DEF Venues
          <5> QED
            BY <5>1
        <4>3. Cardinality(DOMAIN V) <= k + 1
          BY <1>1, <4>1 DEF Venues
        <4> QED
          BY <1>1, <4>2, <4>3 DEF Venues
      <3>3. X[V[e]] <= k
        BY <1>1, <2>1 DEF Venues
      <3> QED
        BY <1>1, <2>1, <3>1, <3>2, <3>3
    <2>2. CASE e \notin DOMAIN V
      <3> DEFINE n == Cardinality(DOMAIN V) % IDX
                 W == Extended(V, e, n)
                 Z == Extended(X, n, 0)
      <3>1. r = [venue_ids |-> W, next_symbol_idx |-> Z, instrument_map |-> M]
        BY <1>1, <2>2 DEF get_or_add_venue
      <3>2. Venues(W, Z, k + 1) /\ n \notin DOMAIN X
        BY <1>1, <2>2, AddVenue
      <3>3. e \in DOMAIN W /\ W[e] = n /\ Z[n] = 0
        BY DEF Extended
      <3>4. ASSUME NEW x \in DOMAIN V PROVE x \in DOMAIN W /\ W[x] = V[x] /\ Z[V[x]] = X[V[x]]
        <4>1. V[x] \in DOMAIN X
          BY <1>1 DEF Venues
        <4> QED
          BY <2>2, <3>2, <4>1 DEF Extended
      <3> HIDE DEF W, Z, n
      <3>5. Z[W[e]] <= k
        BY <3>3
      <3> QED
        BY <3>1, <3>2, <3>3, <3>4, <3>5
    <2> QED
      BY <2>1, <2>2
  <1>4. PICK W, Z : /\ r = [venue_ids |-> W, next_symbol_idx |-> Z, instrument_map |-> M]
                    /\ Venues(W, Z, k + 1)
                    /\ e \in DOMAIN W /\ Z[W[e]] <= k
                    /\ \A x \in DOMAIN V : x \in DOMAIN W /\ W[x] = V[x] /\ Z[V[x]] = X[V[x]]
    BY <1>3
  <1> HIDE DEF V, X, M
  <1>5. v = W[e] /\ v \in Nat
    BY <1>4 DEF Venues
  <1> DEFINE Y == [Z EXCEPT ![v] = (@ + 1) % IDX]
             N == Extended(M, Instrument(row), pack(v, Z[v]))
  <1>6. AddRow(reg, row) = [venue_ids |-> W, next_symbol_idx |-> Y, instrument_map |-> N]
    <2>1. AddRow(reg, row) =
            [r EXCEPT !.next_symbol_idx[v] = (@ + 1) % IDX,
                      !.instrument_map = Extended(@, Instrument(row), pack(v, r.next_symbol_idx[v]))]
      BY DEF AddRow
    <2> HIDE DEF r, v, row, e
    <2>2. r.next_symbol_idx = Z /\ r.instrument_map = M
      BY <1>4
    <2> QED
      BY <1>4, <2>1, <2>2
  <1>7. /\ DOMAIN M = {Instrument(rows_[j]) : j \in 1 .. k}
        /\ \A i, j \in DOMAIN M : M[i] = M[j] => i = j
    BY <1>1 DEF Instruments
  <1>8. ASSUME NEW i \in DOMAIN M
        PROVE  /\ i[1] \in DOMAIN W
               /\ \E s \in 0 .. IDX - 1 : M[i] = pack(W[i[1]], s) /\ s < Z[W[i[1]]]
    BY <1>1, <1>4 DEF Instruments
  <1> HIDE DEF r, v
  <1>9. Venues(W, Y, k + 1) /\ Instruments(W, Y, N, k + 1)
    <2> HIDE DEF row, e
    <2>1. e = Instrument(rows_[k + 1])[1] /\ row = rows_[k + 1]
      BY <1>2 DEF row
    <2> QED
      BY <1>4, <1>5, <1>7, <1>8, <2>1, AddInstrument
  <1> HIDE DEF Y, N
  <1> QED
    BY <1>6, <1>9 DEF RegistryGood

-----------------------------------------------------------------------------
(***************************************************************************)
(* The recursions over the rows have solutions.                            *)
(***************************************************************************)
LEMMA RegistryAfterDef ==
  ASSUME Len(rows_) \in Nat
  PROVE  RegistryAfter = [k \in 0 .. Len(rows_) |->
           IF k = 0 THEN EmptyRegistry ELSE AddRow(RegistryAfter[k - 1], rows_[k])]
  <1> DEFINE Cut(f, k) == IF k = 0 THEN EmptyRegistry ELSE AddRow(f[k - 1], rows_[k])
             Up(n) == \E f : f = [k \in 0 .. n |-> Cut(f, k)]
             T == {n \in Nat : ~ Up(n)}
  <1>1. T = {}
    <2> SUFFICES ASSUME T # {} PROVE FALSE
      OBVIOUS
    <2> HIDE DEF Up
    <2>1. PICK n \in T : \A m \in T : n <= m
      BY LeastNumber
    <2>2. n \in Nat /\ ~ Up(n)
      BY <2>1
    <2>3. n # 0
      <3> SUFFICES ASSUME n = 0 PROVE Up(n)
        BY <2>2
      <3> DEFINE f == [k \in 0 .. n |-> EmptyRegistry]
      <3>1. f = [k \in 0 .. n |-> Cut(f, k)]
        OBVIOUS
      <3> QED
        BY <3>1 DEF Up
    <2>4. n - 1 \in Nat /\ Up(n - 1)
      <3>1. n - 1 \in Nat
        BY <2>2, <2>3
      <3>2. n - 1 \in T => n <= n - 1
        BY <2>1
      <3> QED
        BY <2>2, <3>1, <3>2
    <2>5. PICK f : f = [k \in 0 .. n - 1 |-> Cut(f, k)]
      BY <2>4 DEF Up
    <2> DEFINE h == [k \in 0 .. n |-> IF k \in 0 .. n - 1 THEN f[k] ELSE Cut(f, k)]
    <2>6. ASSUME NEW k \in 0 .. n PROVE h[k] = Cut(h, k)
      <3>1. h[k] = Cut(f, k)
        BY <2>5
      <3>2. CASE k = 0
        BY <3>1, <3>2
      <3>3. CASE k # 0
        <4>1. k - 1 \in 0 .. n - 1 /\ k - 1 \in 0 .. n
          BY <2>2, <2>4, <3>3
        <4>2. h[k - 1] = f[k - 1]
          BY <4>1
        <4> QED
          BY <3>1, <3>3, <4>2
      <3> QED
        BY <3>2, <3>3
    <2>7. h = [k \in 0 .. n |-> Cut(h, k)]
      <3> DEFINE g == [k \in 0 .. n |-> Cut(h, k)]
      <3> HIDE DEF Cut
      <3>1. \A k \in 0 .. n : h[k] = g[k]
        BY <2>6
      <3> QED
        BY <3>1
    <2> QED
      BY <2>2, <2>7 DEF Up
  <1>2. Up(Len(rows_))
    <2> HIDE DEF Up
    <2> QED
      BY <1>1
  <1> QED
    BY <1>2 DEF RegistryAfter

\* The manager with room for every instrument.
Reserved == [EmptyObm EXCEPT !.capacity = Cardinality(DOMAIN registry.instrument_map)]

LEMMA ObmAfterDef ==
  ASSUME Len(rows_) \in Nat
  PROVE  ObmAfter = [k \in 0 .. Len(rows_) |->
           IF k = 0 THEN Reserved ELSE register_instrument(ObmAfter[k - 1], rows_[k])]
  <1> DEFINE Cut(f, k) == IF k = 0 THEN Reserved ELSE register_instrument(f[k - 1], rows_[k])
             Up(n) == \E f : f = [k \in 0 .. n |-> Cut(f, k)]
             T == {n \in Nat : ~ Up(n)}
  <1>1. T = {}
    <2> SUFFICES ASSUME T # {} PROVE FALSE
      OBVIOUS
    <2> HIDE DEF Up
    <2>1. PICK n \in T : \A m \in T : n <= m
      BY LeastNumber
    <2>2. n \in Nat /\ ~ Up(n)
      BY <2>1
    <2>3. n # 0
      <3> SUFFICES ASSUME n = 0 PROVE Up(n)
        BY <2>2
      <3> DEFINE f == [k \in 0 .. n |-> Reserved]
      <3>1. f = [k \in 0 .. n |-> Cut(f, k)]
        OBVIOUS
      <3> QED
        BY <3>1 DEF Up
    <2>4. n - 1 \in Nat /\ Up(n - 1)
      <3>1. n - 1 \in Nat
        BY <2>2, <2>3
      <3>2. n - 1 \in T => n <= n - 1
        BY <2>1
      <3> QED
        BY <2>2, <3>1, <3>2
    <2>5. PICK f : f = [k \in 0 .. n - 1 |-> Cut(f, k)]
      BY <2>4 DEF Up
    <2> DEFINE h == [k \in 0 .. n |-> IF k \in 0 .. n - 1 THEN f[k] ELSE Cut(f, k)]
    <2>6. ASSUME NEW k \in 0 .. n PROVE h[k] = Cut(h, k)
      <3>1. h[k] = Cut(f, k)
        BY <2>5
      <3>2. CASE k = 0
        BY <3>1, <3>2
      <3>3. CASE k # 0
        <4>1. k - 1 \in 0 .. n - 1 /\ k - 1 \in 0 .. n
          BY <2>2, <2>4, <3>3
        <4>2. h[k - 1] = f[k - 1]
          BY <4>1
        <4> QED
          BY <3>1, <3>3, <4>2
      <3> QED
        BY <3>2, <3>3
    <2>7. h = [k \in 0 .. n |-> Cut(h, k)]
      <3> DEFINE g == [k \in 0 .. n |-> Cut(h, k)]
      <3> HIDE DEF Cut
      <3>1. \A k \in 0 .. n : h[k] = g[k]
        BY <2>6
      <3> QED
        BY <3>1
    <2> QED
      BY <2>2, <2>7 DEF Up
  <1>2. Up(Len(rows_))
    <2> HIDE DEF Up
    <2> QED
      BY <1>1
  <1> QED
    BY <1>2 DEF ObmAfter, Reserved

\* The constructor's registry, row by row.
LEMMA RegistryIsGood ==
  ASSUME Len(rows_) \in Nat, Len(rows_) <= IDX, IDX \in Nat
  PROVE  RegistryGood(RegistryAfter[Len(rows_)], Len(rows_))
  <1> DEFINE Good(k) == RegistryGood(RegistryAfter[k], k)
             T == {k \in Nat : k <= Len(rows_) /\ ~ Good(k)}
  <1>1. T = {}
    <2> SUFFICES ASSUME T # {} PROVE FALSE
      OBVIOUS
    <2> HIDE DEF Good
    <2>1. PICK k \in T : \A m \in T : k <= m
      BY LeastNumber
    <2>2. k \in 0 .. Len(rows_) /\ ~ Good(k)
      BY <2>1
    <2>3. k # 0
      <3>1. RegistryAfter[0] = EmptyRegistry
        BY RegistryAfterDef
      <3> QED
        BY <2>2, <3>1, EmptyGood DEF Good
    <2>4. PICK m \in Nat : k = m + 1 /\ m < IDX /\ m + 1 <= Len(rows_) /\ m \in 0 .. Len(rows_)
      <3>1. k - 1 \in Nat /\ k = (k - 1) + 1 /\ k - 1 < IDX
        BY <2>2, <2>3
      <3> QED
        BY <2>2, <3>1
    <2>5. Good(m)
      <3>1. m \in T => k <= m
        BY <2>1
      <3> QED
        BY <2>4, <3>1
    <2>6. RegistryAfter[m + 1] = AddRow(RegistryAfter[m], rows_[m + 1])
      <3>1. m + 1 \in 0 .. Len(rows_) /\ m + 1 # 0 /\ m + 1 - 1 = m
        BY <2>4
      <3> QED
        BY <3>1, RegistryAfterDef
    <2>7. Good(m + 1)
      BY <2>4, <2>5, <2>6, AddRowKeeps DEF Good
    <2> QED
      BY <2>2, <2>4, <2>7
  <1>2. Good(Len(rows_))
    <2> HIDE DEF Good
    <2> QED
      BY <1>1
  <1> QED
    BY <1>2

-----------------------------------------------------------------------------
(***************************************************************************)
(* The books.                                                              *)
(***************************************************************************)
Owners == DOMAIN registry.instrument_map
Books == [owner : Owners, applied : SUBSET Owners]

ObmShape(o) ==
  /\ o = [order_books |-> o.order_books, id_to_index |-> o.id_to_index,
          capacity |-> o.capacity, moved |-> o.moved]
  /\ o.order_books \in Seq(Books)

\* The book the id of an instrument leads to was made for it.
LeadsToOwn(o, instrument) ==
  /\ lookup(instrument) \in DOMAIN o.id_to_index
  /\ o.id_to_index[lookup(instrument)] \in 1 .. Len(o.order_books)
  /\ o.order_books[o.id_to_index[lookup(instrument)]].owner = instrument

ObmGood(o, k) ==
  /\ ObmShape(o)
  /\ Len(o.order_books) = k
  /\ \A j \in 1 .. k : o.order_books[j].applied = {}
  /\ \A j \in 1 .. k : LeadsToOwn(o, Instrument(rows_[j]))

LEMMA ReservedGood == ObmGood(Reserved, 0)
  BY DEF ObmGood, ObmShape, Reserved, EmptyObm

LEMMA RegisterKeeps ==
  ASSUME IDX \in Nat, NEW k \in Nat, k < IDX, k + 1 <= Len(rows_), Len(rows_) \in Nat,
         RegistryGood(registry, Len(rows_)), NEW o, ObmGood(o, k)
  PROVE  ObmGood(register_instrument(o, rows_[k + 1]), k + 1)
  <1> DEFINE B == o.order_books
             new == Instrument(rows_[k + 1])
             id == lookup(new)
             book == [owner |-> new, applied |-> {}]
             p == register_instrument(o, rows_[k + 1])
  <1>1. /\ Owners = {Instrument(rows_[j]) : j \in 1 .. Len(rows_)}
        /\ \A i, j \in Owners : lookup(i) = lookup(j) => i = j
    BY DEF RegistryGood, Instruments, Owners, lookup
  <1>2. new \in Owners
    BY <1>1
  <1>3. B \in Seq(Books) /\ Len(B) = k /\ ObmShape(o)
    BY DEF ObmGood, ObmShape
  <1>4. (Len(B) % IDX) + 1 = k + 1
    <2>1. k \in 0 .. IDX - 1 /\ IDX \in Nat \ {0}
      OBVIOUS
    <2> QED
      BY <1>3, <2>1, ModSmall
  <1>5. PICK cap, mov : Grown(o) = [order_books |-> B, id_to_index |-> o.id_to_index,
                                    capacity |-> cap, moved |-> mov]
    BY <1>3 DEF Grown, ObmShape
  <1>6. p = [order_books |-> Append(B, book), id_to_index |-> Extended(o.id_to_index, id, k + 1),
             capacity |-> cap, moved |-> mov]
    <2> DEFINE g == Grown(o)
    <2>1. p = [g EXCEPT !.id_to_index = Extended(@, id, (Len(B) % IDX) + 1), !.order_books = Append(@, book)]
      BY DEF register_instrument
    <2>2. g.id_to_index = o.id_to_index /\ g.order_books = B
      BY <1>5
    <2>3. g = [order_books |-> B, id_to_index |-> o.id_to_index, capacity |-> cap, moved |-> mov]
      BY <1>5
    <2>4. p = [g EXCEPT !.id_to_index = Extended(@, id, k + 1), !.order_books = Append(@, book)]
      BY <1>4, <2>1
    <2> DEFINE J == Extended(o.id_to_index, id, k + 1)
               C == Append(B, book)
    <2> HIDE DEF g, p, B, id, book
    <2>5. p = [g EXCEPT !.id_to_index = J, !.order_books = C]
      BY <2>2, <2>4
    <2> HIDE DEF J, C
    <2>6. p = [order_books |-> C, id_to_index |-> J, capacity |-> cap, moved |-> mov]
      BY <2>3, <2>5
    <2> QED
      BY <2>6 DEF J, C
  <1>7. book \in Books
    BY <1>2 DEF Books
  <1>8. PICK C \in Seq(Books) : /\ C = Append(B, book) /\ Len(C) = k + 1 /\ C[k + 1] = book
                                /\ \A j \in 1 .. k : C[j] = B[j]
    <2> HIDE DEF B, book
    <2>1. Append(B, book) \in Seq(Books)
      BY <1>3, <1>7
    <2>2. /\ Len(Append(B, book)) = k + 1 /\ Append(B, book)[k + 1] = book
          /\ \A j \in 1 .. k : Append(B, book)[j] = B[j]
      BY <1>3, <1>7
    <2> QED
      BY <2>1, <2>2, Zenon
  <1>9. PICK I : /\ I = Extended(o.id_to_index, id, k + 1) /\ DOMAIN I = DOMAIN o.id_to_index \cup {id}
                 /\ I[id] = k + 1 /\ \A z \in DOMAIN o.id_to_index : z # id => I[z] = o.id_to_index[z]
    <2> DEFINE J == o.id_to_index
    <2> HIDE DEF id, J
    <2>1. /\ DOMAIN Extended(J, id, k + 1) = DOMAIN J \cup {id} /\ Extended(J, id, k + 1)[id] = k + 1
          /\ \A z \in DOMAIN J : z # id => Extended(J, id, k + 1)[z] = J[z]
      BY DEF Extended
    <2> QED
      BY <2>1 DEF J
  <1>10. p.order_books = C /\ p.id_to_index = I /\ ObmShape(p)
    BY <1>6, <1>8, <1>9 DEF ObmShape
  <1>11. ASSUME NEW j \in 1 .. k + 1 PROVE C[j].applied = {}
    <2>1. CASE j = k + 1
      BY <1>8, <2>1
    <2>2. CASE j # k + 1
      BY <1>8, <2>2 DEF ObmGood
    <2> QED
      BY <2>1, <2>2
  <1> HIDE DEF p, B
  <1>12. ASSUME NEW j \in 1 .. k + 1 PROVE LeadsToOwn(p, Instrument(rows_[j]))
    <2> DEFINE i == Instrument(rows_[j])
    <2>1. i \in Owners
      BY <1>1
    <2>2. CASE lookup(i) = id
      <3>1. i = new
        BY <1>1, <1>2, <2>1, <2>2
      <3>2. I[lookup(i)] = k + 1 /\ lookup(i) \in DOMAIN I
        BY <1>9, <2>2
      <3> QED
        BY <1>8, <1>10, <3>1, <3>2 DEF LeadsToOwn
    <2>3. CASE lookup(i) # id
      <3>1. j \in 1 .. k
        BY <2>3
      <3>2. LeadsToOwn(o, i)
        BY <3>1 DEF ObmGood
      <3>3. PICK x \in 1 .. k : x = o.id_to_index[lookup(i)] /\ B[x].owner = i
        BY <1>3, <3>2 DEF LeadsToOwn, B
      <3>4. lookup(i) \in DOMAIN I /\ I[lookup(i)] = x
        BY <1>9, <2>3, <3>2, <3>3 DEF LeadsToOwn
      <3>5. x \in 1 .. k + 1 /\ C[x].owner = i
        BY <1>8, <3>3
      <3> HIDE DEF i
      <3>6. LeadsToOwn(p, i)
        BY <1>8, <1>10, <3>4, <3>5 DEF LeadsToOwn
      <3> QED
        BY <3>6 DEF i
    <2> QED
      BY <2>2, <2>3
  <1>13. ObmGood(p, k + 1)
    BY <1>8, <1>10, <1>11, <1>12 DEF ObmGood
  <1> QED
    BY <1>13 DEF p

LEMMA ObmIsGood ==
  ASSUME Len(rows_) \in Nat, Len(rows_) <= IDX, IDX \in Nat, RegistryGood(registry, Len(rows_))
  PROVE  ObmGood(ObmAfter[Len(rows_)], Len(rows_))
  <1> DEFINE Good(k) == ObmGood(ObmAfter[k], k)
             T == {k \in Nat : k <= Len(rows_) /\ ~ Good(k)}
  <1>1. T = {}
    <2> SUFFICES ASSUME T # {} PROVE FALSE
      OBVIOUS
    <2> HIDE DEF Good
    <2>1. PICK k \in T : \A m \in T : k <= m
      BY LeastNumber
    <2>2. k \in 0 .. Len(rows_) /\ ~ Good(k)
      BY <2>1
    <2>3. k # 0
      <3>1. ObmAfter[0] = Reserved
        BY ObmAfterDef
      <3> QED
        BY <2>2, <3>1, ReservedGood DEF Good
    <2>4. PICK m \in Nat : k = m + 1 /\ m < IDX /\ m + 1 <= Len(rows_) /\ m \in 0 .. Len(rows_)
      <3>1. k - 1 \in Nat /\ k = (k - 1) + 1 /\ k - 1 < IDX
        BY <2>2, <2>3
      <3> QED
        BY <2>2, <3>1
    <2>5. Good(m)
      <3>1. m \in T => k <= m
        BY <2>1
      <3> QED
        BY <2>4, <3>1
    <2>6. ObmAfter[m + 1] = register_instrument(ObmAfter[m], rows_[m + 1])
      <3>1. m + 1 \in 0 .. Len(rows_) /\ m + 1 # 0 /\ m + 1 - 1 = m
        BY <2>4
      <3> QED
        BY <3>1, ObmAfterDef
    <2>7. Good(m + 1)
      BY <2>4, <2>5, <2>6, RegisterKeeps DEF Good
    <2> QED
      BY <2>2, <2>4, <2>7
  <1>2. Good(Len(rows_))
    <2> HIDE DEF Good
    <2> QED
      BY <1>1
  <1> QED
    BY <1>2

-----------------------------------------------------------------------------
(***************************************************************************)
(* The inductive invariant.                                                *)
(***************************************************************************)
\* The rows are those of the lines read.
RowsInv ==
  /\ header \in Seq(STRING)
  /\ data \in Seq(DataLines)
  /\ rows_ \in Seq({parse_line(line) : line \in DataLines})
  /\ Len(rows_) = Len(data) /\ Len(rows_) <= MaxRows
  /\ phase = "header" => data = << >> /\ rows_ = << >>
  /\ \A k \in 1 .. Len(rows_) : rows_[k] = parse_line(data[k])

RegistryInv ==
  phase \in {"check", "register", "attach", "running"} => RegistryGood(registry, Len(rows_))

\* Every instrument's id leads to its own book, and no book has got updates of
\* another instrument.
BooksInv ==
  /\ ObmShape(obm)
  /\ phase \in {"header", "rows", "registry", "check", "register"} => obm = EmptyObm
  /\ phase \in {"attach", "running"} => \A i \in Owners : LeadsToOwn(obm, i)
  /\ BooksApart

RefsInv == phase = "running" => refs = [i \in 1 .. Len(Traded) |-> book_for(Traded[i])]

StartupInv == RowsInv /\ RegistryInv /\ BooksInv /\ RefsInv

LEMMA StartupInit == Init => StartupInv
  <1> SUFFICES ASSUME Init PROVE StartupInv
    OBVIOUS
  <1>1. RowsInv
    <2>1. phase = "header" /\ header = << >> /\ data = << >> /\ rows_ = << >> /\ 0 <= MaxRows
      BY SizeAssumption DEF Init
    <2> QED
      BY <2>1 DEF RowsInv
  <1>2. ObmShape(obm) /\ obm = EmptyObm
    BY DEF Init, ObmShape, EmptyObm
  <1>3. BooksApart
    BY <1>2 DEF BooksApart, EmptyObm
  <1> QED
    BY <1>1, <1>2, <1>3 DEF Init, StartupInv, RegistryInv, BooksInv, RefsInv

LEMMA RowsKept ==
  ASSUME RowsInv, UNCHANGED <<header, data, rows_>>, phase' = "header" => phase = "header"
  PROVE  RowsInv'
  <1>1. \A line : parse_line(line)' = parse_line(line)
    BY DEF parse_line
  <1>2. {parse_line(line) : line \in DataLines}' = {parse_line(line) : line \in DataLines}
    BY <1>1
  <1>3. \A k \in 1 .. Len(rows_) : rows_[k] = parse_line(data[k])'
    BY <1>1 DEF RowsInv
  <1> QED
    BY <1>2, <1>3 DEF RowsInv

\* Nothing of the rows, the registry and the books changes, unless phase.
LEMMA QuietStep ==
  ASSUME StartupInv, UNCHANGED <<header, data, rows_, registry, obm>>,
         \/ phase' = "aborted"
         \/ phase' = "registry" /\ phase = "rows"
         \/ phase' = "register" /\ phase = "check"
         \/ phase' = "running" /\ phase = "attach" /\ RefsInv'
         \/ phase' = phase /\ refs' = refs
  PROVE  StartupInv'
  <1>1. RowsInv'
    BY RowsKept DEF StartupInv
  <1>2. RegistryInv'
    BY DEF StartupInv, RegistryInv, RegistryGood, Instruments
  <1>3. BooksInv'
    BY DEF StartupInv, BooksInv, ObmShape, Books, Owners, LeadsToOwn, lookup, BooksApart
  <1>4. RefsInv'
    BY DEF StartupInv, RefsInv, book_for, lookup
  <1> QED
    BY <1>1, <1>2, <1>3, <1>4 DEF StartupInv

\* An update changes the book of its instrument and nothing else.
LEMMA PassKeeps ==
  ASSUME StartupInv, NEW stream, NEW cycles, PassUpdate(stream, cycles)
  PROVE  StartupInv'
  <1> DEFINE i == <<"BINANCE", SymbolOf[stream]>>
             B == obm.order_books
             x == obm.id_to_index[lookup(i)]
  <1>1. /\ phase = "running" /\ phase' = phase /\ i \in Owners
        /\ UNCHANGED <<header, data, rows_, registry, refs>>
        /\ PassToBook(lookup(i), i, cycles)
    BY DEF PassUpdate, Known, configVars, Owners
  <1>2. ObmShape(obm) /\ (\A j \in Owners : LeadsToOwn(obm, j)) /\ BooksApart
    BY <1>1 DEF StartupInv, BooksInv
  <1>3. lookup(i) \in DOMAIN obm.id_to_index /\ x \in 1 .. Len(B) /\ B[x].owner = i
    BY <1>1, <1>2 DEF LeadsToOwn
  <1>4. obm' = [obm EXCEPT !.order_books[x].applied = @ \cup {i}]
    BY <1>1, <1>3 DEF PassToBook
  <1>5. B \in Seq(Books) /\ obm = [order_books |-> B, id_to_index |-> obm.id_to_index,
                                   capacity |-> obm.capacity, moved |-> obm.moved]
    BY <1>2 DEF ObmShape
  <1> DEFINE C == [B EXCEPT ![x].applied = @ \cup {i}]
  <1> HIDE DEF i
  <1>6. obm' = [order_books |-> C, id_to_index |-> obm.id_to_index,
                capacity |-> obm.capacity, moved |-> obm.moved]
    BY <1>4, <1>5
  <1> HIDE DEF B, x
  <1>7. B[x] \in Books
    BY <1>3, <1>5
  <1>8. [B[x] EXCEPT !.applied = @ \cup {i}] \in Books
    BY <1>1, <1>7 DEF Books
  <1>9. /\ C \in Seq(Books) /\ Len(C) = Len(B)
        /\ C[x] = [B[x] EXCEPT !.applied = @ \cup {i}]
        /\ \A j \in 1 .. Len(B) : j # x => C[j] = B[j]
    <2> DEFINE book == [B[x] EXCEPT !.applied = @ \cup {i}]
    <2>1. C = [B EXCEPT ![x] = book]
      OBVIOUS
    <2>3. book \in Books /\ B \in Seq(Books) /\ x \in 1 .. Len(B)
      BY <1>3, <1>5, <1>8
    <2> HIDE DEF book, C
    <2>2. C \in Seq(Books) /\ Len(C) = Len(B) /\ C[x] = book /\ \A j \in 1 .. Len(B) : j # x => C[j] = B[j]
      BY <2>1, <2>3
    <2> QED
      BY <2>2 DEF book
  <1> HIDE DEF C
  <1>10. obm'.order_books = C /\ obm'.id_to_index = obm.id_to_index /\ obm'.moved = obm.moved
    BY <1>6
  <1>11. \A j \in 1 .. Len(B) : C[j].owner = B[j].owner
    <2>1. C[x].owner = B[x].owner
      BY <1>7, <1>9 DEF Books
    <2> QED
      BY <1>9, <2>1
  <1>12. ObmShape(obm)'
    <2>1. Books' = Books
      BY <1>1 DEF Books, Owners
    <2> QED
      BY <1>6, <1>9, <2>1 DEF ObmShape
  <1>13. \A j \in Owners' : LeadsToOwn(obm, j)'
    <2> SUFFICES ASSUME NEW j \in Owners PROVE LeadsToOwn(obm, j)'
      BY <1>1 DEF Owners
    <2>1. LeadsToOwn(obm, j) /\ lookup(j)' = lookup(j)
      BY <1>1, <1>2 DEF lookup
    <2> QED
      BY <1>9, <1>10, <1>11, <2>1 DEF LeadsToOwn, B
  <1>14. BooksApart'
    <2>1. \A j \in 1 .. Len(B) : B[j].applied \subseteq {B[j].owner}
      BY <1>2 DEF BooksApart, B
    <2>2. C[x].applied \subseteq {C[x].owner}
      <3>1. C[x].applied = B[x].applied \cup {i} /\ C[x].owner = i
        BY <1>3, <1>7, <1>9, <1>11 DEF Books
      <3> QED
        BY <1>3, <2>1, <3>1
    <2>3. \A j \in 1 .. Len(C) : C[j].applied \subseteq {C[j].owner}
      BY <1>9, <2>1, <2>2
    <2> QED
      BY <1>10, <2>3 DEF BooksApart
  <1>15. BooksInv'
    BY <1>1, <1>12, <1>13, <1>14 DEF BooksInv
  <1>16. RefsInv'
    <2>1. \A j : book_for(j)' = book_for(j)
      BY <1>1, <1>10 DEF book_for, lookup
    <2> QED
      BY <1>1, <2>1 DEF RefsInv, StartupInv
  <1>17. RowsInv'
    BY <1>1, RowsKept DEF StartupInv
  <1>18. RegistryInv'
    BY <1>1 DEF StartupInv, RegistryInv, RegistryGood, Instruments
  <1> QED
    BY <1>15, <1>16, <1>17, <1>18 DEF StartupInv

LEMMA StartupStep == StartupInv /\ [Next]_vars => StartupInv'
  <1> SUFFICES ASSUME StartupInv, [Next]_vars PROVE StartupInv'
    OBVIOUS
  <1>1. IDX \in Nat /\ MaxRows \in Nat /\ MaxRows <= IDX /\ Headers \subseteq Seq(STRING)
    BY SizeAssumption
  <1>2. Len(rows_) \in Nat /\ Len(rows_) <= MaxRows /\ Len(rows_) <= IDX
    BY <1>1 DEF StartupInv, RowsInv
  <1>3. ASSUME NEW line \in Headers, ReadHeader(line) PROVE StartupInv'
    <2>1. /\ phase = "header" /\ phase' = "rows" /\ header' = line
          /\ UNCHANGED <<data, rows_, registry, obm>>
      BY <1>3 DEF ReadHeader
    <2>2. data = << >> /\ rows_ = << >>
      BY <2>1 DEF StartupInv, RowsInv
    <2>3. RowsInv'
      BY <1>1, <2>1, <2>2 DEF RowsInv
    <2>4. BooksInv'
      BY <2>1 DEF StartupInv, BooksInv, ObmShape, Books, Owners, BooksApart
    <2> QED
      BY <2>1, <2>3, <2>4 DEF StartupInv, RegistryInv, RefsInv
  <1>4. ASSUME NEW line \in DataLines, ReadRow(line) PROVE StartupInv'
    <2>1. /\ phase = "rows" /\ phase' = phase /\ header' = header /\ Len(rows_) < MaxRows
          /\ data' = Append(data, line) /\ rows_' = Append(rows_, parse_line(line))
          /\ UNCHANGED <<registry, obm>>
      BY <1>4 DEF ReadRow
    <2> DEFINE R == {parse_line(l) : l \in DataLines}
               row == parse_line(line)
    <2>2. \A l : parse_line(l)' = parse_line(l)
      BY <2>1 DEF parse_line
    <2>3. {parse_line(l) : l \in DataLines}' = R
      BY <2>2
    <2>4. data \in Seq(DataLines) /\ rows_ \in Seq(R) /\ row \in R /\ Len(rows_) = Len(data)
          /\ header \in Seq(STRING) /\ \A k \in 1 .. Len(rows_) : rows_[k] = parse_line(data[k])
      BY DEF StartupInv, RowsInv
    <2> HIDE DEF R, row
    <2>5. /\ data' \in Seq(DataLines) /\ Len(data') = Len(data) + 1 /\ data'[Len(data) + 1] = line
          /\ \A k \in 1 .. Len(data) : data'[k] = data[k]
      BY <2>1, <2>4
    <2>6. /\ rows_' \in Seq(R) /\ Len(rows_') = Len(rows_) + 1 /\ rows_'[Len(rows_) + 1] = row
          /\ \A k \in 1 .. Len(rows_) : rows_'[k] = rows_[k]
      <3>1. rows_' = Append(rows_, row)
        BY <2>1 DEF row
      <3> QED
        BY <2>4, <3>1
    <2>7. ASSUME NEW k \in 1 .. Len(rows_') PROVE rows_'[k] = parse_line(data'[k])
      <3>1. CASE k = Len(rows_) + 1
        BY <2>4, <2>5, <2>6, <3>1 DEF row
      <3>2. CASE k # Len(rows_) + 1
        <4>1. k \in 1 .. Len(rows_)
          BY <1>2, <2>6, <3>2
        <4> QED
          BY <2>4, <2>5, <2>6, <4>1
      <3> QED
        BY <3>1, <3>2
    <2>8. RowsInv'
      <3>1. \A k \in 1 .. Len(rows_') : rows_'[k] = parse_line(data[k])'
        BY <2>2, <2>7
      <3> QED
        BY <1>1, <1>2, <2>1, <2>3, <2>4, <2>5, <2>6, <3>1 DEF RowsInv
    <2>9. BooksInv'
      BY <2>1 DEF StartupInv, BooksInv, ObmShape, Books, Owners, BooksApart
    <2> QED
      BY <2>1, <2>8, <2>9 DEF StartupInv, RegistryInv, RefsInv
  <1>5. CASE HeaderThrows \/ RowThrows
    BY <1>5, QuietStep DEF HeaderThrows, RowThrows, Abort, configVars
  <1>6. CASE EndOfRows
    BY <1>6, QuietStep DEF EndOfRows, configVars
  <1>7. CASE BuildRegistry
    <2>1. /\ phase = "registry" /\ phase' = "check" /\ registry' = RegistryAfter[Len(rows_)]
          /\ UNCHANGED <<header, data, rows_, obm>>
      BY <1>7 DEF BuildRegistry, configVars
    <2>2. RegistryGood(registry', Len(rows_))
      BY <1>1, <1>2, <2>1, RegistryIsGood
    <2>3. RegistryGood(registry, Len(rows_))'
      BY <2>1, <2>2 DEF RegistryGood, Instruments
    <2>4. RowsInv'
      BY <2>1, RowsKept DEF StartupInv
    <2>5. BooksInv'
      <3>1. obm = EmptyObm /\ obm' = obm
        BY <2>1 DEF StartupInv, BooksInv
      <3> QED
        BY <2>1, <3>1 DEF BooksInv, ObmShape, EmptyObm, BooksApart
    <2> QED
      BY <2>1, <2>3, <2>4, <2>5 DEF StartupInv, RegistryInv, RefsInv
  <1>8. CASE CheckIds
    BY <1>8, QuietStep DEF CheckIds, configVars
  <1>9. CASE RegisterInstruments
    <2>1. /\ phase = "register" /\ phase' = "attach" /\ obm' = ObmAfter[Len(rows_)]
          /\ UNCHANGED <<header, data, rows_, registry>>
      BY <1>9 DEF RegisterInstruments, configVars
    <2>2. RegistryGood(registry, Len(rows_))
      BY <2>1 DEF StartupInv, RegistryInv
    <2>3. ObmGood(obm', Len(rows_))
      BY <1>1, <1>2, <2>1, <2>2, ObmIsGood
    <2>4. ASSUME NEW i \in Owners PROVE LeadsToOwn(obm', i)
      <3>1. PICK j \in 1 .. Len(rows_) : i = Instrument(rows_[j])
        BY <2>2 DEF RegistryGood, Instruments, Owners
      <3> QED
        BY <2>3, <3>1 DEF ObmGood
    <2>5. BooksInv'
      <3>1. Owners' = Owners /\ Books' = Books
        BY <2>1 DEF Owners, Books
      <3>2. ObmShape(obm)'
        BY <2>3, <3>1 DEF ObmGood, ObmShape
      <3>3. BooksApart'
        BY <2>3 DEF ObmGood, BooksApart
      <3>4. \A i \in Owners' : LeadsToOwn(obm, i)'
        BY <2>1, <2>4, <3>1 DEF LeadsToOwn, lookup
      <3> QED
        BY <2>1, <3>2, <3>3, <3>4 DEF BooksInv
    <2>6. RowsInv'
      BY <2>1, RowsKept DEF StartupInv
    <2>7. RegistryInv'
      BY <2>1, <2>2 DEF RegistryInv, RegistryGood, Instruments
    <2> QED
      BY <2>1, <2>5, <2>6, <2>7 DEF StartupInv, RefsInv
  <1>10. CASE AttachStrategies
    <2>1. /\ phase = "attach" /\ UNCHANGED <<header, data, rows_, registry, obm>>
          /\ \/ phase' = "aborted"
             \/ phase' = "running" /\ refs' = [i \in 1 .. Len(Traded) |-> book_for(Traded[i])]
      BY <1>10 DEF AttachStrategies, configVars
    <2>2. \A j : book_for(j)' = book_for(j)
      BY <2>1 DEF book_for, lookup
    <2>3. phase' = "running" => RefsInv'
      BY <2>1, <2>2 DEF RefsInv
    <2> QED
      BY <2>1, <2>3, QuietStep
  <1>11. ASSUME NEW stream \in Subscribed, NEW cycles \in Latencies, PassUpdate(stream, cycles)
         PROVE  StartupInv'
    BY <1>11, PassKeeps
  <1>12. CASE Finished \/ UNCHANGED vars
    BY <1>12, QuietStep DEF Finished, vars, configVars
  <1> QED
    BY <1>3, <1>4, <1>5, <1>6, <1>7, <1>8, <1>9, <1>10, <1>11, <1>12 DEF Next

\* The instruments that can be looked up are those of the file's lines, and each
\* has a book that was made for it.
THEOREM InstrumentsAreOfFile == Spec => []InstrumentsOfFile
  <1>1. StartupInv => InstrumentsOfFile
    <2> SUFFICES ASSUME StartupInv, phase \in {"attach", "running"}
                 PROVE  /\ DOMAIN registry.instrument_map =
                             {<<CellOf(data[k], "exchange"), CellOf(data[k], "symbol")>> : k \in 1 .. Len(data)}
                        /\ \A i \in DOMAIN registry.instrument_map :
                             /\ lookup(i) \in DOMAIN obm.id_to_index
                             /\ obm.order_books[obm.id_to_index[lookup(i)]].owner = i
      BY DEF InstrumentsOfFile
    <2>1. DOMAIN registry.instrument_map = {Instrument(rows_[k]) : k \in 1 .. Len(rows_)}
      BY DEF StartupInv, RegistryInv, RegistryGood, Instruments
    <2>2. ASSUME NEW k \in 1 .. Len(rows_)
          PROVE  Instrument(rows_[k]) = <<CellOf(data[k], "exchange"), CellOf(data[k], "symbol")>>
      <3>1. rows_[k] = parse_line(data[k]) /\ header \in Seq(STRING)
        BY DEF StartupInv, RowsInv
      <3> QED
        BY <3>1, CellsOfLine DEF Instrument
    <2>3. Len(data) = Len(rows_)
      BY DEF StartupInv, RowsInv
    <2>4. \A i \in DOMAIN registry.instrument_map : LeadsToOwn(obm, i)
      BY DEF StartupInv, BooksInv, Owners
    <2> QED
      BY <2>1, <2>2, <2>3, <2>4 DEF LeadsToOwn
  <1> QED
    BY <1>1, StartupInit, StartupStep, PTL DEF Spec

\* A book gets updates of the instrument it was made for and of no other.
THEOREM BooksStayApart == Spec => []BooksApart
  <1>1. StartupInv => BooksApart
    BY DEF StartupInv, BooksInv
  <1> QED
    BY <1>1, StartupInit, StartupStep, PTL DEF Spec

\* The reference a strategy holds is to the book that gets the updates of its
\* instrument.
THEOREM StrategiesKeepTheirBook == Spec => []StrategiesSeeTheirBook
  <1>1. StartupInv => StrategiesSeeTheirBook
    BY DEF StartupInv, RefsInv, StrategiesSeeTheirBook, book_for
  <1> QED
    BY <1>1, StartupInit, StartupStep, PTL DEF Spec

-----------------------------------------------------------------------------
(***************************************************************************)
(* Latencies.  Sums, and powers of two, as functions with f[0] = w[0].     *)
(***************************************************************************)
Solves(f, n, doubles, w) ==
  f = [k \in 0 .. n |->
         IF k = 0 THEN w[0] ELSE IF doubles THEN 2 * f[k - 1] ELSE f[k - 1] + w[k]]

LEMMA SolutionExists ==
  ASSUME NEW n \in Nat, NEW doubles, NEW w
  PROVE  \E f : Solves(f, n, doubles, w)
  <1> DEFINE Cut(f, k) == IF k = 0 THEN w[0]
                          ELSE IF doubles THEN 2 * f[k - 1] ELSE f[k - 1] + w[k]
             Up(i) == \E f : f = [k \in 0 .. i |-> Cut(f, k)]
             T == {i \in Nat : ~ Up(i)}
  <1>1. T = {}
    <2> SUFFICES ASSUME T # {} PROVE FALSE
      OBVIOUS
    <2> HIDE DEF Up
    <2>1. PICK i \in T : \A j \in T : i <= j
      BY LeastNumber
    <2>2. i \in Nat /\ ~ Up(i)
      BY <2>1
    <2>3. i # 0
      <3> SUFFICES ASSUME i = 0 PROVE Up(i)
        BY <2>2
      <3> DEFINE f == [k \in 0 .. i |-> w[0]]
      <3>1. f = [k \in 0 .. i |-> Cut(f, k)]
        OBVIOUS
      <3> QED
        BY <3>1 DEF Up
    <2>4. i - 1 \in Nat /\ Up(i - 1)
      <3>1. i - 1 \in Nat
        BY <2>2, <2>3
      <3>2. i - 1 \in T => i <= i - 1
        BY <2>1
      <3> QED
        BY <2>2, <3>1, <3>2
    <2>5. PICK f : f = [k \in 0 .. i - 1 |-> Cut(f, k)]
      BY <2>4 DEF Up
    <2> DEFINE h == [k \in 0 .. i |-> IF k \in 0 .. i - 1 THEN f[k] ELSE Cut(f, k)]
    <2>6. ASSUME NEW k \in 0 .. i PROVE h[k] = Cut(h, k)
      <3>1. h[k] = Cut(f, k)
        BY <2>5
      <3>2. CASE k = 0
        BY <3>1, <3>2
      <3>3. CASE k # 0
        <4>1. k - 1 \in 0 .. i - 1 /\ k - 1 \in 0 .. i
          BY <2>2, <2>4, <3>3
        <4>2. h[k - 1] = f[k - 1]
          BY <4>1
        <4> QED
          BY <3>1, <3>3, <4>2
      <3> QED
        BY <3>2, <3>3
    <2>7. h = [k \in 0 .. i |-> Cut(h, k)]
      <3> DEFINE g == [k \in 0 .. i |-> Cut(h, k)]
      <3> HIDE DEF Cut
      <3>1. \A k \in 0 .. i : h[k] = g[k]
        BY <2>6
      <3> QED
        BY <3>1
    <2> QED
      BY <2>2, <2>7 DEF Up
  <1>2. Up(n)
    <2> HIDE DEF Up
    <2> QED
      BY <1>1
  <1> QED
    BY <1>2 DEF Solves

Steps(f, n, doubles, w) ==
  /\ f \in [0 .. n -> Nat] /\ f[0] = w[0]
  /\ \A k \in 1 .. n : f[k] = IF doubles THEN 2 * f[k - 1] ELSE f[k - 1] + w[k]

LEMMA SolutionNat ==
  ASSUME NEW n \in Nat, NEW doubles \in BOOLEAN, NEW w \in [0 .. n -> Nat], NEW f, Solves(f, n, doubles, w)
  PROVE  Steps(f, n, doubles, w)
  <1>1. f[0] = w[0] /\ \A k \in 1 .. n : f[k] = IF doubles THEN 2 * f[k - 1] ELSE f[k - 1] + w[k]
    BY DEF Solves
  <1> DEFINE T == {k \in Nat : k \in 0 .. n /\ f[k] \notin Nat}
  <1>2. T = {}
    <2> SUFFICES ASSUME T # {} PROVE FALSE
      OBVIOUS
    <2>1. PICK k \in T : \A j \in T : k <= j
      BY LeastNumber
    <2>2. k \in 0 .. n /\ f[k] \notin Nat
      BY <2>1
    <2>3. k # 0
      BY <1>1, <2>2
    <2>4. PICK l \in 0 .. n : l = k - 1 /\ k \in 1 .. n
      BY <2>2, <2>3
    <2>5. f[l] \in Nat
      <3>1. l \in T => k <= l
        BY <2>1
      <3> QED
        BY <2>2, <2>4, <3>1
    <2>6. PICK x \in Nat, y \in Nat : x = f[l] /\ y = w[k]
      BY <2>4, <2>5
    <2>7. f[k] = IF doubles THEN 2 * x ELSE x + y
      BY <1>1, <2>4, <2>6
    <2> QED
      BY <2>2, <2>7
  <1>3. \A k \in 0 .. n : f[k] \in Nat
    BY <1>2
  <1>4. f = [k \in 0 .. n |-> f[k]]
    BY DEF Solves
  <1> QED
    BY <1>1, <1>3, <1>4 DEF Steps

\* A function that adds the same numbers up is the same.
LEMMA SumsEqual ==
  ASSUME NEW n \in Nat, NEW w \in [0 .. n -> Nat], NEW f, Solves(f, n, FALSE, w),
         NEW g, Steps(g, n, FALSE, w)
  PROVE  f = g
  <1>1. Steps(f, n, FALSE, w)
    BY SolutionNat
  <1> DEFINE T == {k \in Nat : k \in 0 .. n /\ f[k] # g[k]}
  <1>2. T = {}
    <2> SUFFICES ASSUME T # {} PROVE FALSE
      OBVIOUS
    <2>1. PICK k \in T : \A j \in T : k <= j
      BY LeastNumber
    <2>2. k \in 0 .. n /\ f[k] # g[k]
      BY <2>1
    <2>3. k # 0
      BY <1>1, <2>2 DEF Steps
    <2>4. PICK l \in 0 .. n : l = k - 1 /\ k \in 1 .. n
      BY <2>2, <2>3
    <2>5. f[l] = g[l]
      <3>1. l \in T => k <= l
        BY <2>1
      <3> QED
        BY <2>2, <2>4, <3>1
    <2>6. f[k] = f[l] + w[k] /\ g[k] = g[l] + w[k]
      BY <1>1, <2>4 DEF Steps
    <2> QED
      BY <2>2, <2>5, <2>6
  <1>3. \A k \in 0 .. n : f[k] = g[k]
    BY <1>2
  <1>4. f = [k \in 0 .. n |-> f[k]] /\ g = [k \in 0 .. n |-> g[k]]
    BY <1>1 DEF Steps
  <1> QED
    BY <1>3, <1>4

\* One more at c adds one to the sums from c on.
MoreFrom(g, f, c, n) == \A k \in 0 .. n : g[k] = IF c <= k THEN f[k] + 1 ELSE f[k]

LEMMA SumsOneMore ==
  ASSUME NEW n \in Nat, NEW w \in [0 .. n -> Nat], NEW f, Solves(f, n, FALSE, w),
         NEW c \in 0 .. n, NEW v \in [0 .. n -> Nat], v = [w EXCEPT ![c] = @ + 1],
         NEW g, Solves(g, n, FALSE, v)
  PROVE  MoreFrom(g, f, c, n)
  <1>1. Steps(f, n, FALSE, w)
    BY SolutionNat
  <1>2. \A k \in 0 .. n : v[k] = IF k = c THEN w[k] + 1 ELSE w[k]
    OBVIOUS
  <1>3. PICK h \in [0 .. n -> Nat] : \A k \in 0 .. n : h[k] = IF c <= k THEN f[k] + 1 ELSE f[k]
    <2> DEFINE F == [k \in 0 .. n |-> IF c <= k THEN f[k] + 1 ELSE f[k]]
    <2>1. F \in [0 .. n -> Nat]
      BY <1>1 DEF Steps
    <2> QED
      BY <2>1
  <1>5. h[0] = v[0]
    BY <1>1, <1>2, <1>3 DEF Steps
  <1>6. ASSUME NEW k \in 1 .. n PROVE h[k] = h[k - 1] + v[k]
    <2>1. PICK l \in 0 .. n : l = k - 1 /\ k \in 0 .. n
      OBVIOUS
    <2>2. PICK x \in Nat, y \in Nat : x = f[l] /\ y = w[k]
      BY <1>1, <2>1 DEF Steps
    <2>3. f[k] = x + y
      <3>1. f[k] = f[k - 1] + w[k]
        BY <1>1 DEF Steps
      <3> QED
        BY <2>1, <2>2, <3>1
    <2>4. h[l] = IF c <= l THEN x + 1 ELSE x
      BY <1>3, <2>1, <2>2
    <2>5. v[k] = IF k = c THEN y + 1 ELSE y
      BY <1>2, <2>1, <2>2
    <2>6. h[k] = IF c <= k THEN x + y + 1 ELSE x + y
      BY <1>3, <2>1, <2>3
    <2>7. c <= l <=> c <= k /\ k # c
      BY <2>1
    <2>8. CASE k = c
      BY <2>1, <2>2, <2>4, <2>5, <2>6, <2>7, <2>8, SMTT(20)
    <2>9. CASE k # c
      <3>1. h[k - 1] = h[l] /\ v[k] = y
        BY <2>1, <2>5, <2>9
      <3>2. CASE c <= k
        <4>1. h[l] = x + 1 /\ h[k] = x + y + 1
          BY <2>4, <2>6, <2>7, <2>9, <3>2
        <4>2. x + y + 1 = (x + 1) + y
          BY <2>2, SMTT(20)
        <4> QED
          BY <3>1, <4>1, <4>2, Zenon
      <3>3. CASE ~ (c <= k)
        <4>1. h[l] = x /\ h[k] = x + y
          BY <2>4, <2>6, <2>7, <2>9, <3>3
        <4> QED
          BY <3>1, <4>1
      <3> QED
        BY <3>2, <3>3
    <2> QED
      BY <2>8, <2>9
  <1>7. Steps(h, n, FALSE, v)
    BY <1>3, <1>5, <1>6 DEF Steps
  <1>8. g = h
    BY <1>7, SumsEqual
  <1> QED
    BY <1>3, <1>8 DEF MoreFrom

\* Sums never decrease; neither do powers.
LEMMA SolutionsGrow ==
  ASSUME NEW n \in Nat, NEW doubles \in BOOLEAN, NEW w \in [0 .. n -> Nat], NEW f, Solves(f, n, doubles, w),
         NEW i \in 0 .. n
  PROVE  \A j \in 0 .. n : i <= j => f[i] <= f[j]
  <1>1. Steps(f, n, doubles, w)
    BY SolutionNat
  <1> DEFINE T == {j \in Nat : j \in 0 .. n /\ i <= j /\ ~ (f[i] <= f[j])}
  <1>2. T = {}
    <2> SUFFICES ASSUME T # {} PROVE FALSE
      OBVIOUS
    <2>1. PICK k \in T : \A j \in T : k <= j
      BY LeastNumber
    <2>2. k \in 0 .. n /\ i <= k /\ ~ (f[i] <= f[k])
      BY <2>1
    <2>3. k # i
      BY <1>1, <2>2 DEF Steps
    <2>4. PICK l \in 0 .. n : l = k - 1 /\ k \in 1 .. n /\ i <= l
      BY <2>2, <2>3
    <2>5. f[i] <= f[l]
      <3>1. l \in T => k <= l
        BY <2>1
      <3> QED
        BY <2>2, <2>4, <3>1
    <2>6. PICK x \in Nat, y \in Nat, z \in Nat : x = f[l] /\ y = w[k] /\ z = f[i]
      BY <1>1, <2>4 DEF Steps
    <2>7. f[k] = IF doubles THEN 2 * x ELSE x + y
      BY <1>1, <2>4, <2>6 DEF Steps
    <2>8. z <= x /\ ~ (z <= f[k])
      BY <2>2, <2>5, <2>6
    <2>9. CASE doubles
      BY <2>6, <2>7, <2>8, <2>9, SMTT(20)
    <2>10. CASE ~ doubles
      BY <2>6, <2>7, <2>8, <2>10
    <2> QED
      BY <2>9, <2>10
  <1> QED
    BY <1>2

-----------------------------------------------------------------------------
(***************************************************************************)
(* Powers of two, and the bucket of a latency.                             *)
(***************************************************************************)
LEMMA PowersSolve ==
  /\ NumBuckets \in Nat /\ [k \in 0 .. NumBuckets |-> 1] \in [0 .. NumBuckets -> Nat]
  /\ Solves(Pow2, NumBuckets, TRUE, [k \in 0 .. NumBuckets |-> 1])
  <1> DEFINE one == [k \in 0 .. NumBuckets |-> 1]
             Rec(f) == [b \in 0 .. NumBuckets |-> IF b = 0 THEN 1 ELSE 2 * f[b - 1]]
  <1>1. NumBuckets \in Nat /\ one[0] = 1 /\ one \in [0 .. NumBuckets -> Nat]
    BY BucketsAssumption
  <1>2. \A f : Solves(f, NumBuckets, TRUE, one) <=> f = Rec(f)
    BY <1>1 DEF Solves
  <1>3. \E f : f = Rec(f)
    <2> HIDE DEF Rec, one
    <2> QED
      BY <1>1, <1>2, SolutionExists
  <1>4. Pow2 = CHOOSE f : f = Rec(f)
    BY DEF Pow2
  <1>5. Pow2 = Rec(Pow2)
    <2> HIDE DEF Rec
    <2> QED
      BY <1>3, <1>4
  <1> QED
    BY <1>1, <1>2, <1>5

LEMMA Powers ==
  /\ Pow2 \in [0 .. NumBuckets -> Nat]
  /\ Pow2[0] = 1
  /\ \A b \in Buckets : Pow2[b + 1] = 2 * Pow2[b]
  /\ \A a, b \in 0 .. NumBuckets : a <= b => Pow2[a] <= Pow2[b]
  <1> DEFINE one == [k \in 0 .. NumBuckets |-> 1]
  <1>1. /\ NumBuckets \in Nat /\ one \in [0 .. NumBuckets -> Nat] /\ one[0] = 1
        /\ Solves(Pow2, NumBuckets, TRUE, one)
    <2>1. NumBuckets \in Nat /\ one \in [0 .. NumBuckets -> Nat] /\ Solves(Pow2, NumBuckets, TRUE, one)
      BY PowersSolve, Zenon
    <2>2. one[0] = 1
      BY BucketsAssumption
    <2> QED
      BY <2>1, <2>2, Zenon
  <1> HIDE DEF one
  <1>2. Steps(Pow2, NumBuckets, TRUE, one)
    BY <1>1, SolutionNat
  <1>3. ASSUME NEW b \in Buckets PROVE Pow2[b + 1] = 2 * Pow2[b]
    <2>1. PICK k \in 1 .. NumBuckets : k = b + 1 /\ k - 1 = b
      BY <1>1 DEF Buckets
    <2> QED
      BY <1>2, <2>1 DEF Steps
  <1>4. \A a, b \in 0 .. NumBuckets : a <= b => Pow2[a] <= Pow2[b]
    BY <1>1, SolutionsGrow
  <1> QED
    BY <1>1, <1>2, <1>3, <1>4 DEF Steps

\* A latency of uint64_t has a bucket, and it is among the buckets up to b just
\* when the latency is below 2^(b+1).
LEMMA BucketIsOfRange ==
  ASSUME NEW c \in Nat, c < Pow2[NumBuckets]
  PROVE  /\ BucketOf(c) \in Buckets
         /\ \A b \in Buckets : c < Pow2[b + 1] <=> BucketOf(c) <= b
  <1>1. NumBuckets \in Nat \ {0} /\ Pow2[0] = 1 /\ \A b \in 0 .. NumBuckets : Pow2[b] \in Nat
    BY BucketsAssumption, Powers
  <1>2. CASE c = 0
    <2>1. BucketOf(c) = 0 /\ 0 \in Buckets
      BY <1>1, <1>2 DEF BucketOf, Buckets
    <2>2. ASSUME NEW b \in Buckets PROVE c < Pow2[b + 1] /\ 0 <= b
      <3>1. b + 1 \in 0 .. NumBuckets /\ 0 \in 0 .. NumBuckets /\ 0 <= b + 1 /\ 0 <= b
        BY <1>1 DEF Buckets
      <3>2. Pow2[0] <= Pow2[b + 1] /\ Pow2[b + 1] \in Nat
        BY <1>1, <3>1, Powers
      <3> QED
        BY <1>1, <1>2, <3>1, <3>2
    <2> QED
      BY <2>1, <2>2
  <1>3. CASE c # 0
    <2> DEFINE T == {b \in Nat : b \in 0 .. NumBuckets /\ c < Pow2[b]}
               InBucket(b) == Pow2[b] <= c /\ c < Pow2[b + 1]
    <2>1. NumBuckets \in T
      BY <1>1
    <2>2. PICK k \in T : \A j \in T : k <= j
      BY <2>1, LeastNumber
    <2>3. k # 0
      BY <1>1, <1>3, <2>2
    <2>4. PICK l \in Buckets : k = l + 1 /\ l \in 0 .. NumBuckets
      <3>1. k - 1 \in Buckets /\ k = (k - 1) + 1 /\ k - 1 \in 0 .. NumBuckets
        BY <1>1, <2>2, <2>3 DEF Buckets
      <3> QED
        BY <3>1
    <2>5. InBucket(l)
      <3>1. l \in T => k <= l
        BY <2>2
      <3>2. l \notin T
        BY <2>4, <3>1 DEF Buckets
      <3>3. Pow2[l] \in Nat /\ l \in Nat
        BY <1>1, <2>4 DEF Buckets
      <3> QED
        BY <2>2, <2>4, <3>2, <3>3
    <2>6. PICK x \in Buckets : x = BucketOf(c) /\ InBucket(x)
      <3>1. BucketOf(c) = CHOOSE b \in Buckets : InBucket(b)
        BY <1>3 DEF BucketOf
      <3> HIDE DEF InBucket
      <3> QED
        BY <2>5, <3>1
    <2>7. ASSUME NEW b \in Buckets PROVE c < Pow2[b + 1] <=> x <= b
      <3>1. /\ x \in 0 .. NumBuckets /\ x + 1 \in 0 .. NumBuckets
            /\ b \in 0 .. NumBuckets /\ b + 1 \in 0 .. NumBuckets
        BY <1>1 DEF Buckets
      <3>2. PICK p \in Nat, q \in Nat, r \in Nat : p = Pow2[x] /\ q = Pow2[x + 1] /\ r = Pow2[b + 1]
        BY <1>1, <3>1
      <3>3. p <= c /\ c < q
        BY <2>6, <3>2
      <3>4. CASE x <= b
        <4>1. x + 1 <= b + 1
          BY <3>1, <3>4
        <4>2. q <= r
          BY <3>1, <3>2, <4>1, Powers
        <4> QED
          BY <3>2, <3>3, <3>4, <4>2
      <3>5. CASE ~ (x <= b)
        <4>1. b + 1 <= x
          BY <3>1, <3>5
        <4>2. r <= p
          BY <3>1, <3>2, <4>1, Powers
        <4> QED
          BY <3>2, <3>3, <3>5, <4>2
      <3> QED
        BY <3>4, <3>5
    <2> QED
      BY <2>6, <2>7
  <1> QED
    BY <1>2, <1>3

-----------------------------------------------------------------------------
(***************************************************************************)
(* The histogram against the latencies recorded.                           *)
(***************************************************************************)
Cycles == 0 .. Pow2[NumBuckets] - 1
MaxCycles == Pow2[NumBuckets] - 1

\* How often each number of cycles was recorded.
Recorded == [l \in Cycles |-> IF l \in Latencies THEN samples[l] ELSE 0]

LEMMA MaxCyclesIsNat == MaxCycles \in Nat /\ Cycles = 0 .. MaxCycles
  <1>1. NumBuckets \in Nat \ {0}
    BY BucketsAssumption
  <1>2. 0 \in 0 .. NumBuckets /\ NumBuckets \in 0 .. NumBuckets /\ 0 <= NumBuckets
    BY <1>1
  <1>3. Pow2[NumBuckets] \in Nat /\ Pow2[0] <= Pow2[NumBuckets] /\ Pow2[0] = 1
    BY <1>2, Powers
  <1> QED
    BY <1>3 DEF MaxCycles, Cycles

LEMMA TopInCycles ==
  ASSUME NEW b \in Buckets
  PROVE  Pow2[b + 1] - 1 \in Cycles
  <1>1. b + 1 \in 0 .. NumBuckets /\ NumBuckets \in 0 .. NumBuckets /\ 0 \in 0 .. NumBuckets
        /\ b + 1 <= NumBuckets /\ 0 <= b + 1
    BY BucketsAssumption DEF Buckets
  <1>2. Pow2[b + 1] <= Pow2[NumBuckets] /\ Pow2[0] <= Pow2[b + 1]
    BY <1>1, Powers
  <1>3. Pow2[0] = 1 /\ Pow2[b + 1] \in Nat /\ Pow2[NumBuckets] \in Nat
    BY <1>1, Powers
  <1> QED
    BY <1>2, <1>3 DEF Cycles

LEMMA AccumulatedSolves ==
  ASSUME NEW h, h.buckets \in [Buckets -> Nat]
  PROVE  Solves(Accumulated(h), NumBuckets - 1, FALSE, h.buckets)
  <1> DEFINE Rec(f) == [b \in Buckets |-> IF b = 0 THEN h.buckets[0] ELSE f[b - 1] + h.buckets[b]]
  <1>1. NumBuckets - 1 \in Nat
    BY BucketsAssumption
  <1>2. \A f : Solves(f, NumBuckets - 1, FALSE, h.buckets) <=> f = Rec(f)
    BY DEF Solves, Buckets
  <1>3. \E f : f = Rec(f)
    <2> HIDE DEF Rec
    <2> QED
      BY <1>1, <1>2, SolutionExists
  <1>4. Accumulated(h) = CHOOSE f : f = Rec(f)
    BY DEF Accumulated
  <1>5. Accumulated(h) = Rec(Accumulated(h))
    <2> HIDE DEF Rec
    <2> QED
      BY <1>3, <1>4
  <1> QED
    BY <1>2, <1>5

LEMMA SamplesSolve == Solves(SamplesUpTo, MaxCycles, FALSE, Recorded)
  <1> DEFINE Count(l) == IF l \in Latencies THEN samples[l] ELSE 0
             Rec(f) == [l \in Cycles |-> IF l = 0 THEN Count(0) ELSE f[l - 1] + Count(l)]
  <1>1. MaxCycles \in Nat /\ Cycles = 0 .. MaxCycles
    BY MaxCyclesIsNat
  <1>2. \A f : Solves(f, MaxCycles, FALSE, Recorded) <=> f = Rec(f)
    BY <1>1 DEF Solves, Recorded
  <1>3. \E f : f = Rec(f)
    <2> HIDE DEF Rec
    <2> QED
      BY <1>1, <1>2, SolutionExists
  <1>4. SamplesUpTo = CHOOSE f : f = Rec(f)
    BY DEF SamplesUpTo, Cycles
  <1>5. SamplesUpTo = Rec(SamplesUpTo)
    <2> HIDE DEF Rec
    <2> QED
      BY <1>3, <1>4
  <1> QED
    BY <1>2, <1>5

\* The inductive invariant of the latencies: up to the end of every bucket the
\* histogram has counted as many samples as were recorded.
LatencyInv ==
  /\ samples \in [Latencies -> Nat]
  /\ hist = [buckets |-> hist.buckets, total_samples |-> hist.total_samples]
  /\ hist.buckets \in [Buckets -> Nat]
  /\ update_count_ \in Nat /\ hist.total_samples = update_count_
  /\ Accumulated(hist)[NumBuckets - 1] = update_count_
  /\ \A b \in Buckets : Accumulated(hist)[b] = SamplesUpTo[Pow2[b + 1] - 1]
  /\ update_count_ > 0 /\ update_count_ % kReportInterval = 0 => reported = report(hist)

LEMMA LatencyInit == Init => LatencyInv
  <1> SUFFICES ASSUME Init PROVE LatencyInv
    OBVIOUS
  <1>1. /\ hist = [buckets |-> [b \in Buckets |-> 0], total_samples |-> 0]
        /\ update_count_ = 0 /\ samples = [l \in Latencies |-> 0]
    BY DEF Init, EmptyHistogram
  <1>2. MaxCycles \in Nat /\ Cycles = 0 .. MaxCycles /\ NumBuckets - 1 \in Nat
    BY BucketsAssumption, MaxCyclesIsNat
  <1>3. ASSUME NEW n \in Nat, NEW f, Solves(f, n, FALSE, [k \in 0 .. n |-> 0])
        PROVE  \A k \in 0 .. n : f[k] = 0
    <2> DEFINE zero == [k \in 0 .. n |-> 0]
    <2>1. Steps(zero, n, FALSE, zero)
      BY DEF Steps
    <2>2. zero \in [0 .. n -> Nat] /\ Solves(f, n, FALSE, zero)
      BY <1>3, Zenon
    <2> HIDE DEF zero
    <2>3. f = zero
      BY <2>1, <2>2, SumsEqual
    <2> QED
      BY <2>3 DEF zero
  <1>4. \A l \in Cycles : SamplesUpTo[l] = 0
    <2>1. Recorded = [l \in 0 .. MaxCycles |-> 0]
      BY <1>1, <1>2 DEF Recorded
    <2>2. Solves(SamplesUpTo, MaxCycles, FALSE, [l \in 0 .. MaxCycles |-> 0])
      BY <2>1, SamplesSolve, Zenon
    <2> QED
      BY <1>2, <1>3, <2>2, Zenon
  <1>5. \A b \in Buckets : Accumulated(hist)[b] = 0
    <2>1. hist.buckets = [b \in 0 .. NumBuckets - 1 |-> 0] /\ hist.buckets \in [Buckets -> Nat]
      BY <1>1 DEF Buckets
    <2>2. Solves(Accumulated(hist), NumBuckets - 1, FALSE, [b \in 0 .. NumBuckets - 1 |-> 0])
      BY <2>1, AccumulatedSolves, Zenon
    <2> QED
      BY <1>2, <1>3, <2>2, Zenon DEF Buckets
  <1>6. \A b \in Buckets : Pow2[b + 1] - 1 \in Cycles
    BY TopInCycles
  <1>7. NumBuckets - 1 \in Buckets
    BY BucketsAssumption DEF Buckets
  <1> QED
    BY <1>1, <1>4, <1>5, <1>6, <1>7 DEF LatencyInv

LEMMA LatencyQuiet ==
  ASSUME LatencyInv, UNCHANGED latencyVars
  PROVE  LatencyInv'
  <1>1. hist' = hist /\ update_count_' = update_count_ /\ reported' = reported /\ samples' = samples
    BY DEF latencyVars
  <1>2. SamplesUpTo' = SamplesUpTo
    BY <1>1 DEF SamplesUpTo
  <1> QED
    BY <1>1, <1>2 DEF LatencyInv

\* A sample is counted in the bucket of its range.
LEMMA RecordKeeps ==
  ASSUME LatencyInv, NEW c \in Latencies, hist' = record(hist, c),
         samples' = [samples EXCEPT ![c] = @ + 1]
  PROVE  /\ samples' \in [Latencies -> Nat]
         /\ hist' = [buckets |-> hist'.buckets, total_samples |-> hist'.total_samples]
         /\ hist'.buckets \in [Buckets -> Nat]
         /\ hist'.total_samples = update_count_ + 1
         /\ Accumulated(hist')[NumBuckets - 1] = update_count_ + 1
         /\ \A b \in Buckets : Accumulated(hist')[b] = (SamplesUpTo[Pow2[b + 1] - 1])'
  <1> DEFINE B == BucketOf(c)
             A == Accumulated(hist)
             D == Accumulated(hist')
             n == NumBuckets - 1
  <1>1. c \in Cycles /\ c \in Nat /\ c < Pow2[NumBuckets]
    <2>1. c \in Cycles /\ MaxCycles \in Nat /\ Cycles = 0 .. MaxCycles
      BY SizeAssumption, MaxCyclesIsNat DEF Cycles
    <2>2. NumBuckets \in 0 .. NumBuckets
      BY BucketsAssumption
    <2>3. Pow2[NumBuckets] \in Nat
      BY <2>2, Powers
    <2> QED
      BY <2>1, <2>3 DEF MaxCycles
  <1>2. B \in Buckets /\ \A b \in Buckets : c < Pow2[b + 1] <=> B <= b
    BY <1>1, BucketIsOfRange
  <1> HIDE DEF B
  <1>3. n \in Nat /\ Buckets = 0 .. n /\ MaxCycles \in Nat /\ Cycles = 0 .. MaxCycles
    BY BucketsAssumption, MaxCyclesIsNat DEF Buckets
  <1>4. /\ samples \in [Latencies -> Nat] /\ hist.buckets \in [Buckets -> Nat]
        /\ update_count_ \in Nat /\ hist.total_samples = update_count_
        /\ A[n] = update_count_
        /\ \A b \in Buckets : A[b] = SamplesUpTo[Pow2[b + 1] - 1]
    BY DEF LatencyInv
  <1>5. samples' \in [Latencies -> Nat]
    BY <1>4
  <1>6. /\ hist'.buckets = [hist.buckets EXCEPT ![B] = @ + 1]
        /\ hist'.total_samples = update_count_ + 1
        /\ hist' = [buckets |-> hist'.buckets, total_samples |-> hist'.total_samples]
    BY <1>4 DEF record, B
  <1>7. hist'.buckets \in [Buckets -> Nat]
    BY <1>2, <1>4, <1>6
  <1>8. Solves(A, n, FALSE, hist.buckets) /\ Solves(D, n, FALSE, hist'.buckets)
    BY <1>4, <1>7, AccumulatedSolves, Zenon
  <1> HIDE DEF A, D, n
  <1>9. \A k \in 0 .. n : D[k] = IF B <= k THEN A[k] + 1 ELSE A[k]
    <2>1. hist.buckets \in [0 .. n -> Nat] /\ hist'.buckets \in [0 .. n -> Nat] /\ B \in 0 .. n
      BY <1>2, <1>3, <1>4, <1>7, Zenon
    <2>2. MoreFrom(D, A, B, n)
      BY <1>3, <1>6, <1>8, <2>1, SumsOneMore
    <2> QED
      BY <2>2 DEF MoreFrom
  <1>10. Recorded \in [0 .. MaxCycles -> Nat] /\ Recorded' \in [0 .. MaxCycles -> Nat]
         /\ Recorded' = [Recorded EXCEPT ![c] = @ + 1]
    <2>1. Latencies \subseteq 0 .. MaxCycles
      BY SizeAssumption DEF MaxCycles
    <2> QED
      BY <1>1, <1>3, <1>4, <1>5, <2>1 DEF Recorded
  <1>11. \A k \in 0 .. MaxCycles : SamplesUpTo'[k] = IF c <= k THEN SamplesUpTo[k] + 1 ELSE SamplesUpTo[k]
    <2>1. Solves(SamplesUpTo, MaxCycles, FALSE, Recorded)
      BY SamplesSolve
    <2>2. Solves(SamplesUpTo', MaxCycles, FALSE, Recorded')
      <3>1. Solves(SamplesUpTo, MaxCycles, FALSE, Recorded)'
        BY SamplesSolve, PTL
      <3> QED
        BY <3>1 DEF Solves
    <2>3. MoreFrom(SamplesUpTo', SamplesUpTo, c, MaxCycles)
      BY <1>1, <1>3, <1>10, <2>1, <2>2, SumsOneMore
    <2> QED
      BY <2>3 DEF MoreFrom
  <1>12. ASSUME NEW b \in Buckets PROVE D[b] = SamplesUpTo'[Pow2[b + 1] - 1]
    <2>1. PICK t \in 0 .. MaxCycles : t = Pow2[b + 1] - 1
      BY <1>3, TopInCycles
    <2>2. b \in 0 .. n /\ A[b] = SamplesUpTo[t]
      BY <1>3, <1>4, <2>1
    <2>3. b + 1 \in 0 .. NumBuckets
      BY BucketsAssumption DEF Buckets
    <2>4. Pow2[b + 1] \in Nat
      BY <2>3, Powers
    <2>5. c <= t <=> B <= b
      BY <1>1, <1>2, <2>1, <2>4
    <2> QED
      BY <1>9, <1>11, <2>1, <2>2, <2>5
  <1>13. D[n] = update_count_ + 1
    <2>1. n \in 0 .. n /\ B <= n
      BY <1>2, <1>3
    <2> QED
      BY <1>4, <1>9, <2>1
  <1> QED
    BY <1>5, <1>6, <1>7, <1>12, <1>13 DEF D, n

LEMMA LatencyStep == StartupInv /\ LatencyInv /\ [Next]_vars => LatencyInv'
  <1> SUFFICES ASSUME StartupInv, LatencyInv, [Next]_vars PROVE LatencyInv'
    OBVIOUS
  <1>1. ASSUME NEW stream \in Subscribed, NEW c \in Latencies, PassUpdate(stream, c)
        PROVE  LatencyInv'
    <2> DEFINE i == <<"BINANCE", SymbolOf[stream]>>
    <2>1. phase = "running" /\ i \in Owners /\ PassToBook(lookup(i), i, c)
      BY <1>1 DEF PassUpdate, Known, Owners
    <2>2. lookup(i) \in DOMAIN obm.id_to_index
      BY <2>1 DEF StartupInv, BooksInv, LeadsToOwn
    <2>3. hist' = record(hist, c) /\ samples' = [samples EXCEPT ![c] = @ + 1]
      BY <2>1, <2>2 DEF PassToBook
    <2>4. /\ update_count_' = update_count_ + 1
          /\ update_count_' % kReportInterval = 0 => reported' = report(hist')
      BY <1>1 DEF PassUpdate
    <2>5. update_count_ + 1 \in Nat
      BY DEF LatencyInv
    <2> QED
      BY <2>3, <2>4, <2>5, RecordKeeps DEF LatencyInv
  <1>2. CASE UNCHANGED latencyVars
    BY <1>2, LatencyQuiet
  <1>3. UNCHANGED latencyVars \/ \E stream \in Subscribed, c \in Latencies : PassUpdate(stream, c)
    BY DEF Next, vars, ReadHeader, HeaderThrows, ReadRow, RowThrows, Abort, EndOfRows,
       BuildRegistry,
           CheckIds, RegisterInstruments, AttachStrategies, Finished
  <1> QED
    BY <1>1, <1>2, <1>3

\* A percentile asks for some of the samples and not for more than there are.
LEMMA ThresholdInRange ==
  ASSUME NEW u \in Nat \ {0}, NEW pct \in Percentiles
  PROVE  Threshold(u, pct) \in 1 .. u
  <1>1. PICK q \in Int, r \in 0 .. 1999 :
          q = (2 * u * pct + 1000) \div 2000 /\ 2 * u * pct + 1000 = 2000 * q + r
    <2>1. pct \in Nat /\ 2 * u * pct + 1000 \in Int /\ 2000 \in Nat \ {0}
      BY DEF Percentiles
    <2>2. 2000 - 1 = 1999
      OBVIOUS
    <2> QED
      BY <2>1, <2>2, DivMod
  <1>2. q >= 0 /\ q <= u
    BY <1>1 DEF Percentiles
  <1> QED
    BY <1>1, <1>2 DEF Threshold

LEMMA LeastOfSet ==
  ASSUME NEW S \in SUBSET Nat, NEW x \in S
  PROVE  Min(S) \in S /\ \A y \in S : Min(S) <= y
  BY LeastNumber DEF Min

\* A reported percentile is at most the exact one and more than half of it,
\* whatever the latencies and however many updates there were.
THEOREM PercentilesAreBracketed == Spec => []PercentilesBracketed
  <1>1. LatencyInv => PercentilesBracketed
    <2> SUFFICES ASSUME LatencyInv, update_count_ > 0, update_count_ % kReportInterval = 0,
                        NEW pct \in Percentiles
                 PROVE  LET exact == IF ExactPercentile(pct) = 0 THEN 1 ELSE ExactPercentile(pct)
                        IN  reported[pct] <= exact /\ exact < 2 * reported[pct]
      BY DEF PercentilesBracketed
    <2> DEFINE A == Accumulated(hist)
               S == SamplesUpTo
               n == NumBuckets - 1
               T == Threshold(update_count_, pct)
               E == {b \in Buckets : A[b] >= T}
               F == {l \in Latencies : S[l] >= T}
    <2>1. /\ update_count_ \in Nat \ {0} /\ hist.total_samples = update_count_
          /\ hist.buckets \in [Buckets -> Nat] /\ samples \in [Latencies -> Nat]
          /\ A[n] = update_count_ /\ reported = report(hist)
          /\ \A b \in Buckets : A[b] = S[Pow2[b + 1] - 1]
      BY DEF LatencyInv
    <2>2. T \in 1 .. update_count_
      BY <2>1, ThresholdInRange
    <2>3. n \in Nat /\ Buckets = 0 .. n /\ n \in Buckets /\ n + 1 = NumBuckets
          /\ MaxCycles \in Nat /\ Cycles = 0 .. MaxCycles /\ MaxCycles = Pow2[NumBuckets] - 1
      BY BucketsAssumption, MaxCyclesIsNat DEF Buckets, MaxCycles
    <2>4. reported[pct] = Pow2[Min(E)]
      BY <2>1 DEF report, percentile
    <2>5. ExactPercentile(pct) = Min(F)
      BY DEF ExactPercentile
    <2>6. Solves(S, MaxCycles, FALSE, Recorded) /\ Latencies \subseteq 0 .. MaxCycles
      BY SizeAssumption, SamplesSolve DEF MaxCycles
    <2> HIDE DEF A, S, n, T
    <2>7. Recorded \in [0 .. MaxCycles -> Nat]
      BY <2>1, <2>3, <2>6 DEF Recorded
    <2>8. Steps(S, MaxCycles, FALSE, Recorded)
      BY <2>3, <2>6, <2>7, SolutionNat
    <2>9. \A l \in 0 .. MaxCycles : S[l] \in Nat
      BY <2>8 DEF Steps
    <2>10. PICK b \in Buckets : b = Min(E) /\ A[b] >= T /\ \A a \in Buckets : A[a] >= T => b <= a
      <3>1. n \in E /\ E \in SUBSET Nat
        BY <2>1, <2>2, <2>3
      <3>2. Min(E) \in E /\ \A a \in E : Min(E) <= a
        BY <3>1, LeastOfSet
      <3> QED
        BY <3>2
    <2>11. PICK l \in 0 .. MaxCycles : S[l] >= T /\ \A k \in 0 .. MaxCycles : S[k] >= T => l <= k
      <3> DEFINE G == {k \in Nat : k \in 0 .. MaxCycles /\ S[k] >= T}
      <3>1. MaxCycles \in G
        BY <2>1, <2>2, <2>3
      <3>2. PICK k \in G : \A j \in G : k <= j
        BY <3>1, LeastNumber
      <3> QED
        BY <3>2
    <2>12. l \in Latencies
      <3>1. CASE l = 0
        <4>1. S[0] = Recorded[0]
          BY <2>8 DEF Steps
        <4> QED
          BY <2>2, <2>3, <2>11, <3>1, <4>1 DEF Recorded
      <3>2. CASE l # 0
        <4>1. PICK k \in 0 .. MaxCycles : k = l - 1 /\ l \in 1 .. MaxCycles
          BY <2>3, <3>2
        <4>2. S[l] = S[k] + Recorded[l]
          BY <2>8, <4>1 DEF Steps
        <4>3. ~ (S[k] >= T)
          BY <2>11, <4>1
        <4>4. PICK x \in Nat, y \in Nat : x = S[k] /\ y = Recorded[l]
          BY <2>7, <2>9, <4>1
        <4>5. y # 0
          BY <2>2, <2>11, <4>2, <4>3, <4>4
        <4> QED
          BY <2>3, <4>4, <4>5 DEF Recorded
      <3> QED
        BY <3>1, <3>2
    <2>13. Min(F) = l
      <3>1. l \in F /\ F \in SUBSET Nat
        <4>1. \A k \in F : k \in 0 .. MaxCycles
          BY <2>6, Zenon
        <4>2. l \in F
          BY <2>11, <2>12, Zenon
        <4>3. F \subseteq Nat
          <5> HIDE DEF F
          <5> QED
            BY <4>1
        <4> QED
          BY <4>2, <4>3, Zenon
      <3>2. Min(F) \in F /\ Min(F) <= l
        BY <3>1, LeastOfSet
      <3>3. Min(F) \in 0 .. MaxCycles /\ l <= Min(F)
        BY <2>6, <2>11, <3>2
      <3> QED
        BY <3>2, <3>3
    <2>14. /\ b \in 0 .. NumBuckets /\ Pow2[b] \in Nat /\ Pow2[b + 1] = 2 * Pow2[b]
           /\ Pow2[b + 1] - 1 \in 0 .. MaxCycles
      <3>1. b \in 0 .. NumBuckets
        BY <2>3
      <3> QED
        BY <2>3, <3>1, Powers, TopInCycles
    <2>15. PICK p \in Nat : p = Pow2[b] /\ l <= 2 * p - 1
      <3>1. S[Pow2[b + 1] - 1] >= T
        BY <2>1, <2>10
      <3>2. l <= Pow2[b + 1] - 1
        BY <2>11, <2>14, <3>1
      <3> QED
        BY <2>14, <3>2
    <2>16. CASE b = 0
      <3>1. p = 1
        BY <2>15, <2>16, Powers
      <3>2. l = 0 \/ l = 1
        BY <2>15, <3>1
      <3> QED
        BY <2>4, <2>5, <2>10, <2>13, <2>15, <3>1, <3>2
    <2>17. CASE b # 0
      <3>1. PICK a \in Buckets : a = b - 1 /\ a + 1 = b
        BY <2>3, <2>17
      <3>2. ~ (A[a] >= T)
        BY <2>3, <2>10, <3>1
      <3>3. PICK t \in 0 .. MaxCycles : t = p - 1 /\ A[a] = S[t]
        <4>1. Pow2[a + 1] - 1 \in 0 .. MaxCycles
          BY <2>3, TopInCycles
        <4> QED
          BY <2>1, <2>15, <3>1, <4>1
      <3>4. ~ (l <= t)
        <4>1. l <= t => S[l] <= S[t]
          BY <2>3, <2>6, <2>7, SolutionsGrow
        <4>2. PICK x \in Nat, y \in Nat : x = S[l] /\ y = S[t]
          BY <2>9
        <4> QED
          BY <2>2, <2>11, <3>2, <3>3, <4>1, <4>2
      <3>5. p <= l /\ l < 2 * p /\ l # 0
        BY <2>15, <3>3, <3>4
      <3> QED
        BY <2>4, <2>5, <2>10, <2>13, <2>15, <3>5
    <2> QED
      BY <2>16, <2>17
  <1> QED
    BY <1>1, StartupInit, StartupStep, LatencyInit, LatencyStep, PTL DEF Spec

-----------------------------------------------------------------------------
(***************************************************************************)
(* LineReader.  The inductive invariant.                                   *)
(***************************************************************************)
\* The bytes of a file and those the reader writes itself.
Byte == STRING \cup {"?", "0"}
Line == Seq(Byte)

Ending == {"notify", "join", "destroyed"}

\* A line has been begun and not been returned.
InLine ==
  \/ pc \in {"line", "finish_read", "waiting", "copy"}
  \/ pc = "start_read" /\ file_line # 0

\* How the two threads hand the third block over.
ControlInv ==
  /\ BlockLayout
  /\ file \in Files
  /\ offset \in Nat /\ offset <= Len(file)
  /\ buffer \in [0 .. 3 * block_len - 1 -> Byte]
  /\ data_begin \in Nat /\ data_end \in Nat
  /\ data_begin <= data_end /\ data_end <= 2 * block_len /\ data_begin < 2 * block_len
  /\ file_line \in Nat
  /\ pc \in {"idle", "line", "start_read", "finish_read", "waiting", "copy"} \cup Ending
  /\ worker \in {"absent", "ready", "waiting", "reading", "ended"}
  /\ desired_byte_count \in {-1, block_len}
  /\ read_byte_count \in -1 .. block_len
  /\ outcome \in {"open", "eof", "too_long", "failed"}
  /\ desired_byte_count # -1 => read_byte_count = -1
  /\ worker = "reading" => desired_byte_count # -1
  /\ worker = "absent" => /\ read_byte_count = -1 /\ desired_byte_count = -1
                          /\ pc \in {"idle", "line", "destroyed"}
  /\ pc = "copy" => read_byte_count # -1 /\ read_byte_count <= data_end
  /\ pc \in {"copy", "start_read"} => desired_byte_count = -1
  /\ pc \in {"finish_read", "waiting"} => data_end <= block_len
  /\ pc \in {"line", "finish_read", "waiting", "copy", "start_read"} => data_begin < block_len
  /\ InLine => data_begin < data_end /\ file_line # 0
  /\ pc # "idle" /\ pc \notin Ending => outcome = "open"

\* The end of what the first two blocks hold, and where it is when they are full.
Have == IF pc = "copy" THEN data_end - read_byte_count ELSE data_end
Full == IF pc \in {"finish_read", "waiting", "copy"} THEN block_len ELSE 2 * block_len

\* With byte base + 1 of the file first in the buffer: what the blocks hold.
Loaded(base) ==
  /\ Have <= Full
  /\ base + Have <= Len(file)
  /\ base + Have < Len(file) => Have = Full
  /\ \A i \in data_begin .. Have - 1 : buffer[i] = file[base + i + 1]
  /\ worker = "absent" => offset = Len(file)
  /\ IF read_byte_count # -1 /\ pc # "start_read"
       THEN /\ read_byte_count = Least(block_len, Len(file) - (base + Have))
            /\ offset = base + Have + read_byte_count
            /\ \A j \in 0 .. read_byte_count - 1 :
                 buffer[2 * block_len + j] = file[base + Have + j + 1]
       ELSE offset = base + Have

\* Nothing is left.
Drained(base) == pc = "idle" /\ data_begin = data_end /\ base + data_begin >= Len(file)

\* The first n lines are those before byte p.
Before(n, p) ==
  /\ p \in 1 .. Len(file) + 2
  /\ \E done \in Seq(Line) : Len(done) = n /\ Segments = done \o LinesFrom(file)[p]

\* The reader stands behind the lines returned so far.
Progress(base) ==
  /\ Loaded(base) \/ Drained(base)
  /\ Before(Len(lines), base + data_begin + 1)

Reading == outcome = "open" /\ pc \notin Ending

DataInv ==
  Reading => /\ file_line = Len(lines) + (IF InLine THEN 1 ELSE 0)
             /\ \E base \in Nat : Progress(base)

LinesInv ==
  /\ Segments \in Seq(Line)
  /\ lines \in Seq(Line)
  /\ Len(lines) <= Len(Segments)
  /\ \A k \in 1 .. Len(lines) : lines[k] = Chomped(Segments[k])
  /\ outcome = "eof" => Len(lines) = Len(Segments)
  /\ outcome = "too_long" => /\ file_line \in 1 .. Len(Segments)
                             /\ Len(Segments[file_line]) >= block_len

ReaderInv == ControlInv /\ DataInv /\ LinesInv

-----------------------------------------------------------------------------
(***************************************************************************)
(* Where a line ends.                                                      *)
(***************************************************************************)
LEMMA LineEndProperties ==
  ASSUME NEW t \in Seq(Byte), NEW p \in 1 .. Len(t) + 1
  PROVE  /\ LineEnd(t, p) \in p .. Len(t) + 1
         /\ LineEnd(t, p) = Len(t) + 1 \/ t[LineEnd(t, p)] = "n"
         /\ \A q \in p .. LineEnd(t, p) - 1 : t[q] # "n"
  <1> DEFINE S == {q \in p .. Len(t) + 1 : q = Len(t) + 1 \/ t[q] = "n"}
  <1>1. Len(t) \in Nat
    OBVIOUS
  <1>2. S \in SUBSET Nat /\ Len(t) + 1 \in S
    BY <1>1
  <1> HIDE DEF S
  <1>3. Min(S) \in S /\ \A y \in S : Min(S) <= y
    BY <1>2, LeastOfSet
  <1>4. LineEnd(t, p) = Min(S)
    BY DEF LineEnd, S
  <1>5. \A q \in p .. Min(S) - 1 : t[q] # "n"
    BY <1>1, <1>3 DEF S
  <1> QED
    BY <1>3, <1>4, <1>5 DEF S

\* The first newline is the end of the line.
LEMMA LineEndUnique ==
  ASSUME NEW t \in Seq(Byte), NEW p \in 1 .. Len(t) + 1, NEW e \in p .. Len(t) + 1,
         e = Len(t) + 1 \/ t[e] = "n", \A q \in p .. e - 1 : t[q] # "n"
  PROVE  LineEnd(t, p) = e
  <1>1. PICK l \in p .. Len(t) + 1 :
          /\ l = LineEnd(t, p)
          /\ l = Len(t) + 1 \/ t[l] = "n"
          /\ \A q \in p .. l - 1 : t[q] # "n"
    BY LineEndProperties
  <1>2. Len(t) \in Nat
    OBVIOUS
  <1>3. ~ (l < e)
    BY <1>1, <1>2
  <1>4. ~ (e < l)
    BY <1>1, <1>2
  <1> QED
    BY <1>1, <1>2, <1>3, <1>4

\* What next_line() finds in the buffer.
LEMMA LineEndInBuffer ==
  ASSUME ControlInv
  PROVE  /\ line_end \in data_begin .. data_end
         /\ line_end = data_end \/ buffer[line_end] = "n"
         /\ \A i \in data_begin .. line_end - 1 : buffer[i] # "n"
  <1> DEFINE S == {i \in data_begin .. data_end : i = data_end \/ buffer[i] = "n"}
  <1>1. data_begin \in Nat /\ data_end \in Nat /\ data_begin <= data_end
    BY DEF ControlInv
  <1>2. S \in SUBSET Nat /\ data_end \in S
    BY <1>1
  <1> HIDE DEF S
  <1>3. Min(S) \in S /\ \A y \in S : Min(S) <= y
    BY <1>2, LeastOfSet
  <1>4. line_end = Min(S)
    BY DEF line_end, S
  <1>5. \A i \in data_begin .. Min(S) - 1 : buffer[i] # "n"
    BY <1>1, <1>3 DEF S
  <1> QED
    BY <1>3, <1>4, <1>5 DEF S

-----------------------------------------------------------------------------
(***************************************************************************)
(* The lines of a text.                                                    *)
(***************************************************************************)
\* The recursion of LinesFrom has a solution: each line is defined by those
\* behind it.
LEMMA LinesFromDef ==
  ASSUME NEW t \in Seq(Byte)
  PROVE  LinesFrom(t) = [p \in 1 .. Len(t) + 2 |->
           IF p > Len(t)
             THEN << >>
             ELSE <<SubSeq(t, p, LineEnd(t, p) - 1)>> \o LinesFrom(t)[LineEnd(t, p) + 1]]
  <1> DEFINE L == Len(t)
             D(n) == {p \in 1 .. L + 2 : p + n >= L + 2}
             Cut(f, p) == IF p > L THEN << >>
                          ELSE <<SubSeq(t, p, LineEnd(t, p) - 1)>> \o f[LineEnd(t, p) + 1]
             Up(n) == \E f : f = [p \in D(n) |-> Cut(f, p)]
             T == {n \in Nat : ~ Up(n)}
  <1>1. L \in Nat
    OBVIOUS
  <1>2. T = {}
    <2> SUFFICES ASSUME T # {} PROVE FALSE
      OBVIOUS
    <2> HIDE DEF Up
    <2>1. PICK n \in T : \A m \in T : n <= m
      BY LeastNumber
    <2>2. n \in Nat /\ ~ Up(n)
      BY <2>1
    <2>3. n # 0
      <3> SUFFICES ASSUME n = 0 PROVE Up(n)
        BY <2>2
      <3> DEFINE f == [p \in D(n) |-> << >>]
      <3>1. ASSUME NEW p \in D(n) PROVE p > L
        BY <1>1, <2>2
      <3>2. f = [p \in D(n) |-> Cut(f, p)]
        BY <3>1
      <3> QED
        BY <3>2 DEF Up
    <2>4. n - 1 \in Nat /\ Up(n - 1)
      <3>1. n - 1 \in Nat
        BY <2>2, <2>3
      <3>2. n - 1 \in T => n <= n - 1
        BY <2>1
      <3> QED
        BY <2>2, <3>1, <3>2
    <2>5. PICK f : f = [p \in D(n - 1) |-> Cut(f, p)]
      BY <2>4 DEF Up
    <2> DEFINE h == [p \in D(n) |-> IF p \in D(n - 1) THEN f[p] ELSE Cut(f, p)]
    <2>6. ASSUME NEW p \in D(n) PROVE h[p] = Cut(h, p)
      <3>1. h[p] = Cut(f, p)
        BY <2>5
      <3>2. CASE p > L
        BY <3>1, <3>2
      <3>3. CASE ~ (p > L)
        <4>1. p \in 1 .. L + 1 /\ p + n >= L + 2
          BY <1>1, <3>3
        <4> DEFINE q == LineEnd(t, p) + 1
        <4>2. LineEnd(t, p) \in p .. L + 1
          BY <4>1, LineEndProperties
        <4>3. q \in D(n - 1) /\ q \in D(n)
          BY <1>1, <2>2, <2>4, <4>1, <4>2
        <4> HIDE DEF q, D, L
        <4>4. h[q] = f[q]
          BY <4>3
        <4> QED
          BY <3>1, <3>3, <4>4 DEF q
      <3> QED
        BY <3>2, <3>3
    <2>7. h = [p \in D(n) |-> Cut(h, p)]
      <3> DEFINE k == [p \in D(n) |-> Cut(h, p)]
      <3> HIDE DEF Cut, D
      <3>1. \A p \in D(n) : h[p] = k[p]
        BY <2>6
      <3> QED
        BY <3>1
    <2> QED
      BY <2>2, <2>7 DEF Up
  <1>3. Up(L + 1)
    <2> HIDE DEF Up
    <2> QED
      BY <1>1, <1>2
  <1>4. D(L + 1) = 1 .. L + 2
    BY <1>1
  <1>5. \E f : f = [p \in 1 .. L + 2 |-> Cut(f, p)]
    <2> HIDE DEF Cut, D, L
    <2> QED
      BY <1>3, <1>4
  <1> QED
    BY <1>5 DEF LinesFrom

LEMMA LinesFromType ==
  ASSUME NEW t \in Seq(Byte)
  PROVE  \A p \in 1 .. Len(t) + 2 : LinesFrom(t)[p] \in Seq(Line)
  <1> DEFINE L == Len(t)
             T == {n \in Nat : \E p \in 1 .. L + 2 : p + n = L + 2 /\ LinesFrom(t)[p] \notin Seq(Line)}
  <1>1. L \in Nat
    OBVIOUS
  <1>2. T = {}
    <2> SUFFICES ASSUME T # {} PROVE FALSE
      OBVIOUS
    <2>1. PICK n \in T : \A m \in T : n <= m
      BY LeastNumber
    <2>2. PICK p \in 1 .. L + 2 : p + n = L + 2 /\ LinesFrom(t)[p] \notin Seq(Line)
      BY <2>1
    <2>3. CASE p > L
      <3>1. LinesFrom(t)[p] = << >>
        BY <2>2, <2>3, LinesFromDef
      <3> QED
        BY <2>2, <3>1
    <2>4. CASE ~ (p > L)
      <3>1. p \in 1 .. L + 1
        BY <1>1, <2>4
      <3>2. PICK e \in p .. L + 1 : e = LineEnd(t, p)
        BY <3>1, LineEndProperties
      <3>3. LinesFrom(t)[p] = <<SubSeq(t, p, e - 1)>> \o LinesFrom(t)[e + 1]
        BY <2>2, <2>4, <3>2, LinesFromDef
      <3>4. SubSeq(t, p, e - 1) \in Line
        <4>1. \A i \in p .. e - 1 : t[i] \in Byte
          BY <1>1, <3>1, <3>2
        <4> QED
          BY <1>1, <3>1, <3>2, <4>1, SubSeqProperties DEF Line
      <3>5. e + 1 \in 1 .. L + 2 /\ L + 2 - (e + 1) \in Nat /\ L + 2 - (e + 1) < n
        BY <1>1, <2>1, <2>2, <3>1, <3>2
      <3>6. LinesFrom(t)[e + 1] \in Seq(Line)
        <4>1. L + 2 - (e + 1) \notin T
          <5>1. PICK m \in Nat : m = L + 2 - (e + 1) /\ m < n /\ n \in Nat
            BY <2>1, <3>5
          <5> HIDE DEF T
          <5>2. m \in T => n <= m
            BY <2>1
          <5> QED
            BY <5>1, <5>2
        <4>2. (e + 1) + (L + 2 - (e + 1)) = L + 2
          BY <1>1, <3>2
        <4> QED
          BY <3>5, <4>1, <4>2
      <3> QED
        BY <2>2, <3>3, <3>4, <3>6
    <2> QED
      BY <2>3, <2>4
  <1>3. ASSUME NEW p \in 1 .. L + 2 PROVE LinesFrom(t)[p] \in Seq(Line)
    <2>1. L + 2 - p \in Nat /\ p + (L + 2 - p) = L + 2
      BY <1>1
    <2> QED
      BY <1>2, <2>1
  <1> QED
    BY <1>3

-----------------------------------------------------------------------------
(***************************************************************************)
(* The hand-over of the third block.                                       *)
(***************************************************************************)
LEMMA FilesOfBytes ==
  ASSUME BlockLayout
  PROVE  Files \subseteq Seq(Byte) /\ BOM \in Seq(Byte)
  <1>1. ASSUME NEW s \in Seq(STRING) PROVE s \in Seq(Byte)
    <2>1. Len(s) \in Nat /\ s \in [1 .. Len(s) -> STRING]
      OBVIOUS
    <2>2. s \in [1 .. Len(s) -> Byte]
      BY <2>1 DEF Byte
    <2> QED
      BY <2>1, <2>2
  <1> QED
    BY <1>1 DEF BlockLayout

LEMMA FileFacts ==
  ASSUME ControlInv
  PROVE  file \in Seq(Byte) /\ Len(file) \in Nat /\ block_len \in Nat /\ block_len >= 1
  <1>1. file \in Seq(Byte)
    BY FilesOfBytes DEF ControlInv
  <1>2. Len(file) \in Nat
    BY <1>1
  <1>3. Len(BOM) \in Nat /\ block_len \in Nat /\ Len(BOM) < block_len
    BY DEF ControlInv, BlockLayout
  <1> QED
    BY <1>1, <1>2, <1>3

LEMMA InitControl ==
  ASSUME BlockLayout, CSVInit
  PROVE  ControlInv
  <1>1. file \in Files /\ file \in Seq(Byte) /\ Len(file) \in Nat
    BY FilesOfBytes DEF CSVInit
  <1>2. block_len \in Nat /\ Len(BOM) \in Nat /\ Len(BOM) < block_len
    BY DEF BlockLayout
  <1>3. offset \in Nat /\ offset <= Len(file) /\ offset <= 2 * block_len
        /\ (offset # Len(file) => offset = 2 * block_len)
    BY <1>1, <1>2 DEF CSVInit, Least
  <1>4. buffer \in [0 .. 3 * block_len - 1 -> Byte]
    <2>1. \A i \in 0 .. 3 * block_len - 1 : i < offset => file[i + 1] \in Byte
      BY <1>1, <1>2, <1>3
    <2>2. "?" \in Byte
      BY DEF Byte
    <2>3. \A i \in 0 .. 3 * block_len - 1 : (IF i < offset THEN file[i + 1] ELSE "?") \in Byte
      BY <2>1, <2>2
    <2> QED
      BY <2>3 DEF CSVInit
  <1>5. data_begin \in Nat /\ data_begin < block_len /\ data_begin <= Len(file)
    BY <1>1, <1>2 DEF CSVInit, IsPrefix
  <1>6. data_end = offset /\ data_begin <= data_end
    BY <1>1, <1>2, <1>3, <1>5 DEF CSVInit
  <1>7. file_line = 0 /\ outcome = "open" /\ desired_byte_count = -1 /\ read_byte_count = -1
    BY DEF CSVInit
  <1>8. \/ pc = "start_read" /\ worker = "ready"
        \/ pc = "idle" /\ worker = "absent"
    BY DEF CSVInit
  <1> QED
    BY <1>1, <1>2, <1>3, <1>4, <1>5, <1>6, <1>7, <1>8 DEF ControlInv, InLine, Ending

LEMMA StepControl == ControlInv /\ [CSVNext]_csvVars => ControlInv'
  <1> SUFFICES ASSUME ControlInv, [CSVNext]_csvVars PROVE ControlInv'
    OBVIOUS
  <1> USE DEF ControlInv, InLine, Ending
  <1>0. block_len \in Nat /\ block_len >= 1 /\ Len(file) \in Nat
    BY FileFacts
  <1>1. CASE EndOfFile
    BY <1>1 DEF EndOfFile, readerVars
  <1>2. CASE NextLine
    BY <1>0, <1>2 DEF NextLine, readerVars
  <1>3. CASE ShiftBlock
    <2>1. buffer' \in [0 .. 3 * block_len - 1 -> Byte]
      BY <1>0, <1>3 DEF ShiftBlock, BlockMoved
    <2> QED
      BY <1>0, <1>3, <2>1 DEF ShiftBlock, readerVars, is_valid
  <1>4. CASE WaitForRead
    BY <1>4 DEF WaitForRead, readerVars, lineVars
  <1>5. CASE RethrowError
    BY <1>5 DEF RethrowError, readerVars
  <1>6. CASE FinishRead
    BY <1>0, <1>6 DEF FinishRead, readerVars
  <1>7. CASE CopyBlock
    <2>1. buffer' \in [0 .. 3 * block_len - 1 -> Byte]
      BY <1>0, <1>7 DEF CopyBlock, BlockMoved
    <2> QED
      BY <1>0, <1>7, <2>1 DEF CopyBlock, readerVars, lineVars
  <1>8. CASE StartRead
    BY <1>0, <1>8 DEF StartRead, lineVars
  <1>9. CASE LineTooLong
    BY <1>9 DEF LineTooLong, readerVars
  <1>10. CASE TakeLine
    <2>1. PICK e \in Nat : e = line_end /\ data_begin <= e /\ e <= data_end
      BY LineEndInBuffer
    <2>2. e - data_begin + 1 <= block_len /\ data_begin < block_len
      BY <1>10, <2>1 DEF TakeLine
    <2>3. /\ data_begin' = e + 1
          /\ data_end' = IF e = data_end THEN data_end + 1 ELSE data_end
      BY <1>10, <2>1 DEF TakeLine
    <2>4. buffer' \in [0 .. 3 * block_len - 1 -> Byte]
      <3>1. \A i \in DOMAIN buffer : (IF i \in {line_end, StringEnd} THEN "0" ELSE buffer[i]) \in Byte
        <4>1. "0" \in Byte
          BY DEF Byte
        <4> QED
          BY <4>1
      <3>2. DOMAIN buffer = 0 .. 3 * block_len - 1
        OBVIOUS
      <3> QED
        BY <1>10, <3>1, <3>2 DEF TakeLine
    <2> QED
      BY <1>0, <1>10, <2>1, <2>2, <2>3, <2>4 DEF TakeLine, readerVars
  <1>11. CASE RequestTermination \/ NotifyTermination \/ Join \/ Destroyed
    BY <1>11 DEF RequestTermination, NotifyTermination, Join, Destroyed,
       is_valid, readerVars,
                 lineVars, csvVars
  <1>12. CASE WorkerChecks
    BY <1>0, <1>12 DEF WorkerChecks, lineVars
  <1>13. CASE WorkerReads
    <2> DEFINE n == Least(desired_byte_count, Len(file) - offset)
    <2>1. desired_byte_count = block_len
      BY <1>13 DEF WorkerReads
    <2>2. n \in 0 .. block_len /\ n <= Len(file) - offset
      BY <1>0, <2>1 DEF Least
    <2>3. /\ buffer' = ReadInto(2 * block_len, n) /\ offset' = offset + n
          /\ read_byte_count' = n /\ desired_byte_count' = -1
          /\ worker' \in {"ended", "ready"} /\ worker = "reading"
          /\ pc' = IF pc = "waiting" THEN "finish_read" ELSE pc
      BY <1>13 DEF WorkerReads, NotifyFinished
    <2> HIDE DEF n
    <2>4. buffer' \in [0 .. 3 * block_len - 1 -> Byte]
      <3>1. \A i \in 2 * block_len .. 2 * block_len + n - 1 : file[offset + i - 2 * block_len + 1] \in Byte
        <4>1. file \in Seq(Byte)
          BY FileFacts
        <4> QED
          BY <1>0, <2>2, <4>1
      <3> QED
        BY <2>3, <3>1 DEF ReadInto
    <2> QED
      BY <1>0, <1>13, <2>2, <2>3, <2>4 DEF WorkerReads, lineVars
  <1>14. CASE WorkerThrows
    BY <1>14 DEF WorkerThrows, NotifyFinished, lineVars
  <1>15. CASE SpuriousWakeUp
    BY <1>15 DEF SpuriousWakeUp, lineVars
  <1>16. CASE UNCHANGED csvVars
    BY <1>16 DEF csvVars, lineVars, readerVars
  <1> QED
    BY <1>1, <1>2, <1>3, <1>4, <1>5, <1>6, <1>7, <1>8, <1>9, <1>10, <1>11, <1>12, <1>13,
       <1>14, <1>15, <1>16 DEF CSVNext, Reader, Worker

\* The reading thread never copies the third block, nor has a line in it, while a
\* read is requested or under way.
THEOREM ThirdBlockExclusive == CSVSpec => []BlockExclusive
  <1>1. ControlInv => BlockExclusive
    BY DEF ControlInv, BlockExclusive
  <1>2. CSVInit => ControlInv
    BY BlockAssumption, InitControl
  <1> QED
    BY <1>1, <1>2, StepControl, PTL DEF CSVSpec

-----------------------------------------------------------------------------
(***************************************************************************)
(* The lines.                                                              *)
(***************************************************************************)
LEMMA NoLineLeft ==
  ASSUME NEW t \in Seq(Byte), NEW p \in 1 .. Len(t) + 2, p > Len(t)
  PROVE  LinesFrom(t)[p] = << >>
  BY LinesFromDef

LEMMA FirstLine ==
  ASSUME NEW t \in Seq(Byte), NEW p \in 1 .. Len(t)
  PROVE  /\ LineEnd(t, p) + 1 \in 1 .. Len(t) + 2
         /\ SubSeq(t, p, LineEnd(t, p) - 1) \in Line
         /\ LinesFrom(t)[p] = <<SubSeq(t, p, LineEnd(t, p) - 1)>> \o LinesFrom(t)[LineEnd(t, p) + 1]
  <1>1. Len(t) \in Nat /\ p \in 1 .. Len(t) + 1 /\ p \in 1 .. Len(t) + 2 /\ ~ (p > Len(t))
    OBVIOUS
  <1>2. PICK e \in p .. Len(t) + 1 : e = LineEnd(t, p)
    BY <1>1, LineEndProperties
  <1>3. e + 1 \in 1 .. Len(t) + 2
    BY <1>1, <1>2
  <1>4. SubSeq(t, p, e - 1) \in Line
    <2>1. \A i \in p .. e - 1 : t[i] \in Byte
      BY <1>1, <1>2
    <2> QED
      BY <1>1, <1>2, <2>1, SubSeqProperties DEF Line
  <1>5. LinesFrom(t)[p] = <<SubSeq(t, p, e - 1)>> \o LinesFrom(t)[e + 1]
    BY <1>1, <1>2, LinesFromDef
  <1> QED
    BY <1>2, <1>3, <1>4, <1>5

LEMMA NextPart ==
  ASSUME NEW S, NEW a \in Seq(S), NEW x \in S, NEW b \in Seq(S)
  PROVE  a \o (<<x>> \o b) = Append(a, x) \o b
  <1> DEFINE u == a \o (<<x>> \o b)
             v == Append(a, x) \o b
  <1>1. Len(a) \in Nat /\ Len(b) \in Nat
    OBVIOUS
  <1>2. u \in Seq(S) /\ v \in Seq(S) /\ Len(u) = Len(a) + 1 + Len(b) /\ Len(v) = Len(u)
    OBVIOUS
  <1>3. ASSUME NEW i \in 1 .. Len(u) PROVE u[i] = v[i]
    OBVIOUS
  <1> HIDE DEF u, v
  <1>4. u = v
    BY <1>2, <1>3, SeqEqual
  <1> QED
    BY <1>4 DEF u, v

\* The line at byte p is the next of the file's lines.
LEMMA NextOfFile ==
  ASSUME ControlInv, NEW n \in Nat, NEW p \in 1 .. Len(file), Before(n, p),
         NEW e \in Nat, e = LineEnd(file, p)
  PROVE  /\ Segments \in Seq(Line)
         /\ n + 1 \in 1 .. Len(Segments)
         /\ Segments[n + 1] = SubSeq(file, p, e - 1)
         /\ Before(n + 1, e + 1)
  <1>1. file \in Seq(Byte) /\ Len(file) \in Nat
    BY FileFacts
  <1>2. PICK done \in Seq(Line) : Len(done) = n /\ Segments = done \o LinesFrom(file)[p]
    BY DEF Before
  <1>3. PICK seg \in Line : seg = SubSeq(file, p, e - 1)
    BY <1>1, FirstLine
  <1>4. e + 1 \in 1 .. Len(file) + 2
    BY <1>1, FirstLine
  <1>5. PICK rest \in Seq(Line) : rest = LinesFrom(file)[e + 1]
    BY <1>1, <1>4, LinesFromType
  <1>6. LinesFrom(file)[p] = <<seg>> \o rest
    BY <1>1, <1>3, <1>5, FirstLine
  <1>7. done \o LinesFrom(file)[p] = done \o (<<seg>> \o rest)
    BY <1>6, Zenon
  <1>8. done \o (<<seg>> \o rest) = Append(done, seg) \o rest
    BY NextPart, SMTT(20)
  <1>9. PICK front \in Seq(Line) : front = Append(done, seg)
    <2>1. Append(done, seg) \in Seq(Line)
      BY AppendProperties
    <2> QED
      BY <2>1, Zenon
  <1>10. Len(front) = n + 1 /\ front[n + 1] = seg
    BY <1>2, <1>9
  <1>11. Segments = front \o rest
    BY <1>2, <1>7, <1>8, <1>9, Zenon
  <1>12. Before(n + 1, e + 1)
    <2>1. Segments = front \o LinesFrom(file)[e + 1]
      BY <1>5, <1>11, Zenon
    <2> QED
      BY <1>4, <1>10, <2>1, Zenon DEF Before
  <1>13. /\ Segments \in Seq(Line) /\ n + 1 \in 1 .. Len(Segments)
         /\ Segments[n + 1] = front[n + 1]
    BY <1>10, <1>11
  <1> QED
    BY <1>3, <1>10, <1>12, <1>13

LEMMA NoneOfFile ==
  ASSUME ControlInv, NEW n \in Nat, NEW p \in Nat, p > Len(file), Before(n, p)
  PROVE  Len(Segments) = n
  <1>1. file \in Seq(Byte) /\ Len(file) \in Nat
    BY FileFacts
  <1>2. p \in 1 .. Len(file) + 2
    BY DEF Before
  <1>3. LinesFrom(file)[p] = << >>
    BY <1>1, <1>2, NoLineLeft
  <1>4. PICK done \in Seq(Line) : Len(done) = n /\ Segments = done \o << >>
    BY <1>3 DEF Before
  <1> QED
    BY <1>4

LEMMA BeforeStep ==
  ASSUME file' = file, NEW n, NEW p, Before(n, p)
  PROVE  Before(n, p)'
  BY DEF Before, Segments

\* What next_line() finds is the line of the file if the line is whole: only a
\* line of a block and more is cut by the end of the data.
LEMMA LineFound ==
  ASSUME ControlInv, pc = "line", NEW base \in Nat, Loaded(base)
  PROVE  /\ base + data_begin + 1 \in 1 .. Len(file)
         /\ base + line_end <= Len(file)
         /\ \A i \in data_begin .. line_end - 1 : buffer[i] = file[base + i + 1] /\ buffer[i] # "n"
         /\ line_end - data_begin + 1 <= block_len =>
              /\ LineEnd(file, base + data_begin + 1) = base + line_end + 1
              /\ line_end = data_end => base + line_end = Len(file)
         /\ LineEnd(file, base + data_begin + 1) \in base + line_end + 1 .. Len(file) + 1
  <1>1. file \in Seq(Byte) /\ Len(file) \in Nat /\ block_len \in Nat /\ block_len >= 1
    BY FileFacts
  <1>2. PICK e \in Nat : /\ e = line_end /\ e >= data_begin /\ e <= data_end
                         /\ e = data_end \/ buffer[e] = "n"
                         /\ \A i \in data_begin .. e - 1 : buffer[i] # "n"
    BY LineEndInBuffer DEF ControlInv
  <1>3. /\ data_begin \in Nat /\ data_end \in Nat
        /\ data_begin < block_len /\ data_begin < data_end /\ data_end <= 2 * block_len
    BY DEF ControlInv, InLine
  <1>4. Have = data_end /\ Full = 2 * block_len
    BY DEF Have, Full
  <1>5. /\ base + data_end <= Len(file)
        /\ base + data_end < Len(file) => data_end = 2 * block_len
        /\ \A i \in data_begin .. data_end - 1 : buffer[i] = file[base + i + 1]
    BY <1>4 DEF Loaded
  <1>6. base + data_begin + 1 \in 1 .. Len(file) /\ base + e <= Len(file)
    BY <1>1, <1>2, <1>3, <1>5
  <1>7. \A i \in data_begin .. e - 1 : buffer[i] = file[base + i + 1] /\ buffer[i] # "n"
    BY <1>1, <1>2, <1>3, <1>5
  <1>8. ASSUME NEW q \in base + data_begin + 1 .. base + e PROVE file[q] # "n"
    <2>1. PICK i \in data_begin .. e - 1 : q = base + i + 1
      BY <1>1, <1>2, <1>3
    <2> QED
      BY <1>7, <2>1
  <1>9. PICK p \in 1 .. Len(file) + 1 : p = base + data_begin + 1
    BY <1>1, <1>6
  <1>10. ASSUME e - data_begin + 1 <= block_len
         PROVE  LineEnd(file, p) = base + e + 1 /\ (e = data_end => base + e = Len(file))
    <2>1. e = data_end => base + e = Len(file)
      BY <1>1, <1>2, <1>3, <1>5, <1>10
    <2>2. PICK l \in p .. Len(file) + 1 : l = base + e + 1
      BY <1>1, <1>2, <1>3, <1>6, <1>9
    <2>3. l = Len(file) + 1 \/ file[l] = "n"
      <3>1. CASE e = data_end
        BY <1>1, <1>2, <2>1, <2>2, <3>1
      <3>2. CASE e # data_end
        <4>1. e \in data_begin .. data_end - 1
          BY <1>2, <1>3, <3>2
        <4> QED
          BY <1>2, <1>5, <2>2, <3>2, <4>1
      <3> QED
        BY <3>1, <3>2
    <2>4. \A q \in p .. l - 1 : file[q] # "n"
      BY <1>1, <1>2, <1>3, <1>8, <1>9, <2>2
    <2> QED
      BY <1>1, <2>1, <2>2, <2>3, <2>4, LineEndUnique
  <1>11. LineEnd(file, p) \in base + e + 1 .. Len(file) + 1
    <2>1. PICK l \in p .. Len(file) + 1 : l = LineEnd(file, p) /\ (l = Len(file) + 1 \/ file[l] = "n")
      BY <1>1, LineEndProperties
    <2>2. ~ (l <= base + e)
      BY <1>1, <1>2, <1>3, <1>6, <1>8, <1>9, <2>1
    <2> QED
      BY <1>1, <1>2, <1>3, <2>1, <2>2
  <1> QED
    BY <1>2, <1>6, <1>7, <1>9, <1>10, <1>11

-----------------------------------------------------------------------------
(***************************************************************************)
(* Where the reader stands.                                                *)
(***************************************************************************)
LEMMA InitData ==
  ASSUME BlockLayout, CSVInit
  PROVE  DataInv
  <1>1. file \in Seq(Byte) /\ Len(file) \in Nat
    BY FilesOfBytes DEF CSVInit
  <1>2. block_len \in Nat /\ block_len >= 1 /\ Len(BOM) \in Nat
    BY FilesOfBytes DEF BlockLayout
  <1>3. /\ offset \in Nat /\ data_end = offset /\ offset <= 2 * block_len /\ offset <= Len(file)
        /\ (offset < Len(file) => offset = 2 * block_len)
    BY <1>1, <1>2 DEF CSVInit, Least
  <1>4. data_begin \in Nat /\ data_begin <= Len(file)
    BY <1>1, <1>2 DEF CSVInit, IsPrefix
  <1>5. Segments = LinesFrom(file)[data_begin + 1]
    BY <1>2 DEF CSVInit, Segments
  <1>6. pc \in {"start_read", "idle"} /\ file_line = 0 /\ lines = << >> /\ read_byte_count = -1
    BY DEF CSVInit
  <1>7. Have = data_end /\ Full = 2 * block_len
    BY <1>6 DEF Have, Full
  <1>8. Loaded(0)
    <2>1. \A i \in data_begin .. data_end - 1 : buffer[i] = file[0 + i + 1]
      BY <1>1, <1>2, <1>3, <1>4 DEF CSVInit
    <2>2. worker = "absent" => offset = Len(file)
      BY <1>1, <1>2, <1>3 DEF CSVInit
    <2> QED
      BY <1>1, <1>2, <1>3, <1>4, <1>6, <1>7, <2>1, <2>2 DEF Loaded
  <1>9. Before(0, data_begin + 1)
    <2>1. data_begin + 1 \in 1 .. Len(file) + 2
      BY <1>1, <1>4
    <2>2. PICK rest \in Seq(Line) : rest = LinesFrom(file)[data_begin + 1]
      BY <1>1, <2>1, LinesFromType
    <2>3. << >> \in Seq(Line) /\ Len(<< >>) = 0 /\ << >> \o rest = rest
      OBVIOUS
    <2>4. Segments = << >> \o LinesFrom(file)[data_begin + 1]
      BY <1>5, <2>2, <2>3
    <2> QED
      BY <2>1, <2>3, <2>4, Zenon DEF Before
  <1>10. Progress(0)
    BY <1>4, <1>6, <1>8, <1>9 DEF Progress
  <1>11. file_line = Len(lines) + (IF InLine THEN 1 ELSE 0)
    BY <1>6 DEF InLine
  <1> QED
    BY <1>10, <1>11 DEF DataInv

\* A step that leaves the reader where it is.
LEMMA SamePlace ==
  ASSUME file' = file, lines' = lines, data_begin' = data_begin,
         NEW base \in Nat, Progress(base), Loaded(base)' \/ Drained(base)'
  PROVE  Progress(base)'
  <1>1. Before(Len(lines), base + data_begin + 1)'
    <2>1. PICK n, p : n = Len(lines) /\ p = base + data_begin + 1
      OBVIOUS
    <2>2. Before(n, p)
      BY <2>1 DEF Progress
    <2>3. Before(n, p)'
      BY <2>2, BeforeStep
    <2> QED
      BY <2>1, <2>3
  <1> QED
    BY <1>1 DEF Progress

LEMMA ShiftKeeps ==
  ASSUME ControlInv, NEW base \in Nat, Loaded(base), ShiftBlock,
         Before(Len(lines), base + data_begin + 1)
  PROVE  Progress(base + block_len)'
  <1>1. file \in Seq(Byte) /\ Len(file) \in Nat /\ block_len \in Nat /\ block_len >= 1
    BY FileFacts
  <1>2. /\ pc = "idle" /\ data_begin >= block_len
        /\ data_begin' = data_begin - block_len /\ data_end' = data_end - block_len
        /\ pc' = IF worker # "absent" THEN "finish_read" ELSE "line"
        /\ buffer' = BlockMoved(0)
        /\ file' = file /\ offset' = offset /\ lines' = lines
        /\ worker' = worker /\ read_byte_count' = read_byte_count
    BY DEF ShiftBlock, is_valid, readerVars
  <1>3. /\ data_begin \in Nat /\ data_end \in Nat /\ data_begin <= data_end /\ data_end <= 2 * block_len
        /\ buffer \in [0 .. 3 * block_len - 1 -> Byte] /\ offset \in Nat
        /\ read_byte_count \in -1 .. block_len
        /\ worker = "absent" => read_byte_count = -1
    BY DEF ControlInv
  <1>4. /\ Have = data_end /\ Full = 2 * block_len
        /\ Have' = data_end - block_len
        /\ Full' = IF worker # "absent" THEN block_len ELSE 2 * block_len
    BY <1>2 DEF Have, Full
  <1> DEFINE b == base + block_len
  <1>5. /\ base + data_end <= Len(file)
        /\ base + data_end < Len(file) => data_end = 2 * block_len
        /\ \A i \in data_begin .. data_end - 1 : buffer[i] = file[base + i + 1]
        /\ worker = "absent" => offset = Len(file) /\ offset = base + data_end
    BY <1>2, <1>3, <1>4 DEF Loaded
  <1>6. /\ b \in Nat /\ b + (data_end - block_len) = base + data_end
        /\ b + data_begin' + 1 = base + data_begin + 1
    BY <1>1, <1>2, <1>3
  <1>7. /\ (Have <= Full)' /\ (b + Have <= Len(file))'
        /\ (b + Have < Len(file) => Have = Full)'
    BY <1>1, <1>2, <1>3, <1>4, <1>5, <1>6
  <1>8. ASSUME NEW i \in data_begin' .. Have' - 1 PROVE buffer'[i] = file'[b + i + 1]
    <2>1. i \in 0 .. block_len - 1 /\ i + block_len \in data_begin .. data_end - 1
      BY <1>1, <1>2, <1>3, <1>4
    <2>2. buffer'[i] = buffer[i + block_len]
      BY <1>1, <1>2, <1>3, <2>1 DEF BlockMoved
    <2>3. base + (i + block_len) + 1 = b + i + 1
      BY <1>1, <2>1
    <2> QED
      BY <1>2, <1>5, <2>1, <2>2, <2>3
  <1>9. ASSUME read_byte_count # -1
        PROVE  /\ read_byte_count' = Least(block_len, Len(file') - (b + Have'))
               /\ offset' = b + Have' + read_byte_count'
               /\ \A j \in 0 .. read_byte_count' - 1 : buffer'[2 * block_len + j] = file'[b + Have' + j + 1]
    <2>1. /\ read_byte_count = Least(block_len, Len(file) - (base + data_end))
          /\ offset = base + data_end + read_byte_count
          /\ \A j \in 0 .. read_byte_count - 1 : buffer[2 * block_len + j] = file[base + data_end + j + 1]
      BY <1>2, <1>4, <1>9 DEF Loaded
    <2>2. \A j \in 0 .. read_byte_count - 1 : buffer'[2 * block_len + j] = buffer[2 * block_len + j]
      BY <1>1, <1>2, <1>3 DEF BlockMoved
    <2> QED
      BY <1>2, <1>4, <1>6, <2>1, <2>2
  <1>10. read_byte_count = -1 => offset' = b + Have'
    BY <1>2, <1>4, <1>6 DEF Loaded
  <1>11. worker' = "absent" => offset' = Len(file')
    BY <1>2, <1>5
  <1> HIDE DEF b
  <1>12. Loaded(b)'
    BY <1>2, <1>7, <1>8, <1>9, <1>10, <1>11 DEF Loaded
  <1>13. Before(Len(lines), b + data_begin + 1)'
    <2>1. PICK n, p : n = Len(lines) /\ p = base + data_begin + 1
      OBVIOUS
    <2>2. Before(n, p)'
      BY <1>2, <2>1, BeforeStep
    <2> QED
      BY <1>2, <1>6, <2>1, <2>2
  <1> QED
    BY <1>12, <1>13 DEF Progress, b

LEMMA CopyKeeps ==
  ASSUME ControlInv, NEW base \in Nat, Loaded(base), CopyBlock
  PROVE  Loaded(base)'
  <1>1. file \in Seq(Byte) /\ Len(file) \in Nat /\ block_len \in Nat /\ block_len >= 1
    BY FileFacts
  <1>2. /\ pc = "copy" /\ pc' = "start_read" /\ buffer' = BlockMoved(block_len)
        /\ data_begin' = data_begin /\ data_end' = data_end
        /\ file' = file /\ offset' = offset
        /\ worker' = worker /\ read_byte_count' = read_byte_count
    BY DEF CopyBlock, lineVars, readerVars
  <1>3. /\ data_begin \in Nat /\ data_end \in Nat /\ data_begin <= data_end
        /\ buffer \in [0 .. 3 * block_len - 1 -> Byte] /\ offset \in Nat
        /\ read_byte_count \in 0 .. block_len /\ read_byte_count <= data_end
    BY <1>1, <1>2 DEF ControlInv
  <1>4. PICK h \in Nat : h = data_end - read_byte_count /\ data_end = h + read_byte_count
    BY <1>1, <1>3
  <1>5. Have = h /\ Full = block_len /\ Have' = data_end /\ Full' = 2 * block_len
    BY <1>2, <1>4 DEF Have, Full
  <1>6. /\ h <= block_len /\ base + h <= Len(file) /\ (base + h < Len(file) => h = block_len)
        /\ read_byte_count = Least(block_len, Len(file) - (base + h))
        /\ offset = base + h + read_byte_count
        /\ worker = "absent" => offset = Len(file)
    BY <1>1, <1>2, <1>3, <1>5 DEF Loaded
  <1>7. /\ \A i \in data_begin .. h - 1 : buffer[i] = file[base + i + 1]
        /\ \A j \in 0 .. read_byte_count - 1 : buffer[2 * block_len + j] = file[base + h + j + 1]
    BY <1>1, <1>2, <1>3, <1>5 DEF Loaded
  <1>8. /\ data_end <= 2 * block_len /\ base + data_end <= Len(file) /\ offset = base + data_end
        /\ base + data_end < Len(file) => data_end = 2 * block_len
        /\ read_byte_count > 0 => h = block_len
    <2>1. \/ read_byte_count = block_len /\ block_len < Len(file) - (base + h)
          \/ read_byte_count = Len(file) - (base + h)
      BY <1>6 DEF Least
    <2>2. PICK r \in 0 .. block_len, L \in Nat, d \in Nat :
            r = read_byte_count /\ L = Len(file) /\ d = data_end /\ d = h + r
      BY <1>1, <1>3, <1>4
    <2>3. /\ h <= block_len /\ base + h <= L /\ (base + h < L => h = block_len)
          /\ (r = block_len /\ block_len < L - (base + h)) \/ r = L - (base + h)
      BY <1>6, <2>1, <2>2
    <2>4. /\ d <= 2 * block_len /\ base + d <= L /\ base + h + r = base + d
          /\ (base + d < L => d = 2 * block_len) /\ (r > 0 => h = block_len)
      BY <1>1, <2>2, <2>3
    <2> QED
      BY <1>6, <2>2, <2>4
  <1>9. ASSUME NEW i \in data_begin .. data_end - 1 PROVE buffer'[i] = file[base + i + 1]
    <2>1. CASE i < h
      <3>1. i \in data_begin .. h - 1 /\ i < block_len /\ i \in 0 .. 3 * block_len - 1
        <4>1. data_begin \in Nat /\ h <= block_len
          BY <1>3, <1>6
        <4> QED
          BY <1>1, <2>1, <4>1
      <3>2. buffer'[i] = buffer[i]
        BY <1>1, <1>2, <1>3, <3>1 DEF BlockMoved
      <3> QED
        BY <1>7, <3>1, <3>2
    <2>2. CASE ~ (i < h)
      <3>1. PICK j \in 0 .. read_byte_count - 1 : i = h + j
        <4>1. i - h \in 0 .. read_byte_count - 1 /\ i = h + (i - h)
          BY <1>1, <1>3, <1>4, <2>2
        <4> QED
          BY <4>1
      <3>2. h = block_len
        BY <1>1, <1>3, <1>8, <3>1
      <3>3. buffer'[i] = buffer[2 * block_len + j]
        BY <1>1, <1>2, <1>3, <3>1, <3>2 DEF BlockMoved
      <3>4. base + i + 1 = base + h + j + 1
        BY <1>1, <1>3, <3>1
      <3> QED
        BY <1>7, <3>1, <3>3, <3>4
    <2> QED
      BY <2>1, <2>2
  <1> QED
    BY <1>2, <1>5, <1>6, <1>8, <1>9 DEF Loaded

LEMMA ReadKeeps ==
  ASSUME ControlInv, NEW base \in Nat, Loaded(base), WorkerReads
  PROVE  Loaded(base)'
  <1>1. file \in Seq(Byte) /\ Len(file) \in Nat /\ block_len \in Nat /\ block_len >= 1
    BY FileFacts
  <1>2. /\ worker = "reading" /\ desired_byte_count = block_len /\ read_byte_count = -1
        /\ pc \notin {"copy", "start_read"}
    BY <1>1 DEF ControlInv, WorkerReads
  <1>3. PICK n \in 0 .. block_len : n = Least(block_len, Len(file) - offset) /\ n <= Len(file) - offset
    <2>1. offset \in Nat /\ offset <= Len(file)
      BY DEF ControlInv
    <2>2. Len(file) - offset \in Nat
      BY <1>1, <2>1
    <2> QED
      BY <1>1, <2>2 DEF Least
  <1>4. /\ buffer' = ReadInto(2 * block_len, n) /\ offset' = offset + n /\ read_byte_count' = n
        /\ worker' # "absent" /\ pc' = IF pc = "waiting" THEN "finish_read" ELSE pc
        /\ data_begin' = data_begin /\ data_end' = data_end /\ file' = file
    BY <1>2, <1>3 DEF WorkerReads, NotifyFinished, lineVars
  <1>5. /\ data_begin \in Nat /\ data_end \in Nat /\ data_end <= 2 * block_len /\ offset \in Nat
        /\ buffer \in [0 .. 3 * block_len - 1 -> Byte]
    BY DEF ControlInv
  <1>6. Have = data_end /\ Have' = data_end /\ Full' = Full
    BY <1>2, <1>4 DEF Have, Full
  <1>7. /\ (Have <= Full)' /\ (base + Have <= Len(file))' /\ (base + Have < Len(file) => Have = Full)'
        /\ offset = base + data_end
    BY <1>2, <1>4, <1>6 DEF Loaded
  <1>8. \A i \in data_begin' .. Have' - 1 : buffer'[i] = file'[base + i + 1]
    <2>1. \A i \in data_begin .. data_end - 1 : buffer'[i] = buffer[i]
      BY <1>1, <1>3, <1>4, <1>5 DEF ReadInto
    <2> QED
      BY <1>4, <1>6, <2>1 DEF Loaded
  <1>9. ASSUME NEW j \in 0 .. n - 1 PROVE buffer'[2 * block_len + j] = file'[base + Have' + j + 1]
    <2>1. PICK i \in 2 * block_len .. 2 * block_len + n - 1 : i = 2 * block_len + j
      BY <1>1, <1>3
    <2>2. i \in DOMAIN buffer
      BY <1>1, <1>3, <1>5, <2>1
    <2>3. buffer'[i] = file[offset + i - 2 * block_len + 1]
      BY <1>4, <2>1, <2>2 DEF ReadInto
    <2>4. offset + i - 2 * block_len + 1 = base + Have' + j + 1
      BY <1>1, <1>5, <1>6, <1>7, <2>1
    <2> QED
      BY <1>4, <2>1, <2>3, <2>4
  <1>10. /\ read_byte_count' # -1 /\ pc' # "start_read"
         /\ read_byte_count' = Least(block_len, Len(file') - (base + Have'))
         /\ offset' = base + Have' + read_byte_count'
    BY <1>1, <1>2, <1>3, <1>4, <1>5, <1>6, <1>7
  <1> QED
    BY <1>4, <1>7, <1>8, <1>9, <1>10 DEF Loaded

LEMMA TakeKeeps ==
  ASSUME ControlInv, NEW base \in Nat, Loaded(base), TakeLine, lines \in Seq(Line),
         Before(Len(lines), base + data_begin + 1)
  PROVE  Progress(base)' /\ Len(lines') = Len(lines) + 1
  <1>1. file \in Seq(Byte) /\ Len(file) \in Nat /\ block_len \in Nat /\ block_len >= 1
    BY FileFacts
  <1>2. PICK e \in Nat : e = line_end /\ e >= data_begin /\ e <= data_end
    BY LineEndInBuffer DEF ControlInv
  <1>3. /\ pc = "line" /\ pc' = "idle" /\ e - data_begin + 1 <= block_len
        /\ data_end' = (IF e = data_end THEN data_end + 1 ELSE data_end) /\ data_begin' = e + 1
        /\ buffer' = [i \in DOMAIN buffer |-> IF i \in {e, StringEnd} THEN "0" ELSE buffer[i]]
        /\ file' = file /\ offset' = offset
        /\ worker' = worker /\ read_byte_count' = read_byte_count
    BY <1>2 DEF TakeLine, readerVars
  <1>4. Len(lines') = Len(lines) + 1 /\ Len(lines) \in Nat
    BY AppendProperties DEF TakeLine
  <1>5. /\ data_begin \in Nat /\ data_end \in Nat /\ data_begin < data_end /\ data_end <= 2 * block_len
        /\ buffer \in [0 .. 3 * block_len - 1 -> Byte] /\ offset \in Nat
        /\ read_byte_count \in -1 .. block_len
    BY <1>3 DEF ControlInv, InLine
  <1>6. /\ base + data_begin + 1 \in 1 .. Len(file)
        /\ LineEnd(file, base + data_begin + 1) = base + e + 1
        /\ e = data_end => base + e = Len(file)
    BY <1>2, <1>3, LineFound
  <1>7. Before(Len(lines), base + data_begin + 1)'
    <2>1. PICK n \in Nat, p \in 1 .. Len(file), l \in Nat :
            n = Len(lines) /\ p = base + data_begin + 1 /\ l = base + e + 1
      BY <1>2, <1>4, <1>6
    <2>2. Before(n + 1, l + 1)
      BY <1>6, <2>1, NextOfFile
    <2>3. Before(n + 1, l + 1)'
      BY <1>3, <2>2, BeforeStep
    <2>4. n + 1 = Len(lines') /\ l + 1 = base + data_begin' + 1
      BY <1>2, <1>3, <1>4, <2>1
    <2> QED
      BY <2>3, <2>4
  <1>8. CASE e = data_end
    <2>1. data_begin' = data_end' /\ base + data_begin' >= Len(file')
      BY <1>1, <1>2, <1>3, <1>6, <1>8
    <2> QED
      BY <1>3, <1>4, <1>7, <2>1 DEF Progress, Drained
  <1>9. CASE e # data_end
    <2>1. /\ Have = data_end /\ Full = 2 * block_len /\ Have' = data_end /\ Full' = 2 * block_len
          /\ e < data_end
      BY <1>2, <1>3, <1>5, <1>9 DEF Have, Full
    <2>2. StringEnd <= e /\ StringEnd \in Int
      BY <1>2 DEF StringEnd
    <2>3. ASSUME NEW i \in e + 1 .. 3 * block_len - 1 PROVE buffer'[i] = buffer[i]
      <3>1. i \in 0 .. 3 * block_len - 1 /\ i \notin {e, StringEnd}
        BY <1>1, <1>2, <2>2
      <3> QED
        BY <1>3, <1>5, <3>1
    <2>4. \A i \in data_begin' .. Have' - 1 : buffer'[i] = file'[base + i + 1]
      <3>1. \A i \in data_begin .. data_end - 1 : buffer[i] = file[base + i + 1]
        BY <2>1 DEF Loaded
      <3>2. ASSUME NEW i \in e + 1 .. data_end - 1 PROVE buffer'[i] = file[base + i + 1]
        <4>1. i \in e + 1 .. 3 * block_len - 1 /\ i \in data_begin .. data_end - 1
          BY <1>1, <1>2, <1>5
        <4> QED
          BY <2>3, <3>1, <4>1
      <3> QED
        BY <1>3, <2>1, <3>2
    <2>5. ASSUME read_byte_count # -1
          PROVE  /\ read_byte_count' = Least(block_len, Len(file') - (base + Have'))
                 /\ offset' = base + Have' + read_byte_count'
                 /\ \A j \in 0 .. read_byte_count' - 1 : buffer'[2 * block_len + j] = file'[base + Have' + j + 1]
      <3>1. \A j \in 0 .. read_byte_count - 1 : buffer'[2 * block_len + j] = buffer[2 * block_len + j]
        BY <1>1, <1>2, <1>5, <2>1, <2>3
      <3> QED
        BY <1>3, <2>1, <2>5, <3>1 DEF Loaded
    <2>6. Loaded(base)'
      BY <1>3, <2>1, <2>4, <2>5 DEF Loaded
    <2> QED
      BY <1>4, <1>7, <2>6 DEF Progress
  <1> QED
    BY <1>8, <1>9

LEMMA StepData == ControlInv /\ DataInv /\ lines \in Seq(Line) /\ [CSVNext]_csvVars => DataInv'
  <1> SUFFICES ASSUME ControlInv, DataInv, lines \in Seq(Line), [CSVNext]_csvVars, Reading'
               PROVE  /\ (file_line = Len(lines) + (IF InLine THEN 1 ELSE 0))'
                      /\ \E base \in Nat : Progress(base)'
    BY DEF DataInv
  <1> USE DEF Reading
  <1>1. CASE EndOfFile \/ RethrowError \/ LineTooLong \/ RequestTermination \/ NotifyTermination
             \/ Join \/ Destroyed
    BY <1>1 DEF EndOfFile, RethrowError, LineTooLong, RequestTermination,
       NotifyTermination, Join,
                Destroyed, is_valid, Ending, csvVars
  <1>2. ASSUME ~ (EndOfFile \/ RethrowError \/ LineTooLong \/ RequestTermination
                  \/ NotifyTermination \/ Join \/ Destroyed)
        PROVE  Reading
    <2> USE DEF Ending
    <2>1. CASE NextLine \/ ShiftBlock
      BY <2>1 DEF NextLine, ShiftBlock
    <2>2. CASE WaitForRead \/ FinishRead \/ CopyBlock \/ StartRead \/ TakeLine
      BY <2>2 DEF WaitForRead, FinishRead, CopyBlock, StartRead,
         TakeLine, lineVars, ControlInv
    <2>3. CASE WorkerChecks
      BY <2>3 DEF WorkerChecks, lineVars
    <2>4. CASE WorkerReads \/ WorkerThrows
      BY <2>4 DEF WorkerReads, WorkerThrows, NotifyFinished, lineVars
    <2>5. CASE SpuriousWakeUp
      BY <2>5 DEF SpuriousWakeUp, lineVars
    <2>6. CASE UNCHANGED csvVars
      BY <2>6 DEF csvVars, lineVars
    <2> QED
      BY <1>2, <2>1, <2>2, <2>3, <2>4, <2>5, <2>6 DEF CSVNext, Reader, Worker
  <1>3. ASSUME Reading
        PROVE  /\ file_line = Len(lines) + (IF InLine THEN 1 ELSE 0)
               /\ \E base \in Nat : Progress(base)
    BY <1>3 DEF DataInv
  <1>4. CASE NextLine
    <2>1. /\ pc = "idle" /\ pc' = "line" /\ file_line' = file_line + 1 /\ data_begin # data_end
          /\ file' = file /\ lines' = lines /\ data_begin' = data_begin /\ data_end' = data_end
          /\ UNCHANGED <<offset, buffer, worker, read_byte_count>> /\ outcome = "open"
      BY <1>4 DEF NextLine, readerVars
    <2>2. PICK base \in Nat : Progress(base) /\ file_line = Len(lines)
      BY <1>3, <2>1 DEF Ending, InLine
    <2>3. Loaded(base)
      BY <2>1, <2>2 DEF Progress, Drained
    <2>4. Have' = Have /\ Full' = Full
      BY <2>1 DEF Have, Full
    <2>5. Loaded(base)'
      BY <2>1, <2>3, <2>4 DEF Loaded
    <2>6. Progress(base)'
      BY <2>1, <2>2, <2>5, SamePlace
    <2> QED
      BY <2>1, <2>2, <2>6 DEF InLine
  <1>5. CASE ShiftBlock
    <2>1. /\ pc = "idle" /\ pc' \in {"line", "finish_read"} /\ file_line' = file_line + 1
          /\ data_begin # data_end /\ lines' = lines /\ outcome = "open"
      BY <1>5 DEF ShiftBlock
    <2>2. PICK base \in Nat : Progress(base) /\ file_line = Len(lines)
      BY <1>3, <2>1 DEF Ending, InLine
    <2>3. Loaded(base) /\ Before(Len(lines), base + data_begin + 1)
      BY <2>1, <2>2 DEF Progress, Drained
    <2>4. Progress(base + block_len)' /\ base + block_len \in Nat
      BY <1>5, <2>3, ShiftKeeps, FileFacts
    <2> QED
      BY <2>1, <2>2, <2>4 DEF InLine
  <1>6. CASE WaitForRead \/ FinishRead \/ CopyBlock \/ StartRead
    <2>1. Reading /\ lines' = lines /\ file' = file /\ data_begin' = data_begin /\ file_line' = file_line
          /\ pc # "idle" /\ (InLine' <=> InLine)
      BY <1>6, <1>2 DEF WaitForRead, FinishRead, CopyBlock, StartRead,
         lineVars, ControlInv, Ending, InLine
    <2>2. PICK base \in Nat : Progress(base) /\ Loaded(base)
      BY <1>3, <2>1 DEF Progress, Drained
    <2>3. Loaded(base)'
      <3>1. CASE CopyBlock
        BY <2>2, <3>1, CopyKeeps
      <3>2. CASE WaitForRead
        <4>1. UNCHANGED <<file, offset, buffer, data_begin, worker, read_byte_count>>
              /\ Have' = Have /\ Full' = Full /\ pc # "start_read" /\ pc' # "start_read"
          BY <3>2 DEF WaitForRead, lineVars, readerVars, Have, Full
        <4> QED
          BY <2>2, <4>1 DEF Loaded
      <3>3. CASE FinishRead
        <4>1. UNCHANGED <<file, offset, buffer, data_begin, worker, read_byte_count>>
              /\ pc = "finish_read" /\ pc' = "copy" /\ data_end' = data_end + read_byte_count
          BY <3>3 DEF FinishRead, readerVars
        <4>2. data_end \in Int /\ read_byte_count \in Int
          BY FileFacts DEF ControlInv
        <4>3. Have' = Have /\ Full' = Full
          BY <4>1, <4>2 DEF Have, Full
        <4> QED
          BY <2>2, <4>1, <4>3 DEF Loaded
      <3>4. CASE StartRead
        <4>1. /\ UNCHANGED <<file, offset, buffer, data_begin, data_end>>
              /\ pc = "start_read" /\ pc' \in {"idle", "line"} /\ read_byte_count' = -1
              /\ worker' = "absent" => worker = "absent"
          BY <3>4 DEF StartRead, lineVars
        <4>2. Have' = Have /\ Full' = Full
          BY <4>1 DEF Have, Full
        <4> QED
          BY <2>2, <4>1, <4>2 DEF Loaded
      <3> QED
        BY <1>6, <3>1, <3>2, <3>3, <3>4
    <2>4. Progress(base)'
      BY <2>1, <2>2, <2>3, SamePlace
    <2> QED
      BY <1>3, <2>1, <2>4
  <1>7. CASE TakeLine
    <2>1. Reading /\ pc = "line" /\ pc' = "idle" /\ file_line' = file_line
      BY <1>7 DEF TakeLine, ControlInv, Ending
    <2>2. PICK base \in Nat : Loaded(base) /\ Before(Len(lines), base + data_begin + 1)
      BY <1>3, <2>1 DEF Progress, Drained
    <2>3. Progress(base)' /\ Len(lines') = Len(lines) + 1
      BY <1>7, <2>2, TakeKeeps
    <2>4. file_line = Len(lines) + 1 /\ ~ InLine'
      BY <1>3, <2>1 DEF InLine
    <2> QED
      BY <2>1, <2>3, <2>4
  <1>8. CASE WorkerChecks \/ WorkerReads \/ WorkerThrows \/ SpuriousWakeUp \/ UNCHANGED csvVars
    <2>1. /\ Reading /\ lines' = lines /\ file' = file /\ data_begin' = data_begin
          /\ data_end' = data_end /\ file_line' = file_line
          /\ pc' = pc \/ (pc = "waiting" /\ pc' = "finish_read")
          /\ worker' = "absent" => worker = "absent"
      <3>1. CASE WorkerChecks
        BY <1>2, <3>1 DEF WorkerChecks, lineVars
      <3>2. CASE WorkerReads \/ WorkerThrows
        BY <1>2, <3>2 DEF WorkerReads, WorkerThrows, NotifyFinished,
           lineVars, Ending
      <3>3. CASE SpuriousWakeUp
        BY <1>2, <3>3 DEF SpuriousWakeUp, lineVars, Ending
      <3>4. CASE UNCHANGED csvVars
        BY <1>2, <3>4 DEF csvVars, lineVars, readerVars
      <3> QED
        BY <1>8, <3>1, <3>2, <3>3, <3>4
    <2>2. InLine' <=> InLine
      BY <2>1 DEF InLine
    <2>3. PICK base \in Nat : Progress(base)
      BY <1>3, <2>1
    <2>4. CASE Drained(base)
      <3>1. Drained(base)'
        BY <2>1, <2>4 DEF Drained
      <3>2. Progress(base)'
        BY <2>1, <2>3, <3>1, SamePlace
      <3> QED
        BY <1>3, <2>1, <2>2, <3>2
    <2>5. CASE Loaded(base)
      <3>1. Loaded(base)'
        <4>1. CASE WorkerReads
          BY <2>5, <4>1, ReadKeeps
        <4>2. CASE WorkerChecks \/ WorkerThrows \/ SpuriousWakeUp \/ UNCHANGED csvVars
          <5>1. UNCHANGED <<offset, buffer, read_byte_count>>
            BY <4>2 DEF WorkerChecks, WorkerThrows, SpuriousWakeUp, csvVars,
               readerVars
          <5>2. Have' = Have /\ Full' = Full /\ (pc' = "start_read" <=> pc = "start_read")
            BY <2>1, <5>1 DEF Have, Full
          <5> QED
            BY <2>1, <2>5, <5>1, <5>2 DEF Loaded
        <4> QED
          BY <1>8, <4>1, <4>2
      <3>2. Progress(base)'
        BY <2>1, <2>3, <3>1, SamePlace
      <3> QED
        BY <1>3, <2>1, <2>2, <3>2
    <2> QED
      BY <2>3, <2>4, <2>5 DEF Progress
  <1> QED
    BY <1>1, <1>4, <1>5, <1>6, <1>7, <1>8 DEF CSVNext, Reader, Worker

-----------------------------------------------------------------------------
(***************************************************************************)
(* What next_line() has returned.                                          *)
(***************************************************************************)
LEMMA InitLines ==
  ASSUME BlockLayout, CSVInit
  PROVE  LinesInv
  <1>1. file \in Seq(Byte) /\ Len(file) \in Nat /\ Len(BOM) \in Nat
    BY FilesOfBytes DEF CSVInit
  <1>2. (IF IsPrefix(BOM, file) THEN Len(BOM) + 1 ELSE 1) \in 1 .. Len(file) + 2
    BY <1>1 DEF IsPrefix
  <1>3. Segments \in Seq(Line)
    BY <1>1, <1>2, LinesFromType DEF Segments
  <1>4. Len(Segments) \in Nat
    BY <1>3
  <1> QED
    BY <1>3, <1>4 DEF CSVInit, LinesInv

\* A part of a sequence, as a function.
LEMMA PartAsFunction ==
  ASSUME NEW S, NEW s \in Seq(S), NEW m \in 1 .. Len(s) + 1, NEW l \in m - 1 .. Len(s),
         NEW n \in Nat, n = l - m + 1
  PROVE  /\ SubSeq(s, m, l) \in Seq(S) /\ Len(SubSeq(s, m, l)) = n
         /\ SubSeq(s, m, l) = [i \in 1 .. n |-> s[m + i - 1]]
  <1>1. PICK t \in Seq(S) : /\ t = SubSeq(s, m, l) /\ Len(t) = n
                            /\ \A i \in 1 .. n : t[i] = s[m + i - 1]
    <2>1. /\ SubSeq(s, m, l) \in Seq(S) /\ Len(SubSeq(s, m, l)) = l - m + 1
          /\ \A i \in 1 .. l - m + 1 : SubSeq(s, m, l)[i] = s[m + i - 1]
      OBVIOUS
    <2> QED
      BY <2>1, Zenon
  <1>2. t = [i \in 1 .. n |-> s[m + i - 1]]
    BY <1>1
  <1> QED
    BY <1>1, <1>2

\* The string of a line is the line of the file without its carriage return.
LEMMA StringIsLine ==
  ASSUME ControlInv, NEW base \in Nat, Loaded(base), TakeLine
  PROVE  [i \in 1 .. StringEnd - data_begin |-> buffer[data_begin + i - 1]]
           = Chomped(SubSeq(file, base + data_begin + 1, base + line_end))
  <1>1. file \in Seq(Byte) /\ Len(file) \in Nat
    BY FileFacts
  <1>2. PICK e \in Nat : e = line_end /\ e >= data_begin /\ e <= data_end
    BY LineEndInBuffer DEF ControlInv
  <1>3. data_begin \in Nat /\ data_end \in Nat /\ pc = "line"
    BY DEF ControlInv, TakeLine
  <1>4. /\ base + data_begin + 1 \in 1 .. Len(file) /\ base + e <= Len(file)
        /\ \A i \in data_begin .. e - 1 : buffer[i] = file[base + i + 1]
    BY <1>2, <1>3, LineFound
  <1>5. PICK n \in Nat : n = e - data_begin
    BY <1>2, <1>3
  <1>6. PICK m \in 1 .. Len(file) + 1, l \in Nat :
          m = base + data_begin + 1 /\ l = base + e /\ l \in m - 1 .. Len(file) /\ n = l - m + 1
    <2>1. /\ base + data_begin + 1 \in 1 .. Len(file) + 1
          /\ base + e \in (base + data_begin + 1) - 1 .. Len(file)
          /\ n = (base + e) - (base + data_begin + 1) + 1
      BY <1>1, <1>2, <1>3, <1>4, <1>5
    <2> QED
      BY <2>1
  <1>7. PICK s \in Seq(Byte) : /\ s = SubSeq(file, base + data_begin + 1, base + e) /\ Len(s) = n
                               /\ s = [i \in 1 .. n |-> buffer[data_begin + i - 1]]
    <2>1. /\ SubSeq(file, m, l) \in Seq(Byte) /\ Len(SubSeq(file, m, l)) = n
          /\ SubSeq(file, m, l) = [i \in 1 .. n |-> file[m + i - 1]]
      BY <1>1, <1>6, PartAsFunction, SMTT(20)
    <2>2. ASSUME NEW i \in 1 .. n PROVE buffer[data_begin + i - 1] = file[m + i - 1]
      <3>1. data_begin + i - 1 \in data_begin .. e - 1 /\ base + (data_begin + i - 1) + 1 = m + i - 1
        BY <1>2, <1>3, <1>5, <1>6
      <3> QED
        BY <1>4, <3>1
    <2>3. [i \in 1 .. n |-> file[m + i - 1]] = [i \in 1 .. n |-> buffer[data_begin + i - 1]]
      BY <2>2
    <2> QED
      BY <1>6, <2>1, <2>3
  <1>8. (s # << >> /\ Last(s) = "r") <=> (e # data_begin /\ buffer[e - 1] = "r")
    <2>1. s # << >> <=> n # 0
      <3>1. Len(s) = n
        BY <1>7
      <3> QED
        BY <3>1
    <2>2. n # 0 => Last(s) = buffer[e - 1]
      <3>1. n # 0 => s[n] = buffer[data_begin + n - 1] /\ data_begin + n - 1 = e - 1
        BY <1>2, <1>3, <1>5, <1>7
      <3> QED
        BY <1>7, <3>1 DEF Last
    <2> QED
      BY <1>2, <1>3, <1>5, <2>1, <2>2
  <1>9. CASE e # data_begin /\ buffer[e - 1] = "r"
    <2>1. StringEnd = e - 1 /\ StringEnd - data_begin = n - 1 /\ n - 1 \in Nat
      BY <1>2, <1>3, <1>5, <1>9 DEF StringEnd
    <2>2. Chomped(s) = SubSeq(s, 1, n - 1)
      BY <1>7, <1>8, <1>9 DEF Chomped, Front
    <2>3. SubSeq(s, 1, n - 1) = [i \in 1 .. n - 1 |-> s[i]]
      <3>1. PICK k \in Nat : k = n - 1 /\ k \in 1 - 1 .. Len(s) /\ k = k - 1 + 1 /\ 1 \in 1 .. Len(s) + 1
        BY <1>7, <2>1
      <3>2. SubSeq(s, 1, k) = [i \in 1 .. k |-> s[1 + i - 1]]
        BY <1>7, <3>1, PartAsFunction
      <3>3. \A i \in 1 .. k : 1 + i - 1 = i
        OBVIOUS
      <3> QED
        BY <3>1, <3>2, <3>3
    <2>4. \A i \in 1 .. n - 1 : s[i] = buffer[data_begin + i - 1]
      <3>1. \A i \in 1 .. n - 1 : i \in 1 .. n
        BY <2>1
      <3>2. \A i \in 1 .. n : s[i] = buffer[data_begin + i - 1]
        BY <1>7, Zenon
      <3> QED
        BY <3>1, <3>2
    <2> QED
      BY <1>2, <1>7, <2>1, <2>2, <2>3, <2>4, ZenonT(20)
  <1>10. CASE ~ (e # data_begin /\ buffer[e - 1] = "r")
    <2>1. StringEnd = e /\ StringEnd - data_begin = n
      BY <1>2, <1>5, <1>10 DEF StringEnd
    <2>2. Chomped(s) = s
      BY <1>8, <1>10 DEF Chomped
    <2> QED
      BY <1>2, <1>7, <2>1, <2>2
  <1> QED
    BY <1>9, <1>10

LEMMA StepLines == ControlInv /\ DataInv /\ LinesInv /\ [CSVNext]_csvVars => LinesInv'
  <1> SUFFICES ASSUME ControlInv, DataInv, LinesInv, [CSVNext]_csvVars PROVE LinesInv'
    OBVIOUS
  <1>1. file' = file
    BY DEF CSVNext, Reader, Worker, EndOfFile, NextLine, ShiftBlock,
       WaitForRead, RethrowError, FinishRead,
           CopyBlock, StartRead, LineTooLong, TakeLine, RequestTermination, NotifyTermination, Join,
           Destroyed, WorkerChecks, WorkerReads, WorkerThrows, SpuriousWakeUp, csvVars
  <1>2. Segments' = Segments
    BY <1>1 DEF Segments
  <1>3. Len(Segments) \in Nat /\ Len(lines) \in Nat /\ lines \in Seq(Line)
    BY DEF LinesInv
  <1>4. file \in Seq(Byte) /\ Len(file) \in Nat /\ data_begin \in Nat /\ data_end \in Nat
        /\ block_len \in Nat
    BY FileFacts DEF ControlInv
  <1>5. ASSUME lines' = lines, outcome' = outcome, outcome = "open" \/ file_line' = file_line
        PROVE  LinesInv'
    BY <1>2, <1>5 DEF LinesInv
  <1>6. CASE EndOfFile
    <2>1. /\ pc = "idle" /\ outcome = "open" /\ data_begin = data_end /\ outcome' = "eof"
          /\ lines' = lines /\ file_line' = file_line
      BY <1>6 DEF EndOfFile
    <2>2. PICK base \in Nat : Progress(base)
      BY <2>1 DEF DataInv, Reading, Ending
    <2>3. base + data_begin + 1 > Len(file)
      <3>1. CASE Drained(base)
        BY <1>4, <3>1 DEF Drained
      <3>2. CASE Loaded(base)
        <4>1. Have = data_end /\ Full = 2 * block_len /\ data_begin < 2 * block_len
          BY <2>1 DEF Have, Full, ControlInv
        <4> QED
          BY <1>4, <2>1, <3>2, <4>1 DEF Loaded
      <3> QED
        BY <2>2, <3>1, <3>2 DEF Progress
    <2>4. PICK p \in Nat : p = base + data_begin + 1 /\ p > Len(file) /\ Before(Len(lines), p)
      BY <1>4, <2>2, <2>3 DEF Progress
    <2>5. Len(Segments) = Len(lines)
      BY <1>3, <2>4, NoneOfFile
    <2> QED
      BY <1>2, <2>1, <2>5 DEF LinesInv
  <1>7. CASE LineTooLong
    <2>1. /\ pc = "line" /\ outcome = "open" /\ line_end - data_begin + 1 > block_len
          /\ outcome' = "too_long" /\ lines' = lines /\ file_line' = file_line
      BY <1>7 DEF LineTooLong, ControlInv, Ending
    <2>2. PICK base \in Nat : Loaded(base) /\ Before(Len(lines), base + data_begin + 1)
      BY <2>1 DEF DataInv, Reading, Ending, Progress, Drained
    <2>3. file_line = Len(lines) + 1
      BY <2>1 DEF DataInv, Reading, Ending, InLine
    <2>4. PICK e \in Nat : e = line_end /\ e >= data_begin
      BY LineEndInBuffer DEF ControlInv
    <2>5. PICK p \in 1 .. Len(file), l \in Nat :
            /\ p = base + data_begin + 1 /\ l = LineEnd(file, p)
            /\ l >= base + e + 1 /\ l <= Len(file) + 1
      BY <1>4, <2>1, <2>2, <2>4, LineFound
    <2>6. Len(lines) + 1 \in 1 .. Len(Segments) /\ Segments[Len(lines) + 1] = SubSeq(file, p, l - 1)
      <3>1. PICK n \in Nat : n = Len(lines) /\ Before(n, p)
        BY <1>3, <2>2, <2>5
      <3>2. /\ Segments \in Seq(Line) /\ n + 1 \in 1 .. Len(Segments)
            /\ Segments[n + 1] = SubSeq(file, p, l - 1)
        <4>1. l = LineEnd(file, p)
          BY <2>5
        <4> QED
          BY <3>1, <4>1, NextOfFile
      <3> QED
        BY <3>1, <3>2
    <2>7. Len(SubSeq(file, p, l - 1)) >= block_len
      <3>1. PICK k \in Nat, n \in Nat : k = l - 1 /\ k \in p - 1 .. Len(file) /\ n = k - p + 1 /\ n >= block_len
        <4>1. l - 1 \in Nat /\ l - 1 \in p - 1 .. Len(file) /\ l - 1 - p + 1 \in Nat /\ l - 1 - p + 1 >= block_len
          BY <1>4, <2>1, <2>4, <2>5
        <4> QED
          BY <4>1
      <3>2. Len(SubSeq(file, p, k)) = n
        BY <1>4, <3>1, PartAsFunction
      <3> QED
        BY <3>1, <3>2
    <2>8. file_line \in 1 .. Len(Segments) /\ Len(Segments[file_line]) >= block_len
      BY <2>3, <2>6, <2>7
    <2> QED
      BY <1>2, <2>1, <2>8 DEF LinesInv
  <1>8. CASE TakeLine
    <2>1. /\ pc = "line" /\ outcome = "open" /\ outcome' = outcome
          /\ line_end - data_begin + 1 <= block_len
      BY <1>8 DEF TakeLine, ControlInv, Ending
    <2>2. PICK base \in Nat : Loaded(base) /\ Before(Len(lines), base + data_begin + 1)
      BY <2>1 DEF DataInv, Reading, Ending, Progress, Drained
    <2>3. PICK e \in Nat : e = line_end
      BY <1>4, LineEndInBuffer
    <2>4. PICK p \in 1 .. Len(file), l \in Nat :
            p = base + data_begin + 1 /\ l = LineEnd(file, p) /\ l = base + e + 1
      BY <1>4, <2>1, <2>2, <2>3, LineFound
    <2>5. /\ Len(lines) + 1 \in 1 .. Len(Segments) /\ Segments[Len(lines) + 1] = SubSeq(file, p, l - 1)
          /\ Segments \in Seq(Line)
      <3>1. PICK n \in Nat : n = Len(lines) /\ Before(n, p)
        BY <1>3, <2>2, <2>4
      <3>2. /\ Segments \in Seq(Line) /\ n + 1 \in 1 .. Len(Segments)
            /\ Segments[n + 1] = SubSeq(file, p, l - 1)
        <4>1. l = LineEnd(file, p)
          BY <2>4
        <4> QED
          BY <3>1, <4>1, NextOfFile
      <3> QED
        BY <3>1, <3>2
    <2>6. PICK x \in Line : x = Segments[Len(lines) + 1]
      BY <2>5
    <2>7. lines' = Append(lines, Chomped(x))
      <3>1. l - 1 = base + e
        BY <2>4
      <3>2. [i \in 1 .. StringEnd - data_begin |-> buffer[data_begin + i - 1]] = Chomped(x)
        BY <1>8, <2>2, <2>3, <2>4, <2>5, <2>6, <3>1, StringIsLine
      <3> QED
        BY <1>8, <3>2 DEF TakeLine
    <2>8. Chomped(x) \in Line
      <3>1. x \in Seq(Byte)
        BY <2>6 DEF Line
      <3>2. ASSUME x # << >> PROVE Front(x) \in Line
        <4>1. \A i \in 1 .. Len(x) - 1 : x[i] \in Byte
          BY <3>1
        <4>2. Len(x) - 1 \in Int
          BY <3>1
        <4> QED
          BY <4>1, <4>2, SubSeqProperties DEF Front, Line
      <3> QED
        BY <2>6, <3>2 DEF Chomped
    <2>9. PICK c \in Line : c = Chomped(x)
      BY <2>8
    <2>10. /\ lines' \in Seq(Line) /\ Len(lines') = Len(lines) + 1 /\ lines'[Len(lines) + 1] = c
           /\ \A k \in 1 .. Len(lines) : lines'[k] = lines[k]
      BY <1>3, <2>7, <2>9, AppendProperties
    <2>11. ASSUME NEW k \in 1 .. Len(lines') PROVE lines'[k] = Chomped(Segments[k])
      <3>1. k = Len(lines) + 1 \/ k \in 1 .. Len(lines)
        BY <1>3, <2>10
      <3>2. CASE k = Len(lines) + 1
        BY <2>6, <2>9, <2>10, <3>2
      <3>3. CASE k \in 1 .. Len(lines)
        BY <2>10, <3>3 DEF LinesInv
      <3> QED
        BY <3>1, <3>2, <3>3
    <2>12. Len(lines') <= Len(Segments)
      BY <1>3, <2>5, <2>10
    <2> QED
      BY <1>2, <2>1, <2>5, <2>10, <2>11, <2>12 DEF LinesInv
  <1>9. CASE RethrowError
    BY <1>2, <1>9 DEF RethrowError, LinesInv
  <1>10. CASE NextLine \/ ShiftBlock
    BY <1>5, <1>10 DEF NextLine, ShiftBlock
  <1>11. CASE WaitForRead \/ FinishRead \/ CopyBlock \/ StartRead
    BY <1>5, <1>11 DEF WaitForRead, FinishRead, CopyBlock, StartRead,
       lineVars
  <1>12. CASE RequestTermination \/ NotifyTermination \/ Join \/ Destroyed \/ UNCHANGED csvVars
    BY <1>5, <1>12 DEF RequestTermination, NotifyTermination, Join,
       Destroyed, csvVars, lineVars
  <1>13. CASE WorkerChecks \/ WorkerReads \/ WorkerThrows \/ SpuriousWakeUp
    BY <1>5, <1>13 DEF WorkerChecks, WorkerReads, WorkerThrows,
       SpuriousWakeUp, lineVars
  <1> QED
    BY <1>6, <1>7, <1>8, <1>9, <1>10, <1>11, <1>12, <1>13 DEF CSVNext, Reader,
       Worker

\* next_line() returns the lines of the file, whole and in order, wherever the
\* borders of the blocks fall and however far ahead the worker reads; reading
\* ends after the last of them, or at a line that does not fit a block.
THEOREM LinesAreExact == CSVSpec => []LinesExact
  <1>1. CSVInit => ReaderInv
    BY BlockAssumption, InitControl, InitData, InitLines DEF ReaderInv
  <1>2. ReaderInv /\ [CSVNext]_csvVars => ReaderInv'
    <2>1. ReaderInv => ControlInv /\ DataInv /\ LinesInv /\ lines \in Seq(Line)
      BY DEF ReaderInv, LinesInv
    <2> QED
      BY <2>1, StepControl, StepData, StepLines DEF ReaderInv
  <1>3. ReaderInv => LinesExact
    <2> SUFFICES ASSUME ReaderInv PROVE LinesExact
      OBVIOUS
    <2> DEFINE expected == [k \in 1 .. Len(Segments) |-> Chomped(Segments[k])]
    <2>1. /\ Segments \in Seq(Line) /\ lines \in Seq(Line) /\ Len(lines) <= Len(Segments)
          /\ \A k \in 1 .. Len(lines) : lines[k] = Chomped(Segments[k])
          /\ outcome = "eof" => Len(lines) = Len(Segments)
          /\ outcome = "too_long" => Len(Segments[file_line]) >= block_len
      BY DEF ReaderInv, LinesInv
    <2>2. Len(Segments) \in Nat /\ Len(lines) \in Nat
      BY <2>1
    <2>3. Len(expected) = Len(Segments)
      BY <2>2
    <2>4. \A k \in 1 .. Len(lines) : lines[k] = expected[k]
      BY <2>1, <2>2
    <2>5. IsPrefix(lines, expected)
      <3> HIDE DEF expected
      <3>1. SubSeq(lines, 1, Len(lines)) = SubSeq(expected, 1, Len(lines))
        BY <2>1, <2>2, <2>3, <2>4
      <3> QED
        BY <2>1, <2>3, <3>1 DEF IsPrefix
    <2>6. Len(lines) = Len(Segments) => lines = expected
      <3>1. lines = [k \in 1 .. Len(lines) |-> lines[k]]
        BY <2>1
      <3> QED
        BY <2>4, <3>1
    <2> QED
      BY <2>1, <2>5, <2>6 DEF LinesExact
  <1> QED
    BY <1>1, <1>2, <1>3, PTL DEF CSVSpec
=============================================================================
