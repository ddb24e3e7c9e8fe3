------------------------------ MODULE Startup ------------------------------
(***************************************************************************)
(* main() up to the launch of its threads and what it sets up for them:    *)
(* StreamConfig::loadCSV reads the rows of exchanges_data.csv through      *)
(* io::CSVReader, VenueRegistry gives the instruments their ids,           *)
(* OrderBookManager a book each, and the strategies keep references to     *)
(* their books.  Then updates of the subscribed streams are routed by id   *)
(* (OrderBookManager::passUpdateToOrderbook) and their latency recorded.   *)
(*                                                                         *)
(* A line of the file is a sequence of cells, a cell the text between two  *)
(* commas without the blanks around it.  One histogram stands for the four *)
(* of OrderBookManager.                                                    *)
(***************************************************************************)
EXTENDS Integers, Sequences, SequencesExt, LatencyHistogram

CONSTANTS Headers, DataLines,   \* lines the file may have
          Lower,                \* what ::tolower makes of a stream
          SymbolOf,             \* external: the symbol a venue's stream is about
          Traded,               \* instruments main() has strategies for, in order
          IDX,                  \* 2^16: venue and symbol index have this range
          Latencies,            \* cycles an update may take
          kReportInterval,
          MaxRows, MaxUpdates   \* bounds

ASSUME SizeAssumption ==
  /\ IDX \in Nat /\ MaxRows \in Nat /\ MaxRows <= IDX
  /\ Headers \subseteq Seq(STRING)
  /\ Latencies \subseteq 0 .. Pow2[NumBuckets] - 1

Columns == {"exchange", "symbol", "stream"}

VARIABLES phase,          \* what main() does next
          header, data,   \* history: the lines read
          rows_,          \* StreamConfig
          registry,       \* VenueRegistry
          obm,            \* OrderBookManager: its books and their index
          refs,           \* references to books the strategies hold
          hist, update_count_, reported,   \* OrderBookManager: latencies
          samples         \* history: how often each latency was recorded

configVars == <<header, data, rows_>>
latencyVars == <<hist, update_count_, reported, samples>>
vars == <<phase, configVars, registry, obm, refs, latencyVars>>

EmptyRegistry == [venue_ids |-> << >>, next_symbol_idx |-> << >>, instrument_map |-> << >>]
EmptyObm == [order_books |-> << >>, id_to_index |-> << >>, capacity |-> 0, moved |-> 0]

Init ==
  /\ phase = "header"
  /\ header = << >> /\ data = << >> /\ rows_ = << >>
  /\ registry = EmptyRegistry
  /\ obm = EmptyObm
  /\ refs = << >>
  /\ hist = EmptyHistogram /\ update_count_ = 0 /\ reported = << >>
  /\ samples = [l \in Latencies |-> 0]

\* f with x mapped to y, whether x was in its domain or not.
Extended(f, x, y) == [z \in DOMAIN f \cup {x} |-> IF z = x THEN y ELSE f[z]]

-----------------------------------------------------------------------------
(***************************************************************************)
(* StreamConfig::loadCSV.  An exception is not caught and ends main().     *)
(***************************************************************************)
Abort == phase' = "aborted" /\ UNCHANGED <<registry, obm, refs, latencyVars>>

\* parse_header_line accepts every order of the columns and columns beside them.
HeaderAccepted(line) ==
  \A c \in Columns : Cardinality({i \in 1 .. Len(line) : line[i] = c}) = 1

\* parse_header_line: the column of the row each cell belongs to, "" for none.
col_order(line) == [i \in 1 .. Len(line) |-> IF line[i] \in Columns THEN line[i] ELSE ""]

ReadHeader(line) ==
  /\ phase = "header"
  /\ HeaderAccepted(line)
  /\ header' = line
  /\ phase' = "rows"
  /\ UNCHANGED <<data, rows_, registry, obm, refs, latencyVars>>

\* A duplicated or a missing column, or an empty file.
HeaderThrows ==
  /\ phase = "header"
  /\ \E line \in Headers \cup {<< >>} : ~ HeaderAccepted(line)
  /\ Abort
  /\ UNCHANGED configVars

\* Mutant of parse_line: cells are taken by position.
parse_line_by_position(line) ==
  [exchange |-> line[1], symbol |-> line[2], stream |-> Lower[line[3]]]

\* parse_line and the row loadCSV makes of it.
parse_line(line) ==
  LET order == col_order(header)
      cell(c) == line[CHOOSE i \in 1 .. Len(order) : order[i] = c]
  IN  [exchange |-> cell("exchange"), symbol |-> cell("symbol"), stream |-> Lower[cell("stream")]]

ReadRow(line) ==
  /\ phase = "rows"
  /\ Len(rows_) < MaxRows
  /\ Len(line) = Len(header)
  /\ data' = Append(data, line)
  /\ rows_' = Append(rows_, parse_line(line))
  /\ UNCHANGED <<phase, header, registry, obm, refs, latencyVars>>

\* Too few or too many columns; a blank line has one.
RowThrows ==
  /\ phase = "rows"
  /\ \E line \in DataLines : Len(line) # Len(header)
  /\ Abort
  /\ UNCHANGED configVars

EndOfRows ==
  /\ phase = "rows"
  /\ phase' = IF rows_ = << >> THEN "aborted" ELSE "registry"
  /\ UNCHANGED <<configVars, registry, obm, refs, latencyVars>>

-----------------------------------------------------------------------------
(***************************************************************************)
(* VenueRegistry.                                                          *)
(***************************************************************************)
\* The key exchange:symbol, as a pair: no exchange has a colon in its name.
Instrument(row) == <<row.exchange, row.symbol>>

pack(vid, sid) == vid * IDX + sid

get_or_add_venue(reg, exchange) ==
  IF exchange \in DOMAIN reg.venue_ids THEN reg
  ELSE LET vid == Cardinality(DOMAIN reg.venue_ids) % IDX
       IN  [reg EXCEPT !.venue_ids = Extended(@, exchange, vid),
                       !.next_symbol_idx = Extended(@, vid, 0)]

\* One row of the constructor; a second row of an instrument gives it a new id.
AddRow(reg, row) ==
  LET r == get_or_add_venue(reg, row.exchange)
      vid == r.venue_ids[row.exchange]
  IN  [r EXCEPT !.next_symbol_idx[vid] = (@ + 1) % IDX,
                !.instrument_map = Extended(@, Instrument(row), pack(vid, r.next_symbol_idx[vid]))]

\* The registry after each of the rows.
RegistryAfter ==
  LET after[k \in 0 .. Len(rows_)] ==
        IF k = 0 THEN EmptyRegistry ELSE AddRow(after[k - 1], rows_[k])
  IN  after

BuildRegistry ==
  /\ phase = "registry"
  /\ registry' = RegistryAfter[Len(rows_)]
  /\ phase' = "check"
  /\ UNCHANGED <<configVars, obm, refs, latencyVars>>

Known(instrument) == instrument \in DOMAIN registry.instrument_map

lookup(instrument) == registry.instrument_map[instrument]

-----------------------------------------------------------------------------
(***************************************************************************)
(* main(): the ids are checked, the books made, the strategies attached.   *)
(***************************************************************************)
\* The assertions of a build that has them: the first ids, in order.
CheckIds ==
  /\ phase = "check"
  /\ \E asserted \in BOOLEAN :
       phase' = IF asserted => \A i \in 1 .. Len(Traded) : Known(Traded[i]) /\ lookup(Traded[i]) = i - 1
                THEN "register" ELSE "aborted"
  /\ UNCHANGED <<configVars, registry, obm, refs, latencyVars>>

\* emplace_back moves the books when their capacity is used up.
Grown(o) ==
  IF Len(o.order_books) < o.capacity THEN o
  ELSE [o EXCEPT !.capacity = 2 * @, !.moved = @ + 1]

\* A book is known by the instrument it was made for and the instruments whose
\* updates it got.
register_instrument(o, row) ==
  [Grown(o) EXCEPT
     !.id_to_index = Extended(@, lookup(Instrument(row)), (Len(o.order_books) % IDX) + 1),
     !.order_books = Append(@, [owner |-> Instrument(row), applied |-> {}])]

\* The books after each of the rows, once room is reserved for every instrument.
ObmAfter ==
  LET after[k \in 0 .. Len(rows_)] ==
        IF k = 0
          THEN [EmptyObm EXCEPT !.capacity = Cardinality(DOMAIN registry.instrument_map)]
          ELSE register_instrument(after[k - 1], rows_[k])
  IN  after

RegisterInstruments ==
  /\ phase = "register"
  /\ obm' = ObmAfter[Len(rows_)]
  /\ phase' = "attach"
  /\ UNCHANGED <<configVars, registry, refs, latencyVars>>

\* Mutant of book_for: the reference is taken before all books are made.
book_for_early(instrument) == [index |-> obm.id_to_index[lookup(instrument)], moved |-> 0]

\* A reference holds as long as the books are not moved.
book_for(instrument) == [index |-> obm.id_to_index[lookup(instrument)], moved |-> obm.moved]

\* lookup() throws for an instrument that is not in the file.
AttachStrategies ==
  /\ phase = "attach"
  /\ IF \A i \in 1 .. Len(Traded) : Known(Traded[i])
       THEN /\ refs' = [i \in 1 .. Len(Traded) |-> book_for(Traded[i])]
            /\ phase' = "running"
       ELSE /\ phase' = "aborted"
            /\ UNCHANGED refs
  /\ UNCHANGED <<configVars, registry, obm, latencyVars>>

\* buildBinanceURL: the streams that are subscribed to.
Subscribed == {rows_[i].stream : i \in {j \in 1 .. Len(rows_) : rows_[j].exchange = "BINANCE"}}

-----------------------------------------------------------------------------
(***************************************************************************)
(* The threads are running.                                                *)
(***************************************************************************)
\* Mutant of PassToBook: the venue's part of the id is left out.
PassToBookBySymbol(id, instrument, cycles) ==
  /\ obm' = [obm EXCEPT !.order_books[obm.id_to_index[id % IDX]].applied = @ \cup {instrument}]
  /\ hist' = record(hist, cycles)
  /\ samples' = [samples EXCEPT ![cycles] = @ + 1]

\* passUpdateToOrderbook; an id that is not registered changes nothing.
PassToBook(id, instrument, cycles) ==
  IF id \in DOMAIN obm.id_to_index
    THEN /\ obm' = [obm EXCEPT !.order_books[obm.id_to_index[id]].applied = @ \cup {instrument}]
         /\ hist' = record(hist, cycles)
         /\ samples' = [samples EXCEPT ![cycles] = @ + 1]
    ELSE UNCHANGED <<obm, hist, samples>>

\* A message of a subscribed stream: the decoder drops it unless the registry
\* knows its instrument, run() passes it on and reports from time to time.
PassUpdate(stream, cycles) ==
  LET instrument == <<"BINANCE", SymbolOf[stream]>>
  IN  /\ phase = "running"
      /\ update_count_ < MaxUpdates
      /\ Known(instrument)
      /\ PassToBook(lookup(instrument), instrument, cycles)
      /\ update_count_' = update_count_ + 1
      /\ reported' = IF update_count_' % kReportInterval = 0 THEN report(hist') ELSE reported
      /\ UNCHANGED <<phase, configVars, registry, refs>>

\* main() has ended, or the bound on updates is reached.
Finished == /\ phase \in {"aborted", "running"}
            /\ UNCHANGED vars

Next ==
  \/ \E line \in Headers : ReadHeader(line)
  \/ HeaderThrows
  \/ \E line \in DataLines : ReadRow(line)
  \/ RowThrows \/ EndOfRows
  \/ BuildRegistry \/ CheckIds \/ RegisterInstruments \/ AttachStrategies
  \/ \E stream \in Subscribed, cycles \in Latencies : PassUpdate(stream, cycles)
  \/ Finished

Spec == Init /\ [][Next]_vars

-----------------------------------------------------------------------------
(***************************************************************************)
(* Properties.                                                             *)
(***************************************************************************)
\* Cell of a data line under the column that the header calls c.
CellOf(line, c) == line[CHOOSE i \in 1 .. Len(header) : header[i] = c]

\* From the file to the books: once the books are made the instruments
\* that can be looked up are those of the lines of the file, whatever the order
\* of its columns, and each one has a book that was made for it, even if it has
\* several lines or shares its symbol with another venue.
InstrumentsOfFile ==
  phase \in {"attach", "running"} =>
    /\ DOMAIN registry.instrument_map =
         {<<CellOf(data[k], "exchange"), CellOf(data[k], "symbol")>> : k \in 1 .. Len(data)}
    /\ \A i \in DOMAIN registry.instrument_map :
         /\ lookup(i) \in DOMAIN obm.id_to_index
         /\ obm.order_books[obm.id_to_index[lookup(i)]].owner = i

\* A book gets updates of the instrument it was made for and of no other.
BooksApart ==
  \A k \in 1 .. Len(obm.order_books) :
    obm.order_books[k].applied \subseteq {obm.order_books[k].owner}

\* The comment on book_for: "Returns a stable reference".  The book a strategy
\* reads is the one that gets its instrument's updates, although the vector of
\* books may have been moved while they were registered.
StrategiesSeeTheirBook ==
  phase = "running" =>
    \A i \in 1 .. Len(Traded) :
      /\ refs[i].moved = obm.moved
      /\ refs[i].index = obm.id_to_index[lookup(Traded[i])]

\* How many samples are at most l cycles.
SamplesUpTo ==
  LET count(l) == IF l \in Latencies THEN samples[l] ELSE 0
      upto[l \in 0 .. Pow2[NumBuckets] - 1] ==
        IF l = 0 THEN count(0) ELSE upto[l - 1] + count(l)
  IN  upto

\* The latency below which a share of pct of the samples lies, exactly.
ExactPercentile(pct) ==
  Min({l \in Latencies : SamplesUpTo[l] >= Threshold(update_count_, pct)})

\* A reported percentile is at most the exact one, and less than a factor of two
\* below it; a latency of zero counts as one cycle.
PercentilesBracketed ==
  update_count_ > 0 /\ update_count_ % kReportInterval = 0 =>
    \A pct \in Percentiles :
      LET exact == IF ExactPercentile(pct) = 0 THEN 1 ELSE ExactPercentile(pct)
      IN  reported[pct] <= exact /\ exact < 2 * reported[pct]
=============================================================================
