------------------------------ MODULE SBEParser ------------------------------
(***************************************************************************)
(* SBEVenueParser::parse with SBEDecoder::decode and SBEDecoder::measure   *)
(* (src/market_data/data_ingester): the cursor that goes from message to   *)
(* message of a WebSocket frame's payload, and the updates the decoder     *)
(* enqueues on its way.                                                    *)
(*                                                                         *)
(* A payload is a sequence of messages as the exchange lays them out, cut  *)
(* off after some byte: the ingester parses a fragment of a message like a *)
(* whole one.  Positions are byte offsets; what is kept of the bytes is    *)
(* the lengths and the fields the parser decides by.  An update is known   *)
(* by the offset in the payload its price was read from.                   *)
(***************************************************************************)
EXTENDS Integers, Sequences, SequencesExt

CONSTANTS Messages,      \* messages of the exchange
          MaxMessages,   \* bound: messages per payload
          KnownSymbols   \* symbols the VenueRegistry knows for the venue

VARIABLES payload,    \* the messages of the payload
          size,       \* payload.size()
          cursor,     \* parse's cursor
          parsing,    \* where parse is: next, bids, asks, done
          offset,     \* decode's offset within its message
          level,      \* the index of decode's loops
          enqueued    \* history: updates put on the queue

parseVars == <<payload, size, cursor, parsing, offset, level, enqueued>>

-----------------------------------------------------------------------------
(***************************************************************************)
(* The schemas main.cpp registers, with what decode and measure use of     *)
(* them.  All of them have one trailing string, the symbol.                *)
(***************************************************************************)
kBinanceDepthDiff ==
  [template_id |-> 10003, fixed_block_size |-> 26, num_groups |-> 2,
   group_num_encoding |-> "UINT16", skip |-> FALSE]

kBinanceDepthSnapshot ==
  [template_id |-> 10002, fixed_block_size |-> 18, num_groups |-> 2,
   group_num_encoding |-> "UINT16", skip |-> FALSE]

kBinanceBestBidAsk ==
  [template_id |-> 10001, fixed_block_size |-> 50, num_groups |-> 0,
   group_num_encoding |-> "UINT16", skip |-> TRUE]

kBinanceTrades ==
  [template_id |-> 10000, fixed_block_size |-> 18, num_groups |-> 1,
   group_num_encoding |-> "UINT32", skip |-> TRUE]

schemas_ == {kBinanceDepthDiff, kBinanceDepthSnapshot, kBinanceBestBidAsk, kBinanceTrades}

\* SchemaRegistry::lookup: no schema or one.
lookup(templateId) == {s \in schemas_ : s.template_id = templateId}

\* The messages have the layout of their schema.
MessagesLaidOut ==
  /\ Messages \subseteq [templateId : Nat, blockLength : Nat, groupHeader : {4, 6},
                         groups : Seq([blockLen : Nat, count : Nat]),
                         symbol : STRING, symLen : Nat]
  /\ \A m \in Messages : \A s \in lookup(m.templateId) :
       /\ m.blockLength = s.fixed_block_size
       /\ m.groupHeader = IF s.group_num_encoding = "UINT32" THEN 6 ELSE 4
       /\ Len(m.groups) = s.num_groups

ASSUME MessagesAssumption == MessagesLaidOut /\ MaxMessages \in Nat

-----------------------------------------------------------------------------
(***************************************************************************)
(* The exchange's layout of message m: header, fixed block, groups, each   *)
(* with a header of its own, symbol.                                       *)
(***************************************************************************)
GroupStarts(m) ==
  LET start[g \in 1 .. Len(m.groups) + 1] ==
        IF g = 1
          THEN 8 + m.blockLength
          ELSE start[g - 1] + m.groupHeader + m.groups[g - 1].blockLen * m.groups[g - 1].count
  IN  start

GroupStart(m, g) == GroupStarts(m)[g]

WireLength(m) == GroupStart(m, Len(m.groups) + 1) + 1 + m.symLen

\* Where message i of the payload starts; MessageStart(Len(payload) + 1) is the end.
MessageStarts ==
  LET start[j \in 1 .. Len(payload) + 1] ==
        IF j = 1 THEN 0 ELSE start[j - 1] + WireLength(payload[j - 1])
  IN  start

MessageStart(i) == MessageStarts[i]

MessageBoundaries == {MessageStart(i) : i \in 1 .. Len(payload) + 1}

-----------------------------------------------------------------------------
\* Any payload of whole messages, cut off anywhere.
ParseInit ==
  /\ payload \in UNION {[1 .. n -> Messages] : n \in 0 .. MaxMessages}
  /\ size \in 0 .. MessageStart(Len(payload) + 1)
  /\ cursor = 0
  /\ parsing = "next"
  /\ offset = 0
  /\ level = 0
  /\ enqueued = << >>

\* The messages that start at the cursor: one, as CursorAtBoundary shows.
Here == {payload[i] : i \in {j \in 1 .. Len(payload) : MessageStart(j) = cursor}}

\* Bytes left: the size of the span decode and measure get.
Available == size - cursor

\* Mutant of measure: the count of a group is always 16 bits wide.
measureNarrow(m, schema) ==
  LET after[g \in 0 .. schema.num_groups] ==
        IF g = 0
          THEN 8 + schema.fixed_block_size
          ELSE after[g - 1] + 4 + m.groups[g].blockLen * m.groups[g].count
      end == after[schema.num_groups]
  IN  IF end < Available THEN end + 1 + m.symLen ELSE 0

\* SBEDecoder::measure: the length of the message, 0 if it is cut off before
\* the symbol's length.
measure(m, schema) ==
  LET hdr == IF schema.group_num_encoding = "UINT32" THEN 6 ELSE 4
      after[g \in 0 .. schema.num_groups] ==
        IF g = 0
          THEN 8 + schema.fixed_block_size
          ELSE after[g - 1] + hdr + m.groups[g].blockLen * m.groups[g].count
      end == after[schema.num_groups]
  IN  IF /\ 8 <= Available
         /\ \A g \in 1 .. schema.num_groups : after[g - 1] + hdr <= Available
         /\ end < Available
        THEN end + 1 + m.symLen
        ELSE 0

BidBlock(m) == m.groups[1].blockLen
AskBlock(m) == m.groups[2].blockLen

bids_end(m, schema) == 8 + schema.fixed_block_size + 4 + BidBlock(m) * m.groups[1].count
asks_end(m, schema) == bids_end(m, schema) + 4 + AskBlock(m) * m.groups[2].count

\* Mutants of decode: the pre-scan does not look beyond the ask group, and any
\* symbol is taken.
decodeToAsks(m, schema) ==
  /\ asks_end(m, schema) <= Available
  /\ m.symbol \in KnownSymbols

decodeAnySymbol(m, schema) == asks_end(m, schema) + 1 + m.symLen <= Available

\* The pre-scan of SBEDecoder::decode: the message is all there and its symbol
\* is known.
decode(m, schema) ==
  /\ 8 <= Available
  /\ 8 + schema.fixed_block_size + 4 <= Available
  /\ bids_end(m, schema) + 4 <= Available
  /\ asks_end(m, schema) < Available
  /\ asks_end(m, schema) + 1 + m.symLen <= Available
  /\ m.symbol \in KnownSymbols

-----------------------------------------------------------------------------
(***************************************************************************)
(* parse.                                                                  *)
(***************************************************************************)
\* The loop ends: at the end of the payload, on a header that is cut off or on
\* an unknown template.
Leave ==
  /\ parsing = "next"
  /\ cursor + 4 <= size => \E m \in Here : lookup(m.templateId) = {}
  /\ parsing' = "done"
  /\ UNCHANGED <<payload, size, cursor, offset, level, enqueued>>

\* Mutant of Skip: the cursor is not advanced.
SkipStays ==
  /\ parsing = "next"
  /\ cursor + 4 <= size
  /\ \E m \in Here : \E schema \in lookup(m.templateId) : schema.skip
  /\ UNCHANGED parseVars

\* A message of a template that is only measured.
Skip ==
  /\ parsing = "next"
  /\ cursor + 4 <= size
  /\ \E m \in Here, schema \in schemas_ :
       /\ schema \in lookup(m.templateId)
       /\ schema.skip
       /\ IF measure(m, schema) = 0
            THEN parsing' = "done" /\ UNCHANGED cursor
            ELSE cursor' = cursor + measure(m, schema) /\ UNCHANGED parsing
  /\ UNCHANGED <<payload, size, offset, level, enqueued>>

\* A depth message: decode returns 0, on which parse leaves its loop, or goes on
\* to its loops.
Decode ==
  /\ parsing = "next"
  /\ cursor + 4 <= size
  /\ \E m \in Here, schema \in schemas_ :
       /\ schema \in lookup(m.templateId)
       /\ ~ schema.skip
       /\ IF decode(m, schema)
            THEN /\ parsing' = "bids"
                 /\ offset' = 8 + schema.fixed_block_size + 4
                 /\ level' = 0
            ELSE /\ parsing' = "done"
                 /\ UNCHANGED <<offset, level>>
  /\ UNCHANGED <<payload, size, cursor, enqueued>>

\* The loops' condition together with the break at their top.
MoreLevels(num, blockLen) == level < num /\ offset + blockLen <= Available

EnqueueBid ==
  /\ parsing = "bids"
  /\ \E m \in Here :
       /\ MoreLevels(m.groups[1].count, BidBlock(m))
       /\ enqueued' = Append(enqueued, [symbol |-> m.symbol, side |-> "BUY", at |-> cursor + offset])
       /\ offset' = offset + BidBlock(m)
  /\ level' = level + 1
  /\ UNCHANGED <<payload, size, cursor, parsing>>

EndBids ==
  /\ parsing = "bids"
  /\ \E m \in Here : ~ MoreLevels(m.groups[1].count, BidBlock(m))
  /\ parsing' = "asks"
  /\ offset' = offset + 4
  /\ level' = 0
  /\ UNCHANGED <<payload, size, cursor, enqueued>>

EnqueueAsk ==
  /\ parsing = "asks"
  /\ \E m \in Here :
       /\ MoreLevels(m.groups[2].count, AskBlock(m))
       /\ enqueued' = Append(enqueued, [symbol |-> m.symbol, side |-> "SELL", at |-> cursor + offset])
       /\ offset' = offset + AskBlock(m)
  /\ level' = level + 1
  /\ UNCHANGED <<payload, size, cursor, parsing>>

\* decode returns and parse advances its cursor.
EndAsks ==
  /\ parsing = "asks"
  /\ \E m \in Here, schema \in schemas_ :
       /\ schema \in lookup(m.templateId)
       /\ ~ MoreLevels(m.groups[2].count, AskBlock(m))
       /\ cursor' = cursor + asks_end(m, schema) + 1 + m.symLen
  /\ parsing' = "next"
  /\ UNCHANGED <<payload, size, offset, level, enqueued>>

ParseNext == Leave \/ Skip \/ Decode \/ EnqueueBid \/ EndBids \/ EnqueueAsk \/ EndAsks

\* parse runs to its end.
ParseSpec == ParseInit /\ [][ParseNext]_parseVars /\ WF_parseVars(ParseNext)

-----------------------------------------------------------------------------
(***************************************************************************)
(* Properties, for messages laid out as the schemas say.                   *)
(***************************************************************************)
Update == [symbol : KnownSymbols, side : {"BUY", "SELL"}, at : Nat]

\* Positions are in range, and only instruments of the registry are enqueued.
TypeOK ==
  /\ cursor \in Nat /\ offset \in Nat /\ level \in Nat
  /\ parsing \in {"next", "bids", "asks", "done"}
  /\ enqueued \in Seq(Update)

\* measure and decode return the length of the message, so that parse reads a
\* header only where a message starts; only a message that is cut off takes the
\* cursor beyond the payload.
CursorAtBoundary == cursor \in MessageBoundaries

\* Message i is all there, and so are and are known all before it.
Accepted(i) ==
  \A j \in 1 .. i :
    /\ MessageStart(j + 1) <= size
    /\ lookup(payload[j].templateId) # {}
    /\ \A s \in lookup(payload[j].templateId) : s.skip \/ payload[j].symbol \in KnownSymbols

\* The updates of message i, from the places where the exchange put them.
UpdatesOf(i) ==
  LET m == payload[i]
      from(g, side) ==
        [k \in 1 .. m.groups[g].count |->
           [symbol |-> m.symbol, side |-> side,
            at |-> MessageStart(i) + GroupStart(m, g) + m.groupHeader + (k - 1) * m.groups[g].blockLen]]
  IN  IF \A s \in lookup(m.templateId) : s.skip THEN << >> ELSE from(1, "BUY") \o from(2, "SELL")

Expected ==
  FlattenSeq([i \in 1 .. Len(payload) |-> IF Accepted(i) THEN UpdatesOf(i) ELSE << >>])

\* What parse has enqueued is what the messages up to the first one it cannot
\* use contain, in the order of the payload, bids before asks: a message is
\* taken with all its levels or not at all, wherever the payload is cut off.
WholeMessagesOnly ==
  /\ IsPrefix(enqueued, Expected)
  /\ parsing = "done" => enqueued = Expected

\* parse ends on every payload.
ParseEnds == <>(parsing = "done")
=============================================================================
