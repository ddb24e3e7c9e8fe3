----------------------------- MODULE MCSBEParser -----------------------------
(***************************************************************************)
(* SBEParser for TLC: messages as the exchange's schema lays them out.     *)
(***************************************************************************)
EXTENDS SBEParser

Group(blockLen, count) == [blockLen |-> blockLen, count |-> count]

Message(templateId, blockLength, groupHeader, groups, symbol) ==
  [templateId |-> templateId, blockLength |-> blockLength, groupHeader |-> groupHeader,
   groups |-> groups, symbol |-> symbol, symLen |-> 3]

DepthDiff(symbol, b, a) ==
  Message(10003, 26, 4, <<Group(16, b), Group(16, a)>>, symbol)

DepthSnapshot(symbol, b, a) ==
  Message(10002, 18, 4, <<Group(16, b), Group(16, a)>>, symbol)

BestBidAsk(symbol) == Message(10001, 50, 4, << >>, symbol)

Trades(symbol, n) == Message(10000, 18, 6, <<Group(25, n)>>, symbol)

\* Depth messages with and without levels, of a known and of an unknown symbol,
\* one message of each template that is skipped, one of a template unknown.
MCMessages ==
  {DepthDiff("btc", 2, 1), DepthSnapshot("eth", 0, 2), DepthDiff("xyz", 1, 1),
   BestBidAsk("btc"), Trades("xyz", 2), Message(10004, 20, 4, << >>, "btc")}
=============================================================================
