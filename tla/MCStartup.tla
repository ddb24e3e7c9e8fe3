----------------------------- MODULE MCStartup -----------------------------
(***************************************************************************)
(* Startup for TLC: the lines of the file.                                 *)
(***************************************************************************)
EXTENDS Startup

\* Two headers that are accepted, one with a column missing, one with a column
\* twice.
MCHeaders ==
  {<<"exchange", "symbol", "stream">>, <<"note", "stream", "symbol", "exchange">>,
   <<"exchange", "symbol">>, <<"exchange", "symbol", "symbol", "stream">>}

\* Lines for both, one of a symbol that two venues have, and a blank line.
MCDataLines ==
  {<<"BINANCE", "BTC", "btc@depth">>, <<"BINANCE", "ETH", "ETH@depth">>,
   <<"KRAKEN", "BTC", "btc@depth">>,
   <<"", "btc@depth", "BTC", "BINANCE">>, <<"", "eth@depth", "ETH", "BINANCE">>,
   <<"">>}

MCLower == [s \in UNION {Range(line) : line \in MCDataLines} |->
              IF s = "ETH@depth" THEN "eth@depth" ELSE s]

MCSymbolOf == [s \in {"btc@depth", "eth@depth"} |-> IF s = "btc@depth" THEN "BTC" ELSE "ETH"]

MCTraded == <<<<"BINANCE", "BTC">>, <<"BINANCE", "ETH">>>>
=============================================================================
