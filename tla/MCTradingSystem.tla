-------------------------- MODULE MCTradingSystem --------------------------
(***************************************************************************)
(* TradingSystem for TLC: what frames decode to.                           *)
(***************************************************************************)
EXTENDS TradingSystem

CONSTANTS btc, eth

\* A frame without updates, one update, and two updates of two instruments.
MCFrames == {<< >>, <<btc>>, <<eth, btc>>}
=============================================================================
