------------------------- MODULE MCStrategyManager -------------------------
(***************************************************************************)
(* StrategyManager for TLC: the exponents of the instrument's feed.        *)
(***************************************************************************)
EXTENDS StrategyManager

MCExponents == {<<-2, -8>>}
=============================================================================
