----------------------------- MODULE MCWebSocket -----------------------------
(***************************************************************************)
(* WebSocket for TLC: the frames of the server.                            *)
(***************************************************************************)
EXTENDS WebSocket

\* A ping, data frames with both forms of the length the buffer admits, one
\* masked, one without payload.
MCFrames ==
  {[opcode |-> "ping", masked |-> FALSE, len |-> 1],
   [opcode |-> "binary", masked |-> FALSE, len |-> 0],
   [opcode |-> "binary", masked |-> TRUE, len |-> 1],
   [opcode |-> "binary", masked |-> FALSE, len |-> 3],
   [opcode |-> "close", masked |-> FALSE, len |-> 0]}
=============================================================================
