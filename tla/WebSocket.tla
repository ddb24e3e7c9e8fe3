------------------------------ MODULE WebSocket ------------------------------
(***************************************************************************)
(* WebSocket::perform_handshake and WebSocket::read_frame                  *)
(* (src/utils/net/websocket/websocket.cpp) over a TLSClient, in            *)
(* MarketDataIngester::startReceiving: frames are cut out of a byte stream *)
(* that arrives, and is received, in pieces.                               *)
(*                                                                         *)
(* Positions count bytes from the end of the handshake's response.  What   *)
(* is kept of a frame is its opcode, whether it is masked and its length.  *)
(* A frame handed to the parser is known by the position and the length of *)
(* its payload.                                                            *)
(***************************************************************************)
EXTENDS Integers, Sequences, Functions, TLSClient

CONSTANTS LEN_7BIT,         \* 125: longest payload with a length of 7 bits
          LEN_16BIT,        \* 65535: longest payload with a length of 16 bits
          MAX_FRAME_SIZE,   \* size of recv_buf
          RESPONSE_LEN,     \* bytes of the response to the handshake
          UPGRADE_END,      \* bytes of it up to the lines that are searched for
          ResponsePieces,   \* how much of it the one recv() may return
          Frames,           \* frames the server sends
          MaxFrames         \* bound: frames sent

ASSUME FramesAssumption ==
  Frames \subseteq [opcode : {"text", "binary", "close", "ping"}, masked : BOOLEAN, len : Nat]

ASSUME SizesAssumption == MAX_FRAME_SIZE \in Nat /\ RESPONSE_LEN \in Nat

\* A piece that has the lines searched for is the response, neither less, with
\* the rest left in the stream, nor more, with frames lost behind it.
ASSUME PiecesAssumption == \A n \in ResponsePieces : n >= UPGRADE_END => n = RESPONSE_LEN

VARIABLES sent,      \* frames the server has sent
          starts,    \* history: where they start, and where the next one will
          arrived,   \* bytes of them that have arrived
          open,      \* the server's end of the connection is open
          pc,        \* where the ingester is: handshake, head, ext, payload, ended
          pos,       \* bytes received
          need,      \* bytes recv_exact still waits for
          frame,     \* the frame being read, as its header says
          handed,    \* history: payloads handed to the parser
          pongs      \* history: pongs sent

serverVars == <<sent, starts, arrived, open>>
frameVars == <<pc, pos, need, frame, handed, pongs>>
vars == <<serverVars, frameVars, tlsVars>>

NoFrame == [opcode |-> "text", masked |-> FALSE, len |-> 0]

-----------------------------------------------------------------------------
(***************************************************************************)
(* The layout of a frame (RFC 6455): two bytes, the rest of the length,    *)
(* the mask, the payload.                                                  *)
(***************************************************************************)
ExtBytes(f) == IF f.len <= LEN_7BIT THEN 0 ELSE IF f.len <= LEN_16BIT THEN 2 ELSE 8

MaskBytes(f) == IF f.masked THEN 4 ELSE 0

PayloadOffset(f) == 2 + ExtBytes(f) + MaskBytes(f)

\* Where frame i starts; Start(Len(sent) + 1) is the end of what was sent.
Start(i) == starts[i]

Boundaries == {Start(i) : i \in 1 .. Len(sent) + 1}

-----------------------------------------------------------------------------
Init ==
  /\ sent = << >> /\ starts = <<0>> /\ arrived = 0 /\ open = TRUE
  /\ pc = "handshake"
  /\ pos = 0 /\ need = 0 /\ frame = NoFrame
  /\ handed = << >> /\ pongs = 0
  /\ TLSInit

(***************************************************************************)
(* The server and the network.                                             *)
(***************************************************************************)
Send(f) ==
  /\ open
  /\ pc \notin {"handshake", "ended"}
  /\ Len(sent) < MaxFrames
  /\ sent' = Append(sent, f)
  /\ starts' = Append(starts, Start(Len(sent) + 1) + PayloadOffset(f) + f.len)
  /\ UNCHANGED <<arrived, open, pc, pos, need, frame, handed, pongs, tlsVars>>

Deliver ==
  /\ open
  /\ arrived' \in arrived + 1 .. Start(Len(sent) + 1)
  /\ UNCHANGED <<sent, starts, open, pc, pos, need, frame, handed, pongs, tlsVars>>

\* What has not arrived by then is lost.
Close ==
  /\ open
  /\ open' = FALSE
  /\ UNCHANGED <<sent, starts, arrived, pc, pos, need, frame, handed, pongs, tlsVars>>

-----------------------------------------------------------------------------
(***************************************************************************)
(* The ingester.                                                           *)
(***************************************************************************)
\* read_frame() is called (again): recv_exact for the first two bytes.
NextFrame == pc' = "head" /\ need' = 2

\* startReceiving: TLSClient::connect.
Connect ==
  /\ pc = "handshake"
  /\ TLSConnect
  /\ UNCHANGED <<serverVars, frameVars>>

\* perform_handshake: one recv() has to bring the lines that are searched for.
Handshake ==
  /\ pc = "handshake"
  /\ tls = "connected"
  /\ open
  /\ \E n \in ResponsePieces : n >= UPGRADE_END /\ pos' = n - RESPONSE_LEN
  /\ NextFrame
  /\ UNCHANGED <<serverVars, frame, handed, pongs, tlsVars>>

\* No connection, no response, or less of it than is searched for.
HandshakeFails ==
  /\ pc = "handshake"
  /\ tls \in {"failed", "connected"}
  /\ pc' = "ended"
  /\ UNCHANGED <<serverVars, pos, need, frame, handed, pongs, tlsVars>>

\* main() returns.
Destroy ==
  /\ pc = "ended"
  /\ TLSDestroy
  /\ UNCHANGED <<serverVars, frameVars>>

\* One recv() of recv_exact.
Recv ==
  /\ pc \in {"head", "ext", "payload"}
  /\ \E n \in 1 .. need :
       /\ pos + n <= arrived
       /\ pos' = pos + n
       /\ need' = need - n
  /\ UNCHANGED <<serverVars, pc, frame, handed, pongs, tlsVars>>

\* recv() fails: read_frame() returns nothing and is called again.
RecvFails ==
  /\ pc \in {"head", "ext", "payload"}
  /\ need > 0
  /\ pos = arrived
  /\ ~ open
  /\ NextFrame
  /\ UNCHANGED <<serverVars, pos, frame, handed, pongs, tlsVars>>

\* What two bytes at position p say: the header of the frame that starts there,
\* anything where none starts.
HeadersAt(p) ==
  LET here == {sent[i] : i \in {j \in 1 .. Len(sent) : Start(j) = p}}
  IN  IF here = {} THEN Frames ELSE here

ReadHead ==
  /\ pc = "head"
  /\ need = 0
  /\ frame' \in HeadersAt(pos - 2)
  /\ pc' = "ext"
  /\ need' = ExtBytes(frame')
  /\ UNCHANGED <<serverVars, pos, handed, pongs, tlsVars>>

\* Mutant of CheckLength: the mask is not received.
CheckLengthNoMask ==
  /\ pc = "ext"
  /\ need = 0
  /\ IF frame.len > MAX_FRAME_SIZE
       THEN NextFrame
       ELSE pc' = "payload" /\ need' = frame.len
  /\ UNCHANGED <<serverVars, pos, frame, handed, pongs, tlsVars>>

\* A length beyond MAX_FRAME_SIZE is refused, with the payload still to come;
\* else the mask and the payload are received.
CheckLength ==
  /\ pc = "ext"
  /\ need = 0
  /\ IF frame.len > MAX_FRAME_SIZE
       THEN NextFrame
       ELSE pc' = "payload" /\ need' = MaskBytes(frame) + frame.len
  /\ UNCHANGED <<serverVars, pos, frame, handed, pongs, tlsVars>>

\* A pong, unless the ping is too long for a control frame.
send_control_frame(f) == pongs' = IF f.len <= LEN_7BIT THEN pongs + 1 ELSE pongs

Payload == [at |-> pos - frame.len, len |-> frame.len]

\* Mutants of EndFrame: a ping ends the connection's loop, goes to the parser,
\* or is not answered.
EndFramePingEnds ==
  /\ pc = "payload"
  /\ need = 0
  /\ IF frame.opcode = "ping" THEN send_control_frame(frame) ELSE UNCHANGED pongs
  /\ handed' = IF frame.opcode = "binary" THEN Append(handed, Payload) ELSE handed
  /\ IF frame.opcode = "ping" THEN pc' = "ended" /\ UNCHANGED need ELSE NextFrame
  /\ UNCHANGED <<serverVars, pos, frame, tlsVars>>

EndFrameHandsAll ==
  /\ pc = "payload"
  /\ need = 0
  /\ IF frame.opcode = "ping" THEN send_control_frame(frame) ELSE UNCHANGED pongs
  /\ handed' = Append(handed, Payload)
  /\ NextFrame
  /\ UNCHANGED <<serverVars, pos, frame, tlsVars>>

EndFrameNoPong ==
  /\ pc = "payload"
  /\ need = 0
  /\ handed' = IF frame.opcode = "binary" THEN Append(handed, Payload) ELSE handed
  /\ NextFrame
  /\ UNCHANGED <<serverVars, pos, frame, pongs, tlsVars>>

\* A ping is answered, a binary frame goes to the parser, other frames are
\* ignored; then the next frame.
EndFrame ==
  /\ pc = "payload"
  /\ need = 0
  /\ IF frame.opcode = "ping" THEN send_control_frame(frame) ELSE UNCHANGED pongs
  /\ handed' = IF frame.opcode = "binary" THEN Append(handed, Payload) ELSE handed
  /\ NextFrame
  /\ UNCHANGED <<serverVars, pos, frame, tlsVars>>

Server == Deliver \/ Close \/ \E f \in Frames : Send(f)

ReadFrame == Recv \/ RecvFails \/ ReadHead \/ CheckLength \/ EndFrame

Next == Server \/ Connect \/ Handshake \/ HandshakeFails \/ ReadFrame \/ Destroy

\* The ingester thread is scheduled; server and network owe nothing.
Spec == Init /\ [][Next]_vars /\ WF_vars(ReadFrame)

-----------------------------------------------------------------------------
(***************************************************************************)
(* Properties, for frames no longer than MAX_FRAME_SIZE.                   *)
(***************************************************************************)
\* As long as the connection is open, read_frame() reads a header where the
\* server put one, however the bytes arrive.
HeadAtBoundary == open /\ pc = "head" => pos + need - 2 \in Boundaries

\* The payload of frame i, where the server put it.
PayloadOf(i) == [at |-> Start(i) + PayloadOffset(sent[i]), len |-> sent[i].len]

\* The payloads of the binary frames among the first n.
BinaryPayloads(n) == {PayloadOf(i) : i \in {j \in 1 .. n : sent[j].opcode = "binary"}}

\* The parser gets the payloads of the first binary frames, each once, whole and
\* in the order in which they were sent, and nothing else, before and after the
\* connection is lost.
HandedInOrder ==
  /\ \A k, l \in 1 .. Len(handed) : k < l => handed[k].at < handed[l].at
  /\ \E n \in 0 .. Len(sent) : Range(handed) = BinaryPayloads(n)

\* The frames whose last byte is before position p.
Before(p) == {i \in 1 .. Len(sent) : Start(i + 1) <= p}

\* Between two frames every ping received so far has been answered once.
PingsAnswered ==
  pc = "head" /\ need = 2 =>
    pongs = Cardinality({i \in Before(pos) : sent[i].opcode = "ping" /\ sent[i].len <= LEN_7BIT})

\* A binary frame of which all bytes have arrived is handed to the parser, even
\* if the connection is lost meanwhile.
ArrivedIsHanded ==
  \A n \in 1 .. MaxFrames :
    Cardinality({i \in Before(arrived) : sent[i].opcode = "binary"}) >= n ~> Len(handed) >= n
=============================================================================
