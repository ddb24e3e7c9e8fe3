--------------------------- MODULE IngesterProofs ---------------------------
(***************************************************************************)
(* Proofs about what MarketDataIngester receives with: WebSocket and its   *)
(* TLSClient, for any frames and bounds, and SBEParser, which gets the     *)
(* payloads, for all messages that are laid out as the schemas say and     *)
(* however a payload is cut off.                                           *)
(***************************************************************************)
EXTENDS WebSocket, SBEParser, ModArith, SequenceTheorems, FiniteSetTheorems

\* What is held and which members are set after each step of connect().
StepHolds ==
  \/ tls = "new" /\ held = {} /\ members = {}
  \/ tls = "resolved" /\ held = {"addrinfo"} /\ members = {}
  \/ tls = "socket" /\ held = {"addrinfo", "socket_fd"} /\ members = {"socket_fd"}
  \/ tls = "tcp" /\ held = members /\ members = {"socket_fd"}
  \/ tls = "ctx" /\ held = members /\ members = {"socket_fd", "ssl_ctx"}
  \/ tls = "ssl" /\ held = members
  \/ tls \in {"connected", "failed"} /\ held = members
  \/ tls = "destroyed" /\ held = {}

TLSInv == ~ twice /\ StepHolds

LEMMA ConnectKeeps ==
  ASSUME TLSInv, TLSConnect
  PROVE  TLSInv'
  <1> USE DEF TLSInv, StepHolds, Acquire, Release, Keep
  <1>1. CASE Resolve \/ ResolveFails
    BY <1>1 DEF Resolve, ResolveFails
  <1>2. CASE Socket
    <2>1. held = {"addrinfo"} /\ members = {}
      BY <1>2 DEF Socket
    <2>2. held' = {"addrinfo", "socket_fd"} /\ members' = {"socket_fd"}
      BY <1>2, <2>1 DEF Socket
    <2> QED
      BY <1>2, <2>2 DEF Socket
  <1>3. CASE SocketFails
    BY <1>3 DEF SocketFails
  <1>4. CASE TcpConnect
    BY <1>4 DEF TcpConnect
  <1>5. CASE TcpConnectFails
    BY <1>5 DEF TcpConnectFails
  <1>6. CASE CreateSsl
    BY <1>6 DEF CreateSsl
  <1>7. CASE SslFails \/ TlsHandshake
    BY <1>7 DEF SslFails, TlsHandshake
  <1> QED
    BY <1>1, <1>2, <1>3, <1>4, <1>5, <1>6, <1>7 DEF TLSConnect

LEMMA DestroyKeeps ==
  ASSUME TLSInv, TLSDestroy
  PROVE  TLSInv'
  BY DEF TLSInv, StepHolds, TLSDestroy, Release

\* Whichever step of connect() fails and whenever the ingester gives up, the
\* address list, the socket and the TLS objects are released, each once.
THEOREM TLSResourcesReleased == Spec => []ResourcesReleased
  <1>1. Init => TLSInv
    BY DEF Init, TLSInit, TLSInv, StepHolds
  <1>2. TLSInv /\ [Next]_vars => TLSInv'
    <2> SUFFICES ASSUME TLSInv, [Next]_vars PROVE TLSInv'
      OBVIOUS
    <2>1. CASE Connect
      BY <2>1, ConnectKeeps DEF Connect
    <2>2. CASE Destroy
      BY <2>2, DestroyKeeps DEF Destroy
    <2>3. CASE UNCHANGED tlsVars
      BY <2>3 DEF tlsVars, TLSInv, StepHolds
    <2>4. Server \/ Handshake \/ HandshakeFails \/ ReadFrame \/ UNCHANGED vars => UNCHANGED tlsVars
      BY DEF Server, Deliver, Close, Send, Handshake, HandshakeFails, ReadFrame, Recv,
             RecvFails, ReadHead, CheckLength, EndFrame, vars
    <2> QED
      BY <2>1, <2>2, <2>3, <2>4 DEF Next
  <1>3. TLSInv => ResourcesReleased
    BY DEF TLSInv, StepHolds, ResourcesReleased
  <1> QED
    BY <1>1, <1>2, <1>3, PTL DEF Spec

-----------------------------------------------------------------------------
(***************************************************************************)
(* The frames.                                                             *)
(***************************************************************************)
\* The server's frames follow each other in the stream, and no byte is received
\* that has not arrived.
StreamInv ==
  /\ sent \in Seq(Frames)
  /\ starts \in Seq(Nat) /\ Len(starts) = Len(sent) + 1
  /\ starts[1] = 0
  /\ \A i \in 1 .. Len(sent) : starts[i + 1] = starts[i] + PayloadOffset(sent[i]) + sent[i].len
  /\ \A i, j \in 1 .. Len(sent) + 1 : i < j => starts[i] + 2 <= starts[j]
  /\ arrived \in Nat /\ arrived <= starts[Len(sent) + 1]
  /\ open \in BOOLEAN
  /\ pos \in Nat /\ pos <= arrived
  /\ need \in Nat
  /\ pc \in {"handshake", "head", "ext", "payload", "ended"}
  /\ pc \in {"handshake", "ended"} => sent = << >> /\ pos = 0

IsShortPing(j) == sent[j].opcode = "ping" /\ sent[j].len <= LEN_7BIT

\* Frame i is the one being read: where read_frame() is in it ...
Reading(i) ==
  /\ starts[i] <= pos
  /\ \/ pc \in {"handshake", "ended"} /\ i = 1
     \/ pc = "head" /\ need <= 2 /\ pos + need = starts[i] + 2
     \/ /\ pc = "ext" /\ i <= Len(sent) /\ frame = sent[i]
        /\ pos + need = starts[i] + 2 + ExtBytes(sent[i])
     \/ /\ pc = "payload" /\ i <= Len(sent) /\ frame = sent[i]
        /\ pos + need = starts[i + 1]

\* ... or that it never will be read, as the connection was lost within it ...
Lost(i) ==
  /\ ~ open /\ pc = "head" /\ need = 2 /\ pos = arrived
  /\ starts[i] <= pos
  /\ i <= Len(sent) => pos < starts[i + 1]

\* ... and what has become of the frames before it.
Done(i) ==
  /\ pongs = Cardinality({j \in 1 .. i - 1 : IsShortPing(j)})
  /\ handed \in Seq([at : Nat, len : Nat])
  /\ Range(handed) = BinaryPayloads(i - 1)
  /\ \A k \in 1 .. Len(handed) : handed[k].at <= starts[i]
  /\ \A k, l \in 1 .. Len(handed) : k < l => handed[k].at < handed[l].at

FrameInv == StreamInv /\ \E i \in 1 .. Len(sent) + 1 : (Reading(i) \/ Lost(i)) /\ Done(i)

LEMMA FrameFacts ==
  ASSUME StreamInv, NEW i \in 1 .. Len(sent)
  PROVE  /\ Len(sent) \in Nat
         /\ sent[i] \in Frames /\ sent[i].len \in Nat
         /\ ExtBytes(sent[i]) \in Nat /\ MaskBytes(sent[i]) \in Nat
         /\ starts[i] \in Nat /\ starts[i + 1] \in Nat
         /\ starts[i + 1] = starts[i] + 2 + ExtBytes(sent[i]) + MaskBytes(sent[i]) + sent[i].len
  <1>1. Len(sent) \in Nat /\ sent[i] \in Frames
    BY DEF StreamInv
  <1>2. sent[i].len \in Nat /\ ExtBytes(sent[i]) \in Nat /\ MaskBytes(sent[i]) \in Nat
    BY <1>1, FramesAssumption DEF ExtBytes, MaskBytes
  <1>3. starts[i] \in Nat /\ starts[i + 1] \in Nat
    BY <1>1 DEF StreamInv
  <1>4. starts[i + 1] = starts[i] + PayloadOffset(sent[i]) + sent[i].len
    BY DEF StreamInv
  <1> QED
    BY <1>1, <1>2, <1>3, <1>4 DEF PayloadOffset

LEMMA StreamTypes ==
  ASSUME StreamInv
  PROVE  /\ Len(sent) \in Nat
         /\ \A i \in 1 .. Len(sent) + 1 : starts[i] \in Nat
         /\ pos \in Nat /\ need \in Nat /\ arrived \in Nat
  BY DEF StreamInv

LEMMA StartsOrdered ==
  ASSUME StreamInv, NEW i \in 1 .. Len(sent) + 1, NEW j \in 1 .. Len(sent) + 1
  PROVE  /\ i < j => starts[i] + 2 <= starts[j]
         /\ i <= j => starts[i] <= starts[j]
  <1>1. Len(sent) \in Nat /\ starts[i] \in Nat /\ starts[j] \in Nat
    BY StreamTypes
  <1>2. i < j => starts[i] + 2 <= starts[j]
    BY DEF StreamInv
  <1>3. i \in Int /\ j \in Int
    BY <1>1
  <1> QED
    BY <1>1, <1>2, <1>3

\* A step of the ingester or of the network that leaves the frames sent, the
\* handed payloads and the pongs alone.
LEMMA DoneUntouched ==
  ASSUME NEW i, Done(i), UNCHANGED <<sent, starts, handed, pongs>>
  PROVE  Done(i)'
  BY DEF Done, IsShortPing, BinaryPayloads, PayloadOf, Start

LEMMA PayloadAt ==
  ASSUME NEW h \in Seq([at : Nat, len : Nat])
  PROVE  Len(h) \in Nat /\ DOMAIN h = 1 .. Len(h) /\ \A k \in 1 .. Len(h) : h[k].at \in Nat
  <1>1. Len(h) \in Nat /\ DOMAIN h = 1 .. Len(h)
    BY LenProperties
  <1>2. ASSUME NEW k \in 1 .. Len(h) PROVE h[k].at \in Nat
    <2>1. h[k] \in [at : Nat, len : Nat]
      BY ElementOfSeq
    <2> QED
      BY <2>1
  <1> QED
    BY <1>1, <1>2

LEMMA SendKeeps ==
  ASSUME FrameInv, NEW f \in Frames, Send(f)
  PROVE  FrameInv'
  <1> DEFINE n == Len(sent)
             end == starts[n + 1] + PayloadOffset(f) + f.len
  <1>1. /\ open /\ pc \notin {"handshake", "ended"}
        /\ sent' = Append(sent, f) /\ starts' = Append(starts, end)
        /\ UNCHANGED <<arrived, open, pc, pos, need, frame, handed, pongs>>
    BY DEF Send, Start
  <1>2. StreamInv
    BY DEF FrameInv
  <1>3. /\ n \in Nat /\ starts[n + 1] \in Nat
        /\ sent \in Seq(Frames) /\ starts \in Seq(Nat) /\ Len(starts) = n + 1
    BY <1>2, StreamTypes DEF StreamInv
  <1>4. PayloadOffset(f) \in Nat /\ PayloadOffset(f) >= 2 /\ f.len \in Nat
    BY FramesAssumption DEF PayloadOffset, ExtBytes, MaskBytes
  <1>5. end \in Nat /\ starts[n + 1] + 2 <= end
    BY <1>3, <1>4
  <1> HIDE DEF n, end
  <1>6. /\ sent' \in Seq(Frames) /\ Len(sent') = n + 1
        /\ \A i \in 1 .. n : sent'[i] = sent[i]
        /\ sent'[n + 1] = f
    BY <1>1, <1>3, AppendProperties DEF n
  <1>7. /\ starts' \in Seq(Nat) /\ Len(starts') = n + 2
        /\ \A i \in 1 .. n + 1 : starts'[i] = starts[i]
        /\ starts'[n + 2] = end
    BY <1>1, <1>3, <1>5, AppendProperties
  <1>8. StreamInv'
    <2>1. \A i \in 1 .. n + 1 :
            starts'[i + 1] = starts'[i] + PayloadOffset(sent'[i]) + sent'[i].len
      <3> TAKE i \in 1 .. n + 1
      <3>1. CASE i = n + 1
        BY <3>1, <1>3, <1>6, <1>7 DEF end
      <3>2. CASE i # n + 1
        <4>1. i \in 1 .. n /\ i + 1 \in 1 .. n + 1 /\ i \in 1 .. n + 1
          BY <3>2, <1>3
        <4>2. starts[i + 1] = starts[i] + PayloadOffset(sent[i]) + sent[i].len
          BY <4>1, <1>2 DEF StreamInv, n
        <4> QED
          BY <4>1, <4>2, <1>6, <1>7
      <3> QED
        BY <3>1, <3>2
    <2>2. \A i, j \in 1 .. n + 2 : i < j => starts'[i] + 2 <= starts'[j]
      <3> SUFFICES ASSUME NEW i \in 1 .. n + 2, NEW j \in 1 .. n + 2, i < j
                   PROVE  starts'[i] + 2 <= starts'[j]
        OBVIOUS
      <3>1. i \in 1 .. n + 1 /\ starts'[i] = starts[i] /\ starts[i] \in Nat
        <4>1. i \in 1 .. n + 1
          BY <1>3
        <4>2. starts[i] \in Nat
          BY <4>1, <1>2, StreamTypes DEF n
        <4> QED
          BY <4>1, <4>2, <1>7
      <3>2. CASE j = n + 2
        <4>1. starts[i] <= starts[n + 1]
          <5>1. n + 1 \in 1 .. n + 1 /\ i <= n + 1
            BY <3>1, <1>3
          <5> QED
            BY <5>1, <3>1, <1>2, StartsOrdered DEF n
        <4> QED
          BY <4>1, <3>1, <3>2, <1>3, <1>5, <1>7
      <3>3. CASE j # n + 2
        <4>1. j \in 1 .. n + 1 /\ starts'[j] = starts[j]
          BY <3>3, <1>3, <1>7
        <4>2. starts[i] + 2 <= starts[j]
          BY <4>1, <3>1, <1>2, StartsOrdered DEF n
        <4> QED
          BY <4>1, <4>2, <3>1
      <3> QED
        BY <3>2, <3>3
    <2>3. arrived \in Nat /\ arrived <= starts'[n + 2]
      BY <1>2, <1>3, <1>5, <1>7 DEF StreamInv, n
    <2>4. starts'[1] = 0
      BY <1>2, <1>3, <1>7 DEF StreamInv
    <2>5. Len(sent') + 1 = n + 2 /\ Len(starts') = Len(sent') + 1
      BY <1>3, <1>6, <1>7
    <2>6. /\ open' \in BOOLEAN /\ pos' \in Nat /\ pos' <= arrived' /\ need' \in Nat
          /\ pc' \in {"handshake", "head", "ext", "payload", "ended"}
          /\ pc' \notin {"handshake", "ended"}
      BY <1>1, <1>2 DEF StreamInv
    <2>7. arrived' = arrived
      BY <1>1
    <2> QED
      BY <2>1, <2>2, <2>3, <2>4, <2>5, <2>6, <2>7, <1>6, <1>7 DEF StreamInv
  <1>9. PICK i \in 1 .. n + 1 : (Reading(i) \/ Lost(i)) /\ Done(i)
    BY DEF FrameInv, n
  <1>10. Reading(i)'
    <2>1. Reading(i)
      BY <1>1, <1>9 DEF Lost
    <2>2. starts'[i] = starts[i]
      BY <1>7
    <2>3. CASE i <= n
      <3>1. starts'[i + 1] = starts[i + 1] /\ sent'[i] = sent[i] /\ i <= Len(sent')
        <4>1. i \in 1 .. n /\ i + 1 \in 1 .. n + 1 /\ i <= n + 1
          BY <2>3, <1>3
        <4> QED
          BY <4>1, <1>6, <1>7
      <3> QED
        BY <3>1, <2>1, <2>2, <2>3, <1>1 DEF Reading, n
    <2>4. CASE ~ (i <= n)
      BY <2>1, <2>2, <2>4, <1>1 DEF Reading, n
    <2> QED
      BY <2>3, <2>4
  <1>11. Done(i)'
    <2>1. ASSUME NEW j \in 1 .. i - 1 PROVE sent'[j] = sent[j] /\ starts'[j] = starts[j]
      <3>1. j \in 1 .. n /\ j \in 1 .. n + 1
        BY <1>3
      <3> QED
        BY <1>6, <1>7, <3>1
    <2>2. {j \in 1 .. i - 1 : IsShortPing(j)'} = {j \in 1 .. i - 1 : IsShortPing(j)}
      BY <2>1 DEF IsShortPing
    <2>3. BinaryPayloads(i - 1)' = BinaryPayloads(i - 1)
      <3>1. {j \in 1 .. i - 1 : sent'[j].opcode = "binary"} = {j \in 1 .. i - 1 : sent[j].opcode = "binary"}
        BY <2>1
      <3> QED
        BY <2>1, <3>1 DEF BinaryPayloads, PayloadOf, Start
    <2>4. starts'[i] = starts[i]
      BY <1>7
    <2> QED
      BY <2>2, <2>3, <2>4, <1>1, <1>9 DEF Done
  <1> QED
    BY <1>3, <1>6, <1>8, <1>10, <1>11 DEF FrameInv

LEMMA NetworkKeeps ==
  ASSUME FrameInv, Deliver \/ Close
  PROVE  FrameInv'
  <1>1. PICK i \in 1 .. Len(sent) + 1 : (Reading(i) \/ Lost(i)) /\ Done(i)
    BY DEF FrameInv
  <1>2. StreamInv /\ Len(sent) \in Nat
    BY StreamTypes DEF FrameInv
  <1>3. /\ open /\ UNCHANGED <<sent, starts, pc, pos, need, frame, handed, pongs>>
        /\ open' \in BOOLEAN
        /\ arrived' = arrived \/ arrived' \in arrived + 1 .. starts[Len(sent) + 1]
    BY <1>2 DEF Deliver, Close, Start, StreamInv
  <1>4. StreamInv'
    <2>1. arrived \in Nat /\ starts[Len(sent) + 1] \in Nat /\ pos \in Nat /\ pos <= arrived
          /\ arrived <= starts[Len(sent) + 1]
      BY <1>2, StreamTypes DEF StreamInv
    <2>2. arrived' \in Nat /\ arrived' <= starts[Len(sent) + 1] /\ pos <= arrived'
      BY <1>3, <2>1
    <2> QED
      BY <1>2, <1>3, <2>2 DEF StreamInv
  <1>5. Reading(i)'
    BY <1>1, <1>3 DEF Reading, Lost
  <1>6. Done(i)'
    BY <1>1, <1>3, DoneUntouched
  <1> QED
    BY <1>3, <1>4, <1>5, <1>6 DEF FrameInv

\* Connecting and the handshake: the first header is read where the response
\* ended.
LEMMA HandshakeKeeps ==
  ASSUME FrameInv, Handshake \/ HandshakeFails
  PROVE  FrameInv'
  <1>1. PICK i \in 1 .. Len(sent) + 1 : (Reading(i) \/ Lost(i)) /\ Done(i)
    BY DEF FrameInv
  <1>2. StreamInv /\ Len(sent) \in Nat
    BY StreamTypes DEF FrameInv
  <1>3. /\ pc = "handshake" /\ UNCHANGED <<sent, starts, arrived, open, frame, handed, pongs>>
        /\ \/ pc' = "head" /\ need' = 2 /\ pos' = 0
           \/ pc' = "ended" /\ pos' = pos /\ need' = need
    <2>1. CASE Handshake
      <3>1. PICK k \in ResponsePieces : k >= UPGRADE_END /\ pos' = k - RESPONSE_LEN
        BY <2>1 DEF Handshake
      <3>2. pos' = RESPONSE_LEN - RESPONSE_LEN
        BY <3>1, PiecesAssumption
      <3> QED
        BY <2>1, <3>2, SizesAssumption DEF Handshake, NextFrame, serverVars
    <2>2. CASE HandshakeFails
      BY <2>2 DEF HandshakeFails, serverVars
    <2> QED
      BY <2>1, <2>2
  <1>4. i = 1 /\ starts[1] = 0 /\ pos = 0 /\ sent = << >>
    BY <1>1, <1>2, <1>3 DEF Reading, Lost, StreamInv
  <1>5. StreamInv'
    <2>1. pos' \in Nat /\ pos' <= arrived /\ need' \in Nat
      BY <1>2, <1>3, <1>4 DEF StreamInv
    <2> QED
      BY <1>2, <1>3, <1>4, <2>1 DEF StreamInv
  <1>6. Reading(i)'
    BY <1>3, <1>4 DEF Reading
  <1>7. Done(i)'
    BY <1>1, <1>3, DoneUntouched
  <1> QED
    BY <1>3, <1>5, <1>6, <1>7 DEF FrameInv

\* recv() returns bytes of the frame being read.
LEMMA RecvKeeps ==
  ASSUME FrameInv, Recv
  PROVE  FrameInv'
  <1>1. PICK i \in 1 .. Len(sent) + 1 : (Reading(i) \/ Lost(i)) /\ Done(i)
    BY DEF FrameInv
  <1>2. /\ StreamInv /\ Len(sent) \in Nat /\ pos \in Nat /\ need \in Nat /\ arrived \in Nat
        /\ starts[i] \in Nat
    BY StreamTypes DEF FrameInv
  <1>3. PICK n \in 1 .. need : pos + n <= arrived /\ pos' = pos + n /\ need' = need - n
    BY DEF Recv
  <1>4. /\ pc \in {"head", "ext", "payload"}
        /\ UNCHANGED <<sent, starts, arrived, open, pc, frame, handed, pongs>>
    BY DEF Recv, serverVars
  <1>5. pos' \in Nat /\ need' \in Nat /\ need' <= need /\ pos' + need' = pos + need /\ pos' <= arrived
    BY <1>2, <1>3
  <1>6. Reading(i)
    BY <1>1, <1>2, <1>3 DEF Lost
  <1>7. Reading(i)'
    <2>1. starts[i] <= pos'
      BY <1>2, <1>3, <1>6 DEF Reading
    <2>2. CASE pc = "head"
      <3>1. need <= 2 /\ pos + need = starts[i] + 2
        BY <2>2, <1>6 DEF Reading
      <3>2. need' <= 2
        BY <3>1, <1>2, <1>5
      <3>3. pos' + need' = starts[i] + 2
        BY <3>1, <1>5
      <3> QED
        BY <2>1, <2>2, <3>2, <3>3, <1>4 DEF Reading
    <2>3. CASE pc = "ext"
      BY <2>1, <2>3, <1>2, <1>4, <1>5, <1>6 DEF Reading
    <2>4. CASE pc = "payload"
      BY <2>1, <2>4, <1>2, <1>4, <1>5, <1>6 DEF Reading
    <2> QED
      BY <2>2, <2>3, <2>4, <1>4
  <1>8. StreamInv'
    BY <1>2, <1>4, <1>5 DEF StreamInv
  <1>9. Done(i)'
    BY <1>1, <1>4, DoneUntouched
  <1> QED
    BY <1>4, <1>7, <1>8, <1>9 DEF FrameInv

\* recv() fails: the rest of the frame is lost, and no other will come.
LEMMA RecvFailsKeeps ==
  ASSUME FrameInv, RecvFails
  PROVE  FrameInv'
  <1>1. PICK i \in 1 .. Len(sent) + 1 : (Reading(i) \/ Lost(i)) /\ Done(i)
    BY DEF FrameInv
  <1>2. /\ StreamInv /\ Len(sent) \in Nat /\ pos \in Nat /\ need \in Nat
        /\ starts[i] \in Nat
    BY StreamTypes DEF FrameInv
  <1>3. /\ pc \in {"head", "ext", "payload"} /\ need > 0 /\ pos = arrived /\ ~ open
        /\ pc' = "head" /\ need' = 2
        /\ UNCHANGED <<sent, starts, arrived, open, pos, frame, handed, pongs>>
    BY DEF RecvFails, NextFrame, serverVars
  <1>4. StreamInv'
    BY <1>2, <1>3 DEF StreamInv
  <1>5. Done(i)'
    BY <1>1, <1>3, DoneUntouched
  <1>6. CASE Lost(i)
    BY <1>3, <1>4, <1>5, <1>6 DEF FrameInv, Lost
  <1>7. CASE Reading(i)
    <2>1. starts[i] <= pos
      BY <1>7 DEF Reading
    <2>2. ASSUME i <= Len(sent) PROVE pos < starts[i + 1]
      <3>1. /\ ExtBytes(sent[i]) \in Nat /\ MaskBytes(sent[i]) \in Nat
            /\ sent[i].len \in Nat /\ starts[i + 1] \in Nat
            /\ starts[i + 1] = starts[i] + 2 + ExtBytes(sent[i]) + MaskBytes(sent[i]) + sent[i].len
        BY <1>2, <2>2, FrameFacts
      <3>2. \/ pos + need = starts[i] + 2
            \/ pos + need = starts[i] + 2 + ExtBytes(sent[i])
            \/ pos + need = starts[i + 1]
        BY <1>3, <1>7 DEF Reading
      <3>3. PICK e \in Nat, m \in Nat, l \in Nat :
              e = ExtBytes(sent[i]) /\ m = MaskBytes(sent[i]) /\ l = sent[i].len
        BY <3>1
      <3>4. starts[i + 1] = starts[i] + 2 + e + m + l
        BY <3>1, <3>3
      <3>5. pos + need <= starts[i + 1]
        <4>1. PICK a \in Nat, b \in Nat : a = starts[i] /\ b = pos + need
          BY <1>2
        <4>2. b = a + 2 \/ b = a + 2 + e \/ b = a + 2 + e + m + l
          BY <4>1, <3>2, <3>3, <3>4
        <4>3. b <= a + 2 + e + m + l
          BY <4>2
        <4> QED
          BY <4>1, <4>3, <3>4
      <3> QED
        BY <3>1, <3>5, <1>2, <1>3
    <2>3. Lost(i)'
      BY <2>1, <2>2, <1>3 DEF Lost
    <2> QED
      BY <2>3, <1>3, <1>4, <1>5 DEF FrameInv
  <1> QED
    BY <1>1, <1>6, <1>7

\* Two frames do not start at the same place, and what has been received is not
\* beyond the last.
LEMMA StartNames ==
  ASSUME StreamInv, NEW i \in 1 .. Len(sent) + 1, NEW j \in 1 .. Len(sent) + 1,
         starts[i] = starts[j]
  PROVE  i = j
  <1>1. starts[i] \in Nat /\ Len(sent) \in Nat
    BY StreamTypes
  <1>2. ~ (i < j) /\ ~ (j < i)
    BY <1>1 DEF StreamInv
  <1> QED
    BY <1>1, <1>2

\* The header read at a boundary is the header of the frame that starts there.
LEMMA ReadHeadKeeps ==
  ASSUME FrameInv, ReadHead
  PROVE  FrameInv'
  <1>1. PICK i \in 1 .. Len(sent) + 1 : (Reading(i) \/ Lost(i)) /\ Done(i)
    BY DEF FrameInv
  <1>2. /\ StreamInv /\ Len(sent) \in Nat /\ pos \in Nat /\ need \in Nat
        /\ starts[i] \in Nat
    BY StreamTypes DEF FrameInv
  <1>3. /\ pc = "head" /\ need = 0 /\ pc' = "ext"
        /\ frame' \in HeadersAt(pos - 2) /\ need' = ExtBytes(frame')
        /\ UNCHANGED <<sent, starts, arrived, open, pos, handed, pongs>>
    BY DEF ReadHead, serverVars
  <1>4. pos = starts[i] + 2 /\ starts[i] <= pos
    BY <1>1, <1>2, <1>3 DEF Reading, Lost
  <1>5. i \in 1 .. Len(sent)
    <2>1. starts[Len(sent) + 1] \in Nat /\ pos <= starts[Len(sent) + 1]
      BY <1>2, StreamTypes DEF StreamInv
    <2> QED
      BY <2>1, <1>2, <1>4
  <1>6. frame' = sent[i]
    <2>1. {j \in 1 .. Len(sent) : Start(j) = pos - 2} = {i}
      <3>1. pos - 2 = starts[i]
        BY <1>2, <1>4
      <3>2. \A j \in 1 .. Len(sent) : starts[j] = starts[i] => j = i
        BY <1>2, <1>5, StartNames
      <3> QED
        BY <3>1, <3>2, <1>5 DEF Start
    <2>2. HeadersAt(pos - 2) = {sent[i]}
      BY <2>1 DEF HeadersAt
    <2> QED
      BY <2>2, <1>3
  <1>7. ExtBytes(sent[i]) \in Nat
    BY <1>2, <1>5, FrameFacts
  <1>8. StreamInv'
    <2>1. need' \in Nat
      BY <1>3, <1>6, <1>7
    <2> QED
      BY <2>1, <1>2, <1>3 DEF StreamInv
  <1>9. Reading(i)'
    BY <1>3, <1>4, <1>5, <1>6 DEF Reading
  <1>10. Done(i)'
    BY <1>1, <1>3, DoneUntouched
  <1> QED
    BY <1>3, <1>8, <1>9, <1>10 DEF FrameInv

LEMMA CheckLengthKeeps ==
  ASSUME FrameInv, CheckLength, \A f \in Frames : f.len <= MAX_FRAME_SIZE
  PROVE  FrameInv'
  <1>1. PICK i \in 1 .. Len(sent) + 1 : (Reading(i) \/ Lost(i)) /\ Done(i)
    BY DEF FrameInv
  <1>2. /\ StreamInv /\ Len(sent) \in Nat /\ pos \in Nat /\ need \in Nat
        /\ starts[i] \in Nat
    BY StreamTypes DEF FrameInv
  <1>3. /\ pc = "ext" /\ need = 0
        /\ UNCHANGED <<sent, starts, arrived, open, pos, frame, handed, pongs>>
    BY DEF CheckLength, serverVars
  <1>4. /\ i \in 1 .. Len(sent) /\ frame = sent[i] /\ starts[i] <= pos
        /\ pos = starts[i] + 2 + ExtBytes(sent[i])
    <2>1. Reading(i) /\ i <= Len(sent)
      BY <1>1, <1>3 DEF Reading, Lost
    <2>2. ExtBytes(sent[i]) \in Nat
      BY <2>1, <1>2, FrameFacts
    <2> QED
      BY <2>1, <2>2, <1>2, <1>3 DEF Reading
  <1>5. /\ frame \in Frames /\ frame.len \in Nat /\ MaskBytes(frame) \in Nat
        /\ ExtBytes(frame) \in Nat
        /\ starts[i + 1] = starts[i] + 2 + ExtBytes(frame) + MaskBytes(frame) + frame.len
    BY <1>2, <1>4, FrameFacts
  <1>6. pc' = "payload" /\ need' = MaskBytes(frame) + frame.len
    <2>1. frame.len <= MAX_FRAME_SIZE
      BY <1>5
    <2>2. ~ (frame.len > MAX_FRAME_SIZE)
      BY <2>1, <1>5, SizesAssumption
    <2> QED
      BY <2>2 DEF CheckLength
  <1>7. need' \in Nat /\ pos + need' = starts[i + 1]
    <2>1. PICK e \in Nat, m \in Nat, l \in Nat :
            e = ExtBytes(frame) /\ m = MaskBytes(frame) /\ l = frame.len
      BY <1>5
    <2>2. pos = starts[i] + 2 + e /\ need' = m + l /\ starts[i + 1] = starts[i] + 2 + e + m + l
      BY <2>1, <1>4, <1>5, <1>6
    <2> QED
      BY <2>2, <1>2
  <1>8. StreamInv'
    BY <1>2, <1>3, <1>6, <1>7 DEF StreamInv
  <1>9. Reading(i)'
    BY <1>3, <1>4, <1>6, <1>7 DEF Reading
  <1>10. Done(i)'
    BY <1>1, <1>3, DoneUntouched
  <1> QED
    BY <1>3, <1>8, <1>9, <1>10 DEF FrameInv

\* The frame is over: it joins the frames before, and the next one begins.
LEMMA EndFrameKeeps ==
  ASSUME FrameInv, EndFrame
  PROVE  FrameInv'
  <1>1. PICK i \in 1 .. Len(sent) + 1 : (Reading(i) \/ Lost(i)) /\ Done(i)
    BY DEF FrameInv
  <1>2. /\ StreamInv /\ Len(sent) \in Nat /\ pos \in Nat /\ need \in Nat
        /\ starts[i] \in Nat
    BY StreamTypes DEF FrameInv
  <1>3. /\ pc = "payload" /\ need = 0 /\ pc' = "head" /\ need' = 2
        /\ UNCHANGED <<sent, starts, arrived, open, pos, frame>>
        /\ pongs' = IF frame.opcode = "ping" /\ frame.len <= LEN_7BIT THEN pongs + 1 ELSE pongs
        /\ handed' = IF frame.opcode = "binary" THEN Append(handed, Payload) ELSE handed
    BY DEF EndFrame, NextFrame, send_control_frame, serverVars
  <1>4. i \in 1 .. Len(sent) /\ frame = sent[i] /\ pos + need = starts[i + 1]
    BY <1>1, <1>3 DEF Reading, Lost
  <1>5. /\ frame \in Frames /\ frame.len \in Nat
        /\ MaskBytes(frame) \in Nat /\ ExtBytes(frame) \in Nat
        /\ starts[i + 1] \in Nat
        /\ starts[i + 1] = starts[i] + 2 + ExtBytes(frame) + MaskBytes(frame) + frame.len
    BY <1>2, <1>4, FrameFacts
  <1>6. pos = starts[i + 1]
    BY <1>2, <1>3, <1>4, <1>5
  <1>7. i + 1 \in 1 .. Len(sent) + 1 /\ (i + 1) - 1 = i
    BY <1>2, <1>4
  <1>8. StreamInv'
    BY <1>2, <1>3 DEF StreamInv
  <1>9. Reading(i + 1)'
    BY <1>2, <1>3, <1>6 DEF Reading
  <1>10. pongs' = Cardinality({j \in 1 .. i : IsShortPing(j)})
    <2> DEFINE S == {j \in 1 .. i - 1 : IsShortPing(j)}
    <2>1. IsFiniteSet(S) /\ Cardinality(S) \in Nat
      <3>1. IsFiniteSet(1 .. i - 1)
        BY <1>4, FS_Interval
      <3> QED
        BY <3>1, FS_Subset, FS_CardinalityType
    <2>2. pongs = Cardinality(S)
      BY <1>1 DEF Done
    <2>3. i \notin S
      BY <1>4
    <2>4. CASE IsShortPing(i)
      <3>1. {j \in 1 .. i : IsShortPing(j)} = S \cup {i}
        BY <1>4, <2>4
      <3>2. Cardinality(S \cup {i}) = Cardinality(S) + 1
        BY <2>1, <2>3, FS_AddElement
      <3> QED
        BY <3>1, <3>2, <2>2, <2>4, <1>3, <1>4 DEF IsShortPing
    <2>5. CASE ~ IsShortPing(i)
      <3>1. {j \in 1 .. i : IsShortPing(j)} = S
        BY <1>4, <2>5
      <3> QED
        BY <3>1, <2>2, <2>5, <1>3, <1>4 DEF IsShortPing
    <2> QED
      BY <2>4, <2>5
  <1>11. Payload = PayloadOf(i) /\ Payload \in [at : Nat, len : Nat]
         /\ Payload.at > starts[i] /\ Payload.at <= starts[i + 1]
    <2>1. PICK e \in Nat, m \in Nat, l \in Nat :
            e = ExtBytes(frame) /\ m = MaskBytes(frame) /\ l = frame.len
      BY <1>5
    <2>2. pos = starts[i] + 2 + e + m + l
      BY <2>1, <1>5, <1>6
    <2>3. PayloadOffset(frame) = 2 + e + m
      BY <2>1 DEF PayloadOffset
    <2>4. /\ pos - l = starts[i] + (2 + e + m) /\ pos - l \in Nat
          /\ pos - l > starts[i] /\ pos - l <= pos
      <3>1. PICK a \in Nat : a = starts[i]
        BY <1>2
      <3>2. pos = a + 2 + e + m + l
        BY <3>1, <2>2
      <3>3. pos - l = a + (2 + e + m) /\ pos - l > a /\ pos - l <= pos /\ pos - l \in Nat
        BY <3>2
      <3> QED
        BY <3>1, <3>3
    <2>5. Payload = [at |-> pos - l, len |-> l]
      BY <2>1 DEF Payload
    <2>6. PayloadOf(i) = [at |-> starts[i] + (2 + e + m), len |-> l]
      BY <2>1, <2>3, <1>4 DEF PayloadOf, Start
    <2> QED
      BY <2>4, <2>5, <2>6, <1>6
  <1>12. /\ handed \in Seq([at : Nat, len : Nat]) /\ Len(handed) \in Nat
         /\ Range(handed) = BinaryPayloads(i - 1)
         /\ \A k \in 1 .. Len(handed) : handed[k].at <= starts[i]
         /\ \A k, l \in 1 .. Len(handed) : k < l => handed[k].at < handed[l].at
    <2>1. handed \in Seq([at : Nat, len : Nat])
      BY <1>1 DEF Done
    <2>2. Len(handed) \in Nat
      BY <2>1, LenProperties
    <2> QED
      BY <1>1, <2>2 DEF Done
  <1>13. starts[i + 1] \in Nat /\ starts[i] <= starts[i + 1]
    <2>1. PICK a \in Nat, e \in Nat, m \in Nat, l \in Nat :
            /\ a = starts[i] /\ e = ExtBytes(frame) /\ m = MaskBytes(frame) /\ l = frame.len
      BY <1>2, <1>5
    <2>2. starts[i + 1] = a + 2 + e + m + l
      BY <2>1, <1>5
    <2>3. a <= a + 2 + e + m + l /\ a + 2 + e + m + l \in Nat
      OBVIOUS
    <2> QED
      BY <2>1, <2>2, <2>3
  <1>14. /\ handed' \in Seq([at : Nat, len : Nat])
         /\ Range(handed') = BinaryPayloads(i)
         /\ \A k \in 1 .. Len(handed') : handed'[k].at <= starts[i + 1]
         /\ \A k, l \in 1 .. Len(handed') : k < l => handed'[k].at < handed'[l].at
    <2>1. CASE frame.opcode = "binary"
      <3>1. handed' = Append(handed, Payload)
        BY <1>3, <2>1
      <3>2. /\ handed' \in Seq([at : Nat, len : Nat]) /\ Len(handed') = Len(handed) + 1
            /\ \A k \in 1 .. Len(handed) : handed'[k] = handed[k]
            /\ handed'[Len(handed) + 1] = Payload
        BY <3>1, <1>11, <1>12, AppendProperties
      <3>3. Range(handed') = Range(handed) \cup {Payload}
        <4>1. DOMAIN handed' = 1 .. Len(handed) + 1 /\ DOMAIN handed = 1 .. Len(handed)
          BY <3>2, <1>12, PayloadAt
        <4>2. \A k \in 1 .. Len(handed) + 1 : k \in 1 .. Len(handed) \/ k = Len(handed) + 1
          BY <1>12
        <4>3. 1 .. Len(handed) \subseteq 1 .. Len(handed) + 1 /\ Len(handed) + 1 \in 1 .. Len(handed) + 1
          BY <1>12
        <4> QED
          BY <4>1, <4>2, <4>3, <3>2 DEF Range
      <3>4. BinaryPayloads(i) = BinaryPayloads(i - 1) \cup {PayloadOf(i)}
        <4>1. {j \in 1 .. i : sent[j].opcode = "binary"} =
                {j \in 1 .. i - 1 : sent[j].opcode = "binary"} \cup {i}
          BY <1>4, <2>1
        <4> QED
          BY <4>1 DEF BinaryPayloads
      <3>5. \A k \in 1 .. Len(handed') : handed'[k].at <= starts[i + 1]
        <4> TAKE k \in 1 .. Len(handed')
        <4>1. CASE k = Len(handed) + 1
          BY <4>1, <3>2, <1>11
        <4>2. CASE k # Len(handed) + 1
          <5>1. k \in 1 .. Len(handed)
            BY <4>2, <3>2, <1>12
          <5>2. handed'[k] = handed[k] /\ handed[k].at \in Nat /\ handed[k].at <= starts[i]
            BY <5>1, <3>2, <1>12, PayloadAt
          <5> QED
            BY <5>2, <1>2, <1>13
        <4> QED
          BY <4>1, <4>2
      <3>6. \A k, l \in 1 .. Len(handed') : k < l => handed'[k].at < handed'[l].at
        <4> SUFFICES ASSUME NEW k \in 1 .. Len(handed'), NEW l \in 1 .. Len(handed'), k < l
                     PROVE  handed'[k].at < handed'[l].at
          OBVIOUS
        <4>1. k \in 1 .. Len(handed) /\ handed'[k] = handed[k] /\ handed[k].at \in Nat
          <5>1. k \in 1 .. Len(handed)
            BY <3>2, <1>12
          <5> QED
            BY <5>1, <3>2, <1>12, PayloadAt
        <4>2. CASE l = Len(handed) + 1
          <5>1. handed[k].at <= starts[i] /\ handed'[l] = Payload
            BY <4>1, <4>2, <3>2, <1>12
          <5>2. Payload.at \in Nat
            BY <1>11
          <5> QED
            BY <5>1, <5>2, <4>1, <1>2, <1>11
        <4>3. CASE l # Len(handed) + 1
          <5>1. l \in 1 .. Len(handed)
            <6>1. l \in 1 .. Len(handed) + 1
              BY <3>2
            <6> QED
              BY <6>1, <4>3, <1>12
          <5>2. handed'[l] = handed[l]
            BY <5>1, <3>2
          <5>3. handed[k].at < handed[l].at
            BY <5>1, <4>1, <1>12
          <5> QED
            BY <5>2, <5>3, <4>1
        <4> QED
          BY <4>2, <4>3
      <3>7. Range(handed') = BinaryPayloads(i)
        BY <3>3, <3>4, <1>11, <1>12
      <3> QED
        BY <3>2, <3>5, <3>6, <3>7
    <2>2. CASE frame.opcode # "binary"
      <3>1. handed' = handed
        BY <1>3, <2>2
      <3>2. BinaryPayloads(i) = BinaryPayloads(i - 1)
        <4>1. {j \in 1 .. i : sent[j].opcode = "binary"} = {j \in 1 .. i - 1 : sent[j].opcode = "binary"}
          BY <1>4, <2>2
        <4> QED
          BY <4>1 DEF BinaryPayloads
      <3>3. \A k \in 1 .. Len(handed) : handed[k].at \in Nat
        BY <1>12, PayloadAt
      <3>4. ASSUME NEW k \in 1 .. Len(handed)
            PROVE  handed[k].at <= starts[i + 1]
        <4>1. handed[k].at \in Nat /\ handed[k].at <= starts[i]
          BY <3>3, <1>12
        <4> QED
          BY <4>1, <1>2, <1>13
      <3> QED
        BY <3>1, <3>2, <3>4, <1>12
    <2> QED
      BY <2>1, <2>2
  <1>15. Done(i + 1)'
    <2>1. {j \in 1 .. (i + 1) - 1 : IsShortPing(j)'} = {j \in 1 .. i : IsShortPing(j)}
      BY <1>3, <1>7 DEF IsShortPing
    <2>2. BinaryPayloads((i + 1) - 1)' = BinaryPayloads(i)
      BY <1>3, <1>7 DEF BinaryPayloads, PayloadOf, Start
    <2> QED
      BY <2>1, <2>2, <1>3, <1>10, <1>14 DEF Done
  <1> QED
    BY <1>3, <1>7, <1>8, <1>9, <1>15 DEF FrameInv

-----------------------------------------------------------------------------
LEMMA FrameInvariant ==
  ASSUME \A f \in Frames : f.len <= MAX_FRAME_SIZE
  PROVE  Spec => []FrameInv
  <1>1. Init => FrameInv
    <2> SUFFICES ASSUME Init PROVE FrameInv
      OBVIOUS
    <2>1. /\ sent = << >> /\ starts = <<0>> /\ arrived = 0 /\ open = TRUE /\ pc = "handshake"
          /\ pos = 0 /\ need = 0 /\ handed = << >> /\ pongs = 0
      BY DEF Init
    <2>2. Len(sent) = 0 /\ Len(starts) = 1 /\ starts[1] = 0 /\ starts \in Seq(Nat) /\ sent \in Seq(Frames)
      BY <2>1
    <2>3. StreamInv
      BY <2>1, <2>2 DEF StreamInv
    <2>4. Reading(1)
      BY <2>1, <2>2 DEF Reading
    <2>5. Done(1)
      <3>1. 1 .. 1 - 1 = {}
        OBVIOUS
      <3>2. Cardinality({j \in 1 .. 1 - 1 : IsShortPing(j)}) = 0
        BY <3>1, FS_EmptySet
      <3>3. BinaryPayloads(1 - 1) = {}
        BY <3>1 DEF BinaryPayloads
      <3>4. Range(handed) = {} /\ Len(handed) = 0 /\ handed \in Seq([at : Nat, len : Nat])
        BY <2>1 DEF Range
      <3> QED
        BY <3>2, <3>3, <3>4, <2>1 DEF Done
    <2> QED
      BY <2>2, <2>3, <2>4, <2>5 DEF FrameInv
  <1>2. FrameInv /\ [Next]_vars => FrameInv'
    <2> SUFFICES ASSUME FrameInv, [Next]_vars PROVE FrameInv'
      OBVIOUS
    <2>1. CASE Server
      BY <2>1, SendKeeps, NetworkKeeps DEF Server
    <2>2. CASE Handshake \/ HandshakeFails
      BY <2>2, HandshakeKeeps
    <2>3. CASE ReadFrame
      BY <2>3, RecvKeeps, RecvFailsKeeps, ReadHeadKeeps, CheckLengthKeeps,
         EndFrameKeeps DEF ReadFrame
    <2>4. CASE Connect \/ Destroy \/ UNCHANGED vars
      <3>1. UNCHANGED <<serverVars, frameVars>>
        BY <2>4 DEF Connect, Destroy, vars
      <3>2. PICK i \in 1 .. Len(sent) + 1 : (Reading(i) \/ Lost(i)) /\ Done(i)
        BY DEF FrameInv
      <3>3. StreamInv'
        BY <3>1 DEF FrameInv, StreamInv, serverVars, frameVars
      <3>4. Reading(i)' \/ Lost(i)'
        BY <3>1, <3>2 DEF Reading, Lost, serverVars, frameVars
      <3>5. Done(i)'
        BY <3>1, <3>2, DoneUntouched DEF serverVars, frameVars
      <3> QED
        BY <3>1, <3>3, <3>4, <3>5 DEF FrameInv, serverVars
    <2> QED
      BY <2>1, <2>2, <2>3, <2>4 DEF Next
  <1> QED
    BY <1>1, <1>2, PTL DEF Spec

\* read_frame() stays in step with the server's frames: however the bytes are
\* cut up on their way, it looks for a header only where one is.
THEOREM HeadersAtBoundaries ==
  ASSUME \A f \in Frames : f.len <= MAX_FRAME_SIZE
  PROVE  Spec => []HeadAtBoundary
  <1>1. FrameInv => HeadAtBoundary
    <2> SUFFICES ASSUME FrameInv, open, pc = "head" PROVE pos + need - 2 \in Boundaries
      BY DEF HeadAtBoundary
    <2>1. PICK i \in 1 .. Len(sent) + 1 : Reading(i)
      BY DEF FrameInv, Lost
    <2>2. starts[i] \in Nat /\ pos \in Nat /\ need \in Nat
      BY StreamTypes DEF FrameInv
    <2>3. pos + need - 2 = starts[i]
      BY <2>1, <2>2 DEF Reading
    <2> QED
      BY <2>3 DEF Boundaries, Start
  <1> QED
    BY <1>1, FrameInvariant, PTL

\* startReceiving hands the parser every binary payload, whole, once and in the
\* order of the server, up to where the connection was lost.
THEOREM PayloadsHandedInOrder ==
  ASSUME \A f \in Frames : f.len <= MAX_FRAME_SIZE
  PROVE  Spec => []HandedInOrder
  <1>1. FrameInv => HandedInOrder
    <2> SUFFICES ASSUME FrameInv PROVE HandedInOrder
      OBVIOUS
    <2>1. PICK i \in 1 .. Len(sent) + 1 : Done(i)
      BY DEF FrameInv
    <2>2. Len(sent) \in Nat
      BY StreamTypes DEF FrameInv
    <2>3. i - 1 \in 0 .. Len(sent)
      BY <2>2
    <2> QED
      BY <2>1, <2>3 DEF Done, HandedInOrder
  <1> QED
    BY <1>1, FrameInvariant, PTL

\* read_frame() answers every ping that fits a control frame, once.
THEOREM AllPingsAnswered ==
  ASSUME \A f \in Frames : f.len <= MAX_FRAME_SIZE
  PROVE  Spec => []PingsAnswered
  <1>1. FrameInv => PingsAnswered
    <2> SUFFICES ASSUME FrameInv, pc = "head", need = 2
                 PROVE  pongs = Cardinality({i \in Before(pos) : IsShortPing(i)})
      BY DEF PingsAnswered, IsShortPing
    <2>1. PICK i \in 1 .. Len(sent) + 1 : (Reading(i) \/ Lost(i)) /\ Done(i)
      BY DEF FrameInv
    <2>2. /\ StreamInv /\ Len(sent) \in Nat /\ pos \in Nat
          /\ \A j \in 1 .. Len(sent) + 1 : starts[j] \in Nat
      BY StreamTypes DEF FrameInv
    <2>3. starts[i] <= pos
      BY <2>1 DEF Reading, Lost
    <2>4. ASSUME i <= Len(sent) PROVE pos < starts[i + 1]
      <3>1. Reading(i) => pos = starts[i]
        BY <2>2 DEF Reading
      <3>2. i + 1 \in 1 .. Len(sent) + 1
        BY <2>2, <2>4
      <3>3. starts[i] + 2 <= starts[i + 1]
        BY <3>2, <2>2 DEF StreamInv
      <3> QED
        BY <3>1, <3>2, <3>3, <2>1, <2>2, <2>4 DEF Lost
    <2>5. Before(pos) = 1 .. i - 1
      <3>1. ASSUME NEW j \in 1 .. Len(sent), j < i PROVE starts[j + 1] <= pos
        <4>1. j + 1 \in 1 .. Len(sent) + 1 /\ j + 1 <= i
          BY <3>1, <2>2
        <4>2. starts[j + 1] <= starts[i]
          BY <4>1, <2>2, StartsOrdered
        <4> QED
          BY <4>1, <4>2, <2>2, <2>3
      <3>2. ASSUME NEW j \in 1 .. Len(sent), ~ (j < i) PROVE ~ (starts[j + 1] <= pos)
        <4>1. i \in 1 .. Len(sent) /\ i + 1 \in 1 .. Len(sent) + 1 /\ j + 1 \in 1 .. Len(sent) + 1
              /\ i + 1 <= j + 1
          BY <3>2, <2>2
        <4>2. starts[i + 1] <= starts[j + 1]
          BY <4>1, <2>2, StartsOrdered
        <4> QED
          BY <4>1, <4>2, <2>2, <2>4
      <3> QED
        BY <3>1, <3>2, <2>2 DEF Before, Start
    <2> QED
      BY <2>1, <2>5 DEF Done
  <1> QED
    BY <1>1, FrameInvariant, PTL

-----------------------------------------------------------------------------
(***************************************************************************)
(* SBEParser, on the payloads that are handed to it.  The inductive        *)
(* invariant.                                                              *)
(***************************************************************************)
Updates == Seq(Update)

\* What message i adds to the updates that are expected.
Part(i) == IF Accepted(i) THEN UpdatesOf(i) ELSE << >>

\* The updates expected of the first i messages, for every i.
Flat(f) ==
  /\ f \in [0 .. Len(payload) -> Updates]
  /\ f[0] = << >>
  /\ \A i \in 1 .. Len(payload) : f[i] = f[i - 1] \o Part(i)

IsDepth(m) == \E s \in lookup(m.templateId) : ~ s.skip

\* Enqueued are the updates of the messages before message k and the first n of
\* its own.
EnqueuedTo(f, k, n) ==
  /\ Len(enqueued) = Len(f[k - 1]) + n
  /\ \A i \in 1 .. Len(f[k - 1]) : enqueued[i] = f[k - 1][i]
  /\ \A i \in 1 .. n : enqueued[Len(f[k - 1]) + i] = UpdatesOf(k)[i]

\* parse is at message k.
At(f, k) ==
  /\ k \in 1 .. Len(payload) + 1
  /\ cursor = MessageStart(k)
  /\ MessageStart(k) <= size => Accepted(k - 1)
  /\ parsing \in {"next", "done"} => enqueued = f[k - 1]
  /\ parsing = "done" => \A i \in k .. Len(payload) : Part(i) = << >>
  /\ parsing \in {"bids", "asks"} => k <= Len(payload) /\ Accepted(k) /\ IsDepth(payload[k])
  /\ parsing = "bids" =>
       /\ level <= payload[k].groups[1].count
       /\ offset = GroupStart(payload[k], 1) + 4 + level * BidBlock(payload[k])
       /\ EnqueuedTo(f, k, level)
  /\ parsing = "asks" =>
       /\ level <= payload[k].groups[2].count
       /\ offset = GroupStart(payload[k], 2) + 4 + level * AskBlock(payload[k])
       /\ EnqueuedTo(f, k, payload[k].groups[1].count + level)

Types ==
  /\ MessagesLaidOut
  /\ payload \in Seq(Messages)
  /\ size \in Nat /\ offset \in Nat /\ level \in Nat
  /\ parsing \in {"next", "bids", "asks", "done"}
  /\ enqueued \in Updates

ParserInv ==
  /\ Types
  /\ \E f : Flat(f) /\ Expected = f[Len(payload)] /\ \E k \in 1 .. Len(payload) + 1 : At(f, k)

-----------------------------------------------------------------------------
(***************************************************************************)
(* Sums of lengths.                                                        *)
(***************************************************************************)
\* f[j] is c and the first j - 1 of the numbers w added up.
IsSums(f, n, c, w) ==
  /\ f \in [1 .. n + 1 -> Nat]
  /\ f[1] = c
  /\ \A j \in 1 .. n : f[j + 1] = f[j] + w[j]

LEMMA SumsExist ==
  ASSUME NEW n \in Nat, NEW c \in Nat, NEW w \in [1 .. n -> Nat]
  PROVE  \E f : IsSums(f, n, c, w)
  <1> DEFINE Up(m) == \E f : IsSums(f, m, c, w)
             T == {m \in Nat : m <= n /\ ~ Up(m)}
  <1>1. T = {}
    <2> SUFFICES ASSUME T # {} PROVE FALSE
      OBVIOUS
    <2> HIDE DEF Up
    <2>1. PICK m \in T : \A l \in T : m <= l
      BY LeastNumber
    <2>2. m \in Nat /\ m <= n /\ ~ Up(m)
      BY <2>1
    <2>3. m # 0
      <3> SUFFICES ASSUME m = 0 PROVE Up(m)
        BY <2>2
      <3>1. IsSums([j \in 1 .. m + 1 |-> c], m, c, w)
        BY DEF IsSums
      <3> QED
        BY <3>1 DEF Up
    <2>4. PICK l \in Nat : m = l + 1
      <3>1. m - 1 \in Nat /\ m = (m - 1) + 1
        BY <2>2, <2>3
      <3> QED
        BY <3>1
    <2>5. Up(l)
      <3>1. l \in T => m <= l
        BY <2>1
      <3> QED
        BY <2>2, <2>4, <3>1
    <2>6. PICK f : IsSums(f, l, c, w)
      BY <2>5 DEF Up
    <2> DEFINE h == [j \in 1 .. m + 1 |-> IF j = m + 1 THEN f[m] + w[m] ELSE f[j]]
    <2>7. m \in 1 .. n /\ w[m] \in Nat /\ f[m] \in Nat
      BY <2>2, <2>4, <2>6 DEF IsSums
    <2>8. h \in [1 .. m + 1 -> Nat] /\ h[1] = c
      BY <2>4, <2>6, <2>7, SMTT(20) DEF IsSums
    <2>9. ASSUME NEW j \in 1 .. m PROVE h[j + 1] = h[j] + w[j]
      <3>1. CASE j = m
        BY <2>2, <2>7, <3>1
      <3>2. CASE j # m
        <4>1. j \in 1 .. l /\ h[j] = f[j] /\ h[j + 1] = f[j + 1]
          BY <2>2, <2>4, <3>2
        <4> QED
          BY <2>6, <4>1 DEF IsSums
      <3> QED
        BY <3>1, <3>2
    <2>10. IsSums(h, m, c, w)
      BY <2>8, <2>9 DEF IsSums
    <2> QED
      BY <2>2, <2>10 DEF Up
  <1>2. Up(n)
    <2> HIDE DEF Up
    <2> QED
      BY <1>1
  <1> QED
    BY <1>2

\* g is computed like the sums.
AddsUp(g, n, c, w) ==
  /\ g = [j \in 1 .. n + 1 |-> g[j]]
  /\ g[1] = c
  /\ \A j \in 1 .. n : g[j] \in Nat => g[j + 1] = g[j] + w[j]

LEMMA SumsUnique ==
  ASSUME NEW n \in Nat, NEW c \in Nat, NEW w \in [1 .. n -> Nat],
         NEW g, AddsUp(g, n, c, w), NEW f, IsSums(f, n, c, w)
  PROVE  g = f
  <1> DEFINE T == {j \in Nat : j \in 1 .. n + 1 /\ g[j] # f[j]}
  <1>1. T = {}
    <2> SUFFICES ASSUME T # {} PROVE FALSE
      OBVIOUS
    <2>1. PICK j \in T : \A l \in T : j <= l
      BY LeastNumber
    <2>2. j \in 1 .. n + 1 /\ g[j] # f[j]
      BY <2>1
    <2>3. j # 1
      BY <2>2 DEF IsSums, AddsUp
    <2>4. PICK l \in 1 .. n : j = l + 1
      <3>1. j - 1 \in 1 .. n /\ j = (j - 1) + 1
        BY <2>2, <2>3
      <3> QED
        BY <3>1
    <2>5. g[l] = f[l]
      <3>1. l \in T => j <= l
        BY <2>1
      <3> QED
        BY <2>4, <3>1
    <2>6. f[l] \in Nat /\ f[l + 1] = f[l] + w[l]
      BY <2>4 DEF IsSums
    <2> QED
      BY <2>2, <2>4, <2>5, <2>6 DEF AddsUp
  <1>2. \A j \in 1 .. n + 1 : g[j] = f[j]
    BY <1>1
  <1>3. g = [j \in 1 .. n + 1 |-> g[j]] /\ f = [j \in 1 .. n + 1 |-> f[j]]
    BY DEF IsSums, AddsUp
  <1> QED
    BY <1>2, <1>3

\* Sums of positive numbers increase.
LEMMA SumsIncrease ==
  ASSUME NEW n \in Nat, NEW c \in Nat, NEW w \in [1 .. n -> Nat], NEW f, IsSums(f, n, c, w),
         \A j \in 1 .. n : w[j] >= 1, NEW i \in 1 .. n + 1
  PROVE  \A j \in 1 .. n + 1 : i < j => f[i] < f[j]
  <1> DEFINE T == {j \in Nat : j \in 1 .. n + 1 /\ i < j /\ ~ (f[i] < f[j])}
  <1>1. T = {}
    <2> SUFFICES ASSUME T # {} PROVE FALSE
      OBVIOUS
    <2>1. PICK j \in T : \A l \in T : j <= l
      BY LeastNumber
    <2>2. j \in 1 .. n + 1 /\ i < j /\ ~ (f[i] < f[j])
      BY <2>1
    <2>3. PICK l \in 1 .. n : j = l + 1
      <3>1. j - 1 \in 1 .. n /\ j = (j - 1) + 1
        BY <2>2
      <3> QED
        BY <3>1
    <2>4. i = l \/ f[i] < f[l]
      <3>1. l \in T => j <= l
        BY <2>1
      <3> QED
        BY <2>2, <2>3, <3>1
    <2>5. PICK a \in Nat, b \in Nat, d \in Nat : a = f[i] /\ b = f[l] /\ d = w[l] /\ d >= 1
      <3>1. f[i] \in Nat /\ f[l] \in Nat
        BY <2>3 DEF IsSums
      <3>2. w[l] \in Nat /\ w[l] >= 1
        BY <2>3
      <3> QED
        BY <3>1, <3>2
    <2>6. f[l + 1] = b + d
      BY <2>3, <2>5 DEF IsSums
    <2> QED
      BY <2>2, <2>3, <2>4, <2>5, <2>6, SMTT(20)
  <1> QED
    BY <1>1

-----------------------------------------------------------------------------
(***************************************************************************)
(* Where the groups of a message and the messages of a payload start.      *)
(***************************************************************************)
GroupSize(m, g) == m.groupHeader + m.groups[g].blockLen * m.groups[g].count

LEMMA MessageFacts ==
  ASSUME MessagesLaidOut, NEW m \in Messages
  PROVE  /\ Len(m.groups) \in Nat
         /\ m.blockLength \in Nat /\ m.symLen \in Nat /\ m.groupHeader \in {4, 6}
         /\ \A g \in 1 .. Len(m.groups) : m.groups[g].blockLen \in Nat /\ m.groups[g].count \in Nat
  <1> DEFINE Group == [blockLen : Nat, count : Nat]
  <1>1. /\ m.groups \in Seq(Group)
        /\ m.blockLength \in Nat /\ m.symLen \in Nat /\ m.groupHeader \in {4, 6}
    BY DEF MessagesLaidOut
  <1>2. Len(m.groups) \in Nat /\ \A g \in 1 .. Len(m.groups) : m.groups[g] \in Group
    <2> HIDE DEF Group
    <2> QED
      BY <1>1
  <1> QED
    BY <1>1, <1>2

LEMMA GroupSizeNat ==
  ASSUME MessagesLaidOut, NEW m \in Messages, NEW g \in 1 .. Len(m.groups)
  PROVE  GroupSize(m, g) \in Nat /\ GroupSize(m, g) >= 1
  <1>1. PICK a \in Nat, b \in Nat, h \in {4, 6} :
          a = m.groups[g].blockLen /\ b = m.groups[g].count /\ h = m.groupHeader
    BY MessageFacts
  <1>2. a * b \in Nat
    OBVIOUS
  <1>3. h + a * b \in Nat /\ h + a * b >= 1
    BY <1>2
  <1> QED
    BY <1>1, <1>3 DEF GroupSize

LEMMA GroupStartsSum ==
  ASSUME MessagesLaidOut, NEW m \in Messages
  PROVE  IsSums(GroupStarts(m), Len(m.groups), 8 + m.blockLength,
                [g \in 1 .. Len(m.groups) |-> GroupSize(m, g)])
  <1> DEFINE n == Len(m.groups)
             c == 8 + m.blockLength
             w == [g \in 1 .. n |-> GroupSize(m, g)]
             Rec(s) == [g \in 1 .. n + 1 |-> IF g = 1 THEN c ELSE s[g - 1] + m.groupHeader + m.groups[g - 1].blockLen * m.groups[g - 1].count]
  <1>1. n \in Nat /\ c \in Nat
    BY MessageFacts
  <1>2. w \in [1 .. n -> Nat]
    BY GroupSizeNat
  <1>3. ASSUME NEW j \in 1 .. n, NEW x \in Nat
        PROVE  x + m.groupHeader + m.groups[j].blockLen * m.groups[j].count = x + w[j]
    <2>1. PICK a \in Nat, b \in Nat, h \in {4, 6} :
            a = m.groups[j].blockLen /\ b = m.groups[j].count /\ h = m.groupHeader
      BY MessageFacts
    <2>2. w[j] = h + a * b
      BY <2>1 DEF GroupSize
    <2>3. a * b \in Nat
      OBVIOUS
    <2>4. x + h + a * b = x + (h + a * b)
      BY <2>3
    <2> QED
      BY <2>1, <2>2, <2>4
  <1> HIDE DEF n, c, w
  <1>4. PICK f : IsSums(f, n, c, w)
    BY <1>1, <1>2, SumsExist
  <1>5. f = Rec(f)
    <2>1. f \in [1 .. n + 1 -> Nat]
      BY <1>4 DEF IsSums
    <2>2. ASSUME NEW g \in 1 .. n + 1 PROVE f[g] = Rec(f)[g]
      <3>1. CASE g = 1
        BY <1>4, <3>1 DEF IsSums
      <3>2. CASE g # 1
        <4>1. PICK j \in 1 .. n : g = j + 1
          <5>1. g - 1 \in 1 .. n /\ g = (g - 1) + 1
            BY <1>1, <3>2
          <5> QED
            BY <5>1
        <4>2. f[j] \in Nat /\ f[g] = f[j] + w[j]
          BY <1>1, <1>4, <4>1 DEF IsSums
        <4>3. g - 1 = j
          BY <4>1
        <4>4. Rec(f)[g] = f[j] + m.groupHeader + m.groups[j].blockLen * m.groups[j].count
          BY <3>2, <4>3
        <4> QED
          BY <1>3, <4>2, <4>4
      <3> QED
        BY <3>1, <3>2
    <2> QED
      BY <2>1, <2>2
  <1>6. GroupStarts(m) = CHOOSE s : s = Rec(s)
    BY DEF GroupStarts, n, c
  <1>7. PICK s : s = GroupStarts(m) /\ s = Rec(s)
    <2> HIDE DEF Rec
    <2> QED
      BY <1>5, <1>6
  <1>8. s = [g \in 1 .. n + 1 |-> s[g]] /\ s[1] = c
    <2>1. 1 \in 1 .. n + 1
      BY <1>1
    <2> QED
      BY <1>7, <2>1
  <1>9. ASSUME NEW j \in 1 .. n, s[j] \in Nat PROVE s[j + 1] = s[j] + w[j]
    <2>1. j + 1 \in 1 .. n + 1 /\ j + 1 # 1 /\ (j + 1) - 1 = j
      BY <1>1
    <2>2. s[j + 1] = s[j] + m.groupHeader + m.groups[j].blockLen * m.groups[j].count
      BY <1>7, <2>1
    <2> QED
      BY <1>3, <1>9, <2>2
  <1>10. AddsUp(s, n, c, w)
    BY <1>8, <1>9 DEF AddsUp
  <1>11. s = f
    BY <1>1, <1>2, <1>4, <1>10, SumsUnique
  <1> QED
    BY <1>4, <1>7, <1>11 DEF n, c, w

LEMMA GroupStartFacts ==
  ASSUME MessagesLaidOut, NEW m \in Messages
  PROVE  /\ \A g \in 1 .. Len(m.groups) + 1 : GroupStart(m, g) \in Nat
         /\ GroupStart(m, 1) = 8 + m.blockLength
         /\ \A g \in 1 .. Len(m.groups) : GroupStart(m, g + 1) = GroupStart(m, g) + GroupSize(m, g)
  <1> DEFINE n == Len(m.groups)
             c == 8 + m.blockLength
             w == [g \in 1 .. n |-> GroupSize(m, g)]
  <1>1. IsSums(GroupStarts(m), n, c, w)
    BY GroupStartsSum
  <1>2. \A g \in 1 .. n : w[g] = GroupSize(m, g)
    OBVIOUS
  <1> HIDE DEF n, c, w
  <1>3. /\ \A g \in 1 .. n + 1 : GroupStart(m, g) \in Nat
        /\ GroupStart(m, 1) = c
        /\ \A g \in 1 .. n : GroupStart(m, g + 1) = GroupStart(m, g) + w[g]
    BY <1>1 DEF IsSums, GroupStart
  <1> QED
    BY <1>2, <1>3 DEF n, c

LEMMA WireLengthFacts ==
  ASSUME MessagesLaidOut, NEW m \in Messages
  PROVE  /\ WireLength(m) \in Nat /\ WireLength(m) >= 9
         /\ \A g \in 1 .. Len(m.groups) + 1 : GroupStart(m, g) < WireLength(m)
         /\ \A g \in 1 .. Len(m.groups) : GroupStart(m, g) + m.groupHeader < WireLength(m)
  <1> DEFINE n == Len(m.groups)
             c == 8 + m.blockLength
             w == [g \in 1 .. n |-> GroupSize(m, g)]
             f == GroupStarts(m)
  <1>1. n \in Nat /\ c \in Nat /\ c >= 8 /\ m.symLen \in Nat /\ m.groupHeader \in Nat
    BY MessageFacts
  <1>2. w \in [1 .. n -> Nat] /\ \A g \in 1 .. n : w[g] >= 1
    BY GroupSizeNat
  <1>3. \A g \in 1 .. n : m.groupHeader <= w[g]
    <2> SUFFICES ASSUME NEW g \in 1 .. n PROVE m.groupHeader <= GroupSize(m, g)
      OBVIOUS
    <2>1. PICK a \in Nat, b \in Nat, h \in {4, 6} :
            a = m.groups[g].blockLen /\ b = m.groups[g].count /\ h = m.groupHeader
      BY MessageFacts
    <2>2. a * b \in Nat
      OBVIOUS
    <2>3. h <= h + a * b
      BY <2>2
    <2> QED
      BY <2>1, <2>3 DEF GroupSize
  <1>4. IsSums(f, n, c, w)
    BY GroupStartsSum
  <1>5. \A g : GroupStart(m, g) = f[g]
    BY DEF GroupStart
  <1>6. WireLength(m) = f[n + 1] + 1 + m.symLen
    BY DEF WireLength, GroupStart
  <1> HIDE DEF n, c, w, f
  <1>7. \A g \in 1 .. n + 1 : f[g] \in Nat /\ f[g] <= f[n + 1]
    <2> SUFFICES ASSUME NEW g \in 1 .. n + 1 PROVE f[g] \in Nat /\ f[g] <= f[n + 1]
      OBVIOUS
    <2>1. n + 1 \in 1 .. n + 1
      BY <1>1
    <2>2. f[g] \in Nat /\ f[n + 1] \in Nat
      BY <1>4, <2>1 DEF IsSums
    <2>3. g < n + 1 => f[g] < f[n + 1]
      BY <1>1, <1>2, <1>4, <2>1, SumsIncrease
    <2>4. g = n + 1 \/ g < n + 1
      BY <1>1
    <2> QED
      BY <2>2, <2>3, <2>4
  <1>8. PICK e \in Nat : e = f[n + 1] /\ e >= 8
    <2>1. 1 \in 1 .. n + 1 /\ n + 1 \in 1 .. n + 1
      BY <1>1
    <2>2. f[1] = c /\ f[1] <= f[n + 1] /\ f[n + 1] \in Nat
      BY <1>4, <1>7, <2>1 DEF IsSums
    <2> QED
      BY <1>1, <2>2
  <1>9. ASSUME NEW g \in 1 .. n PROVE f[g] + m.groupHeader <= e
    <2>1. PICK x \in Nat, y \in Nat, z \in Nat :
            x = f[g] /\ y = w[g] /\ z = f[g + 1] /\ z = x + y /\ m.groupHeader <= y
      <3>1. g \in 1 .. n + 1 /\ g + 1 \in 1 .. n + 1
        BY <1>1
      <3>2. f[g] \in Nat /\ w[g] \in Nat /\ f[g + 1] \in Nat
        BY <1>2, <1>4, <3>1 DEF IsSums
      <3>3. f[g + 1] = f[g] + w[g] /\ m.groupHeader <= w[g]
        BY <1>3, <1>4 DEF IsSums
      <3> QED
        BY <3>2, <3>3
    <2>2. z <= e
      <3>1. g + 1 \in 1 .. n + 1
        BY <1>1
      <3> QED
        BY <1>7, <1>8, <2>1, <3>1
    <2> QED
      BY <1>1, <2>1, <2>2
  <1>10. WireLength(m) \in Nat /\ WireLength(m) >= 9 /\ WireLength(m) > e
    BY <1>1, <1>6, <1>8
  <1>11. \A g \in 1 .. n + 1 : f[g] < WireLength(m)
    BY <1>7, <1>8, <1>10
  <1>12. \A g \in 1 .. n : f[g] + m.groupHeader < WireLength(m)
    <2> SUFFICES ASSUME NEW g \in 1 .. n PROVE f[g] + m.groupHeader < WireLength(m)
      OBVIOUS
    <2>1. f[g] \in Nat /\ f[g] + m.groupHeader <= e
      BY <1>1, <1>7, <1>9
    <2> QED
      BY <1>1, <1>8, <1>10, <2>1
  <1> QED
    BY <1>5, <1>10, <1>11, <1>12 DEF n

LEMMA PayloadFacts ==
  ASSUME MessagesLaidOut, payload \in Seq(Messages)
  PROVE  /\ Len(payload) \in Nat
         /\ \A j \in 1 .. Len(payload) :
              payload[j] \in Messages /\ WireLength(payload[j]) \in Nat /\ WireLength(payload[j]) >= 9
  <1>1. Len(payload) \in Nat /\ \A j \in 1 .. Len(payload) : payload[j] \in Messages
    OBVIOUS
  <1> QED
    BY <1>1, WireLengthFacts

LEMMA StartsSum ==
  ASSUME MessagesLaidOut, payload \in Seq(Messages)
  PROVE  IsSums(MessageStarts, Len(payload), 0, [j \in 1 .. Len(payload) |-> WireLength(payload[j])])
  <1> DEFINE n == Len(payload)
             w == [j \in 1 .. n |-> WireLength(payload[j])]
             Rec(s) == [j \in 1 .. n + 1 |-> IF j = 1 THEN 0 ELSE s[j - 1] + WireLength(payload[j - 1])]
  <1>1. n \in Nat /\ 0 \in Nat
    BY PayloadFacts
  <1>2. w \in [1 .. n -> Nat]
    BY PayloadFacts
  <1>3. \A j \in 1 .. n : WireLength(payload[j]) = w[j]
    OBVIOUS
  <1> HIDE DEF n, w
  <1>4. PICK f : IsSums(f, n, 0, w)
    BY <1>1, <1>2, SumsExist
  <1>5. f = Rec(f)
    <2>1. f \in [1 .. n + 1 -> Nat]
      BY <1>4 DEF IsSums
    <2>2. ASSUME NEW g \in 1 .. n + 1 PROVE f[g] = Rec(f)[g]
      <3>1. CASE g = 1
        BY <1>4, <3>1 DEF IsSums
      <3>2. CASE g # 1
        <4>1. PICK j \in 1 .. n : g = j + 1
          <5>1. g - 1 \in 1 .. n /\ g = (g - 1) + 1
            BY <1>1, <3>2
          <5> QED
            BY <5>1
        <4>2. f[g] = f[j] + w[j]
          BY <1>1, <1>4, <4>1 DEF IsSums
        <4>3. g - 1 = j
          BY <4>1
        <4>4. Rec(f)[g] = f[j] + WireLength(payload[j])
          BY <3>2, <4>3
        <4> QED
          BY <1>3, <4>2, <4>4
      <3> QED
        BY <3>1, <3>2
    <2> QED
      BY <2>1, <2>2
  <1>6. MessageStarts = CHOOSE s : s = Rec(s)
    BY DEF MessageStarts, n
  <1>7. PICK s : s = MessageStarts /\ s = Rec(s)
    <2> HIDE DEF Rec
    <2> QED
      BY <1>5, <1>6
  <1>8. s = [j \in 1 .. n + 1 |-> s[j]] /\ s[1] = 0
    <2>1. 1 \in 1 .. n + 1
      BY <1>1
    <2> QED
      BY <1>7, <2>1
  <1>9. ASSUME NEW j \in 1 .. n PROVE s[j + 1] = s[j] + w[j]
    <2>1. j + 1 \in 1 .. n + 1 /\ j + 1 # 1 /\ (j + 1) - 1 = j
      BY <1>1
    <2>2. s[j + 1] = s[j] + WireLength(payload[j])
      BY <1>7, <2>1
    <2> QED
      BY <1>3, <2>2
  <1>10. AddsUp(s, n, 0, w)
    BY <1>8, <1>9 DEF AddsUp
  <1>11. s = f
    BY <1>1, <1>2, <1>4, <1>10, SumsUnique
  <1> QED
    BY <1>4, <1>7, <1>11 DEF n, w

\* A message starts where the one before it ends.
LEMMA StartFacts ==
  ASSUME MessagesLaidOut, payload \in Seq(Messages)
  PROVE  /\ \A j \in 1 .. Len(payload) + 1 : MessageStart(j) \in Nat
         /\ MessageStart(1) = 0
         /\ \A j \in 1 .. Len(payload) : MessageStart(j + 1) = MessageStart(j) + WireLength(payload[j])
         /\ \A i, j \in 1 .. Len(payload) + 1 : i < j => MessageStart(i) < MessageStart(j)
  <1> DEFINE n == Len(payload)
             w == [j \in 1 .. n |-> WireLength(payload[j])]
  <1>1. n \in Nat /\ 0 \in Nat
    BY PayloadFacts
  <1>2. w \in [1 .. n -> Nat] /\ \A j \in 1 .. n : w[j] >= 1 /\ w[j] = WireLength(payload[j])
    BY PayloadFacts
  <1>3. IsSums(MessageStarts, n, 0, w)
    BY StartsSum
  <1> HIDE DEF n, w
  <1>4. \A i, j \in 1 .. n + 1 : i < j => MessageStarts[i] < MessageStarts[j]
    BY <1>1, <1>2, <1>3, SumsIncrease
  <1>5. /\ \A j \in 1 .. n + 1 : MessageStart(j) \in Nat
        /\ MessageStart(1) = 0
        /\ \A j \in 1 .. n : MessageStart(j + 1) = MessageStart(j) + w[j]
    BY <1>3 DEF IsSums, MessageStart
  <1> QED
    BY <1>2, <1>4, <1>5 DEF n, MessageStart

\* At the start of message k there is message k and no other; behind the last
\* one there is none.
LEMMA HereIsOne ==
  ASSUME MessagesLaidOut, payload \in Seq(Messages), NEW k \in 1 .. Len(payload) + 1, cursor = MessageStart(k)
  PROVE  \A m \in Here : k \in 1 .. Len(payload) /\ m = payload[k]
  <1>1. Len(payload) \in Nat
    BY PayloadFacts
  <1> SUFFICES ASSUME NEW m \in Here PROVE k \in 1 .. Len(payload) /\ m = payload[k]
    OBVIOUS
  <1>2. PICK j \in 1 .. Len(payload) : MessageStart(j) = cursor /\ m = payload[j]
    BY DEF Here
  <1>3. j \in 1 .. Len(payload) + 1
    BY <1>1
  <1>4. MessageStart(j) \in Nat /\ MessageStart(k) \in Nat
    BY <1>3, StartFacts
  <1>5. ~ (j < k) /\ ~ (k < j)
    <2>1. (j < k => MessageStart(j) < MessageStart(k)) /\ (k < j => MessageStart(k) < MessageStart(j))
      BY <1>3, StartFacts
    <2> QED
      BY <1>2, <1>4, <2>1
  <1>6. j = k
    BY <1>1, <1>5
  <1> QED
    BY <1>2, <1>6

-----------------------------------------------------------------------------
(***************************************************************************)
(* What the schemas say.                                                   *)
(***************************************************************************)
LEMMA SchemaFacts ==
  ASSUME MessagesLaidOut, NEW m \in Messages, NEW s \in lookup(m.templateId)
  PROVE  /\ s \in schemas_
         /\ \A t \in lookup(m.templateId) : t = s
         /\ m.blockLength = s.fixed_block_size
         /\ m.groupHeader = IF s.group_num_encoding = "UINT32" THEN 6 ELSE 4
         /\ Len(m.groups) = s.num_groups
         /\ s.num_groups \in 0 .. 2
         /\ ~ s.skip => s.num_groups = 2 /\ m.groupHeader = 4
  <1>1. s \in schemas_ /\ s.template_id = m.templateId
    BY DEF lookup
  <1>2. \A t \in lookup(m.templateId) : t \in schemas_ /\ t.template_id = m.templateId
    BY DEF lookup
  <1>3. \A t \in schemas_ : t.template_id = s.template_id => t = s
    <2>1. /\ kBinanceDepthDiff.template_id = 10003 /\ kBinanceDepthSnapshot.template_id = 10002
          /\ kBinanceBestBidAsk.template_id = 10001 /\ kBinanceTrades.template_id = 10000
      BY DEF kBinanceDepthDiff, kBinanceDepthSnapshot,
         kBinanceBestBidAsk, kBinanceTrades
    <2> QED
      BY <1>1, <2>1 DEF schemas_
  <1>4. /\ m.blockLength = s.fixed_block_size
        /\ m.groupHeader = IF s.group_num_encoding = "UINT32" THEN 6 ELSE 4
        /\ Len(m.groups) = s.num_groups
    BY DEF MessagesLaidOut
  <1>5. s.num_groups \in 0 .. 2 /\ (~ s.skip => s.num_groups = 2 /\ s.group_num_encoding = "UINT16")
    BY <1>1 DEF schemas_, kBinanceDepthDiff, kBinanceDepthSnapshot,
       kBinanceBestBidAsk, kBinanceTrades
  <1> QED
    BY <1>1, <1>2, <1>3, <1>4, <1>5

\* measure returns the length of the message unless the message is cut off.
LEMMA MeasureFacts ==
  ASSUME MessagesLaidOut, NEW m \in Messages, NEW s \in lookup(m.templateId),
         size \in Nat, cursor \in Nat
  PROVE  \/ measure(m, s) = WireLength(m)
         \/ measure(m, s) = 0 /\ WireLength(m) > size - cursor
  <1> DEFINE n == s.num_groups
             hdr == IF s.group_num_encoding = "UINT32" THEN 6 ELSE 4
             Rec(r) == [g \in 0 .. n |->
                          IF g = 0 THEN 8 + s.fixed_block_size
                          ELSE r[g - 1] + hdr + m.groups[g].blockLen * m.groups[g].count]
             f == [g \in 0 .. n |-> GroupStart(m, g + 1)]
             after == CHOOSE r : r = Rec(r)
  <1>1. /\ n \in 0 .. 2 /\ Len(m.groups) = n /\ m.groupHeader = hdr /\ hdr \in Nat
        /\ m.blockLength = s.fixed_block_size /\ m.symLen \in Nat
    BY SchemaFacts, MessageFacts
  <1> HIDE DEF hdr
  <1>2. GroupStart(m, 1) = 8 + s.fixed_block_size
    BY <1>1, GroupStartFacts
  <1>3. ASSUME NEW g \in 1 .. n
        PROVE  GroupStart(m, g + 1) = GroupStart(m, g) + hdr + m.groups[g].blockLen * m.groups[g].count
    <2>1. PICK a \in Nat, b \in Nat, x \in Nat :
            a = m.groups[g].blockLen /\ b = m.groups[g].count /\ x = GroupStart(m, g)
      <3>1. g \in 1 .. Len(m.groups) /\ g \in 1 .. Len(m.groups) + 1
        BY <1>1
      <3> QED
        BY <3>1, MessageFacts, GroupStartFacts
    <2>2. GroupStart(m, g + 1) = x + (hdr + a * b)
      BY <1>1, <2>1, GroupStartFacts DEF GroupSize
    <2>3. a * b \in Nat
      OBVIOUS
    <2>4. x + (hdr + a * b) = x + hdr + a * b
      BY <1>1, <2>3
    <2> QED
      BY <2>1, <2>2, <2>4
  <1>4. f = Rec(f)
    <2>1. ASSUME NEW g \in 0 .. n PROVE f[g] = Rec(f)[g]
      <3>1. CASE g = 0
        BY <1>2, <3>1
      <3>2. CASE g # 0
        <4>1. g \in 1 .. n /\ g - 1 \in 0 .. n /\ (g - 1) + 1 = g
          BY <1>1, <3>2
        <4>2. f[g - 1] = GroupStart(m, g) /\ f[g] = GroupStart(m, g + 1)
          BY <4>1
        <4>3. Rec(f)[g] = f[g - 1] + hdr + m.groups[g].blockLen * m.groups[g].count
          BY <3>2
        <4> HIDE DEF f, Rec
        <4> QED
          BY <1>3, <4>1, <4>2, <4>3
      <3> QED
        BY <3>1, <3>2
    <2> DEFINE h == Rec(f)
    <2>2. \A g \in 0 .. n : f[g] = h[g]
      BY <2>1
    <2>3. f = [g \in 0 .. n |-> f[g]] /\ h = [g \in 0 .. n |-> h[g]]
      OBVIOUS
    <2> HIDE DEF f, h
    <2>4. f = h
      BY <2>2, <2>3
    <2> QED
      BY <2>4 DEF h
  <1>5. after = Rec(after)
    <2> HIDE DEF Rec, f
    <2> QED
      BY <1>4
  <1> HIDE DEF after
  <1>6. after[0] = GroupStart(m, 1)
    <2>1. 0 \in 0 .. n
      BY <1>1
    <2> QED
      BY <1>2, <1>5, <2>1
  <1>7. ASSUME NEW g \in 1 .. n, after[g - 1] = GroupStart(m, g) PROVE after[g] = GroupStart(m, g + 1)
    <2>1. g \in 0 .. n /\ g # 0
      BY <1>1
    <2>2. after[g] = after[g - 1] + hdr + m.groups[g].blockLen * m.groups[g].count
      BY <1>5, <2>1
    <2> QED
      BY <1>3, <1>7, <2>2
  <1>8. n >= 1 => after[1] = GroupStart(m, 2)
    BY <1>1, <1>6, <1>7
  <1>9. n >= 2 => after[2] = GroupStart(m, 3)
    BY <1>1, <1>7, <1>8
  <1>10. \A g \in 0 .. n : after[g] = GroupStart(m, g + 1)
    BY <1>1, <1>6, <1>8, <1>9
  <1>11. PICK len \in Nat :
           /\ len = WireLength(m) /\ len >= 9
           /\ len = after[n] + 1 + m.symLen
           /\ \A g \in 1 .. n : after[g - 1] + hdr < len
           /\ after[n] < len /\ after[n] \in Nat
    <2>1. WireLength(m) \in Nat /\ WireLength(m) >= 9
      BY WireLengthFacts
    <2>2. n \in 0 .. n /\ n + 1 \in 1 .. Len(m.groups) + 1
      BY <1>1
    <2>3. after[n] = GroupStart(m, n + 1) /\ GroupStart(m, n + 1) \in Nat
      BY <1>10, <2>2, GroupStartFacts
    <2>4. WireLength(m) = after[n] + 1 + m.symLen
      BY <1>1, <2>3 DEF WireLength
    <2>5. after[n] < WireLength(m)
      BY <2>2, <2>3, WireLengthFacts
    <2>6. \A g \in 1 .. n : after[g - 1] + hdr < WireLength(m)
      <3> SUFFICES ASSUME NEW g \in 1 .. n PROVE after[g - 1] + hdr < WireLength(m)
        OBVIOUS
      <3>1. g - 1 \in 0 .. n /\ (g - 1) + 1 = g /\ g \in 1 .. Len(m.groups)
        BY <1>1
      <3>2. after[g - 1] = GroupStart(m, g)
        BY <1>10, <3>1
      <3>3. GroupStart(m, g) + m.groupHeader < WireLength(m)
        BY <3>1, WireLengthFacts
      <3> QED
        BY <1>1, <3>2, <3>3
    <2> QED
      BY <2>1, <2>3, <2>4, <2>5, <2>6
  <1> DEFINE ok == /\ 8 <= size - cursor
                   /\ \A g \in 1 .. n : after[g - 1] + hdr <= size - cursor
                   /\ after[n] < size - cursor
  <1>12. measure(m, s) = IF ok THEN after[n] + 1 + m.symLen ELSE 0
    BY DEF measure, after, hdr, Available
  <1>13. CASE ok
    BY <1>11, <1>12, <1>13
  <1>14. CASE ~ ok
    <2>1. len > size - cursor
      <3> SUFFICES ASSUME len <= size - cursor PROVE ok
        BY <1>14
      <3>1. \A g \in 1 .. n : after[g - 1] \in Nat
        <4> SUFFICES ASSUME NEW g \in 1 .. n PROVE after[g - 1] \in Nat
          OBVIOUS
        <4>1. g - 1 \in 0 .. n /\ (g - 1) + 1 \in 1 .. Len(m.groups) + 1
          BY <1>1
        <4> QED
          BY <1>10, <4>1, GroupStartFacts
      <3>2. \A g \in 1 .. n : after[g - 1] + hdr <= size - cursor
        BY <1>1, <1>11, <3>1
      <3> QED
        BY <1>11, <3>2
    <2> HIDE DEF ok
    <2> QED
      BY <1>11, <1>12, <1>14, <2>1
  <1> QED
    BY <1>13, <1>14

LEMMA Concatenated ==
  ASSUME NEW S, NEW a \in Seq(S), NEW b \in Seq(S)
  PROVE  /\ a \o b \in Seq(S) /\ Len(a \o b) = Len(a) + Len(b)
         /\ \A k \in 1 .. Len(a) : (a \o b)[k] = a[k]
         /\ \A k \in 1 .. Len(b) : (a \o b)[Len(a) + k] = b[k]
  <1>1. Len(a) \in Nat /\ Len(b) \in Nat
    OBVIOUS
  <1>2. /\ a \o b \in Seq(S) /\ Len(a \o b) = Len(a) + Len(b)
        /\ \A k \in 1 .. Len(a) + Len(b) : (a \o b)[k] = IF k <= Len(a) THEN a[k] ELSE b[k - Len(a)]
    BY ConcatProperties
  <1>3. \A k \in 1 .. Len(a) : (a \o b)[k] = a[k]
    BY <1>1, <1>2
  <1>4. ASSUME NEW k \in 1 .. Len(b) PROVE (a \o b)[Len(a) + k] = b[k]
    <2>1. Len(a) + k \in 1 .. Len(a) + Len(b) /\ ~ (Len(a) + k <= Len(a)) /\ (Len(a) + k) - Len(a) = k
      BY <1>1
    <2> QED
      BY <1>2, <2>1
  <1> QED
    BY <1>2, <1>3, <1>4

\* A message that is decoded has a bid and an ask group.
DepthFields(m, c1, b1, c2, b2) ==
  /\ c1 = m.groups[1].count /\ b1 = m.groups[1].blockLen
  /\ c2 = m.groups[2].count /\ b2 = m.groups[2].blockLen
  /\ GroupStart(m, 1) = 8 + m.blockLength
  /\ GroupStart(m, 2) = GroupStart(m, 1) + 4 + c1 * b1
  /\ GroupStart(m, 3) = GroupStart(m, 2) + 4 + c2 * b2
  /\ WireLength(m) = GroupStart(m, 3) + 1 + m.symLen
  /\ GroupStart(m, 1) \in Nat /\ GroupStart(m, 2) \in Nat /\ GroupStart(m, 3) \in Nat
  /\ m.symLen \in Nat /\ m.groupHeader = 4 /\ m.blockLength \in Nat

LEMMA DepthFacts ==
  ASSUME MessagesLaidOut, NEW m \in Messages, NEW s \in lookup(m.templateId), ~ s.skip
  PROVE  \E c1, b1, c2, b2 \in Nat : DepthFields(m, c1, b1, c2, b2)
  <1>1. Len(m.groups) = 2 /\ m.groupHeader = 4
    BY SchemaFacts
  <1>2. m.symLen \in Nat /\ m.blockLength \in Nat
    BY MessageFacts
  <1>3. PICK c1 \in Nat, b1 \in Nat, c2 \in Nat, b2 \in Nat :
          /\ c1 = m.groups[1].count /\ b1 = m.groups[1].blockLen
          /\ c2 = m.groups[2].count /\ b2 = m.groups[2].blockLen
    <2>1. 1 \in 1 .. Len(m.groups) /\ 2 \in 1 .. Len(m.groups)
      BY <1>1
    <2>2. /\ m.groups[1].count \in Nat /\ m.groups[1].blockLen \in Nat
          /\ m.groups[2].count \in Nat /\ m.groups[2].blockLen \in Nat
      BY <2>1, MessageFacts
    <2> QED
      BY <2>2
  <1>4. PICK g1 \in Nat, g2 \in Nat, g3 \in Nat :
          g1 = GroupStart(m, 1) /\ g2 = GroupStart(m, 2) /\ g3 = GroupStart(m, 3)
    <2>1. 1 \in 1 .. Len(m.groups) + 1 /\ 2 \in 1 .. Len(m.groups) + 1 /\ 3 \in 1 .. Len(m.groups) + 1
      BY <1>1
    <2>2. GroupStart(m, 1) \in Nat /\ GroupStart(m, 2) \in Nat /\ GroupStart(m, 3) \in Nat
      BY <2>1, GroupStartFacts
    <2> QED
      BY <2>2
  <1>5. /\ GroupStart(m, 1) = 8 + m.blockLength
        /\ GroupStart(m, 1 + 1) = GroupStart(m, 1) + GroupSize(m, 1)
        /\ GroupStart(m, 2 + 1) = GroupStart(m, 2) + GroupSize(m, 2)
    <2>1. 1 \in 1 .. Len(m.groups) /\ 2 \in 1 .. Len(m.groups)
      BY <1>1
    <2> QED
      BY <2>1, GroupStartFacts
  <1>6. 1 + 1 = 2 /\ 2 + 1 = 3
    OBVIOUS
  <1>7. GroupSize(m, 1) = 4 + b1 * c1 /\ GroupSize(m, 2) = 4 + b2 * c2
    BY <1>1, <1>3 DEF GroupSize
  <1>8. PICK p1 \in Nat, p2 \in Nat : p1 = b1 * c1 /\ p1 = c1 * b1 /\ p2 = b2 * c2 /\ p2 = c2 * b2
    <2>1. b1 * c1 \in Nat /\ b2 * c2 \in Nat /\ b1 * c1 = c1 * b1 /\ b2 * c2 = c2 * b2
      OBVIOUS
    <2> QED
      BY <2>1
  <1>9. g2 = g1 + (4 + p1) /\ g3 = g2 + (4 + p2)
    BY <1>4, <1>5, <1>6, <1>7, <1>8
  <1>10. g2 = g1 + 4 + p1 /\ g3 = g2 + 4 + p2
    BY <1>9
  <1>11. WireLength(m) = GroupStart(m, 3) + 1 + m.symLen
    BY <1>1, <1>6 DEF WireLength
  <1>12. DepthFields(m, c1, b1, c2, b2)
    BY <1>1, <1>2, <1>3, <1>4, <1>5, <1>8, <1>10, <1>11 DEF DepthFields
  <1> QED
    BY <1>12

\* decode goes on to its loops when the message is all there and its symbol is
\* known.
LEMMA DecodeFacts ==
  ASSUME MessagesLaidOut, NEW m \in Messages, NEW s \in lookup(m.templateId), ~ s.skip,
         size \in Nat, cursor \in Nat
  PROVE  /\ asks_end(m, s) \in Nat /\ asks_end(m, s) + 1 + m.symLen = WireLength(m)
         /\ decode(m, s) <=> WireLength(m) <= size - cursor /\ m.symbol \in KnownSymbols
  <1>1. PICK c1 \in Nat, b1 \in Nat, c2 \in Nat, b2 \in Nat : DepthFields(m, c1, b1, c2, b2)
    BY DepthFacts
  <1>2. m.blockLength = s.fixed_block_size
    BY SchemaFacts
  <1>3. PICK p1 \in Nat, p2 \in Nat : p1 = b1 * c1 /\ p1 = c1 * b1 /\ p2 = b2 * c2 /\ p2 = c2 * b2
    <2>1. b1 * c1 \in Nat /\ b2 * c2 \in Nat /\ b1 * c1 = c1 * b1 /\ b2 * c2 = c2 * b2
      OBVIOUS
    <2> QED
      BY <2>1
  <1>4. PICK g1 \in Nat, g2 \in Nat, g3 \in Nat :
          /\ g1 = GroupStart(m, 1) /\ g2 = GroupStart(m, 2) /\ g3 = GroupStart(m, 3)
          /\ g1 = 8 + s.fixed_block_size /\ g2 = g1 + 4 + p1 /\ g3 = g2 + 4 + p2
          /\ WireLength(m) = g3 + 1 + m.symLen /\ m.symLen \in Nat /\ g1 >= 8
    BY <1>1, <1>2, <1>3, SMTT(20) DEF DepthFields
  <1>5. bids_end(m, s) = g2
    BY <1>1, <1>3, <1>4 DEF bids_end, BidBlock, DepthFields
  <1>6. asks_end(m, s) = g3
    BY <1>1, <1>3, <1>4, <1>5 DEF asks_end, AskBlock, DepthFields
  <1>7. decode(m, s) <=>
          /\ 8 <= size - cursor
          /\ g1 + 4 <= size - cursor
          /\ g2 + 4 <= size - cursor
          /\ g3 < size - cursor
          /\ g3 + 1 + m.symLen <= size - cursor
          /\ m.symbol \in KnownSymbols
    BY <1>4, <1>5, <1>6 DEF decode, Available
  <1>8. g3 + 1 + m.symLen <= size - cursor =>
          /\ 8 <= size - cursor
          /\ g1 + 4 <= size - cursor
          /\ g2 + 4 <= size - cursor
          /\ g3 < size - cursor
    BY <1>4
  <1> QED
    BY <1>4, <1>6, <1>7, <1>8

\* Levels of a group lie one behind the other and before its end.
LEMMA Products ==
  ASSUME NEW b \in Nat, NEW c \in Nat
  PROVE  /\ c * b \in Nat
         /\ (c + 1) * b = c * b + b
         /\ 0 * b = 0
         /\ \A l \in Nat : l < c => (l * b \in Nat /\ l * b + b <= c * b)
  <1>1. c * b \in Nat /\ (c + 1) * b = c * b + b /\ 0 * b = 0
    OBVIOUS
  <1>2. ASSUME NEW l \in Nat, l < c PROVE l * b \in Nat /\ l * b + b <= c * b
    <2>1. PICK d \in Nat : c = l + 1 + d
      <3>1. c - l - 1 \in Nat /\ c = l + 1 + (c - l - 1)
        BY <1>2
      <3> QED
        BY <3>1
    <2>2. c * b = l * b + b + d * b
      BY <2>1
    <2>3. l * b \in Nat /\ d * b \in Nat
      OBVIOUS
    <2> QED
      BY <2>2, <2>3
  <1> QED
    BY <1>1, <1>2

-----------------------------------------------------------------------------
(***************************************************************************)
(* The updates of a message.                                               *)
(***************************************************************************)
LevelOf(i, g, side, k) ==
  [symbol |-> payload[i].symbol, side |-> side,
   at |-> MessageStart(i) + GroupStart(payload[i], g) + payload[i].groupHeader
            + (k - 1) * payload[i].groups[g].blockLen]

LEMMA LevelIsUpdate ==
  ASSUME MessagesLaidOut, payload \in Seq(Messages), NEW i \in 1 .. Len(payload),
         IsDepth(payload[i]), payload[i].symbol \in KnownSymbols,
         NEW g \in {1, 2}, NEW side \in {"BUY", "SELL"}, NEW k \in Nat \ {0}
  PROVE  LevelOf(i, g, side, k) \in Update
  <1>1. payload[i] \in Messages /\ Len(payload) \in Nat
    BY PayloadFacts
  <1>2. PICK s \in lookup(payload[i].templateId) : ~ s.skip
    BY DEF IsDepth
  <1>3. PICK c1 \in Nat, b1 \in Nat, c2 \in Nat, b2 \in Nat : DepthFields(payload[i], c1, b1, c2, b2)
    BY <1>1, <1>2, DepthFacts
  <1>4. PICK b \in Nat, x \in Nat, y \in Nat, l \in Nat :
          /\ b = payload[i].groups[g].blockLen /\ x = MessageStart(i) /\ y = GroupStart(payload[i], g)
          /\ l = k - 1
    <2>1. i \in 1 .. Len(payload) + 1
      BY <1>1
    <2>2. MessageStart(i) \in Nat
      BY <2>1, StartFacts
    <2>3. payload[i].groups[g].blockLen \in Nat /\ GroupStart(payload[i], g) \in Nat
      BY <1>3 DEF DepthFields
    <2>4. k - 1 \in Nat
      OBVIOUS
    <2> QED
      BY <2>2, <2>3, <2>4
  <1>5. l * b \in Nat
    BY Products
  <1>6. x + y + 4 + l * b \in Nat
    BY <1>5
  <1>7. payload[i].groupHeader = 4
    BY <1>3 DEF DepthFields
  <1>8. LevelOf(i, g, side, k) = [symbol |-> payload[i].symbol, side |-> side, at |-> x + y + 4 + l * b]
    BY <1>4, <1>7 DEF LevelOf
  <1> QED
    BY <1>6, <1>8 DEF Update

LEMMA DepthUpdates ==
  ASSUME MessagesLaidOut, payload \in Seq(Messages), NEW i \in 1 .. Len(payload),
         IsDepth(payload[i]), payload[i].symbol \in KnownSymbols
  PROVE  \E c1, c2 \in Nat :
           /\ c1 = payload[i].groups[1].count /\ c2 = payload[i].groups[2].count
           /\ UpdatesOf(i) \in Seq(Update)
           /\ Len(UpdatesOf(i)) = c1 + c2
           /\ \A k \in 1 .. c1 : UpdatesOf(i)[k] = LevelOf(i, 1, "BUY", k)
           /\ \A k \in 1 .. c2 : UpdatesOf(i)[c1 + k] = LevelOf(i, 2, "SELL", k)
  <1>1. payload[i] \in Messages
    BY PayloadFacts
  <1>2. PICK s \in lookup(payload[i].templateId) : ~ s.skip
    BY DEF IsDepth
  <1>3. PICK c1 \in Nat, b1 \in Nat, c2 \in Nat, b2 \in Nat : DepthFields(payload[i], c1, b1, c2, b2)
    BY <1>1, <1>2, DepthFacts
  <1>4. c1 = payload[i].groups[1].count /\ c2 = payload[i].groups[2].count
    BY <1>3 DEF DepthFields
  <1> DEFINE bids == [k \in 1 .. c1 |-> LevelOf(i, 1, "BUY", k)]
             asks == [k \in 1 .. c2 |-> LevelOf(i, 2, "SELL", k)]
  <1>5. UpdatesOf(i) = bids \o asks
    <2>1. ~ \A t \in lookup(payload[i].templateId) : t.skip
      BY <1>2
    <2> QED
      BY <1>4, <2>1 DEF UpdatesOf, LevelOf
  <1>6. bids \in Seq(Update) /\ Len(bids) = c1
    <2>1. \A k \in 1 .. c1 : LevelOf(i, 1, "BUY", k) \in Update
      BY LevelIsUpdate
    <2> HIDE DEF Update
    <2> QED
      BY <2>1
  <1>7. asks \in Seq(Update) /\ Len(asks) = c2
    <2>1. \A k \in 1 .. c2 : LevelOf(i, 2, "SELL", k) \in Update
      BY LevelIsUpdate
    <2> QED
      BY <2>1
  <1>8. /\ \A k \in 1 .. c1 : bids[k] = LevelOf(i, 1, "BUY", k)
        /\ \A k \in 1 .. c2 : asks[k] = LevelOf(i, 2, "SELL", k)
    OBVIOUS
  <1> HIDE DEF bids, asks
  <1>9. /\ bids \o asks \in Seq(Update) /\ Len(bids \o asks) = c1 + c2
        /\ \A k \in 1 .. c1 : (bids \o asks)[k] = bids[k]
        /\ \A k \in 1 .. c2 : (bids \o asks)[c1 + k] = asks[k]
    <2>1. /\ bids \o asks \in Seq(Update) /\ Len(bids \o asks) = Len(bids) + Len(asks)
          /\ \A k \in 1 .. Len(bids) : (bids \o asks)[k] = bids[k]
          /\ \A k \in 1 .. Len(asks) : (bids \o asks)[Len(bids) + k] = asks[k]
      <3>1. bids \in Seq(Update) /\ asks \in Seq(Update)
        BY <1>6, <1>7
      <3> QED
        BY <3>1, Concatenated
    <2> QED
      BY <1>6, <1>7, <2>1, Zenon
  <1>10. /\ \A k \in 1 .. c1 : UpdatesOf(i)[k] = LevelOf(i, 1, "BUY", k)
         /\ \A k \in 1 .. c2 : UpdatesOf(i)[c1 + k] = LevelOf(i, 2, "SELL", k)
    BY <1>5, <1>8, <1>9
  <1>11. UpdatesOf(i) \in Seq(Update) /\ Len(UpdatesOf(i)) = c1 + c2
    BY <1>5, <1>9, Zenon
  <1> QED
    BY <1>4, <1>10, <1>11, Zenon

\* A message that is only measured has none.
LEMMA SkippedUpdates ==
  ASSUME NEW i, ~ IsDepth(payload[i])
  PROVE  UpdatesOf(i) = << >>
  BY DEF UpdatesOf, IsDepth

\* What Accepted says of its last message.
LEMMA AcceptedFacts ==
  ASSUME NEW i \in Nat \ {0}
  PROVE  Accepted(i) <=>
           /\ Accepted(i - 1)
           /\ MessageStart(i + 1) <= size
           /\ lookup(payload[i].templateId) # {}
           /\ IsDepth(payload[i]) => payload[i].symbol \in KnownSymbols
  <1> DEFINE Usable(j) == /\ MessageStart(j + 1) <= size
                          /\ lookup(payload[j].templateId) # {}
                          /\ \A s \in lookup(payload[j].templateId) : s.skip \/ payload[j].symbol \in KnownSymbols
  <1>1. Accepted(i) <=> \A j \in 1 .. i : Usable(j)
    BY DEF Accepted
  <1>2. Accepted(i - 1) <=> \A j \in 1 .. i - 1 : Usable(j)
    BY DEF Accepted
  <1>3. Usable(i) <=> /\ MessageStart(i + 1) <= size
                      /\ lookup(payload[i].templateId) # {}
                      /\ IsDepth(payload[i]) => payload[i].symbol \in KnownSymbols
    BY DEF IsDepth
  <1> HIDE DEF Usable
  <1>4. (\A j \in 1 .. i : Usable(j)) <=> (\A j \in 1 .. i - 1 : Usable(j)) /\ Usable(i)
    <2>1. \A j \in 1 .. i : j = i \/ j \in 1 .. i - 1
      OBVIOUS
    <2>2. i \in 1 .. i /\ \A j \in 1 .. i - 1 : j \in 1 .. i
      OBVIOUS
    <2> QED
      BY <2>1, <2>2
  <1> QED
    BY <1>1, <1>2, <1>3, <1>4

LEMMA AcceptedEarlier ==
  ASSUME NEW i \in Nat, NEW k \in 1 .. i, Accepted(i)
  PROVE  Accepted(k)
  BY DEF Accepted

LEMMA PartIsUpdates ==
  ASSUME MessagesLaidOut, payload \in Seq(Messages), NEW i \in 1 .. Len(payload)
  PROVE  Part(i) \in Updates
  <1>1. << >> \in Updates
    BY DEF Updates
  <1>2. CASE ~ Accepted(i)
    BY <1>1, <1>2 DEF Part
  <1>3. CASE Accepted(i) /\ ~ IsDepth(payload[i])
    BY <1>1, <1>3, SkippedUpdates DEF Part
  <1>4. CASE Accepted(i) /\ IsDepth(payload[i])
    <2>1. i \in Nat \ {0}
      BY PayloadFacts
    <2>2. payload[i].symbol \in KnownSymbols
      BY <1>4, <2>1, AcceptedFacts
    <2>3. UpdatesOf(i) \in Seq(Update)
      BY <1>4, <2>2, DepthUpdates
    <2> QED
      BY <1>4, <2>3 DEF Part, Updates
  <1> QED
    BY <1>2, <1>3, <1>4

\* From a message on that parse cannot use nothing is expected.
LEMMA NothingExpected ==
  ASSUME MessagesLaidOut, payload \in Seq(Messages), NEW k \in 1 .. Len(payload), ~ Accepted(k)
  PROVE  \A i \in k .. Len(payload) : Part(i) = << >>
  <1> SUFFICES ASSUME NEW i \in k .. Len(payload) PROVE ~ Accepted(i)
    BY DEF Part
  <1>1. i \in Nat /\ k \in 1 .. i
    BY PayloadFacts
  <1> QED
    BY <1>1, AcceptedEarlier

-----------------------------------------------------------------------------
(***************************************************************************)
(* The updates of a payload, message after message.                        *)
(***************************************************************************)
LEMMA UpdatesJoin ==
  ASSUME NEW a \in Updates, NEW b \in Updates
  PROVE  /\ a \o b \in Updates /\ Len(a) \in Nat /\ Len(b) \in Nat
         /\ Len(a \o b) = Len(a) + Len(b)
         /\ \A k \in 1 .. Len(a) : (a \o b)[k] = a[k]
         /\ \A k \in 1 .. Len(b) : (a \o b)[Len(a) + k] = b[k]
         /\ a \o << >> = a /\ << >> \o a = a
  <1>1. a \in Seq(Update) /\ b \in Seq(Update)
    BY DEF Updates
  <1>2. Len(a) \in Nat /\ Len(b) \in Nat
    BY <1>1
  <1>3. a \o << >> = a /\ << >> \o a = a
    BY <1>1, ConcatEmptySeq
  <1>4. /\ a \o b \in Seq(Update) /\ Len(a \o b) = Len(a) + Len(b)
        /\ \A k \in 1 .. Len(a) : (a \o b)[k] = a[k]
        /\ \A k \in 1 .. Len(b) : (a \o b)[Len(a) + k] = b[k]
    BY <1>1, Concatenated
  <1> QED
    BY <1>2, <1>3, <1>4 DEF Updates

LEMMA FlattenDef ==
  ASSUME NEW e, NEW n \in Nat \ {0}, Len(e) = n
  PROVE  \E u : /\ u = [i \in 1 .. n |-> IF i = 1 THEN e[i] ELSE u[i - 1] \o e[i]]
                /\ FlattenSeq(e) = u[n]
  <1> DEFINE Cut(u, i) == IF i = 1 THEN e[i] ELSE u[i - 1] \o e[i]
             Up(m) == \E u : u = [i \in 1 .. m |-> Cut(u, i)]
             T == {m \in Nat : ~ Up(m)}
  <1>1. T = {}
    <2> SUFFICES ASSUME T # {} PROVE FALSE
      OBVIOUS
    <2> HIDE DEF Up
    <2>1. PICK m \in T : \A l \in T : m <= l
      BY LeastNumber
    <2>2. m \in Nat /\ ~ Up(m)
      BY <2>1
    <2>3. m # 0
      <3> SUFFICES ASSUME m = 0 PROVE Up(m)
        BY <2>2
      <3> DEFINE u == [i \in 1 .. m |-> 0]
      <3>1. u = [i \in 1 .. m |-> Cut(u, i)]
        OBVIOUS
      <3> QED
        BY <3>1 DEF Up
    <2>4. m - 1 \in Nat /\ Up(m - 1)
      <3>1. m - 1 \in Nat
        BY <2>2, <2>3
      <3>2. m - 1 \in T => m <= m - 1
        BY <2>1
      <3> QED
        BY <2>2, <3>1, <3>2
    <2>5. PICK u : u = [i \in 1 .. m - 1 |-> Cut(u, i)]
      BY <2>4 DEF Up
    <2> DEFINE h == [i \in 1 .. m |-> IF i \in 1 .. m - 1 THEN u[i] ELSE Cut(u, i)]
    <2>6. ASSUME NEW i \in 1 .. m PROVE h[i] = Cut(h, i)
      <3>1. h[i] = Cut(u, i)
        BY <2>5
      <3>2. CASE i = 1
        BY <3>1, <3>2
      <3>3. CASE i # 1
        <4>1. i - 1 \in 1 .. m - 1 /\ i - 1 \in 1 .. m
          BY <2>2, <2>4, <3>3
        <4>2. h[i - 1] = u[i - 1]
          BY <4>1
        <4> QED
          BY <3>1, <3>3, <4>2
      <3> QED
        BY <3>2, <3>3
    <2>7. h = [i \in 1 .. m |-> Cut(h, i)]
      <3> DEFINE g == [i \in 1 .. m |-> Cut(h, i)]
      <3> HIDE DEF Cut
      <3>1. \A i \in 1 .. m : h[i] = g[i]
        BY <2>6
      <3> QED
        BY <3>1
    <2> QED
      BY <2>2, <2>7 DEF Up
  <1>2. Up(n)
    <2> HIDE DEF Up
    <2> QED
      BY <1>1
  <1> DEFINE flatten == CHOOSE u : u = [i \in 1 .. n |-> Cut(u, i)]
  <1>3. flatten = [i \in 1 .. n |-> Cut(flatten, i)]
    BY <1>2
  <1>4. FlattenSeq(e) = flatten[n]
    BY DEF FlattenSeq
  <1> QED
    BY <1>3, <1>4

LEMMA FlatExists ==
  ASSUME MessagesLaidOut, payload \in Seq(Messages)
  PROVE  \E f : Flat(f) /\ Expected = f[Len(payload)]
  <1> DEFINE n == Len(payload)
             e == [i \in 1 .. n |-> Part(i)]
  <1>1. n \in Nat
    BY PayloadFacts
  <1>2. Expected = FlattenSeq(e)
    BY DEF Expected, Part
  <1>3. Len(e) = n
    BY <1>1
  <1>4. \A i \in 1 .. n : e[i] = Part(i) /\ Part(i) \in Updates
    BY PartIsUpdates
  <1>5. << >> \in Updates
    BY DEF Updates
  <1>6. CASE n = 0
    <2>1. e = << >>
      BY <1>6
    <2>2. Expected = << >>
      BY <1>2, <2>1 DEF FlattenSeq
    <2> DEFINE f == [i \in 0 .. n |-> << >>]
    <2>3. Flat(f) /\ f[n] = << >>
      BY <1>5, <1>6 DEF Flat
    <2> QED
      BY <2>2, <2>3
  <1>7. CASE n # 0
    <2> HIDE DEF n, e
    <2>1. n \in Nat \ {0}
      BY <1>1, <1>7
    <2>2. PICK u : /\ u = [i \in 1 .. n |-> IF i = 1 THEN e[i] ELSE u[i - 1] \o e[i]]
                   /\ FlattenSeq(e) = u[n]
      BY <1>3, <2>1, FlattenDef
    <2>3. u[1] = Part(1) /\ Part(1) \in Updates
      <3>1. 1 \in 1 .. n
        BY <2>1
      <3> QED
        BY <1>4, <2>2, <3>1
    <2>4. ASSUME NEW l \in 1 .. n, l # 1
          PROVE  l - 1 \in 1 .. n /\ u[l] = u[l - 1] \o Part(l) /\ Part(l) \in Updates
      <3>1. l - 1 \in 1 .. n
        BY <2>1, <2>4
      <3>2. u[l] = u[l - 1] \o e[l]
        BY <2>2, <2>4
      <3> QED
        BY <1>4, <3>1, <3>2
    <2> DEFINE T == {i \in Nat : i \in 1 .. n /\ u[i] \notin Updates}
    <2>5. T = {}
      <3> SUFFICES ASSUME T # {} PROVE FALSE
        OBVIOUS
      <3>1. PICK j \in T : \A l \in T : j <= l
        BY LeastNumber
      <3>2. j \in 1 .. n /\ u[j] \notin Updates
        BY <3>1
      <3>3. j # 1
        BY <2>3, <3>2
      <3>4. u[j - 1] \in Updates
        <4>1. j - 1 \in T => j <= j - 1
          BY <3>1
        <4>2. j - 1 \in 1 .. n /\ j - 1 \in Nat
          BY <2>4, <3>2, <3>3
        <4> QED
          BY <4>1, <4>2
      <3>5. u[j] = u[j - 1] \o Part(j) /\ Part(j) \in Updates
        BY <2>4, <3>2, <3>3, Zenon
      <3>6. u[j - 1] \o Part(j) \in Updates
        BY <3>4, <3>5, UpdatesJoin, Zenon
      <3> QED
        BY <3>2, <3>5, <3>6, Zenon
    <2>6. \A i \in 1 .. n : u[i] \in Updates
      BY <2>5
    <2> HIDE DEF T
    <2> DEFINE f == [i \in 0 .. n |-> IF i = 0 THEN << >> ELSE u[i]]
    <2>7. f \in [0 .. n -> Updates] /\ f[0] = << >> /\ f[n] = u[n]
      BY <1>5, <2>1, <2>6
    <2>8. ASSUME NEW i \in 1 .. n PROVE f[i] = f[i - 1] \o Part(i)
      <3>1. f[i] = u[i]
        BY <2>1
      <3>2. CASE i = 1
        <4>1. f[i - 1] = << >>
          BY <2>1, <3>2
        <4>2. << >> \o Part(1) = Part(1)
          BY <2>3, UpdatesJoin
        <4> HIDE DEF f
        <4> QED
          BY <2>3, <3>1, <3>2, <4>1, <4>2
      <3>3. CASE i # 1
        <4>1. i - 1 \in 0 .. n /\ i - 1 # 0
          BY <2>1, <3>3
        <4>2. f[i - 1] = u[i - 1]
          BY <4>1
        <4> HIDE DEF f
        <4> QED
          BY <2>4, <3>1, <3>3, <4>2
      <3> QED
        BY <3>2, <3>3
    <2> HIDE DEF f
    <2>9. Flat(f)
      BY <2>7, <2>8 DEF Flat, n
    <2> QED
      BY <1>2, <2>2, <2>7, <2>9 DEF n
  <1> QED
    BY <1>6, <1>7

\* What is expected of the first messages comes first.
LEMMA FlatPrefix ==
  ASSUME Len(payload) \in Nat, \A l \in 1 .. Len(payload) : Part(l) \in Updates,
         NEW f, Flat(f), NEW i \in 0 .. Len(payload)
  PROVE  \A j \in i .. Len(payload) :
           /\ Len(f[i]) <= Len(f[j])
           /\ \A x \in 1 .. Len(f[i]) : f[j][x] = f[i][x]
  <1> DEFINE n == Len(payload)
             Begins(j) == Len(f[i]) <= Len(f[j]) /\ \A x \in 1 .. Len(f[i]) : f[j][x] = f[i][x]
             T == {j \in Nat : j \in i .. n /\ ~ Begins(j)}
  <1>1. n \in Nat /\ \A l \in 0 .. n : f[l] \in Updates
    BY DEF Flat
  <1>2. \A l \in 0 .. n : Len(f[l]) \in Nat
    BY <1>1, UpdatesJoin
  <1>3. \A l \in 1 .. n : f[l] = f[l - 1] \o Part(l) /\ Part(l) \in Updates
    BY DEF Flat
  <1> HIDE DEF n
  <1>4. T = {}
    <2> SUFFICES ASSUME T # {} PROVE FALSE
      OBVIOUS
    <2> HIDE DEF Begins
    <2>1. PICK j \in T : \A l \in T : j <= l
      BY LeastNumber
    <2>2. j \in Nat /\ j \in i .. n /\ ~ Begins(j)
      BY <2>1
    <2>3. j # i
      <3> SUFFICES Begins(i)
        BY <2>2
      <3>1. i \in 0 .. n
        BY DEF n
      <3> QED
        BY <1>2, <3>1 DEF Begins
    <2>4. PICK l \in 0 .. n : j = l + 1 /\ l \in i .. n /\ j \in 1 .. n
      <3>1. j - 1 \in 0 .. n /\ j = (j - 1) + 1 /\ j - 1 \in i .. n /\ j \in 1 .. n
        BY <1>1, <2>2, <2>3 DEF n
      <3> QED
        BY <3>1
    <2>5. Begins(l)
      <3>1. l \in T => j <= l
        BY <2>1
      <3> QED
        BY <2>2, <2>4, <3>1
    <2>6. f[j] = f[l] \o Part(j) /\ f[l] \in Updates /\ Part(j) \in Updates
      <3>1. j - 1 = l
        BY <2>4
      <3> QED
        BY <1>1, <1>3, <2>4, <3>1
    <2>7. /\ Len(f[j]) = Len(f[l]) + Len(Part(j)) /\ Len(f[l]) \in Nat /\ Len(Part(j)) \in Nat
          /\ \A x \in 1 .. Len(f[l]) : f[j][x] = f[l][x]
      BY <2>6, UpdatesJoin
    <2>8. Len(f[i]) \in Nat
      BY <1>2, <1>1 DEF n
    <2>9. Begins(j)
      BY <2>5, <2>7, <2>8 DEF Begins
    <2> QED
      BY <2>2, <2>9
  <1> QED
    BY <1>4 DEF n

\* Messages of which nothing is expected change nothing.
LEMMA FlatEnd ==
  ASSUME Len(payload) \in Nat, NEW f, Flat(f), NEW i \in 0 .. Len(payload),
         \A l \in i + 1 .. Len(payload) : Part(l) = << >>
  PROVE  f[Len(payload)] = f[i]
  <1> DEFINE n == Len(payload)
             T == {j \in Nat : j \in i .. n /\ f[j] # f[i]}
  <1>1. n \in Nat /\ \A l \in 0 .. n : f[l] \in Updates
    BY DEF Flat
  <1>2. \A l \in 1 .. n : f[l] = f[l - 1] \o Part(l)
    BY DEF Flat
  <1>3. i \in 0 .. n /\ \A l \in i + 1 .. n : Part(l) = << >>
    OBVIOUS
  <1> HIDE DEF n
  <1>4. T = {}
    <2> SUFFICES ASSUME T # {} PROVE FALSE
      OBVIOUS
    <2>1. PICK j \in T : \A l \in T : j <= l
      BY LeastNumber
    <2>2. j \in Nat /\ j \in i .. n /\ f[j] # f[i]
      BY <2>1
    <2>3. PICK l \in 0 .. n : j = l + 1 /\ l \in i .. n /\ j \in 1 .. n /\ j \in i + 1 .. n
      <3>1. j - 1 \in 0 .. n /\ j = (j - 1) + 1 /\ j - 1 \in i .. n /\ j \in 1 .. n /\ j \in i + 1 .. n
        BY <1>1, <1>3, <2>2
      <3> QED
        BY <3>1
    <2>4. f[l] = f[i]
      <3>1. l \in T => j <= l
        BY <2>1
      <3> QED
        BY <2>2, <2>3, <3>1
    <2>5. f[j] = f[l] \o << >> /\ f[l] \in Updates
      <3>1. j - 1 = l
        BY <2>3
      <3> QED
        BY <1>1, <1>2, <1>3, <2>3, <3>1
    <2>6. f[j] = f[l]
      BY <2>5, UpdatesJoin
    <2> QED
      BY <2>2, <2>4, <2>6
  <1>5. n \in i .. n
    BY <1>1, <1>3
  <1> QED
    BY <1>1, <1>4, <1>5 DEF n

-----------------------------------------------------------------------------
(***************************************************************************)
(* The invariant is inductive.                                             *)
(***************************************************************************)
LEMMA InitParser ==
  ASSUME MessagesLaidOut, MaxMessages \in Nat, ParseInit
  PROVE  ParserInv
  <1>1. payload \in Seq(Messages)
    <2>1. PICK n \in 0 .. MaxMessages : payload \in [1 .. n -> Messages]
      BY DEF ParseInit
    <2>2. n \in Nat
      OBVIOUS
    <2> QED
      BY <2>1, <2>2
  <1>2. Len(payload) \in Nat
    BY <1>1
  <1>3. size \in Nat
    <2>1. Len(payload) + 1 \in 1 .. Len(payload) + 1
      BY <1>2
    <2>2. MessageStart(Len(payload) + 1) \in Nat
      BY <1>1, <2>1, StartFacts
    <2>3. size \in 0 .. MessageStart(Len(payload) + 1)
      BY DEF ParseInit
    <2> QED
      BY <2>2, <2>3
  <1>4. enqueued = << >> /\ parsing = "next" /\ offset = 0 /\ level = 0 /\ cursor = 0
    BY DEF ParseInit
  <1>5. << >> \in Updates
    BY DEF Updates
  <1>6. Types
    BY <1>1, <1>3, <1>4, <1>5 DEF Types
  <1>7. PICK f : Flat(f) /\ Expected = f[Len(payload)]
    BY <1>1, FlatExists
  <1>8. 1 \in 1 .. Len(payload) + 1 /\ 1 - 1 = 0
    BY <1>2
  <1>9. Accepted(0)
    BY DEF Accepted
  <1>10. MessageStart(1) = 0 /\ f[0] = << >>
    BY <1>1, <1>7, StartFacts DEF Flat
  <1>11. At(f, 1)
    BY <1>4, <1>8, <1>9, <1>10 DEF At
  <1> QED
    BY <1>6, <1>7, <1>8, <1>11 DEF ParserInv

LEMMA PayloadStays ==
  ASSUME UNCHANGED <<payload, size>>
  PROVE  /\ \A i : MessageStart(i)' = MessageStart(i) /\ Accepted(i)' = Accepted(i)
         /\ \A i : UpdatesOf(i)' = UpdatesOf(i) /\ Part(i)' = Part(i)
         /\ Expected' = Expected
         /\ \A f : Flat(f)' = Flat(f)
  <1>1. \A i : MessageStart(i)' = MessageStart(i)
    BY DEF MessageStart, MessageStarts
  <1>2. \A i : Accepted(i)' = Accepted(i)
    BY <1>1 DEF Accepted
  <1>3. \A i : UpdatesOf(i)' = UpdatesOf(i)
    BY <1>1 DEF UpdatesOf
  <1>4. \A i : Part(i)' = Part(i)
    BY <1>2, <1>3 DEF Part
  <1>5. Expected' = Expected
    BY <1>2, <1>3 DEF Expected
  <1>6. \A f : Flat(f)' = Flat(f)
    BY <1>4 DEF Flat
  <1> QED
    BY <1>1, <1>2, <1>3, <1>4, <1>5, <1>6

LEMMA AtFacts ==
  ASSUME Types, NEW f, NEW k \in 1 .. Len(payload) + 1, At(f, k)
  PROVE  /\ MessagesLaidOut /\ payload \in Seq(Messages) /\ Len(payload) \in Nat
         /\ size \in Nat /\ cursor \in Nat /\ cursor = MessageStart(k)
         /\ k \in 1 .. Len(payload) =>
              /\ k + 1 \in 1 .. Len(payload) + 1 /\ k \in Nat \ {0}
              /\ payload[k] \in Messages /\ WireLength(payload[k]) \in Nat /\ WireLength(payload[k]) >= 9
              /\ MessageStart(k + 1) = cursor + WireLength(payload[k])
         /\ \A m \in Here : k \in 1 .. Len(payload) /\ m = payload[k]
  <1>1. MessagesLaidOut /\ payload \in Seq(Messages) /\ size \in Nat /\ cursor = MessageStart(k)
    BY DEF Types, At
  <1>2. Len(payload) \in Nat
    BY <1>1, PayloadFacts
  <1>3. cursor \in Nat
    BY <1>1, StartFacts
  <1>4. \A m \in Here : k \in 1 .. Len(payload) /\ m = payload[k]
    BY <1>1, HereIsOne
  <1>5. ASSUME k \in 1 .. Len(payload)
        PROVE  /\ k + 1 \in 1 .. Len(payload) + 1 /\ k \in Nat \ {0}
               /\ payload[k] \in Messages /\ WireLength(payload[k]) \in Nat /\ WireLength(payload[k]) >= 9
               /\ MessageStart(k + 1) = cursor + WireLength(payload[k])
    <2>1. k + 1 \in 1 .. Len(payload) + 1 /\ k \in Nat \ {0}
      BY <1>2, <1>5
    <2>2. payload[k] \in Messages /\ WireLength(payload[k]) \in Nat /\ WireLength(payload[k]) >= 9
      BY <1>1, <1>5, PayloadFacts
    <2>3. MessageStart(k + 1) = MessageStart(k) + WireLength(payload[k])
      BY <1>1, <1>5, StartFacts
    <2> QED
      BY <1>1, <2>1, <2>2, <2>3
  <1> QED
    BY <1>1, <1>2, <1>3, <1>4, <1>5

\* parse leaves its loop at a message it cannot use.
LEMMA StopKeeps ==
  ASSUME Types, NEW f, NEW k \in 1 .. Len(payload) + 1, At(f, k),
         parsing = "next", parsing' = "done", UNCHANGED <<payload, size, cursor, offset, level, enqueued>>,
         k \in 1 .. Len(payload) => ~ Accepted(k)
  PROVE  Types' /\ At(f, k)'
  <1>1. /\ \A i : MessageStart(i)' = MessageStart(i) /\ Accepted(i)' = Accepted(i)
        /\ \A i : Part(i)' = Part(i)
    BY PayloadStays
  <1>2. Types'
    BY DEF Types
  <1>3. \A i \in k .. Len(payload) : Part(i) = << >>
    <2>1. CASE k \in 1 .. Len(payload)
      BY <2>1, AtFacts, NothingExpected
    <2>2. CASE k \notin 1 .. Len(payload)
      <3>1. Len(payload) \in Nat
        BY AtFacts
      <3>2. k .. Len(payload) = {}
        BY <2>2, <3>1
      <3> QED
        BY <3>2
    <2> QED
      BY <2>1, <2>2
  <1>4. /\ cursor = MessageStart(k) /\ enqueued = f[k - 1]
        /\ MessageStart(k) <= size => Accepted(k - 1)
    BY DEF At
  <1>5. /\ cursor' = MessageStart(k)' /\ enqueued' = f[k - 1] /\ k \in 1 .. Len(payload') + 1
        /\ MessageStart(k)' <= size' => Accepted(k - 1)'
        /\ \A i \in k .. Len(payload') : Part(i)' = << >>
    BY <1>1, <1>3, <1>4
  <1> QED
    BY <1>2, <1>5 DEF At

LEMMA LeaveKeeps ==
  ASSUME Types, NEW f, NEW k \in 1 .. Len(payload) + 1, At(f, k), Leave
  PROVE  Types' /\ At(f, k)'
  <1>1. /\ parsing = "next" /\ parsing' = "done" /\ UNCHANGED <<payload, size, cursor, offset, level, enqueued>>
        /\ cursor + 4 <= size => \E m \in Here : lookup(m.templateId) = {}
    BY DEF Leave
  <1>2. ASSUME k \in 1 .. Len(payload) PROVE ~ Accepted(k)
    <2>1. CASE cursor + 4 <= size
      <3>1. lookup(payload[k].templateId) = {}
        BY <1>1, <2>1, AtFacts
      <3> QED
        BY <1>2, <3>1, AtFacts, AcceptedFacts
    <2>2. CASE ~ (cursor + 4 <= size)
      <3>1. PICK l \in Nat : l >= 9 /\ MessageStart(k + 1) = cursor + l
        BY <1>2, AtFacts
      <3>2. size \in Nat /\ cursor \in Nat /\ k \in Nat \ {0}
        BY <1>2, AtFacts
      <3>3. ~ (MessageStart(k + 1) <= size)
        BY <2>2, <3>1, <3>2
      <3> QED
        BY <3>2, <3>3, AcceptedFacts
    <2> QED
      BY <2>1, <2>2
  <1> QED
    BY <1>1, <1>2, StopKeeps

\* The cursor goes to the next message.
LEMMA AdvanceKeeps ==
  ASSUME Types, NEW f, Flat(f), NEW k \in 1 .. Len(payload), k \in 1 .. Len(payload) + 1, At(f, k),
         UNCHANGED <<payload, size, offset, level, enqueued>>,
         parsing' = "next", cursor' = cursor + WireLength(payload[k]), enqueued = f[k],
         lookup(payload[k].templateId) # {},
         MessageStart(k + 1) <= size /\ IsDepth(payload[k]) => payload[k].symbol \in KnownSymbols
  PROVE  Types' /\ At(f, k + 1)'
  <1>1. \A i : MessageStart(i)' = MessageStart(i) /\ Accepted(i)' = Accepted(i)
    BY PayloadStays
  <1>2. Types'
    BY DEF Types
  <1>3. /\ MessageStart(k + 1) = cursor + WireLength(payload[k]) /\ k + 1 \in 1 .. Len(payload) + 1
        /\ k \in Nat \ {0} /\ (k + 1) - 1 = k
    BY AtFacts
  <1>4. MessageStart(k + 1) <= size => Accepted(k)
    <2> SUFFICES ASSUME MessageStart(k + 1) <= size PROVE Accepted(k)
      OBVIOUS
    <2>1. PICK l \in Nat : MessageStart(k + 1) = cursor + l
      BY AtFacts
    <2>2. size \in Nat /\ cursor \in Nat /\ cursor = MessageStart(k)
      BY AtFacts
    <2>3. MessageStart(k) <= size
      BY <2>1, <2>2
    <2>4. Accepted(k - 1)
      BY <2>3 DEF At
    <2> QED
      BY <1>3, <2>4, AcceptedFacts
  <1>5. /\ cursor' = MessageStart(k + 1)' /\ enqueued' = f[(k + 1) - 1] /\ k + 1 \in 1 .. Len(payload') + 1
        /\ MessageStart(k + 1)' <= size' => Accepted((k + 1) - 1)'
    BY <1>1, <1>3, <1>4
  <1> QED
    BY <1>2, <1>5 DEF At

LEMMA SkipKeeps ==
  ASSUME Types, NEW f, Flat(f), NEW k \in 1 .. Len(payload) + 1, At(f, k), Skip
  PROVE  Types' /\ \E l \in 1 .. Len(payload) + 1 : At(f, l)'
  <1>1. PICK m \in Here, s \in schemas_ :
          /\ s \in lookup(m.templateId) /\ s.skip
          /\ IF measure(m, s) = 0
               THEN parsing' = "done" /\ UNCHANGED cursor
               ELSE cursor' = cursor + measure(m, s) /\ UNCHANGED parsing
    BY DEF Skip
  <1>2. parsing = "next" /\ UNCHANGED <<payload, size, offset, level, enqueued>>
    BY DEF Skip
  <1>3. /\ k \in 1 .. Len(payload) /\ m = payload[k] /\ m \in Messages /\ MessagesLaidOut
        /\ size \in Nat /\ cursor \in Nat /\ k + 1 \in 1 .. Len(payload) + 1 /\ k \in Nat \ {0}
    BY AtFacts
  <1>4. \A t \in lookup(m.templateId) : t = s
    BY <1>1, <1>3, SchemaFacts
  <1>5. ~ IsDepth(payload[k])
    BY <1>1, <1>3, <1>4 DEF IsDepth
  <1>6. PICK w \in Nat : w = WireLength(m) /\ w >= 9 /\ MessageStart(k + 1) = cursor + w
    BY <1>3, AtFacts
  <1>7. measure(m, s) = w \/ (measure(m, s) = 0 /\ w > size - cursor)
    BY <1>1, <1>3, <1>6, MeasureFacts
  <1>8. CASE measure(m, s) = 0
    <2>1. w > size - cursor
      BY <1>6, <1>7, <1>8
    <2>2. ~ (MessageStart(k + 1) <= size)
      BY <1>3, <1>6, <2>1
    <2>3. ~ Accepted(k)
      BY <1>3, <2>2, AcceptedFacts
    <2>4. parsing' = "done" /\ UNCHANGED cursor
      BY <1>1, <1>8
    <2> QED
      BY <1>2, <2>3, <2>4, StopKeeps
  <1>9. CASE measure(m, s) # 0
    <2>1. cursor' = cursor + WireLength(payload[k]) /\ parsing' = "next"
      BY <1>1, <1>2, <1>3, <1>6, <1>7, <1>9
    <2>2. enqueued = f[k]
      <3>1. enqueued = f[k - 1]
        BY <1>2 DEF At
      <3>2. Part(k) = << >>
        BY <1>5, SkippedUpdates DEF Part
      <3>3. f[k] = f[k - 1] \o Part(k) /\ f[k - 1] \in Updates
        <4>1. k - 1 \in 0 .. Len(payload)
          BY <1>3, AtFacts
        <4> QED
          BY <1>3, <4>1 DEF Flat
      <3> QED
        BY <3>1, <3>2, <3>3, UpdatesJoin
    <2>3. lookup(payload[k].templateId) # {}
      BY <1>1, <1>3
    <2>4. Types' /\ At(f, k + 1)'
      BY <1>2, <1>3, <1>5, <2>1, <2>2, <2>3, AdvanceKeeps
    <2> QED
      BY <1>3, <2>4
  <1> QED
    BY <1>8, <1>9

LEMMA DecodeKeeps ==
  ASSUME Types, NEW f, Flat(f), NEW k \in 1 .. Len(payload) + 1, At(f, k), Decode
  PROVE  Types' /\ At(f, k)'
  <1>1. PICK m \in Here, s \in schemas_ :
          /\ s \in lookup(m.templateId) /\ ~ s.skip
          /\ IF decode(m, s)
               THEN parsing' = "bids" /\ offset' = 8 + s.fixed_block_size + 4 /\ level' = 0
               ELSE parsing' = "done" /\ UNCHANGED <<offset, level>>
    BY DEF Decode
  <1>2. parsing = "next" /\ UNCHANGED <<payload, size, cursor, enqueued>>
    BY DEF Decode
  <1>3. /\ k \in 1 .. Len(payload) /\ m = payload[k] /\ m \in Messages /\ MessagesLaidOut
        /\ size \in Nat /\ cursor \in Nat /\ k + 1 \in 1 .. Len(payload) + 1 /\ k \in Nat \ {0}
    BY AtFacts
  <1>4. IsDepth(payload[k]) /\ lookup(payload[k].templateId) # {}
    BY <1>1, <1>3 DEF IsDepth
  <1>5. PICK w \in Nat : w = WireLength(m) /\ w >= 9 /\ MessageStart(k + 1) = cursor + w
    BY <1>3, AtFacts
  <1>6. decode(m, s) <=> w <= size - cursor /\ m.symbol \in KnownSymbols
    BY <1>1, <1>3, <1>5, DecodeFacts
  <1>7. w <= size - cursor <=> MessageStart(k + 1) <= size
    BY <1>3, <1>5
  <1>8. CASE ~ decode(m, s)
    <2>1. ~ Accepted(k)
      BY <1>3, <1>4, <1>6, <1>7, <1>8, AcceptedFacts
    <2>2. parsing' = "done" /\ UNCHANGED <<offset, level>>
      BY <1>1, <1>8
    <2> QED
      BY <1>2, <2>1, <2>2, StopKeeps
  <1>9. CASE decode(m, s)
    <2>1. parsing' = "bids" /\ offset' = 8 + s.fixed_block_size + 4 /\ level' = 0
      BY <1>1, <1>9
    <2>2. MessageStart(k) <= size
      <3>1. cursor = MessageStart(k)
        BY AtFacts
      <3> QED
        BY <1>3, <1>5, <1>6, <1>9, <3>1
    <2>3. Accepted(k - 1)
      BY <2>2 DEF At
    <2>4. Accepted(k)
      BY <1>3, <1>4, <1>6, <1>7, <1>9, <2>3, AcceptedFacts
    <2>5. PICK c1 \in Nat, b1 \in Nat, c2 \in Nat, b2 \in Nat : DepthFields(payload[k], c1, b1, c2, b2)
      BY <1>1, <1>3, DepthFacts
    <2>6. offset' \in Nat /\ offset' = GroupStart(payload[k], 1) + 4 + 0 * BidBlock(payload[k])
      <3>1. m.blockLength = s.fixed_block_size
        BY <1>1, <1>3, SchemaFacts
      <3>2. 0 * b1 = 0
        BY Products
      <3>3. BidBlock(payload[k]) = b1
        BY <2>5 DEF BidBlock, DepthFields
      <3>4. PICK g1 \in Nat : g1 = GroupStart(payload[k], 1) /\ g1 = 8 + s.fixed_block_size
        BY <1>3, <2>5, <3>1 DEF DepthFields
      <3>5. offset' = g1 + 4
        BY <2>1, <3>4
      <3>6. g1 + 4 = g1 + 4 + 0 /\ g1 + 4 \in Nat
        OBVIOUS
      <3> QED
        BY <3>2, <3>3, <3>4, <3>5, <3>6
    <2>7. Types'
      BY <1>2, <2>1, <2>6 DEF Types
    <2>8. enqueued = f[k - 1] /\ f[k - 1] \in Updates
      <3>1. k - 1 \in 0 .. Len(payload)
        BY <1>3, AtFacts
      <3> QED
        BY <1>2, <3>1 DEF At, Flat
    <2>9. EnqueuedTo(f, k, 0)'
      <3>1. Len(f[k - 1]) \in Nat
        BY <2>8, UpdatesJoin
      <3>2. enqueued' = f[k - 1]
        BY <1>2, <2>8
      <3> QED
        BY <3>1, <3>2 DEF EnqueuedTo
    <2>10. 0 <= payload[k].groups[1].count
      <3>1. c1 = payload[k].groups[1].count
        BY <2>5, Zenon DEF DepthFields
      <3>2. 0 <= c1
        OBVIOUS
      <3> QED
        BY <3>1, <3>2, Zenon
    <2>11. /\ cursor' = MessageStart(k)' /\ k \in 1 .. Len(payload') + 1
           /\ Accepted(k)' /\ Accepted(k - 1)'
      BY <1>2, <2>3, <2>4, AtFacts, PayloadStays
    <2>12. /\ k <= Len(payload') /\ IsDepth(payload[k])' /\ level' <= payload'[k].groups[1].count
           /\ offset' = GroupStart(payload'[k], 1) + 4 + level' * BidBlock(payload'[k])
           /\ EnqueuedTo(f, k, level)'
      <3>1. IsDepth(payload[k])'
        BY <1>2, <1>4 DEF IsDepth
      <3>2. EnqueuedTo(f, k, level)'
        BY <2>1, <2>9 DEF EnqueuedTo
      <3>3. k <= Len(payload)
        BY <1>3, AtFacts
      <3> QED
        BY <1>2, <2>1, <2>6, <2>10, <3>1, <3>2, <3>3
    <2> QED
      BY <2>1, <2>7, <2>11, <2>12 DEF At
  <1> QED
    BY <1>8, <1>9

-----------------------------------------------------------------------------
(***************************************************************************)
(* The loops of decode.                                                    *)
(***************************************************************************)
\* An update more of message k.
LEMMA EnqueueKeeps ==
  ASSUME Types, NEW f, Flat(f), NEW k \in 1 .. Len(payload), NEW n \in Nat, EnqueuedTo(f, k, n),
         NEW u \in Update, u = UpdatesOf(k)[n + 1], enqueued' = Append(enqueued, u),
         UNCHANGED <<payload, size>>
  PROVE  enqueued' \in Updates /\ EnqueuedTo(f, k, n + 1)'
  <1>1. enqueued \in Seq(Update) /\ Len(payload) \in Nat
    BY PayloadFacts DEF Types, Updates
  <1>2. enqueued' \in Seq(Update) /\ Len(enqueued') = Len(enqueued) + 1
        /\ \A i \in 1 .. Len(enqueued) : enqueued'[i] = enqueued[i]
        /\ enqueued'[Len(enqueued) + 1] = u
    BY <1>1, AppendProperties
  <1>3. PICK e \in Updates, x \in Nat : e = f[k - 1] /\ x = Len(e)
    <2>1. k - 1 \in 0 .. Len(payload)
      BY <1>1
    <2>2. f[k - 1] \in Updates
      BY <2>1 DEF Flat
    <2>3. Len(f[k - 1]) \in Nat
      BY <2>2, UpdatesJoin
    <2> QED
      BY <2>2, <2>3
  <1>4. /\ Len(enqueued) = x + n
        /\ \A i \in 1 .. x : enqueued[i] = e[i]
        /\ \A i \in 1 .. n : enqueued[x + i] = UpdatesOf(k)[i]
    BY <1>3 DEF EnqueuedTo
  <1>5. Len(enqueued') = x + (n + 1)
    BY <1>2, <1>4
  <1>6. \A i \in 1 .. x : enqueued'[i] = e[i]
    BY <1>2, <1>4
  <1>7. ASSUME NEW i \in 1 .. n + 1 PROVE enqueued'[x + i] = UpdatesOf(k)[i]
    <2>1. CASE i \in 1 .. n
      <3>1. x + i \in 1 .. Len(enqueued)
        BY <1>4, <2>1
      <3> QED
        BY <1>2, <1>4, <2>1, <3>1
    <2>2. CASE i \notin 1 .. n
      <3>1. i = n + 1 /\ x + i = Len(enqueued) + 1
        BY <1>4, <2>2
      <3> QED
        BY <1>2, <3>1
    <2> QED
      BY <2>1, <2>2
  <1>8. \A i : UpdatesOf(i)' = UpdatesOf(i)
    BY PayloadStays
  <1>9. EnqueuedTo(f, k, n + 1)'
    BY <1>3, <1>5, <1>6, <1>7, <1>8 DEF EnqueuedTo
  <1> QED
    BY <1>2, <1>9 DEF Updates

\* The message of the loops.
InLoop(k, c1, b1, c2, b2) ==
  /\ k \in 1 .. Len(payload) /\ Accepted(k) /\ IsDepth(payload[k]) /\ payload[k].symbol \in KnownSymbols
  /\ DepthFields(payload[k], c1, b1, c2, b2)
  /\ GroupStart(payload[k], 2) <= size - cursor /\ GroupStart(payload[k], 3) <= size - cursor
  /\ UpdatesOf(k) \in Updates /\ Len(UpdatesOf(k)) = c1 + c2
  /\ \A i \in 1 .. c1 : UpdatesOf(k)[i] = LevelOf(k, 1, "BUY", i)
  /\ \A i \in 1 .. c2 : UpdatesOf(k)[c1 + i] = LevelOf(k, 2, "SELL", i)

LEMMA LoopFacts ==
  ASSUME Types, NEW f, NEW k \in 1 .. Len(payload) + 1, At(f, k), parsing \in {"bids", "asks"}
  PROVE  \E c1, b1, c2, b2 \in Nat : InLoop(k, c1, b1, c2, b2)
  <1>1. k <= Len(payload) /\ Accepted(k) /\ IsDepth(payload[k])
    BY DEF At
  <1>2. k \in 1 .. Len(payload) /\ Len(payload) \in Nat
    BY <1>1, AtFacts
  <1>3. k \in Nat \ {0} /\ payload[k] \in Messages /\ MessagesLaidOut /\ payload \in Seq(Messages)
    BY <1>2, AtFacts
  <1>4. payload[k].symbol \in KnownSymbols /\ MessageStart(k + 1) <= size
    BY <1>1, <1>3, AcceptedFacts
  <1>5. PICK s \in lookup(payload[k].templateId) : ~ s.skip
    BY <1>1 DEF IsDepth
  <1>6. GroupStart(payload[k], 2) <= size - cursor /\ GroupStart(payload[k], 3) <= size - cursor
    <2>1. PICK w \in Nat : w = WireLength(payload[k]) /\ MessageStart(k + 1) = cursor + w
      BY <1>2, AtFacts
    <2>2. size \in Nat /\ cursor \in Nat
      BY AtFacts
    <2>3. w <= size - cursor
      BY <1>4, <2>1, <2>2
    <2>4. 2 \in 1 .. Len(payload[k].groups) + 1 /\ 3 \in 1 .. Len(payload[k].groups) + 1
      <3>1. Len(payload[k].groups) = 2
        BY <1>3, <1>5, SchemaFacts
      <3> QED
        BY <3>1
    <2>5. PICK g2 \in Nat, g3 \in Nat :
            g2 = GroupStart(payload[k], 2) /\ g3 = GroupStart(payload[k], 3) /\ g2 < w /\ g3 < w
      <3>1. GroupStart(payload[k], 2) \in Nat /\ GroupStart(payload[k], 3) \in Nat
        BY <1>3, <2>4, GroupStartFacts
      <3>2. GroupStart(payload[k], 2) < w /\ GroupStart(payload[k], 3) < w
        BY <1>3, <2>1, <2>4, WireLengthFacts
      <3> QED
        BY <3>1, <3>2
    <2> QED
      BY <2>2, <2>3, <2>5
  <1>7. PICK c1 \in Nat, b1 \in Nat, c2 \in Nat, b2 \in Nat : DepthFields(payload[k], c1, b1, c2, b2)
    BY <1>3, <1>5, DepthFacts
  <1>8. PICK d1 \in Nat, d2 \in Nat :
          /\ d1 = payload[k].groups[1].count /\ d2 = payload[k].groups[2].count
          /\ UpdatesOf(k) \in Seq(Update)
          /\ Len(UpdatesOf(k)) = d1 + d2
          /\ \A i \in 1 .. d1 : UpdatesOf(k)[i] = LevelOf(k, 1, "BUY", i)
          /\ \A i \in 1 .. d2 : UpdatesOf(k)[d1 + i] = LevelOf(k, 2, "SELL", i)
    BY <1>1, <1>2, <1>3, <1>4, DepthUpdates, Zenon
  <1>9. d1 = c1 /\ d2 = c2
    BY <1>7, <1>8 DEF DepthFields
  <1>10. InLoop(k, c1, b1, c2, b2)
    BY <1>1, <1>2, <1>4, <1>6, <1>7, <1>8, <1>9 DEF InLoop, Updates
  <1> QED
    BY <1>10

LEMMA EnqueueBidKeeps ==
  ASSUME Types, NEW f, Flat(f), NEW k \in 1 .. Len(payload) + 1, At(f, k), EnqueueBid
  PROVE  Types' /\ At(f, k)'
  <1>1. parsing = "bids" /\ level' = level + 1 /\ UNCHANGED <<payload, size, cursor, parsing>>
    BY DEF EnqueueBid
  <1>2. PICK c1 \in Nat, b1 \in Nat, c2 \in Nat, b2 \in Nat : InLoop(k, c1, b1, c2, b2)
    BY <1>1, LoopFacts
  <1>3. PICK m \in Here :
          /\ MoreLevels(m.groups[1].count, BidBlock(m))
          /\ enqueued' = Append(enqueued, [symbol |-> m.symbol, side |-> "BUY", at |-> cursor + offset])
          /\ offset' = offset + BidBlock(m)
    BY DEF EnqueueBid
  <1>4. m = payload[k] /\ k \in 1 .. Len(payload) /\ cursor = MessageStart(k) /\ cursor \in Nat /\ MessagesLaidOut
        /\ payload \in Seq(Messages)
    BY AtFacts
  <1>5. DepthFields(payload[k], c1, b1, c2, b2)
    BY <1>2 DEF InLoop
  <1>6. /\ c1 = payload[k].groups[1].count /\ b1 = payload[k].groups[1].blockLen
        /\ payload[k].groupHeader = 4 /\ GroupStart(payload[k], 1) \in Nat
    BY <1>5, Zenon DEF DepthFields
  <1>7. BidBlock(payload[k]) = b1
    BY <1>6 DEF BidBlock
  <1>8. level \in Nat /\ offset \in Nat /\ level < c1 /\ offset' = offset + b1
    BY <1>3, <1>4, <1>6, <1>7 DEF Types, MoreLevels
  <1>9. PICK g1 \in Nat, p \in Nat :
          /\ g1 = GroupStart(payload[k], 1) /\ p = level * b1 /\ offset = g1 + 4 + p
          /\ (level + 1) * b1 = p + b1
    <2>1. offset = GroupStart(payload[k], 1) + 4 + level * b1
      BY <1>1, <1>7 DEF At
    <2>2. level * b1 \in Nat /\ (level + 1) * b1 = level * b1 + b1
      BY <1>8, Products
    <2> QED
      BY <1>6, <2>1, <2>2
  <1>10. offset' \in Nat /\ offset' = g1 + 4 + (level + 1) * b1
    <2>1. offset = g1 + 4 + p /\ offset' = offset + b1
      BY <1>8, <1>9, Zenon
    <2>2. offset' \in Nat /\ offset' = g1 + 4 + (p + b1)
      BY <2>1
    <2> QED
      BY <1>9, <2>2, Zenon
  <1> DEFINE u == LevelOf(k, 1, "BUY", level + 1)
  <1>11. [symbol |-> m.symbol, side |-> "BUY", at |-> cursor + offset] = u
    <2>1. (level + 1) - 1 = level
      BY <1>8
    <2>2. u = [symbol |-> m.symbol, side |-> "BUY", at |-> cursor + g1 + 4 + p]
      BY <1>4, <1>6, <1>9, <2>1 DEF LevelOf
    <2>3. cursor + offset = cursor + g1 + 4 + p
      BY <1>4, <1>9, SMTT(20)
    <2> QED
      BY <2>2, <2>3
  <1>12. u \in Update
    <2>1. level + 1 \in Nat \ {0}
      BY <1>8
    <2> QED
      BY <1>2, <1>4, <2>1, LevelIsUpdate DEF InLoop
  <1>13. u = UpdatesOf(k)[level + 1]
    <2>1. level + 1 \in 1 .. c1
      BY <1>8
    <2> QED
      BY <1>2, <2>1 DEF InLoop
  <1> HIDE DEF u
  <1>14. EnqueuedTo(f, k, level)
    BY <1>1 DEF At
  <1>15. enqueued' = Append(enqueued, u)
    BY <1>3, <1>11
  <1>16. enqueued' \in Updates /\ EnqueuedTo(f, k, level)'
    <2>1. PICK l \in Nat : l = level
      BY <1>8
    <2>2. EnqueuedTo(f, k, l) /\ u = UpdatesOf(k)[l + 1]
      BY <1>13, <1>14, <2>1
    <2>3. enqueued' \in Updates /\ EnqueuedTo(f, k, l + 1)'
      BY <1>1, <1>4, <1>12, <1>15, <2>2, EnqueueKeeps
    <2>4. level' = l + 1
      BY <1>1, <2>1
    <2> QED
      BY <2>3, <2>4 DEF EnqueuedTo
  <1>17. Types'
    BY <1>1, <1>8, <1>10, <1>16 DEF Types
  <1>18. /\ cursor' = MessageStart(k)' /\ k \in 1 .. Len(payload') + 1
         /\ Accepted(k)' /\ (MessageStart(k)' <= size' => Accepted(k - 1)')
    <2>1. Accepted(k) /\ (MessageStart(k) <= size => Accepted(k - 1))
      BY <1>2 DEF InLoop, At
    <2> QED
      BY <1>1, <1>4, <2>1, PayloadStays
  <1>19. /\ k <= Len(payload') /\ IsDepth(payload[k])'
    BY <1>1, <1>2 DEF InLoop, IsDepth, At
  <1>20. /\ level' <= payload'[k].groups[1].count
         /\ offset' = GroupStart(payload'[k], 1) + 4 + level' * BidBlock(payload'[k])
    <2>1. level + 1 <= c1
      BY <1>8
    <2> QED
      BY <1>1, <1>6, <1>7, <1>9, <1>10, <2>1, Zenon
  <1> QED
    BY <1>1, <1>16, <1>17, <1>18, <1>19, <1>20 DEF At

\* A loop ends when all its levels are read and not before: the message is all
\* there.
LEMMA LevelsRead ==
  ASSUME NEW c \in Nat, NEW b \in Nat, NEW g \in Nat,
         level \in Nat, level <= c, offset = g + 4 + level * b,
         size \in Nat, cursor \in Nat, g + 4 + c * b <= size - cursor, ~ MoreLevels(c, b)
  PROVE  level = c
  <1> SUFFICES ASSUME level < c PROVE FALSE
    OBVIOUS
  <1>1. PICK p \in Nat, q \in Nat : p = level * b /\ q = c * b /\ p + b <= q
    <2>1. level * b \in Nat /\ c * b \in Nat /\ level * b + b <= c * b
      BY Products
    <2> QED
      BY <2>1
  <1>2. offset + b <= size - cursor
    BY <1>1
  <1> QED
    BY <1>2 DEF MoreLevels, Available

LEMMA EndBidsKeeps ==
  ASSUME Types, NEW f, Flat(f), NEW k \in 1 .. Len(payload) + 1, At(f, k), EndBids
  PROVE  Types' /\ At(f, k)'
  <1>1. /\ parsing = "bids" /\ parsing' = "asks" /\ offset' = offset + 4 /\ level' = 0
        /\ UNCHANGED <<payload, size, cursor, enqueued>>
    BY DEF EndBids
  <1>2. PICK c1 \in Nat, b1 \in Nat, c2 \in Nat, b2 \in Nat : InLoop(k, c1, b1, c2, b2)
    BY <1>1, LoopFacts
  <1>3. PICK m \in Here : ~ MoreLevels(m.groups[1].count, BidBlock(m))
    BY DEF EndBids
  <1>4. /\ m = payload[k] /\ k \in 1 .. Len(payload) /\ cursor = MessageStart(k) /\ cursor \in Nat
        /\ size \in Nat
    BY AtFacts
  <1>5. DepthFields(payload[k], c1, b1, c2, b2)
    BY <1>2 DEF InLoop
  <1>6. /\ c1 = payload[k].groups[1].count /\ b1 = payload[k].groups[1].blockLen
        /\ c2 = payload[k].groups[2].count /\ b2 = payload[k].groups[2].blockLen
    BY <1>5, Zenon DEF DepthFields
  <1>7. BidBlock(payload[k]) = b1 /\ AskBlock(payload[k]) = b2
    BY <1>6 DEF BidBlock, AskBlock
  <1>8. level \in Nat /\ offset \in Nat /\ level <= c1
    BY <1>1, <1>6 DEF Types, At
  <1>9. PICK g1 \in Nat, g2 \in Nat, q \in Nat :
          /\ g1 = GroupStart(payload[k], 1) /\ g2 = GroupStart(payload[k], 2)
          /\ q = c1 * b1 /\ g2 = g1 + 4 + q /\ g2 <= size - cursor
    <2>1. /\ GroupStart(payload[k], 1) \in Nat /\ GroupStart(payload[k], 2) \in Nat
          /\ GroupStart(payload[k], 2) = GroupStart(payload[k], 1) + 4 + c1 * b1
      BY <1>5, Zenon DEF DepthFields
    <2>2. c1 * b1 \in Nat
      BY Products
    <2>3. GroupStart(payload[k], 2) <= size - cursor
      BY <1>2 DEF InLoop
    <2> QED
      BY <2>1, <2>2, <2>3
  <1>10. offset = g1 + 4 + level * b1
    BY <1>1, <1>7, <1>9 DEF At
  <1>11. level = c1
    <2>1. ~ MoreLevels(c1, b1)
      BY <1>3, <1>4, <1>6, <1>7
    <2>2. g1 + 4 + c1 * b1 <= size - cursor
      BY <1>9
    <2> QED
      BY <1>4, <1>8, <1>10, <2>1, <2>2, LevelsRead
  <1>12. offset' \in Nat /\ offset' = g2 + 4 + 0 * b2
    <2>1. 0 * b2 = 0
      BY Products
    <2>2. offset = g2
      BY <1>9, <1>10, <1>11
    <2> QED
      BY <1>1, <2>1, <2>2
  <1>13. Types'
    BY <1>1, <1>12 DEF Types
  <1>14. EnqueuedTo(f, k, c1)
    BY <1>1, <1>11 DEF At
  <1>15. EnqueuedTo(f, k, payload[k].groups[1].count + level)'
    <2>1. payload'[k].groups[1].count + level' = c1
      <3>1. c1 + 0 = c1
        OBVIOUS
      <3> QED
        BY <1>1, <1>6, <3>1, Zenon
    <2>2. EnqueuedTo(f, k, c1)'
      <3>1. \A i : UpdatesOf(i)' = UpdatesOf(i)
        BY <1>1, PayloadStays
      <3> QED
        BY <1>1, <1>14, <3>1 DEF EnqueuedTo
    <2> QED
      BY <2>1, <2>2 DEF EnqueuedTo
  <1>16. /\ cursor' = MessageStart(k)' /\ k \in 1 .. Len(payload') + 1
         /\ Accepted(k)' /\ (MessageStart(k)' <= size' => Accepted(k - 1)')
    <2>1. Accepted(k) /\ (MessageStart(k) <= size => Accepted(k - 1))
      BY <1>2 DEF InLoop, At
    <2> QED
      BY <1>1, <1>4, <2>1, PayloadStays
  <1>17. /\ k <= Len(payload') /\ IsDepth(payload[k])'
    BY <1>1, <1>2 DEF InLoop, IsDepth, At
  <1>18. /\ level' <= payload'[k].groups[2].count
         /\ offset' = GroupStart(payload'[k], 2) + 4 + level' * AskBlock(payload'[k])
    <2>1. 0 <= c2
      OBVIOUS
    <2> QED
      BY <1>1, <1>6, <1>7, <1>9, <1>12, <2>1, Zenon
  <1> QED
    BY <1>1, <1>13, <1>15, <1>16, <1>17, <1>18 DEF At

LEMMA EnqueueAskKeeps ==
  ASSUME Types, NEW f, Flat(f), NEW k \in 1 .. Len(payload) + 1, At(f, k), EnqueueAsk
  PROVE  Types' /\ At(f, k)'
  <1>1. parsing = "asks" /\ level' = level + 1 /\ UNCHANGED <<payload, size, cursor, parsing>>
    BY DEF EnqueueAsk
  <1>2. PICK c1 \in Nat, b1 \in Nat, c2 \in Nat, b2 \in Nat : InLoop(k, c1, b1, c2, b2)
    BY <1>1, LoopFacts
  <1>3. PICK m \in Here :
          /\ MoreLevels(m.groups[2].count, AskBlock(m))
          /\ enqueued' = Append(enqueued, [symbol |-> m.symbol, side |-> "SELL", at |-> cursor + offset])
          /\ offset' = offset + AskBlock(m)
    BY DEF EnqueueAsk
  <1>4. m = payload[k] /\ k \in 1 .. Len(payload) /\ cursor = MessageStart(k) /\ cursor \in Nat /\ MessagesLaidOut
        /\ payload \in Seq(Messages)
    BY AtFacts
  <1>5. DepthFields(payload[k], c1, b1, c2, b2)
    BY <1>2 DEF InLoop
  <1>6. /\ c1 = payload[k].groups[1].count
        /\ c2 = payload[k].groups[2].count /\ b2 = payload[k].groups[2].blockLen
        /\ payload[k].groupHeader = 4 /\ GroupStart(payload[k], 2) \in Nat
    BY <1>5, Zenon DEF DepthFields
  <1>7. AskBlock(payload[k]) = b2
    BY <1>6 DEF AskBlock
  <1>8. level \in Nat /\ offset \in Nat /\ level < c2 /\ offset' = offset + b2
    BY <1>3, <1>4, <1>6, <1>7 DEF Types, MoreLevels
  <1>9. PICK g2 \in Nat, p \in Nat :
          /\ g2 = GroupStart(payload[k], 2) /\ p = level * b2 /\ offset = g2 + 4 + p
          /\ (level + 1) * b2 = p + b2
    <2>1. offset = GroupStart(payload[k], 2) + 4 + level * b2
      BY <1>1, <1>7 DEF At
    <2>2. level * b2 \in Nat /\ (level + 1) * b2 = level * b2 + b2
      BY <1>8, Products
    <2> QED
      BY <1>6, <2>1, <2>2
  <1>10. offset' \in Nat /\ offset' = g2 + 4 + (level + 1) * b2
    <2>1. offset = g2 + 4 + p /\ offset' = offset + b2
      BY <1>8, <1>9, Zenon
    <2>2. offset' \in Nat /\ offset' = g2 + 4 + (p + b2)
      BY <2>1
    <2> QED
      BY <1>9, <2>2, Zenon
  <1> DEFINE u == LevelOf(k, 2, "SELL", level + 1)
  <1>11. [symbol |-> m.symbol, side |-> "SELL", at |-> cursor + offset] = u
    <2>1. (level + 1) - 1 = level
      BY <1>8
    <2>2. u = [symbol |-> m.symbol, side |-> "SELL", at |-> cursor + g2 + 4 + p]
      BY <1>4, <1>6, <1>9, <2>1 DEF LevelOf
    <2>3. cursor + offset = cursor + g2 + 4 + p
      BY <1>4, <1>9, SMTT(20)
    <2> QED
      BY <2>2, <2>3
  <1>12. u \in Update
    <2>1. level + 1 \in Nat \ {0}
      BY <1>8
    <2> QED
      BY <1>2, <1>4, <2>1, LevelIsUpdate DEF InLoop
  <1>13. u = UpdatesOf(k)[c1 + (level + 1)]
    <2>1. level + 1 \in 1 .. c2
      BY <1>8
    <2> QED
      BY <1>2, <2>1 DEF InLoop
  <1> HIDE DEF u
  <1>14. EnqueuedTo(f, k, c1 + level)
    BY <1>1, <1>6 DEF At
  <1>15. enqueued' = Append(enqueued, u)
    BY <1>3, <1>11
  <1>16. enqueued' \in Updates /\ EnqueuedTo(f, k, payload[k].groups[1].count + level)'
    <2>1. PICK l \in Nat : l = c1 + level /\ l + 1 = c1 + (level + 1)
      <3>1. c1 + level \in Nat /\ (c1 + level) + 1 = c1 + (level + 1)
        BY <1>8
      <3> QED
        BY <3>1
    <2>2. EnqueuedTo(f, k, l) /\ u = UpdatesOf(k)[l + 1]
      BY <1>13, <1>14, <2>1
    <2>3. enqueued' \in Updates /\ EnqueuedTo(f, k, l + 1)'
      BY <1>1, <1>4, <1>12, <1>15, <2>2, EnqueueKeeps
    <2>4. payload'[k].groups[1].count + level' = l + 1
      BY <1>1, <1>6, <2>1
    <2> QED
      BY <2>3, <2>4 DEF EnqueuedTo
  <1>17. Types'
    BY <1>1, <1>8, <1>10, <1>16, SMTT(20) DEF Types
  <1>18. /\ cursor' = MessageStart(k)' /\ k \in 1 .. Len(payload') + 1
         /\ Accepted(k)' /\ (MessageStart(k)' <= size' => Accepted(k - 1)')
    <2>1. Accepted(k) /\ (MessageStart(k) <= size => Accepted(k - 1))
      BY <1>2 DEF InLoop, At
    <2> QED
      BY <1>1, <1>4, <2>1, PayloadStays
  <1>19. /\ k <= Len(payload') /\ IsDepth(payload[k])'
    BY <1>1, <1>2 DEF InLoop, IsDepth, At
  <1>20. /\ level' <= payload'[k].groups[2].count
         /\ offset' = GroupStart(payload'[k], 2) + 4 + level' * AskBlock(payload'[k])
    <2>1. level + 1 <= c2
      BY <1>8
    <2> QED
      BY <1>1, <1>6, <1>7, <1>9, <1>10, <2>1, Zenon
  <1> QED
    BY <1>1, <1>16, <1>17, <1>18, <1>19, <1>20 DEF At

LEMMA EndAsksKeeps ==
  ASSUME Types, NEW f, Flat(f), NEW k \in 1 .. Len(payload) + 1, At(f, k), EndAsks
  PROVE  Types' /\ \E l \in 1 .. Len(payload) + 1 : At(f, l)'
  <1>1. parsing = "asks" /\ parsing' = "next" /\ UNCHANGED <<payload, size, offset, level, enqueued>>
    BY DEF EndAsks
  <1>2. PICK c1 \in Nat, b1 \in Nat, c2 \in Nat, b2 \in Nat : InLoop(k, c1, b1, c2, b2)
    BY <1>1, LoopFacts
  <1>3. PICK m \in Here, s \in schemas_ :
          /\ s \in lookup(m.templateId)
          /\ ~ MoreLevels(m.groups[2].count, AskBlock(m))
          /\ cursor' = cursor + asks_end(m, s) + 1 + m.symLen
    BY DEF EndAsks
  <1>4. /\ m = payload[k] /\ k \in 1 .. Len(payload) /\ cursor \in Nat /\ size \in Nat
        /\ MessagesLaidOut /\ m \in Messages /\ k + 1 \in 1 .. Len(payload) + 1
        /\ Len(payload) \in Nat
    BY AtFacts
  <1>5. DepthFields(payload[k], c1, b1, c2, b2)
    BY <1>2 DEF InLoop
  <1>6. /\ c1 = payload[k].groups[1].count
        /\ c2 = payload[k].groups[2].count /\ b2 = payload[k].groups[2].blockLen
    BY <1>5, Zenon DEF DepthFields
  <1>7. AskBlock(payload[k]) = b2
    BY <1>6 DEF AskBlock
  <1>8. level \in Nat /\ offset \in Nat /\ level <= c2
    BY <1>1, <1>6 DEF Types, At
  <1>9. level = c2
    <2>1. /\ GroupStart(payload[k], 2) \in Nat
          /\ GroupStart(payload[k], 3) = GroupStart(payload[k], 2) + 4 + c2 * b2
      BY <1>5, Zenon DEF DepthFields
    <2>2. PICK g2 \in Nat : g2 = GroupStart(payload[k], 2) /\ GroupStart(payload[k], 3) = g2 + 4 + c2 * b2
      BY <2>1, Zenon
    <2>3. g2 + 4 + c2 * b2 <= size - cursor
      BY <1>2, <2>2, Zenon DEF InLoop
    <2>4. offset = g2 + 4 + level * b2
      BY <1>1, <1>7, <2>2 DEF At
    <2>5. ~ MoreLevels(c2, b2)
      BY <1>3, <1>4, <1>6, <1>7
    <2> QED
      BY <1>4, <1>8, <2>3, <2>4, <2>5, LevelsRead
  <1>10. cursor' = cursor + WireLength(payload[k])
    <2>1. PICK t \in lookup(m.templateId) : ~ t.skip
      BY <1>2, <1>4 DEF InLoop, IsDepth
    <2>2. t = s
      BY <1>3, <1>4, <2>1, SchemaFacts
    <2>3. asks_end(m, s) \in Nat /\ asks_end(m, s) + 1 + m.symLen = WireLength(m)
      BY <1>3, <1>4, <2>1, <2>2, DecodeFacts
    <2>4. PICK e \in Nat, y \in Nat : e = asks_end(m, s) /\ y = m.symLen
      <3>1. m.symLen \in Nat
        BY <1>4, MessageFacts
      <3> QED
        BY <2>3, <3>1
    <2>5. cursor + e + 1 + y = cursor + (e + 1 + y)
      BY <1>4
    <2> QED
      BY <1>3, <1>4, <2>3, <2>4, <2>5
  <1>11. enqueued = f[k]
    <2>1. EnqueuedTo(f, k, c1 + c2)
      BY <1>1, <1>6, <1>9 DEF At
    <2>2. Part(k) = UpdatesOf(k) /\ UpdatesOf(k) \in Updates /\ Len(UpdatesOf(k)) = c1 + c2
      BY <1>2 DEF InLoop, Part
    <2>3. f[k] = f[k - 1] \o UpdatesOf(k) /\ f[k - 1] \in Updates
      <3>1. k - 1 \in 0 .. Len(payload)
        BY <1>4
      <3> QED
        BY <1>4, <2>2, <3>1 DEF Flat
    <2>4. PICK a, b : a = f[k - 1] /\ b = UpdatesOf(k)
      OBVIOUS
    <2>5. /\ f[k] \in Updates /\ Len(a) \in Nat /\ Len(f[k]) = Len(a) + Len(b)
          /\ \A i \in 1 .. Len(a) : f[k][i] = a[i]
          /\ \A i \in 1 .. Len(b) : f[k][Len(a) + i] = b[i]
      <3>1. a \in Updates /\ b \in Updates /\ f[k] = a \o b
        BY <2>2, <2>3, <2>4
      <3> QED
        BY <3>1, UpdatesJoin
    <2>6. /\ Len(enqueued) = Len(a) + (c1 + c2)
          /\ \A i \in 1 .. Len(a) : enqueued[i] = a[i]
          /\ \A i \in 1 .. c1 + c2 : enqueued[Len(a) + i] = b[i]
      BY <2>1, <2>4 DEF EnqueuedTo
    <2>7. PICK x \in Nat, y \in Nat : x = Len(a) /\ y = c1 + c2 /\ y = Len(b)
      BY <2>2, <2>4, <2>5
    <2>8. Len(enqueued) = x + y /\ Len(f[k]) = x + y
      BY <2>5, <2>6, <2>7
    <2>9. ASSUME NEW i \in 1 .. x + y PROVE enqueued[i] = f[k][i]
      <3>1. CASE i \in 1 .. x
        BY <2>5, <2>6, <2>7, <3>1
      <3>2. CASE i \notin 1 .. x
        <4>1. PICK j \in 1 .. y : i = x + j
          <5>1. i - x \in 1 .. y /\ i = x + (i - x)
            BY <3>2
          <5> QED
            BY <5>1
        <4> QED
          BY <2>5, <2>6, <2>7, <4>1
      <3> QED
        BY <3>1, <3>2
    <2>10. enqueued \in Seq(Update) /\ f[k] \in Seq(Update)
      BY <2>5 DEF Types, Updates
    <2> QED
      BY <2>8, <2>9, <2>10, SeqEqual
  <1>12. lookup(payload[k].templateId) # {} /\ payload[k].symbol \in KnownSymbols
    BY <1>2, <1>3, <1>4 DEF InLoop
  <1>13. Types' /\ At(f, k + 1)'
    BY <1>1, <1>4, <1>10, <1>11, <1>12, AdvanceKeeps
  <1> QED
    BY <1>4, <1>13

LEMMA StepParser == ParserInv /\ [ParseNext]_parseVars => ParserInv'
  <1> SUFFICES ASSUME ParserInv, [ParseNext]_parseVars PROVE ParserInv'
    OBVIOUS
  <1>1. Types
    BY DEF ParserInv
  <1>2. PICK f : Flat(f) /\ Expected = f[Len(payload)] /\ \E k \in 1 .. Len(payload) + 1 : At(f, k)
    BY DEF ParserInv
  <1>3. PICK k \in 1 .. Len(payload) + 1 : At(f, k)
    BY <1>2
  <1>4. UNCHANGED <<payload, size>>
    BY DEF ParseNext, parseVars, Leave, Skip, Decode,
       EnqueueBid, EndBids, EnqueueAsk, EndAsks
  <1>5. Types' /\ \E l \in 1 .. Len(payload) + 1 : At(f, l)'
    <2>1. CASE Leave
      BY <1>1, <1>3, <2>1, LeaveKeeps
    <2>2. CASE Skip
      BY <1>1, <1>2, <1>3, <2>2, SkipKeeps
    <2>3. CASE Decode
      BY <1>1, <1>2, <1>3, <2>3, DecodeKeeps
    <2>4. CASE EnqueueBid
      BY <1>1, <1>2, <1>3, <2>4, EnqueueBidKeeps
    <2>5. CASE EndBids
      BY <1>1, <1>2, <1>3, <2>5, EndBidsKeeps
    <2>6. CASE EnqueueAsk
      BY <1>1, <1>2, <1>3, <2>6, EnqueueAskKeeps
    <2>7. CASE EndAsks
      BY <1>1, <1>2, <1>3, <2>7, EndAsksKeeps
    <2>8. CASE UNCHANGED parseVars
      <3>1. Types'
        BY <1>1, <2>8 DEF Types, parseVars
      <3>2. \A i : MessageStart(i)' = MessageStart(i) /\ Accepted(i)' = Accepted(i)
        BY <1>4, PayloadStays
      <3>3. \A i : UpdatesOf(i)' = UpdatesOf(i) /\ Part(i)' = Part(i)
        BY <1>4, PayloadStays
      <3>4. At(f, k)'
        BY <1>3, <2>8, <3>2, <3>3 DEF At, EnqueuedTo, IsDepth, parseVars
      <3> QED
        BY <3>1, <3>4
    <2> QED
      BY <2>1, <2>2, <2>3, <2>4, <2>5, <2>6, <2>7, <2>8 DEF ParseNext
  <1>6. Flat(f)' /\ Expected' = f[Len(payload')]
    BY <1>2, <1>4, PayloadStays
  <1> QED
    BY <1>4, <1>5, <1>6 DEF ParserInv

\* Positions stay in range, and only instruments of the registry are enqueued,
\* whatever messages the payload has and wherever it is cut off.
THEOREM ParserTypeOK == ParseSpec => []TypeOK
  <1>1. ParseInit => ParserInv
    BY MessagesAssumption, InitParser
  <1>2. ParserInv => TypeOK
    <2> SUFFICES ASSUME ParserInv PROVE TypeOK
      OBVIOUS
    <2>1. Types /\ \E f : \E k \in 1 .. Len(payload) + 1 : At(f, k)
      BY DEF ParserInv
    <2>2. cursor \in Nat
      BY <2>1, AtFacts
    <2> QED
      BY <2>1, <2>2 DEF TypeOK, Types, Updates
  <1> QED
    BY <1>1, <1>2, StepParser, PTL DEF ParseSpec

\* measure and decode return the length of the message they were given: parse
\* reads a header only where a message starts.
THEOREM CursorStaysAtBoundaries == ParseSpec => []CursorAtBoundary
  <1>1. ParseInit => ParserInv
    BY MessagesAssumption, InitParser
  <1>2. ParserInv => CursorAtBoundary
    <2> SUFFICES ASSUME ParserInv PROVE CursorAtBoundary
      OBVIOUS
    <2>1. PICK f : \E k \in 1 .. Len(payload) + 1 : At(f, k)
      BY DEF ParserInv
    <2>2. PICK k \in 1 .. Len(payload) + 1 : cursor = MessageStart(k)
      BY <2>1 DEF At
    <2> QED
      BY <2>2 DEF CursorAtBoundary, MessageBoundaries
  <1> QED
    BY <1>1, <1>2, StepParser, PTL DEF ParseSpec

\* A message is taken with all its levels or not at all: what parse has enqueued
\* is a beginning of what the messages it can use contain, and all of that when
\* parse is done.
THEOREM MessagesAreTakenWhole == ParseSpec => []WholeMessagesOnly
  <1>1. ParseInit => ParserInv
    BY MessagesAssumption, InitParser
  <1>2. ParserInv => WholeMessagesOnly
    <2> SUFFICES ASSUME ParserInv PROVE WholeMessagesOnly
      OBVIOUS
    <2>1. Types
      BY DEF ParserInv
    <2>2. PICK f : Flat(f) /\ Expected = f[Len(payload)] /\ \E k \in 1 .. Len(payload) + 1 : At(f, k)
      BY DEF ParserInv
    <2>3. PICK k \in 1 .. Len(payload) + 1 : At(f, k)
      BY <2>2
    <2>4. Len(payload) \in Nat /\ \A l \in 1 .. Len(payload) : Part(l) \in Updates
      BY <2>1, <2>3, AtFacts, PartIsUpdates
    <2>5. PICK n \in Nat : n = Len(payload)
      BY <2>4
    <2>6. k - 1 \in 0 .. n /\ k - 1 \in 0 .. Len(payload) /\ n \in k - 1 .. n /\ (k - 1) + 1 = k
      BY <2>5
    <2>7. f[k - 1] \in Updates /\ f[n] \in Updates /\ Len(f[k - 1]) \in Nat /\ Len(f[n]) \in Nat
      <3>1. n \in 0 .. Len(payload)
        BY <2>5
      <3>2. f[k - 1] \in Updates /\ f[n] \in Updates
        BY <2>2, <2>6, <3>1 DEF Flat
      <3> QED
        BY <3>2, UpdatesJoin
    <2>8. /\ Len(f[k - 1]) <= Len(f[n])
          /\ \A x \in 1 .. Len(f[k - 1]) : f[n][x] = f[k - 1][x]
      BY <2>2, <2>4, <2>5, <2>6, FlatPrefix
    <2>9. parsing = "done" => enqueued = f[n]
      <3> SUFFICES ASSUME parsing = "done" PROVE enqueued = f[n]
        OBVIOUS
      <3>1. enqueued = f[k - 1] /\ \A i \in k .. Len(payload) : Part(i) = << >>
        BY <2>3 DEF At
      <3>2. f[Len(payload)] = f[k - 1]
        BY <2>2, <2>4, <2>6, <3>1, FlatEnd
      <3> QED
        BY <2>5, <3>1, <3>2
    <2>10. /\ Len(enqueued) \in Nat /\ Len(enqueued) <= Len(f[n])
           /\ \A x \in 1 .. Len(enqueued) : enqueued[x] = f[n][x]
      <3>1. CASE parsing \in {"next", "done"}
        <4>1. enqueued = f[k - 1]
          BY <2>3, <3>1 DEF At
        <4> QED
          BY <2>7, <2>8, <4>1
      <3>2. CASE parsing \in {"bids", "asks"}
        <4>1. PICK c1 \in Nat, b1 \in Nat, c2 \in Nat, b2 \in Nat : InLoop(k, c1, b1, c2, b2)
          BY <2>1, <2>3, <3>2, LoopFacts
        <4>2. c1 = payload[k].groups[1].count /\ c2 = payload[k].groups[2].count
          <5>1. DepthFields(payload[k], c1, b1, c2, b2)
            BY <4>1 DEF InLoop
          <5> QED
            BY <5>1, Zenon DEF DepthFields
        <4>3. PICK l \in 0 .. c1 + c2 : EnqueuedTo(f, k, l)
          <5>1. level \in Nat
            BY <2>1 DEF Types
          <5>2. CASE parsing = "bids"
            <6>1. level <= c1 /\ EnqueuedTo(f, k, level)
              BY <2>3, <4>2, <5>2 DEF At
            <6> QED
              BY <5>1, <6>1
          <5>3. CASE parsing = "asks"
            <6>1. level <= c2 /\ EnqueuedTo(f, k, c1 + level)
              BY <2>3, <4>2, <5>3 DEF At
            <6> QED
              BY <5>1, <6>1
          <5> QED
            BY <3>2, <5>2, <5>3
        <4>4. k \in 1 .. Len(payload) /\ Part(k) = UpdatesOf(k) /\ UpdatesOf(k) \in Updates
              /\ Len(UpdatesOf(k)) = c1 + c2
          BY <4>1 DEF InLoop, Part
        <4>5. PICK a \in Updates, b \in Updates : a = f[k - 1] /\ b = UpdatesOf(k)
          BY <2>7, <4>4
        <4>6. f[k] = a \o b
          BY <2>2, <4>4, <4>5 DEF Flat
        <4>7. /\ Len(a) \in Nat /\ Len(b) \in Nat /\ Len(f[k]) = Len(a) + Len(b)
              /\ \A i \in 1 .. Len(a) : f[k][i] = a[i]
              /\ \A i \in 1 .. Len(b) : f[k][Len(a) + i] = b[i]
          BY <4>6, UpdatesJoin
        <4>8. /\ Len(f[k]) <= Len(f[n])
              /\ \A x \in 1 .. Len(f[k]) : f[n][x] = f[k][x]
          <5>1. k \in 0 .. Len(payload) /\ n \in k .. Len(payload)
            BY <2>5, <4>4
          <5> QED
            BY <2>2, <2>4, <5>1, FlatPrefix
        <4>9. /\ Len(enqueued) = Len(a) + l
              /\ \A i \in 1 .. Len(a) : enqueued[i] = a[i]
              /\ \A i \in 1 .. l : enqueued[Len(a) + i] = b[i]
          BY <4>3, <4>5 DEF EnqueuedTo
        <4>10. PICK x \in Nat, y \in Nat : x = Len(a) /\ y = Len(b) /\ l \in 0 .. y
          BY <4>4, <4>5, <4>7
        <4>11. ASSUME NEW i \in 1 .. x + l PROVE enqueued[i] = f[k][i]
          <5>1. CASE i \in 1 .. x
            BY <4>7, <4>9, <4>10, <5>1
          <5>2. CASE i \notin 1 .. x
            <6>1. PICK j \in 1 .. l : i = x + j
              <7>1. i - x \in 1 .. l /\ i = x + (i - x)
                BY <4>10, <5>2
              <7> QED
                BY <7>1
            <6>2. j \in 1 .. y
              BY <4>10
            <6> QED
              BY <4>7, <4>9, <4>10, <6>1, <6>2
          <5> QED
            BY <5>1, <5>2
        <4>12. Len(enqueued) = x + l /\ x + l <= Len(f[k]) /\ Len(f[k]) \in Nat
          BY <4>7, <4>9, <4>10
        <4>13. \A i \in 1 .. x + l : i \in 1 .. Len(f[k])
          BY <4>10, <4>12
        <4>14. \A i \in 1 .. x + l : enqueued[i] = f[n][i]
          BY <4>8, <4>11, <4>13
        <4>15. Len(enqueued) \in Nat /\ Len(enqueued) <= Len(f[n])
          BY <2>7, <4>8, <4>10, <4>12
        <4> QED
          BY <4>12, <4>14, <4>15, Zenon
      <3> QED
        BY <2>1, <3>1, <3>2 DEF Types
    <2>11. IsPrefix(enqueued, f[n])
      <3>1. enqueued \in Seq(Update) /\ f[n] \in Seq(Update)
        BY <2>1, <2>7 DEF Types, Updates
      <3>2. SubSeq(enqueued, 1, Len(enqueued)) = SubSeq(f[n], 1, Len(enqueued))
        BY <2>7, <2>10, <3>1
      <3> QED
        BY <2>10, <3>2 DEF IsPrefix
    <2> QED
      BY <2>2, <2>5, <2>9, <2>11 DEF WholeMessagesOnly
  <1> QED
    BY <1>1, <1>2, StepParser, PTL DEF ParseSpec
=============================================================================
