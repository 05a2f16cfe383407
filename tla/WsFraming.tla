----------------------------- MODULE WsFraming -----------------------------
(***************************************************************************)
(* WebSocket framing (ws.go) from a peer's frames to the messages the      *)
(* server acts on: writeFrame's length encodings and masking, readFrame,    *)
(* the reassembly of ReadMessage, and the read loop of server.go that       *)
(* pairs a chunk header with the binary message after it.                   *)
(*                                                                         *)
(* A payload is the sequence of the parts it was sent in, and size is its  *)
(* length in bytes; a part is known by its number, with its length, whether *)
(* it is masked, and whether the JSON text it belongs to is a chunk header. *)
(* Lengths are real ones.                                                  *)
(***************************************************************************)
EXTENDS Integers, Sequences, SequencesExt

CONSTANTS
    Lengths,         \* lengths of the data frames the peer may send
    ControlLengths,  \* lengths of its pings; RFC 6455 allows at most 125
    maxFrameSize,
    maxMessageSize,
    MaxFrames        \* bound on the number of frames the peer sends

MaxLength == 2147483647       \* bound on a length
Max16     == 65535            \* 0xFFFF

ASSUME WsFramingAssumption ==
    /\ Lengths \subseteq 0 .. MaxLength
    /\ ControlLengths \subseteq 0 .. 125
    /\ maxFrameSize \in Nat /\ maxFrameSize >= 125
    /\ maxMessageSize \in Nat
    /\ MaxFrames \in Nat

VARIABLES
    said,     \* messages the peer has sent to their last frame
    saying,   \* the message it is sending, or Nothing
    frames,   \* the number of frames it has sent
    pinged,   \* the data of its pings
    wire,     \* frames sent and not read
    reading,  \* the locals of ReadMessage: the first opcode and the payload
    header,   \* the chunk header whose data dispatch waits for, or 0
    got,      \* messages ReadMessage has returned
    stored,   \* what writeChunk was given, by chunk header
    ponged,   \* the data of the pongs written
    ended     \* "no", or why the read loop has returned

peer   == <<said, saying, frames, pinged>>
server == <<reading, header, got, stored, ponged, ended>>
vars   == <<peer, wire, server>>

Nothing == [opcode |-> "none", kind |-> "none", size |-> 0, payload |-> <<>>]

-----------------------------------------------------------------------------
(* Frames. *)

\* Mutant of Bytes8: the length is written in its last two bytes.
Bytes8Short(n) == <<0, 0, 0, 0, 0, 0, n \div 256, n % 256>>

\* The second byte of the header without the mask bit, and the extended
\* length, big-endian; a length is below 2^31, the first four of eight are 0.
Bytes2(n) == <<(n \div 256) % 256, n % 256>>
Bytes8(n) == <<0, 0, 0, 0, (((n \div 256) \div 256) \div 256) % 256,
               ((n \div 256) \div 256) % 256, (n \div 256) % 256, n % 256>>

\* Mutant of EncodeLength: a length of 2^16 is taken for a 16 bit one.
EncodeLengthClosed(n) ==
    IF n <= 125 THEN [len7 |-> n, ext |-> <<>>]
    ELSE IF n <= Max16 + 1 THEN [len7 |-> 126, ext |-> Bytes2(n)]
    ELSE [len7 |-> 127, ext |-> Bytes8(n)]

EncodeLength(n) ==
    IF n <= 125 THEN [len7 |-> n, ext |-> <<>>]
    ELSE IF n <= Max16 THEN [len7 |-> 126, ext |-> Bytes2(n)]
    ELSE [len7 |-> 127, ext |-> Bytes8(n)]

DecodeLength(h) ==
    LET b == h.ext IN
    IF h.len7 = 126 THEN (b[1] * 256) + b[2]
    ELSE IF h.len7 = 127
    THEN (((((b[5] * 256) + b[6]) * 256) + b[7]) * 256) + b[8]
    ELSE h.len7

\* XOR with the mask key, the same for both directions.
Mask(data) == [data EXCEPT !.masked = ~@]

\* writeFrame of a client: maskOutgoing is set.  fin is FALSE only in frames
\* of a peer that fragments, writeFrame's own have it set.
Frame(fin, opcode, data) ==
    [fin |-> fin, opcode |-> opcode, masked |-> TRUE,
     length |-> EncodeLength(data.len), data |-> Mask(data)]

\* readFrame takes as many bytes as the header says.
Payload(f) ==
    LET data == [f.data EXCEPT !.len = DecodeLength(f.length)] IN
    IF f.masked THEN Mask(data) ELSE data

Part(kind, n) == [part |-> frames + 1, len |-> n, masked |-> FALSE, kind |-> kind]

-----------------------------------------------------------------------------
(* The peer: a WebSocket client, which may fragment its messages and put    *)
(* control frames between the fragments.                                    *)

\* Nobody reads what is sent after the end.
Send(f) ==
    /\ ended = "no"
    /\ frames < MaxFrames
    /\ frames' = frames + 1
    /\ wire'   = Append(wire, f)
    /\ UNCHANGED server

\* One frame of message msg: the last one completes it.
Say(msg, fin) ==
    IF fin THEN said' = Append(said, msg) /\ saying' = Nothing
           ELSE said' = said /\ saying' = msg

SendFirst(opcode, kind, n, fin) ==
    /\ saying = Nothing
    /\ kind # "other" => opcode = "text"
    /\ Send(Frame(fin, opcode, Part(kind, n)))
    /\ Say([opcode |-> opcode, kind |-> kind, size |-> n,
            payload |-> <<Part(kind, n)>>], fin)
    /\ UNCHANGED pinged

SendContinuation(n, fin) ==
    LET data == Part(saying.kind, n) IN
    /\ saying # Nothing
    /\ Send(Frame(fin, "continuation", data))
    /\ Say([saying EXCEPT !.size = @ + n, !.payload = Append(@, data)], fin)
    /\ UNCHANGED pinged

SendControl(opcode, n) ==
    /\ Send(Frame(TRUE, opcode, Part("other", n)))
    /\ pinged' = IF opcode = "ping" THEN Append(pinged, Part("other", n)) ELSE pinged
    /\ UNCHANGED <<said, saying>>

-----------------------------------------------------------------------------
(* The server's read loop; one step reads one frame. *)

End(why) ==
    /\ ended' = why
    /\ UNCHANGED <<reading, header, got, stored, ponged>>

\* Mutant of Receive: a binary message out of turn goes to the last chunk.
ReceiveStray(msg) ==
    /\ got' = Append(got, msg)
    /\ IF msg.opcode = "binary"
       THEN /\ stored' = stored \cup {[header |-> Len(got), data |-> msg.payload]}
            /\ header' = 0
       ELSE /\ header' \in IF msg.kind = "chunk" THEN {0, Len(got')} ELSE {0}
            /\ UNCHANGED stored
    /\ UNCHANGED ended

\* What the read loop and dispatch do with a message.  A chunk header that is
\* refused leaves its data to the read loop, which ignores binary messages.
Receive(msg) ==
    /\ got' = Append(got, msg)
    /\ IF header # 0 /\ msg.opcode = "binary"
       THEN /\ stored' = stored \cup {[header |-> header, data |-> msg.payload]}
            /\ header' = 0
            /\ UNCHANGED ended
       ELSE /\ UNCHANGED stored
            /\ IF header # 0
               THEN ended' = "expectedBinary" /\ UNCHANGED header
               ELSE /\ header' \in IF msg.kind = "chunk" THEN {0, Len(got')} ELSE {0}
                    /\ UNCHANGED ended

\* Mutant of ReadData: the limit is on each part, not on their sum.
ReadDataUncapped(f) ==
    LET data == Payload(f)
        msg  == [ opcode  |-> IF reading = Nothing THEN f.opcode ELSE reading.opcode,
                  kind    |-> data.kind,
                  size    |-> reading.size + data.len,
                  payload |-> Append(reading.payload, data) ] IN
    IF data.len > maxMessageSize THEN End("messageTooLarge")
    ELSE IF ~f.fin
    THEN reading' = msg /\ UNCHANGED <<header, got, stored, ponged, ended>>
    ELSE IF msg.opcode \in {"text", "binary"}
    THEN reading' = Nothing /\ Receive(msg) /\ UNCHANGED ponged
    ELSE End("unsupportedOpcode")

\* A frame of a message: only the first one's opcode counts.
ReadData(f) ==
    LET data == Payload(f)
        msg  == [ opcode  |-> IF reading = Nothing THEN f.opcode ELSE reading.opcode,
                  kind    |-> data.kind,
                  size    |-> reading.size + data.len,
                  payload |-> Append(reading.payload, data) ] IN
    IF msg.size > maxMessageSize THEN End("messageTooLarge")
    ELSE IF ~f.fin
    THEN reading' = msg /\ UNCHANGED <<header, got, stored, ponged, ended>>
    ELSE IF msg.opcode \in {"text", "binary"}
    THEN reading' = Nothing /\ Receive(msg) /\ UNCHANGED ponged
    ELSE End("unsupportedOpcode")

\* A control frame may come between the frames of a message.
ReadControl(f) ==
    CASE f.opcode = "close" -> End("EOF")
      [] f.opcode = "pong"  -> UNCHANGED server
      [] f.opcode = "ping"  -> /\ ponged' = Append(ponged, Payload(f))
                               /\ UNCHANGED <<reading, header, got, stored, ended>>

\* Mutant of ReadFrame: the length of a frame is not compared with the limit.
ReadFrameUnlimited ==
    LET f == Head(wire) IN
    /\ ended = "no" /\ wire # <<>>
    /\ IF f.opcode \in {"close", "ping", "pong"} THEN ReadControl(f) ELSE ReadData(f)
    /\ wire' = Tail(wire)
    /\ UNCHANGED peer

ReadFrame ==
    LET f == Head(wire) IN
    /\ ended = "no" /\ wire # <<>>
    /\ IF DecodeLength(f.length) > maxFrameSize THEN End("frameTooLarge")
       ELSE IF f.opcode \in {"close", "ping", "pong"} THEN ReadControl(f)
       ELSE ReadData(f)
    /\ wire' = Tail(wire)
    /\ UNCHANGED peer

\* The connection is lost, in the middle of a frame or between two.
LoseConn ==
    /\ ended = "no"
    /\ End("lost")
    /\ UNCHANGED <<peer, wire>>

Init ==
    /\ said = <<>> /\ saying = Nothing /\ frames = 0 /\ pinged = <<>>
    /\ wire = <<>>
    /\ reading = Nothing /\ header = 0 /\ got = <<>> /\ stored = {}
    /\ ponged = <<>> /\ ended = "no"

Next ==
    \/ \E fin \in BOOLEAN, n \in Lengths :
          \/ SendContinuation(n, fin)
          \/ \E opcode \in {"text", "binary", "continuation"},
                kind \in {"chunk", "other"} : SendFirst(opcode, kind, n, fin)
    \/ \E opcode \in {"close", "ping", "pong"}, n \in ControlLengths :
          SendControl(opcode, n)
    \/ ReadFrame
    \/ LoseConn

Spec == Init /\ [][Next]_vars

-----------------------------------------------------------------------------
(* Properties. *)

Byte == 0 .. 255

Data == [ part : 1 .. MaxFrames, len : 0 .. MaxLength, masked : BOOLEAN,
          kind : {"chunk", "other"} ]

Opcodes == {"text", "binary", "continuation", "close", "ping", "pong"}

WireFrame == [ fin : BOOLEAN, opcode : Opcodes, masked : BOOLEAN,
                length : [len7 : 0 .. 127, ext : Seq(Byte)], data : Data ]

Msg == [ opcode : Opcodes, kind : {"chunk", "other"}, size : Nat,
         payload : Seq(Data) ]

TypeOK ==
    /\ frames \in 0 .. MaxFrames
    /\ wire \in Seq(WireFrame)
    /\ said \in Seq(Msg) /\ got \in Seq(Msg)
    /\ {saying, reading} \subseteq Msg \cup {Nothing}
    /\ pinged \in Seq(Data) /\ ponged \in Seq(Data)
    /\ header \in 0 .. Len(got)
    /\ stored \subseteq [header : DOMAIN got, data : Seq(Data)]
    /\ ended \in {"no", "EOF", "lost", "frameTooLarge", "messageTooLarge",
                  "unsupportedOpcode", "expectedBinary"}

\* The messages ReadMessage returns are those the peer sent, each with its
\* opcode and its whole payload, in the order they were sent, wherever the
\* peer cuts them and whatever control frames come in between; pings are
\* answered in order with their own data.
MessagesArriveWhole == IsPrefix(got, said) /\ IsPrefix(ponged, pinged)

\* The ciphertext stored for a chunk header is the binary message the peer
\* sent right after that header, although it does not wait for an answer and
\* headers are refused ("a stray binary frame outside the chunk protocol").
ChunksArePaired ==
    \A c \in stored :
        /\ {c.header, c.header + 1} \subseteq DOMAIN said
        /\ said[c.header].kind = "chunk"
        /\ said[c.header + 1].opcode = "binary"
        /\ said[c.header + 1].payload = c.data

\* The message sent or being sent that comes after those received.
Current ==
    IF Len(got) < Len(said) THEN said[Len(got) + 1] ELSE saying

\* Small enough for ReadMessage, in frames small enough for readFrame.
InLimits(msg) ==
    /\ msg.size <= maxMessageSize
    /\ \A data \in Range(msg.payload) : data.len <= maxFrameSize

\* A connection ends with "too large" if and only if what the peer sent is.
\* Only if: the message it is sending then exceeds the limit, by its length
\* or by that of one of its frames; one just as long as the limits allow is
\* not refused.  If: what ReadMessage has returned, and what it holds of an
\* unfinished message, is within both limits, so that nothing beyond them
\* has got past readFrame and the reassembly.
RefusedForCause ==
    /\ \A msg \in Range(got) \cup {reading} : InLimits(msg)
    /\ ended = "messageTooLarge" => Current.size > maxMessageSize
    /\ ended = "frameTooLarge"
          => \E data \in Range(Current.payload) : data.len > maxFrameSize

=============================================================================
