-------------------------- MODULE WsFramingProofs --------------------------
(***************************************************************************)
(* Theorems about WsFraming.  The length encodings of writeFrame and       *)
(* readFrame fit together for every length, and readFrame recovers what    *)
(* writeFrame was given to send.  From there, every property of the module *)
(* follows from an invariant on the frames on the wire: reading them one   *)
(* by one leads from what the server has read to what the peer has sent    *)
(* (Path), and no state on the way is ahead of the peer (Behind).          *)
(***************************************************************************)
EXTENDS WsFraming, SequenceTheorems, TLAPS

\* A length is its last byte and the rest of it.
LEMMA Split ==
  ASSUME NEW n \in Nat
  PROVE  /\ n \div 256 \in Nat
         /\ ((n \div 256) * 256) + (n % 256) = n
<1>1. n \div 256 \in Int /\ n % 256 \in Int /\ n \div 256 >= 0
  BY Z3
<1>2. n % 256 = n - (256 * (n \div 256))
  BY Z3
<1> DEFINE q == n \div 256
           r == n % 256
<1>3. q \in Int /\ q >= 0 /\ r = n - (256 * q)
  BY <1>1, <1>2
<1> HIDE DEF q, r
<1>4. q \in Nat /\ (q * 256) + r = n
  BY <1>3, Z3
<1> QED
  BY <1>4 DEF q, r

\* A byte is its own last byte.
LEMMA LastByte ==
  ASSUME NEW n \in 0 .. 255
  PROVE  n % 256 = n
  BY Z3

LEMMA TwoBytes ==
  ASSUME NEW n \in Int, 0 <= n, n <= Max16
  PROVE  (((n \div 256) % 256) * 256) + (n % 256) = n
<1>1. n \in Nat
  BY Z3
<1>2. n \div 256 \in 0 .. 255
  BY Z3 DEF Max16
<1>3. (n \div 256) % 256 = n \div 256
  BY <1>2, LastByte
<1> QED
  BY <1>1, <1>3, Split

LEMMA FourBytes ==
  ASSUME NEW n \in Int, 0 <= n, n <= MaxLength
  PROVE  ((((((((n \div 256) \div 256) \div 256) % 256) * 256)
              + (((n \div 256) \div 256) % 256)) * 256
            + ((n \div 256) % 256)) * 256)
           + (n % 256) = n
<1> DEFINE a == n \div 256
           b == a \div 256
           c == b \div 256
<1>1. n \in Nat
  BY Z3
<1>2. a \in Int /\ 0 <= a /\ a < 8388608
  BY Z3 DEF MaxLength
<1>3. a \in Nat /\ (a * 256) + (n % 256) = n
  BY <1>1, Split
<1> HIDE DEF a
<1>4. b \in Int /\ 0 <= b /\ b < 32768
  BY <1>2, Z3
<1>5. b \in Nat /\ (b * 256) + (a % 256) = a
  BY <1>3, Split
<1> HIDE DEF b
<1>6. c \in 0 .. 255
  BY <1>4, Z3
<1>7. (c * 256) + (b % 256) = b
  BY <1>5, Split
<1> HIDE DEF c
<1>8. c % 256 = c
  BY <1>6, LastByte
<1>9. (((((((c % 256) * 256) + (b % 256)) * 256) + (a % 256)) * 256)
          + (n % 256)) = n
  BY <1>3, <1>5, <1>7, <1>8
<1> QED
  BY <1>9 DEF a, b, c

\* The length that readFrame decodes is the one writeFrame encoded, at the
\* boundaries of the 7, 16 and 64 bit forms as anywhere else.
THEOREM LengthSurvives ==
  ASSUME NEW n \in 0 .. MaxLength
  PROVE  DecodeLength(EncodeLength(n)) = n
<1>1. n \in Int /\ 0 <= n /\ n <= MaxLength
  OBVIOUS
<1>2. CASE n <= 125
  <2>1. EncodeLength(n) = [len7 |-> n, ext |-> <<>>]
    BY <1>2 DEF EncodeLength
  <2>2. n # 126 /\ n # 127
    BY <1>1, <1>2, Z3
  <2> QED
    BY <2>1, <2>2 DEF DecodeLength
<1>3. CASE ~(n <= 125) /\ n <= Max16
  <2>1. EncodeLength(n) = [len7 |-> 126, ext |-> Bytes2(n)]
    BY <1>3 DEF EncodeLength
  <2>2. DecodeLength(EncodeLength(n)) = (Bytes2(n)[1] * 256) + Bytes2(n)[2]
    BY <2>1 DEF DecodeLength
  <2> QED
    BY <1>1, <1>3, <2>2, TwoBytes DEF Bytes2
<1>4. CASE ~(n <= 125) /\ ~(n <= Max16)
  <2>1. EncodeLength(n) = [len7 |-> 127, ext |-> Bytes8(n)]
    BY <1>4 DEF EncodeLength
  <2>2. DecodeLength(EncodeLength(n)) =
          (((((Bytes8(n)[5] * 256) + Bytes8(n)[6]) * 256)
             + Bytes8(n)[7]) * 256) + Bytes8(n)[8]
    BY <2>1, 126 # 127 DEF DecodeLength
  <2> QED
    BY <1>1, <2>2, FourBytes DEF Bytes8
<1> QED
  BY <1>2, <1>3, <1>4

\* readFrame hands out the payload that writeFrame was given: the length is
\* decoded and the mask applied a second time.
THEOREM PayloadSurvives ==
  ASSUME NEW fin \in BOOLEAN, NEW opcode \in Opcodes, NEW data \in Data
  PROVE  Payload(Frame(fin, opcode, data)) = data
<1> DEFINE f == Frame(fin, opcode, data)
<1>1. f.masked = TRUE /\ f.data = Mask(data) /\ f.length = EncodeLength(data.len)
  BY DEF Frame
<1>2. DecodeLength(f.length) = data.len
  BY <1>1, LengthSurvives DEF Data
<1>3. [f.data EXCEPT !.len = data.len] = Mask(data)
  BY <1>1 DEF Mask, Data
<1>4. Mask(Mask(data)) = data
  BY DEF Mask, Data
<1> QED
  BY <1>1, <1>2, <1>3, <1>4 DEF Payload

-----------------------------------------------------------------------------
(* What the read loop makes of the frames on the wire.                      *)

Control == {"close", "ping", "pong"}

\* A frame that readFrame takes as the peer meant it.
Good(f) ==
    /\ f \in WireFrame
    /\ Payload(f) \in Data
    /\ f.opcode \in Control => Payload(f).len <= 125

LEMMA EncodedLength ==
  ASSUME NEW n \in 0 .. MaxLength
  PROVE  EncodeLength(n) \in [len7 : 0 .. 127, ext : Seq(Byte)]
<1>1. n \in Int /\ 0 <= n
  OBVIOUS
<1>2. \A k \in Int : k % 256 \in Byte
  BY Z3 DEF Byte
<1>3. /\ n \div 256 \in Int /\ (n \div 256) \div 256 \in Int
      /\ ((n \div 256) \div 256) \div 256 \in Int
  BY <1>1, Z3
<1>4. <<>> \in Seq(Byte) /\ Bytes2(n) \in Seq(Byte)
  BY <1>1, <1>2, <1>3 DEF Bytes2
<1>5. Bytes8(n) \in Seq(Byte)
  <2>1. 0 \in Byte
    BY DEF Byte
  <2> QED
    BY <1>1, <1>2, <1>3, <2>1 DEF Bytes8
<1>6. CASE n <= 125
  BY <1>1, <1>4, <1>6 DEF EncodeLength
<1>7. CASE ~(n <= 125)
  BY <1>4, <1>5, <1>7 DEF EncodeLength
<1> QED
  BY <1>6, <1>7

\* Every frame the peer sends is one.
LEMMA FrameGood ==
  ASSUME NEW fin \in BOOLEAN, NEW opcode \in Opcodes, NEW data \in Data,
         opcode \in Control => data.len <= 125
  PROVE  /\ Good(Frame(fin, opcode, data))
         /\ Payload(Frame(fin, opcode, data)) = data
         /\ Frame(fin, opcode, data).fin = fin
         /\ Frame(fin, opcode, data).opcode = opcode
<1> DEFINE f == Frame(fin, opcode, data)
<1>1. Payload(f) = data
  BY PayloadSurvives
<1>2. Mask(data) \in Data
  BY DEF Mask, Data
<1>3. EncodeLength(data.len) \in [len7 : 0 .. 127, ext : Seq(Byte)]
  BY EncodedLength DEF Data
<1>4. f \in WireFrame /\ f.fin = fin /\ f.opcode = opcode
  BY <1>2, <1>3 DEF Frame, WireFrame
<1> QED
  BY <1>1, <1>4 DEF Good

\* The limit on a frame is one on its payload.
LEMMA DecodedLength ==
  ASSUME NEW f, Good(f)
  PROVE  Payload(f).len = DecodeLength(f.length)
<1>1. f.data \in Data /\ f.masked \in BOOLEAN
  BY DEF Good, WireFrame
<1> DEFINE n == DecodeLength(f.length)
<1>2. [f.data EXCEPT !.len = n].len = n
  BY <1>1 DEF Data
<1>3. Mask([f.data EXCEPT !.len = n]).len = n
  BY <1>1 DEF Data, Mask
<1> QED
  BY <1>2, <1>3 DEF Payload

\* The message that ReadMessage has after a frame of it, and what the frame
\* makes of the message being read, those returned and the pongs.
Joined(m, f) ==
    [ opcode  |-> IF m = Nothing THEN f.opcode ELSE m.opcode,
      kind    |-> Payload(f).kind,
      size    |-> m.size + Payload(f).len,
      payload |-> Append(m.payload, Payload(f)) ]

Assemble(s, f) ==
    IF f.opcode = "ping" THEN [s EXCEPT !.ponged = Append(@, Payload(f))]
    ELSE IF f.opcode \in Control THEN s
    ELSE IF f.fin
    THEN [s EXCEPT !.reading = Nothing, !.got = Append(@, Joined(s.reading, f))]
    ELSE [s EXCEPT !.reading = Joined(s.reading, f)]

Snap == [reading : Msg \cup {Nothing}, got : Seq(Msg), ponged : Seq(Data)]

Here  == [reading |-> reading, got |-> got, ponged |-> ponged]
There == [reading |-> saying, got |-> said, ponged |-> pinged]

\* The message of the peer that comes after n others.
Coming(n) == IF n < Len(said) THEN said[n + 1] ELSE saying

Within(m, msg) ==
    m.size <= msg.size /\ Range(m.payload) \subseteq Range(msg.payload)

\* s is behind the peer, and reading the message that comes next.
Behind(s) ==
    /\ IsPrefix(s.got, said)
    /\ IsPrefix(s.ponged, pinged)
    /\ Within(s.reading, Coming(Len(s.got)))

\* R leads, frame by frame, from what the server has read to what the peer
\* has sent.
Path(R) ==
    /\ R \in [1 .. Len(wire) + 1 -> Snap]
    /\ R[1] = Here /\ R[Len(wire) + 1] = There
    /\ \A j \in 1 .. Len(wire) : R[j + 1] = Assemble(R[j], wire[j])
    /\ \A j \in 1 .. Len(wire) + 1 : Behind(R[j])

PairInv ==
    /\ ended = "no" /\ header # 0 => header = Len(got) /\ got[header].kind = "chunk"
    /\ \A c \in stored : /\ {c.header, c.header + 1} \subseteq DOMAIN got
                         /\ got[c.header].kind = "chunk"
                         /\ got[c.header + 1].opcode = "binary"
                         /\ got[c.header + 1].payload = c.data

FrameInv ==
    /\ TypeOK
    /\ \A j \in DOMAIN wire : Good(wire[j])
    /\ ended = "no" => \E R : Path(R)
    /\ MessagesArriveWhole
    /\ PairInv
    /\ RefusedForCause

\* IsPrefix, element by element.
LEMMA PrefixDef ==
  ASSUME NEW S, NEW s \in Seq(S), NEW t \in Seq(S)
  PROVE  IsPrefix(s, t) <=> /\ Len(s) <= Len(t)
                            /\ \A j \in 1 .. Len(s) : s[j] = t[j]
<1> DEFINE n == Len(s)
<1> SUFFICES ASSUME Len(s) <= Len(t)
             PROVE  SubSeq(s, 1, n) = SubSeq(t, 1, n) <=> \A j \in 1 .. n : s[j] = t[j]
  BY DEF IsPrefix
<1>1. n \in Nat /\ Len(t) \in Nat /\ 1 \in Int
  OBVIOUS
<1>2. (\A j \in 1 .. n : s[j] \in S) /\ (\A j \in 1 .. n : t[j] \in S)
  BY <1>1
<1>3. /\ SubSeq(s, 1, n) \in Seq(S)
      /\ Len(SubSeq(s, 1, n)) = IF 1 <= n THEN n - 1 + 1 ELSE 0
      /\ \A j \in 1 .. n - 1 + 1 : SubSeq(s, 1, n)[j] = s[1 + j - 1]
  BY ONLY <1>1, <1>2, SubSeqProperties
<1>4. /\ SubSeq(t, 1, n) \in Seq(S)
      /\ Len(SubSeq(t, 1, n)) = IF 1 <= n THEN n - 1 + 1 ELSE 0
      /\ \A j \in 1 .. n - 1 + 1 : SubSeq(t, 1, n)[j] = t[1 + j - 1]
  BY ONLY <1>1, <1>2, SubSeqProperties
<1>5. \A j \in 1 .. n : SubSeq(s, 1, n)[j] = s[j] /\ SubSeq(t, 1, n)[j] = t[j]
  <2>1. \A j \in 1 .. n : j \in 1 .. n - 1 + 1 /\ 1 + j - 1 = j
    BY <1>1
  <2> QED
    BY <1>3, <1>4, <2>1
<1>6. Len(SubSeq(s, 1, n)) = n /\ Len(SubSeq(t, 1, n)) = n
  BY <1>1, <1>3, <1>4
<1>7. ASSUME \A j \in 1 .. n : s[j] = t[j]
      PROVE  SubSeq(s, 1, n) = SubSeq(t, 1, n)
  BY <1>3, <1>4, <1>5, <1>6, <1>7, SeqEqual
<1>8. ASSUME SubSeq(s, 1, n) = SubSeq(t, 1, n)
      PROVE  \A j \in 1 .. n : s[j] = t[j]
  BY <1>5, <1>8
<1> QED
  BY <1>7, <1>8

LEMMA PrefixAppend ==
  ASSUME NEW S, NEW s \in Seq(S), NEW t \in Seq(S), NEW e \in S
  PROVE  /\ IsPrefix(t, t)
         /\ IsPrefix(s, t) => IsPrefix(s, Append(t, e))
<1>1. /\ Append(t, e) \in Seq(S) /\ Len(Append(t, e)) = Len(t) + 1
      /\ \A j \in 1 .. Len(t) : Append(t, e)[j] = t[j]
  BY AppendProperties
<1>2. Len(s) \in Nat /\ Len(t) \in Nat
  OBVIOUS
<1>3. IsPrefix(t, t)
  BY <1>2, PrefixDef
<1>4. ASSUME IsPrefix(s, t)
      PROVE  IsPrefix(s, Append(t, e))
  <2>1. Len(s) <= Len(t) /\ \A j \in 1 .. Len(s) : s[j] = t[j]
    BY <1>4, PrefixDef
  <2>2. /\ Len(s) <= Len(Append(t, e))
        /\ \A j \in 1 .. Len(s) : s[j] = Append(t, e)[j]
    BY <1>1, <1>2, <2>1
  <2> HIDE DEF IsPrefix
  <2> QED
    BY <1>1, <2>2, PrefixDef
<1> QED
  BY <1>3, <1>4

LEMMA RangeAppend ==
  ASSUME NEW S, NEW s \in Seq(S), NEW e \in S
  PROVE  Range(s) \subseteq Range(Append(s, e)) /\ e \in Range(Append(s, e))
<1>1. /\ DOMAIN s = 1 .. Len(s) /\ DOMAIN Append(s, e) = 1 .. Len(s) + 1
      /\ \A j \in 1 .. Len(s) : Append(s, e)[j] = s[j]
      /\ Append(s, e)[Len(s) + 1] = e /\ Len(s) \in Nat
  OBVIOUS
<1> QED
  BY <1>1 DEF Range

LEMMA JoinedType ==
  ASSUME NEW m \in Msg \cup {Nothing}, NEW f, Good(f), f.opcode \notin Control
  PROVE  /\ Joined(m, f) \in Msg
         /\ Within(m, Joined(m, f))
         /\ Payload(f) \in Range(Joined(m, f).payload)
<1>1. /\ Payload(f) \in Data /\ Payload(f).len \in Nat
      /\ Payload(f).kind \in {"chunk", "other"} /\ f.opcode \in Opcodes
  BY DEF Good, Data, WireFrame
<1>2. m.size \in Nat /\ m.payload \in Seq(Data) /\ (m # Nothing => m.opcode \in Opcodes)
  <2>1. CASE m = Nothing
    <3>1. m.size = 0 /\ m.payload = <<>>
      BY <2>1 DEF Nothing
    <3> QED
      BY <2>1, <3>1
  <2>2. CASE m \in Msg
    BY <2>2 DEF Msg
  <2> QED
    BY <2>1, <2>2
<1>3. /\ Append(m.payload, Payload(f)) \in Seq(Data)
      /\ m.size + Payload(f).len \in Nat /\ m.size <= m.size + Payload(f).len
  BY <1>1, <1>2
<1>4. Joined(m, f) \in Msg
  BY <1>1, <1>2, <1>3 DEF Joined, Msg
<1>5. /\ Range(m.payload) \subseteq Range(Append(m.payload, Payload(f)))
      /\ Payload(f) \in Range(Append(m.payload, Payload(f)))
  BY <1>1, <1>2, RangeAppend
<1> QED
  BY <1>3, <1>4, <1>5 DEF Joined, Within

LEMMA LengthType == \A n \in 0 .. MaxLength : n \in Nat
<1>1. MaxLength \in Int
  BY Z3 DEF MaxLength
<1> QED
  BY <1>1

LEMMA SizeType ==
  ASSUME NEW m \in Msg \cup {Nothing}
  PROVE  m.size \in Nat /\ m.payload \in Seq(Data)
<1>1. CASE m = Nothing
  <2>1. m.size = 0 /\ m.payload = <<>>
    BY <1>1 DEF Nothing
  <2> QED
    BY <2>1
<1>2. CASE m \in Msg
  BY <1>2 DEF Msg
<1> QED
  BY <1>1, <1>2

\* Nothing is within every limit, and so is a message that grows by a frame
\* that is, as long as its size is.
LEMMA NothingInLimits == InLimits(Nothing)
<1>1. Range(<<>>) = {}
  BY DEF Range
<1> QED
  BY <1>1, WsFramingAssumption DEF InLimits, Nothing

LEMMA JoinedInLimits ==
  ASSUME NEW m \in Msg \cup {Nothing}, InLimits(m), NEW f,
         Payload(f) \in Data, Payload(f).len <= maxFrameSize,
         Joined(m, f).size <= maxMessageSize
  PROVE  InLimits(Joined(m, f))
<1>1. PICK d : d = Payload(f)
  OBVIOUS
<1>2. Joined(m, f).payload = Append(m.payload, d)
  BY <1>1 DEF Joined
<1>3. m.payload \in Seq(Data)
  BY SizeType
<1>4. Range(Append(m.payload, d)) \subseteq Range(m.payload) \cup {d}
  BY <1>1, <1>3, AppendProperties DEF Range
<1> QED
  BY <1>1, <1>2, <1>4 DEF InLimits

LEMMA WithinTransitive ==
  ASSUME NEW a \in Msg \cup {Nothing}, NEW b \in Msg \cup {Nothing},
         NEW c \in Msg \cup {Nothing}, Within(a, b), Within(b, c)
  PROVE  Within(a, c)
<1>1. a.size \in Nat /\ b.size \in Nat /\ c.size \in Nat
  BY SizeType
<1> QED
  BY <1>1 DEF Within

LEMMA ComingType ==
  ASSUME TypeOK, NEW n \in Nat
  PROVE  Coming(n) \in Msg \cup {Nothing}
BY DEF TypeOK, Coming

LEMMA SnapTypes ==
  ASSUME TypeOK
  PROVE  Here \in Snap /\ There \in Snap
BY DEF TypeOK, Here, There, Snap

-----------------------------------------------------------------------------
(* The peer only goes forward. *)

LEMMA Forward ==
  ASSUME TypeOK, TypeOK',
         \/ said' = said /\ Within(saying, saying')
         \/ \E m \in Msg : said' = Append(said, m) /\ Within(saying, m),
         pinged' = pinged \/ \E d \in Data : pinged' = Append(pinged, d),
         NEW s \in Snap, Behind(s)
  PROVE  Behind(s)'
<1>1. /\ s.got \in Seq(Msg) /\ s.ponged \in Seq(Data) /\ s.reading \in Msg \cup {Nothing}
      /\ said \in Seq(Msg) /\ pinged \in Seq(Data)
      /\ saying \in Msg \cup {Nothing} /\ saying' \in Msg \cup {Nothing}
      /\ Len(s.got) \in Nat /\ Len(said) \in Nat
  BY DEF Snap, TypeOK
<1>2. IsPrefix(s.got, said')
  BY <1>1, PrefixAppend DEF Behind
<1>3. IsPrefix(s.ponged, pinged')
  BY <1>1, PrefixAppend DEF Behind
<1> DEFINE n == Len(s.got)
<1>4. n <= Len(said)
  BY <1>1, PrefixDef DEF Behind
<1>5. Within(s.reading, Coming(n)) /\ Coming(n) \in Msg \cup {Nothing}
  BY <1>1, ComingType DEF Behind
<1>6. CASE said' = said /\ Within(saying, saying')
  <2>1. CASE n < Len(said)
    BY <1>2, <1>3, <1>5, <1>6, <2>1 DEF Behind, Coming
  <2>2. CASE ~(n < Len(said))
    <3>1. Coming(n) = saying /\ Coming(n)' = saying'
      BY <1>6, <2>2 DEF Coming
    <3>2. Within(s.reading, saying')
      BY <1>1, <1>5, <1>6, <3>1, WithinTransitive
    <3> QED
      BY <1>2, <1>3, <3>1, <3>2 DEF Behind
  <2> QED
    BY <2>1, <2>2
<1>7. ASSUME NEW m \in Msg, said' = Append(said, m), Within(saying, m)
      PROVE  Behind(s)'
  <2>1. /\ Len(said') = Len(said) + 1 /\ said'[Len(said) + 1] = m
        /\ \A j \in 1 .. Len(said) : said'[j] = said[j]
    BY <1>1, <1>7
  <2>2. CASE n < Len(said)
    <3>1. Coming(n)' = Coming(n)
      <4>1. n + 1 \in 1 .. Len(said) /\ n < Len(said')
        BY <1>1, <2>1, <2>2
      <4> QED
        BY <2>1, <2>2, <4>1 DEF Coming
    <3> QED
      BY <1>2, <1>3, <1>5, <3>1 DEF Behind
  <2>3. CASE ~(n < Len(said))
    <3>1. n = Len(said) /\ n < Len(said')
      BY <1>1, <1>4, <2>1, <2>3
    <3>2. Coming(n) = saying /\ Coming(n)' = m
      BY <2>1, <2>3, <3>1 DEF Coming
    <3>3. Within(s.reading, m)
      BY <1>1, <1>5, <1>7, <3>2, WithinTransitive
    <3> QED
      BY <1>2, <1>3, <3>2, <3>3 DEF Behind
  <2> QED
    BY <2>2, <2>3
<1> QED
  BY <1>6, <1>7

\* A frame on the wire is one more step of the path.
LEMMA SendPath ==
  ASSUME TypeOK, TypeOK', NEW R, Path(R), NEW f, Good(f), wire' = Append(wire, f),
         UNCHANGED <<reading, got, ponged>>, There' = Assemble(There, f),
         \A s \in Snap : Behind(s) => Behind(s)'
  PROVE  \E Q : Path(Q)'
<1>1. PICK n \in Nat : n = Len(wire)
  BY DEF TypeOK
<1>2. PICK last : last = There'
  OBVIOUS
<1>3. PICK Q : Q = [j \in 1 .. n + 2 |-> IF j <= n + 1 THEN R[j] ELSE last]
  OBVIOUS
<1>4. /\ Len(wire') = n + 1 /\ wire'[n + 1] = f
      /\ \A j \in 1 .. n : wire'[j] = wire[j]
  BY <1>1 DEF TypeOK
<1>5. /\ R \in [1 .. n + 1 -> Snap] /\ R[1] = Here /\ R[n + 1] = There
      /\ \A j \in 1 .. n : R[j + 1] = Assemble(R[j], wire[j])
      /\ \A j \in 1 .. n + 1 : Behind(R[j])
  BY <1>1 DEF Path
<1>6. last \in Snap
  BY <1>2, SnapTypes DEF There, Snap, TypeOK
<1>7. /\ \A j \in 1 .. n + 1 : Q[j] = R[j]
      /\ Q[n + 2] = last
      /\ Q \in [1 .. n + 2 -> Snap]
  BY <1>3, <1>5, <1>6
<1>8. Q[1] = Here'
  <2>1. Here' = Here /\ 1 \in 1 .. n + 1
    BY DEF Here
  <2> QED
    BY <1>5, <1>7, <2>1
<1>9. ASSUME NEW j \in 1 .. n + 1
      PROVE  Q[j + 1] = Assemble(Q[j], wire'[j])
  <2>1. CASE j = n + 1
    BY <1>2, <1>4, <1>5, <1>7, <2>1
  <2>2. CASE j # n + 1
    <3>1. j \in 1 .. n /\ j + 1 \in 1 .. n + 1
      BY <2>2
    <3> QED
      BY <1>4, <1>5, <1>7, <3>1
  <2> QED
    BY <2>1, <2>2
<1>10. Behind(last)'
  <2>1. saying' \in Msg \cup {Nothing} /\ said' \in Seq(Msg) /\ pinged' \in Seq(Data)
    BY DEF TypeOK
  <2>2. last.reading = saying' /\ last.got = said' /\ last.ponged = pinged'
    BY <1>2 DEF There
  <2>3. Coming(Len(said))' = saying'
    BY <2>1 DEF Coming
  <2>4. saying'.size \in Nat
    BY <2>1, SizeType
  <2>5. Within(saying', saying')
    BY <2>4 DEF Within
  <2>6. IsPrefix(said', said') /\ IsPrefix(pinged', pinged')
    BY <2>1, PrefixDef
  <2> QED
    BY <2>2, <2>3, <2>5, <2>6 DEF Behind
<1>11. ASSUME NEW j \in 1 .. n + 2
       PROVE  Behind(Q[j])'
  <2>1. CASE j = n + 2
    BY <1>7, <1>10, <2>1
  <2>2. CASE j # n + 2
    <3>1. j \in 1 .. n + 1 /\ Q[j] = R[j] /\ R[j] \in Snap
      BY <1>5, <1>7, <2>2
    <3> QED
      BY <1>5, <3>1
  <2> QED
    BY <2>1, <2>2
<1>12. /\ Q \in [1 .. Len(wire') + 1 -> Snap]
       /\ Q[Len(wire') + 1] = There'
  BY <1>2, <1>4, <1>7
<1>13. /\ \A j \in 1 .. Len(wire') : Q[j + 1] = Assemble(Q[j], wire'[j])
       /\ \A j \in 1 .. Len(wire') + 1 : Behind(Q[j])'
  BY <1>4, <1>9, <1>11
<1>14. Path(Q)'
  BY <1>8, <1>12, <1>13 DEF Path
<1> QED
  BY <1>14

LEMMA SendInv ==
  ASSUME FrameInv, NEW f, Good(f), Send(f), There' = Assemble(There, f),
         said' \in Seq(Msg), saying' \in Msg \cup {Nothing}, pinged' \in Seq(Data),
         \/ said' = said /\ Within(saying, saying')
         \/ \E m \in Msg : said' = Append(said, m) /\ Within(saying, m),
         pinged' = pinged \/ \E d \in Data : pinged' = Append(pinged, d)
  PROVE  FrameInv'
<1>1. f \in WireFrame
  BY DEF Good
<1>2. /\ ended = "no" /\ frames < MaxFrames /\ frames' = frames + 1
      /\ wire' = Append(wire, f)
      /\ UNCHANGED <<reading, header, got, stored, ponged, ended>>
  BY DEF Send, server
<1>3. TypeOK
  BY DEF FrameInv
<1>4. TypeOK'
  <2>1. frames' \in 0 .. MaxFrames
    BY <1>2, <1>3, WsFramingAssumption DEF TypeOK
  <2>2. wire' \in Seq(WireFrame)
    BY <1>1, <1>2, <1>3 DEF TypeOK
  <2> QED
    BY <1>2, <1>3, <2>1, <2>2 DEF TypeOK
<1>5. \A j \in DOMAIN wire' : Good(wire'[j])
  <2>1. \A j \in 1 .. Len(wire) : Good(wire[j])
    BY <1>3 DEF FrameInv, TypeOK
  <2>2. /\ DOMAIN wire' = 1 .. Len(wire) + 1 /\ wire'[Len(wire) + 1] = f
        /\ \A j \in 1 .. Len(wire) : wire'[j] = wire[j]
        /\ Len(wire) \in Nat
    BY <1>2, <1>3 DEF TypeOK
  <2> QED
    BY <2>1, <2>2
<1>6. \A s \in Snap : Behind(s) => Behind(s)'
  BY <1>3, <1>4, Forward
<1>7. PICK R : Path(R)
  BY <1>2 DEF FrameInv
<1>8. \E Q : Path(Q)'
  BY <1>2, <1>3, <1>4, <1>6, <1>7, SendPath
<1>9. MessagesArriveWhole'
  <2>1. Behind(Here)
    <3>1. 1 \in 1 .. Len(wire) + 1
      BY <1>3 DEF TypeOK
    <3> QED
      BY <1>7, <3>1 DEF Path
  <2>2. Here \in Snap
    BY <1>3, SnapTypes
  <2>3. \A s : s = Here => Behind(s)'
    BY <1>6, <2>1, <2>2
  <2>4. \A s : s = Here => s.got = got' /\ s.ponged = ponged'
    BY <1>2 DEF Here
  <2>5. IsPrefix(got', said') /\ IsPrefix(ponged', pinged')
    BY <2>3, <2>4 DEF Behind
  <2> QED
    BY <2>5 DEF MessagesArriveWhole
<1>10. PairInv'
  BY <1>2 DEF FrameInv, PairInv
<1>11. RefusedForCause'
  BY <1>2 DEF FrameInv, RefusedForCause, InLimits
<1> QED
  BY <1>4, <1>5, <1>8, <1>9, <1>10, <1>11 DEF FrameInv

\* The peer's message after a frame of it is what the server will assemble.
LEMMA SayInv ==
  ASSUME FrameInv, NEW f, Good(f), f.opcode \notin Control, Send(f),
         UNCHANGED pinged, NEW msg, msg = Joined(saying, f), Say(msg, f.fin)
  PROVE  FrameInv'
<1>1. /\ said \in Seq(Msg) /\ pinged \in Seq(Data) /\ saying \in Msg \cup {Nothing}
      /\ f.fin \in BOOLEAN
  BY DEF FrameInv, TypeOK, Good, WireFrame
<1>2. msg \in Msg /\ Within(saying, msg)
  BY <1>1, JoinedType
<1>3. IF f.fin THEN said' = Append(said, msg) /\ saying' = Nothing
               ELSE said' = said /\ saying' = msg
  BY DEF Say
<1>4. There' = Assemble(There, f)
  <2>1. f.opcode # "ping"
    BY DEF Control
  <2>2. /\ There.reading = saying /\ There.got = said
        /\ There = [reading |-> saying, got |-> said, ponged |-> pinged]
        /\ There' = [reading |-> saying', got |-> said', ponged |-> pinged]
    BY DEF There
  <2>3. CASE f.fin
    <3>1. Assemble(There, f) = [There EXCEPT !.reading = Nothing,
                                             !.got = Append(@, Joined(saying, f))]
      BY <2>1, <2>2, <2>3 DEF Assemble
    <3>2. saying' = Nothing /\ said' = Append(said, msg)
      BY <1>3, <2>3
    <3> QED
      BY <3>1, <3>2 DEF There
  <2>4. CASE ~f.fin
    <3>1. Assemble(There, f) = [There EXCEPT !.reading = Joined(saying, f)]
      BY <2>1, <2>2, <2>4 DEF Assemble
    <3>2. saying' = msg /\ said' = said
      BY <1>3, <2>4
    <3> QED
      BY <3>1, <3>2 DEF There
  <2> QED
    BY <2>3, <2>4
<1>5. said' \in Seq(Msg) /\ saying' \in Msg \cup {Nothing} /\ pinged' \in Seq(Data)
  BY <1>1, <1>2, <1>3
<1>6. \/ said' = said /\ Within(saying, saying')
      \/ \E m \in Msg : said' = Append(said, m) /\ Within(saying, m)
  BY <1>2, <1>3
<1> QED
  BY <1>4, <1>5, <1>6, SendInv

LEMMA PartType ==
  ASSUME TypeOK, NEW f, Send(f), NEW kind \in {"chunk", "other"},
         NEW n \in 0 .. MaxLength
  PROVE  /\ Part(kind, n) \in Data
         /\ Part(kind, n).len = n /\ Part(kind, n).kind = kind
<1>1. frames + 1 \in 1 .. MaxFrames
  BY WsFramingAssumption DEF TypeOK, Send
<1> QED
  BY <1>1 DEF Part, Data

LEMMA ContinuationInv ==
  ASSUME FrameInv, NEW fin \in BOOLEAN, NEW n \in Lengths, SendContinuation(n, fin)
  PROVE  FrameInv'
<1>1. PICK data : data = Part(saying.kind, n)
  OBVIOUS
<1>2. PICK f : f = Frame(fin, "continuation", data)
  OBVIOUS
<1>3. /\ saying # Nothing /\ Send(f) /\ UNCHANGED pinged
      /\ Say([saying EXCEPT !.size = @ + n, !.payload = Append(@, data)], fin)
  BY <1>1, <1>2 DEF SendContinuation
<1>4. TypeOK /\ saying \in Msg /\ n \in 0 .. MaxLength
  BY <1>3, WsFramingAssumption DEF FrameInv, TypeOK
<1>5. saying.kind \in {"chunk", "other"}
  BY <1>4 DEF Msg
<1>6. data \in Data /\ data.len = n /\ data.kind = saying.kind
  BY <1>1, <1>3, <1>4, <1>5, PartType
<1>7. /\ Good(f) /\ Payload(f) = data /\ f.fin = fin
      /\ f.opcode \notin Control
  <2>1. "continuation" \in Opcodes /\ "continuation" \notin Control
    BY DEF Opcodes, Control
  <2> QED
    BY <1>2, <1>6, <2>1, FrameGood
<1>8. Joined(saying, f) = [saying EXCEPT !.size = @ + n, !.payload = Append(@, data)]
  <2>1. Joined(saying, f) = [opcode |-> saying.opcode, kind |-> saying.kind,
                             size |-> saying.size + n,
                             payload |-> Append(saying.payload, data)]
    BY <1>3, <1>6, <1>7 DEF Joined
  <2>2. ASSUME NEW m \in Msg, NEW size \in Nat, NEW payload
        PROVE  [m EXCEPT !.size = size, !.payload = payload]
                  = [opcode |-> m.opcode, kind |-> m.kind, size |-> size,
                     payload |-> payload]
    <3>1. PICK r : r = [m EXCEPT !.size = size]
      OBVIOUS
    <3>2. r = [opcode |-> m.opcode, kind |-> m.kind, size |-> size,
               payload |-> m.payload]
      BY <2>2, <3>1 DEF Msg
    <3>3. [r EXCEPT !.payload = payload]
             = [opcode |-> m.opcode, kind |-> m.kind, size |-> size,
                payload |-> payload]
      BY <3>2
    <3>4. [m EXCEPT !.size = size, !.payload = payload] = [r EXCEPT !.payload = payload]
      BY <3>1
    <3> QED
      BY <3>3, <3>4
  <2>3. saying.size + n \in Nat
    BY <1>4, LengthType DEF Msg
  <2>4. \A p : [saying EXCEPT !.size = @ + n, !.payload = p]
                 = [opcode |-> saying.opcode, kind |-> saying.kind,
                    size |-> saying.size + n, payload |-> p]
    BY <1>4, <2>2, <2>3, Zenon
  <2> QED
    BY <2>1, <2>4, Zenon
<1>9. PICK msg : msg = Joined(saying, f)
  OBVIOUS
<1> QED
  BY <1>3, <1>7, <1>8, <1>9, SayInv

LEMMA FirstInv ==
  ASSUME FrameInv, NEW fin \in BOOLEAN, NEW n \in Lengths,
         NEW opcode \in {"text", "binary", "continuation"},
         NEW kind \in {"chunk", "other"}, SendFirst(opcode, kind, n, fin)
  PROVE  FrameInv'
<1>1. PICK data : data = Part(kind, n)
  OBVIOUS
<1>2. PICK f : f = Frame(fin, opcode, data)
  OBVIOUS
<1>3. /\ saying = Nothing /\ Send(f) /\ UNCHANGED pinged
      /\ Say([opcode |-> opcode, kind |-> kind, size |-> n, payload |-> <<data>>], fin)
  BY <1>1, <1>2 DEF SendFirst
<1>4. TypeOK /\ n \in 0 .. MaxLength /\ n \in Nat
  BY WsFramingAssumption, LengthType DEF FrameInv
<1>5. data \in Data /\ data.len = n /\ data.kind = kind
  BY <1>1, <1>3, <1>4, PartType
<1>6. /\ Good(f) /\ Payload(f) = data /\ f.fin = fin /\ f.opcode = opcode
      /\ f.opcode \notin Control
  <2>1. opcode \in Opcodes /\ opcode \notin Control
    BY DEF Opcodes, Control
  <2> QED
    BY <1>2, <1>5, <2>1, FrameGood
<1>7. Joined(saying, f) = [opcode |-> opcode, kind |-> kind, size |-> n,
                           payload |-> <<data>>]
  <2>1. saying.size + n = n /\ Append(saying.payload, data) = <<data>>
    BY <1>3, <1>4 DEF Nothing
  <2> QED
    BY <1>3, <1>5, <1>6, <2>1 DEF Joined
<1>8. PICK msg : msg = Joined(saying, f)
  OBVIOUS
<1> QED
  BY <1>3, <1>6, <1>7, <1>8, SayInv

LEMMA ControlInv ==
  ASSUME FrameInv, NEW opcode \in {"close", "ping", "pong"},
         NEW n \in ControlLengths, SendControl(opcode, n)
  PROVE  FrameInv'
<1>1. PICK data : data = Part("other", n)
  OBVIOUS
<1>2. PICK f : f = Frame(TRUE, opcode, data)
  OBVIOUS
<1>3. /\ Send(f) /\ UNCHANGED <<said, saying>>
      /\ pinged' = IF opcode = "ping" THEN Append(pinged, data) ELSE pinged
  BY <1>1, <1>2 DEF SendControl
<1>4. TypeOK /\ n \in 0 .. MaxLength /\ n <= 125
  <2>1. n \in 0 .. 125
    BY WsFramingAssumption
  <2>2. 125 <= MaxLength
    BY Z3 DEF MaxLength
  <2>3. MaxLength \in Int
    BY Z3 DEF MaxLength
  <2> QED
    BY <2>1, <2>2, <2>3 DEF FrameInv
<1>5. data \in Data /\ data.len <= 125
  BY <1>1, <1>3, <1>4, PartType
<1>6. /\ Good(f) /\ Payload(f) = data /\ f.opcode = opcode /\ opcode \in Control
  <2>1. opcode \in Opcodes /\ opcode \in Control
    BY DEF Opcodes, Control
  <2> QED
    BY <1>2, <1>5, <2>1, FrameGood
<1>7. There' = Assemble(There, f)
  BY <1>3, <1>6 DEF There, Assemble
<1>8. /\ said' \in Seq(Msg) /\ saying' \in Msg \cup {Nothing}
      /\ pinged' \in Seq(Data)
      /\ pinged' = pinged \/ \E d \in Data : pinged' = Append(pinged, d)
  BY <1>3, <1>4, <1>5 DEF TypeOK
<1>9. Within(saying, saying')
  <2>1. saying.size \in Nat
    BY <1>4, SizeType DEF TypeOK
  <2> QED
    BY <1>3, <2>1 DEF Within
<1> QED
  BY <1>3, <1>6, <1>7, <1>8, <1>9, SendInv

-----------------------------------------------------------------------------
(* The read loop follows. *)

\* One frame off the wire is one step down the path.
LEMMA ReadPath ==
  ASSUME TypeOK, wire # <<>>, wire' = Tail(wire), UNCHANGED peer,
         NEW R, Path(R), Here' = Assemble(Here, Head(wire))
  PROVE  (\E Q : Path(Q)') /\ MessagesArriveWhole'
<1>1. PICK n \in Nat : n = Len(wire)
  BY DEF TypeOK
<1>2. /\ 1 <= n /\ Head(wire) = wire[1] /\ Len(wire') = n - 1
      /\ \A j \in 1 .. n - 1 : wire'[j] = wire[j + 1]
  <2>1. wire \in Seq(WireFrame)
    BY DEF TypeOK
  <2>2. n # 0
    BY <1>1, <2>1
  <2> QED
    BY <1>1, <2>1, <2>2
<1>3. /\ R \in [1 .. n + 1 -> Snap] /\ R[1] = Here /\ R[n + 1] = There
      /\ \A j \in 1 .. n : R[j + 1] = Assemble(R[j], wire[j])
      /\ \A j \in 1 .. n + 1 : Behind(R[j])
  BY <1>1 DEF Path
<1>4. PICK Q : Q = [j \in 1 .. n |-> R[j + 1]]
  OBVIOUS
<1>5. Q \in [1 .. n -> Snap] /\ \A j \in 1 .. n : Q[j] = R[j + 1]
  BY <1>1, <1>3, <1>4
<1>6. Q[1] = Here'
  BY <1>2, <1>3, <1>5
<1>7. Q[n] = There'
  <2>1. There' = There
    BY DEF There, peer
  <2> QED
    BY <1>2, <1>3, <1>5, <2>1
<1>8. ASSUME NEW j \in 1 .. n - 1
      PROVE  Q[j + 1] = Assemble(Q[j], wire'[j])
  <2>1. j \in 1 .. n /\ j + 1 \in 1 .. n
    BY <1>1, <1>2
  <2> QED
    BY <1>2, <1>3, <1>5, <2>1
<1>9. ASSUME NEW j \in 1 .. n
      PROVE  Behind(Q[j])'
  <2>1. \A s : Behind(s) => Behind(s)'
    BY DEF Behind, Coming, peer
  <2>2. j + 1 \in 1 .. n + 1
    BY <1>1
  <2> QED
    BY <1>3, <1>5, <2>1, <2>2
<1>10. Path(Q)'
  <2>1. Len(wire') + 1 = n
    BY <1>1, <1>2
  <2> QED
    BY <1>2, <1>5, <1>6, <1>7, <1>8, <1>9, <2>1 DEF Path
<1>11. MessagesArriveWhole'
  <2>1. \A s : s = Here' => s.got = got' /\ s.ponged = ponged'
    BY DEF Here
  <2>2. Q[1].got = got' /\ Q[1].ponged = ponged'
    BY <1>6, <2>1
  <2>3. Behind(Q[1])'
    BY <1>1, <1>2, <1>9
  <2> QED
    BY <2>2, <2>3 DEF Behind, MessagesArriveWhole
<1> QED
  BY <1>10, <1>11

\* The frames on the wire are good ones, and the first leads to a state of
\* the server that is behind the peer.
LEMMA TailGood ==
  ASSUME TypeOK, \A j \in DOMAIN wire : Good(wire[j]), wire # <<>>
  PROVE  /\ Tail(wire) \in Seq(WireFrame) /\ Good(Head(wire))
         /\ \A j \in DOMAIN Tail(wire) : Good(Tail(wire)[j])
<1>1. wire \in Seq(WireFrame) /\ Len(wire) \in Nat /\ Len(wire) # 0
  BY DEF TypeOK
<1>2. /\ Tail(wire) \in Seq(WireFrame) /\ Head(wire) = wire[1]
      /\ DOMAIN wire = 1 .. Len(wire)
      /\ DOMAIN Tail(wire) = 1 .. Len(wire) - 1
      /\ \A j \in 1 .. Len(wire) - 1 : Tail(wire)[j] = wire[j + 1]
  BY <1>1
<1> QED
  BY <1>1, <1>2

LEMMA NextBehind ==
  ASSUME FrameInv, ended = "no", wire # <<>>, NEW f, f = Head(wire)
  PROVE  Behind(Assemble(Here, f))
<1>1. PICK R : Path(R)
  BY DEF FrameInv
<1>2. wire \in Seq(WireFrame)
  BY DEF FrameInv, TypeOK
<1>3. Len(wire) \in Nat /\ Len(wire) # 0 /\ f = wire[1]
  BY <1>2
<1>4. 1 \in 1 .. Len(wire) /\ 2 \in 1 .. Len(wire) + 1 /\ 1 + 1 = 2
  BY <1>3
<1>5. R[2] = Assemble(R[1], wire[1]) /\ R[1] = Here /\ Behind(R[2])
  BY <1>1, <1>4 DEF Path
<1> QED
  BY <1>3, <1>5

\* What is read of a message is within the message the peer sends next.
LEMMA JoinedWithin ==
  ASSUME TypeOK, NEW f, Good(f), f.opcode \notin Control, Behind(Assemble(Here, f))
  PROVE  /\ Joined(reading, f) \in Msg
         /\ Within(Joined(reading, f), Current)
         /\ Current \in Msg \cup {Nothing}
         /\ Payload(f) \in Range(Current.payload)
<1>1. PICK J : J = Joined(reading, f)
  OBVIOUS
<1>2. /\ J \in Msg /\ Payload(f) \in Range(J.payload)
      /\ got \in Seq(Msg) /\ said \in Seq(Msg) /\ f.fin \in BOOLEAN
      /\ Len(got) \in Nat /\ Len(said) \in Nat
  <2>1. /\ reading \in Msg \cup {Nothing}
        /\ got \in Seq(Msg) /\ said \in Seq(Msg)
    BY DEF TypeOK
  <2>2. Joined(reading, f) \in Msg /\ Payload(f) \in Range(Joined(reading, f).payload)
    BY <2>1, JoinedType
  <2>3. f.fin \in BOOLEAN
    BY DEF Good, WireFrame
  <2> QED
    BY <1>1, <2>1, <2>2, <2>3
<1>3. f.opcode # "ping" /\ Here.reading = reading /\ Here.got = got
  BY DEF Control, Here
<1>4. Current = Coming(Len(got)) /\ Current \in Msg \cup {Nothing}
  BY <1>2, ComingType DEF Current, Coming
<1>5. CASE f.fin
  <2>1. Assemble(Here, f) = [Here EXCEPT !.reading = Nothing, !.got = Append(@, J)]
    BY <1>1, <1>3, <1>5 DEF Assemble
  <2>2. Assemble(Here, f).got = Append(got, J)
    BY <2>1 DEF Here
  <2>3. IsPrefix(Append(got, J), said)
    BY <2>2 DEF Behind
  <2>4. /\ Append(got, J) \in Seq(Msg) /\ Len(Append(got, J)) = Len(got) + 1
        /\ Append(got, J)[Len(got) + 1] = J
    BY <1>2
  <2>5. Len(got) + 1 <= Len(said) /\ said[Len(got) + 1] = J
    <3>1. PICK g \in Seq(Msg) : g = Append(got, J)
      BY <2>4
    <3>2. IsPrefix(g, said)
      BY <2>3, <3>1
    <3>3. Len(g) <= Len(said) /\ \A j \in 1 .. Len(g) : g[j] = said[j]
      BY <1>2, <3>2, PrefixDef
    <3> QED
      BY <1>2, <2>4, <3>1, <3>3
  <2>6. Current = J
    BY <1>2, <2>5 DEF Current
  <2>7. J.size \in Nat
    BY <1>2 DEF Msg
  <2> QED
    BY <1>1, <1>2, <1>4, <2>6, <2>7 DEF Within
<1>6. CASE ~f.fin
  <2>1. Assemble(Here, f) = [Here EXCEPT !.reading = J]
    BY <1>1, <1>3, <1>6 DEF Assemble
  <2>2. Assemble(Here, f).got = got /\ Assemble(Here, f).reading = J
    BY <2>1 DEF Here
  <2>3. Within(J, Current)
    BY <1>4, <2>2 DEF Behind
  <2> QED
    BY <1>1, <1>2, <1>4, <2>3 DEF Within
<1> QED
  BY <1>2, <1>5, <1>6

\* A connection that ends leaves what has been read as it is.
LEMMA EndInv ==
  ASSUME FrameInv, NEW why, why \in {"EOF", "lost", "frameTooLarge", "messageTooLarge",
                                     "unsupportedOpcode"},
         End(why), UNCHANGED peer,
         wire' = wire \/ (wire # <<>> /\ wire' = Tail(wire)),
         why = "messageTooLarge" => Current.size > maxMessageSize,
         why = "frameTooLarge"
            => \E data \in Range(Current.payload) : data.len > maxFrameSize
  PROVE  FrameInv'
<1>1. TypeOK /\ \A j \in DOMAIN wire : Good(wire[j])
  BY DEF FrameInv
<1>2. /\ ended' = why /\ UNCHANGED <<reading, header, got, stored, ponged>>
      /\ UNCHANGED <<said, saying, frames, pinged>> /\ why # "no"
  BY DEF End, peer
<1>3. wire' \in Seq(WireFrame) /\ \A j \in DOMAIN wire' : Good(wire'[j])
  <2>1. CASE wire' = wire
    BY <1>1, <2>1 DEF TypeOK
  <2>2. CASE wire # <<>> /\ wire' = Tail(wire)
    BY <1>1, <2>2, TailGood
  <2> QED
    BY <2>1, <2>2
<1>4. TypeOK'
  BY <1>1, <1>2, <1>3 DEF TypeOK
<1>5. MessagesArriveWhole'
  BY <1>2 DEF FrameInv, MessagesArriveWhole
<1>6. PairInv'
  BY <1>2 DEF FrameInv, PairInv
<1>7. RefusedForCause'
  <2>1. Current' = Current
    BY <1>2 DEF Current
  <2>2. \A msg \in Range(got') \cup {reading'} : InLimits(msg)
    BY <1>2 DEF FrameInv, RefusedForCause
  <2> QED
    BY <1>2, <2>1, <2>2 DEF RefusedForCause, InLimits
<1> QED
  BY <1>2, <1>3, <1>4, <1>5, <1>6, <1>7 DEF FrameInv

\* One that goes on has assembled the frame.
LEMMA ContinueInv ==
  ASSUME FrameInv, ended = "no", wire # <<>>, wire' = Tail(wire), UNCHANGED peer,
         Here' = Assemble(Here, Head(wire)),
         got' = got \/ \E m \in Msg : got' = Append(got, m) /\ InLimits(m),
         InLimits(reading'),
         reading' \in Msg \cup {Nothing}, ponged' \in Seq(Data),
         header' \in 0 .. Len(got'), stored' \subseteq [header : DOMAIN got', data : Seq(Data)],
         ended' \in {"no", "expectedBinary"}, PairInv'
  PROVE  FrameInv'
<1>1. TypeOK /\ \A j \in DOMAIN wire : Good(wire[j])
  BY DEF FrameInv
<1>2. UNCHANGED <<said, saying, frames, pinged>>
  BY DEF peer
<1>3. wire' \in Seq(WireFrame) /\ \A j \in DOMAIN wire' : Good(wire'[j])
  BY <1>1, TailGood
<1>4. got \in Seq(Msg) /\ got' \in Seq(Msg)
  <2>1. got \in Seq(Msg)
    BY <1>1 DEF TypeOK
  <2>2. \A m \in Msg : Append(got, m) \in Seq(Msg)
    BY <2>1
  <2> QED
    BY <2>1, <2>2
<1>5. TypeOK'
  BY <1>1, <1>2, <1>3, <1>4 DEF TypeOK
<1>6. PICK R : Path(R)
  BY DEF FrameInv
<1>7. (\E Q : Path(Q)') /\ MessagesArriveWhole'
  BY <1>1, <1>6, ReadPath
<1>8. \A msg \in Range(got') \cup {reading'} : InLimits(msg)
  <2>1. \A msg \in Range(got) : InLimits(msg)
    BY DEF FrameInv, RefusedForCause
  <2>2. ASSUME NEW m \in Msg, got' = Append(got, m), InLimits(m)
        PROVE  \A msg \in Range(got') : InLimits(msg)
    <3>1. Range(got') \subseteq Range(got) \cup {m}
      BY <1>4, <2>2 DEF Range
    <3> QED
      BY <2>1, <2>2, <3>1
  <2> QED
    BY <2>1, <2>2
<1>9. RefusedForCause'
  BY <1>8 DEF RefusedForCause, InLimits
<1> QED
  BY <1>3, <1>5, <1>7, <1>9 DEF FrameInv

\* The chunk header that is waited for is the last message.
LEMMA ReceiveInv ==
  ASSUME FrameInv, ended = "no", NEW msg \in Msg, Receive(msg)
  PROVE  /\ got' = Append(got, msg)
         /\ header' \in 0 .. Len(got')
         /\ stored' \subseteq [header : DOMAIN got', data : Seq(Data)]
         /\ ended' \in {"no", "expectedBinary"}
         /\ PairInv'
<1>1. /\ got \in Seq(Msg) /\ header \in 0 .. Len(got)
      /\ stored \subseteq [header : DOMAIN got, data : Seq(Data)]
      /\ header # 0 => header = Len(got) /\ got[header].kind = "chunk"
      /\ msg.payload \in Seq(Data)
  BY DEF FrameInv, TypeOK, PairInv, Msg
<1>2. PICK n \in Nat : n = Len(got)
  BY <1>1
<1>3. /\ got' = Append(got, msg) /\ Len(got') = n + 1
      /\ DOMAIN got = 1 .. n /\ DOMAIN got' = 1 .. n + 1
      /\ got'[n + 1] = msg /\ \A j \in 1 .. n : got'[j] = got[j]
  BY <1>1, <1>2 DEF Receive
<1>4. ASSUME NEW c \in stored
      PROVE  /\ c \in [header : DOMAIN got', data : Seq(Data)]
             /\ {c.header, c.header + 1} \subseteq DOMAIN got'
             /\ got'[c.header].kind = "chunk"
             /\ got'[c.header + 1].opcode = "binary"
             /\ got'[c.header + 1].payload = c.data
  <2>1. /\ {c.header, c.header + 1} \subseteq DOMAIN got
        /\ got[c.header].kind = "chunk"
        /\ got[c.header + 1].opcode = "binary"
        /\ got[c.header + 1].payload = c.data
    BY DEF FrameInv, PairInv
  <2>2. c.header \in 1 .. n /\ c.header + 1 \in 1 .. n
    BY <1>3, <2>1
  <2>3. c \in [header : 1 .. n + 1, data : Seq(Data)]
    BY <1>1, <1>3
  <2> QED
    BY <1>3, <2>1, <2>2, <2>3
<1>5. CASE header # 0 /\ msg.opcode = "binary"
  <2>1. header' = 0 /\ ended' = "no"
        /\ stored' = stored \cup {[header |-> n, data |-> msg.payload]}
    BY <1>1, <1>2, <1>5 DEF Receive
  <2>2. n \in 1 .. n /\ got[n].kind = "chunk"
    BY <1>1, <1>2, <1>5
  <2>3. ASSUME NEW c, c = [header |-> n, data |-> msg.payload]
        PROVE  /\ c \in [header : DOMAIN got', data : Seq(Data)]
               /\ {c.header, c.header + 1} \subseteq DOMAIN got'
               /\ got'[c.header].kind = "chunk"
               /\ got'[c.header + 1].opcode = "binary"
               /\ got'[c.header + 1].payload = c.data
    BY <1>1, <1>3, <1>5, <2>2, <2>3
  <2>4. PairInv'
    BY <1>4, <2>1, <2>3 DEF PairInv
  <2> QED
    BY <1>2, <1>3, <1>4, <2>1, <2>3, <2>4
<1>6. CASE header # 0 /\ msg.opcode # "binary"
  <2>1. header' = header /\ ended' = "expectedBinary" /\ stored' = stored
    BY <1>6 DEF Receive
  <2>2. PairInv'
    BY <1>4, <2>1 DEF PairInv
  <2> QED
    BY <1>1, <1>2, <1>3, <1>4, <2>1, <2>2
<1>7. CASE header = 0
  <2>1. /\ header' \in IF msg.kind = "chunk" THEN {0, Len(got')} ELSE {0}
        /\ ended' = "no" /\ stored' = stored
    BY <1>7 DEF Receive
  <2>2. header' \in 0 .. n + 1
    BY <1>3, <2>1
  <2>3. header' # 0 => header' = Len(got') /\ got'[header'].kind = "chunk"
    BY <1>3, <2>1
  <2>4. PairInv'
    BY <1>4, <2>1, <2>3 DEF PairInv
  <2> QED
    BY <1>3, <1>4, <2>1, <2>2, <2>4
<1> QED
  BY <1>5, <1>6, <1>7

LEMMA ReadDataInv ==
  ASSUME FrameInv, ended = "no", wire # <<>>, wire' = Tail(wire), UNCHANGED peer,
         NEW f, f = Head(wire), f.opcode \notin Control, ReadData(f),
         Payload(f).len <= maxFrameSize
  PROVE  FrameInv'
<1>1. /\ TypeOK /\ \A j \in DOMAIN wire : Good(wire[j])
      /\ wire \in Seq(WireFrame)
  BY DEF FrameInv, TypeOK
<1>2. Good(f) /\ f.fin \in BOOLEAN
  BY <1>1, TailGood DEF Good, WireFrame
<1>3. Behind(Assemble(Here, f))
  BY NextBehind
<1>4. PICK msg : msg = Joined(reading, f)
  OBVIOUS
<1>5. msg \in Msg /\ Within(msg, Current) /\ Current \in Msg \cup {Nothing}
  BY <1>1, <1>2, <1>3, <1>4, JoinedWithin
<1>6. IF msg.size > maxMessageSize THEN End("messageTooLarge")
      ELSE IF ~f.fin
      THEN reading' = msg /\ UNCHANGED <<header, got, stored, ponged, ended>>
      ELSE IF msg.opcode \in {"text", "binary"}
      THEN reading' = Nothing /\ Receive(msg) /\ UNCHANGED ponged
      ELSE End("unsupportedOpcode")
  BY <1>4, Zenon DEF ReadData, Joined
<1>7. f.opcode # "ping" /\ Here.reading = reading /\ Here.got = got /\ Here.ponged = ponged
  BY DEF Control, Here
<1>8. msg.size <= maxMessageSize => InLimits(msg)
  <2>1. reading \in Msg \cup {Nothing} /\ InLimits(reading)
    BY <1>1 DEF TypeOK, FrameInv, RefusedForCause
  <2> QED
    BY <1>2, <1>4, <2>1, JoinedInLimits DEF Good
<1>9. ~(msg.size > maxMessageSize) => InLimits(msg)
  <2>1. msg.size \in Nat
    BY <1>5, SizeType
  <2> QED
    BY <1>8, <2>1, WsFramingAssumption
<1>10. CASE msg.size > maxMessageSize
  <2>1. msg.size \in Nat /\ Current.size \in Nat /\ msg.size <= Current.size
    BY <1>5, SizeType DEF Within
  <2>2. Current.size > maxMessageSize
    BY <1>10, <2>1, WsFramingAssumption
  <2>3. End("messageTooLarge")
    BY <1>6, <1>10
  <2> QED
    BY <2>2, <2>3, EndInv
<1>11. CASE ~(msg.size > maxMessageSize) /\ ~f.fin
  <2>1. reading' = msg /\ UNCHANGED <<header, got, stored, ponged, ended>>
    BY <1>6, <1>11
  <2>2. Here' = Assemble(Here, f)
    <3>1. Assemble(Here, f) = [Here EXCEPT !.reading = msg]
      BY <1>4, <1>7, <1>11 DEF Assemble
    <3> QED
      BY <2>1, <3>1 DEF Here
  <2>3. PairInv'
    BY <2>1 DEF FrameInv, PairInv
  <2>4. /\ reading' \in Msg \cup {Nothing} /\ ponged' \in Seq(Data)
        /\ header' \in 0 .. Len(got')
        /\ stored' \subseteq [header : DOMAIN got', data : Seq(Data)]
    BY <1>1, <1>5, <2>1 DEF TypeOK
  <2>5. InLimits(reading')
    BY <1>11, <1>9, <2>1
  <2> QED
    BY <2>1, <2>2, <2>3, <2>4, <2>5, ContinueInv
<1>12. CASE ~(msg.size > maxMessageSize) /\ f.fin /\ msg.opcode \in {"text", "binary"}
  <2>1. reading' = Nothing /\ Receive(msg) /\ UNCHANGED ponged
    BY <1>6, <1>12
  <2>2. /\ got' = Append(got, msg) /\ header' \in 0 .. Len(got')
        /\ stored' \subseteq [header : DOMAIN got', data : Seq(Data)]
        /\ ended' \in {"no", "expectedBinary"} /\ PairInv'
    BY <1>5, <2>1, ReceiveInv
  <2>3. Here' = Assemble(Here, f)
    <3>1. Assemble(Here, f) = [Here EXCEPT !.reading = Nothing, !.got = Append(@, msg)]
      BY <1>4, <1>7, <1>12 DEF Assemble
    <3> QED
      BY <2>1, <2>2, <3>1 DEF Here
  <2>4. InLimits(msg)
    BY <1>12, <1>9
  <2>5. ponged' \in Seq(Data)
    BY <1>1, <2>1 DEF TypeOK
  <2>6. reading' \in Msg \cup {Nothing} /\ InLimits(reading')
    BY <2>1, NothingInLimits
  <2> QED
    BY <1>5, <2>2, <2>3, <2>4, <2>5, <2>6, ContinueInv
<1>13. CASE ~(msg.size > maxMessageSize) /\ f.fin /\ msg.opcode \notin {"text", "binary"}
  <2>1. End("unsupportedOpcode")
    BY <1>6, <1>13
  <2> QED
    BY <2>1, EndInv
<1> QED
  BY <1>2, <1>10, <1>11, <1>12, <1>13

LEMMA ReadInv ==
  ASSUME FrameInv, ReadFrame
  PROVE  FrameInv'
<1>1. PICK f : f = Head(wire)
  OBVIOUS
<1>2. /\ ended = "no" /\ wire # <<>> /\ wire' = Tail(wire) /\ UNCHANGED peer
      /\ IF DecodeLength(f.length) > maxFrameSize THEN End("frameTooLarge")
         ELSE IF f.opcode \in {"close", "ping", "pong"} THEN ReadControl(f)
         ELSE ReadData(f)
  BY <1>1 DEF ReadFrame
<1>3. TypeOK /\ \A j \in DOMAIN wire : Good(wire[j])
  BY DEF FrameInv
<1>4. Good(f)
  BY <1>1, <1>2, <1>3, TailGood
<1>5. CASE DecodeLength(f.length) > maxFrameSize
  <2>1. Payload(f).len = DecodeLength(f.length) /\ Payload(f).len \in Nat
    BY <1>4, DecodedLength, LengthType DEF Good, Data
  <2>2. f.opcode \notin Control
    BY <1>4, <1>5, <2>1, WsFramingAssumption DEF Good
  <2>3. Behind(Assemble(Here, f))
    BY <1>1, <1>2, NextBehind
  <2>4. Payload(f) \in Range(Current.payload)
    BY <1>3, <1>4, <2>2, <2>3, JoinedWithin
  <2>5. \E data \in Range(Current.payload) : data.len > maxFrameSize
    BY <1>5, <2>1, <2>4
  <2>6. End("frameTooLarge")
    BY <1>2, <1>5
  <2> QED
    BY <1>2, <2>5, <2>6, EndInv
<1>6. CASE ~(DecodeLength(f.length) > maxFrameSize) /\ f.opcode = "close"
  <2>1. End("EOF")
    BY <1>2, <1>6 DEF ReadControl
  <2> QED
    BY <1>2, <2>1, EndInv
<1>7. CASE ~(DecodeLength(f.length) > maxFrameSize) /\ f.opcode \in {"ping", "pong"}
  <2>1. /\ UNCHANGED <<reading, header, got, stored, ended>>
        /\ ponged' = IF f.opcode = "ping" THEN Append(ponged, Payload(f)) ELSE ponged
    BY <1>2, <1>7 DEF ReadControl, server
  <2>2. Here' = Assemble(Here, f)
    BY <1>7, <2>1 DEF Here, Assemble, Control
  <2>3. ponged' \in Seq(Data)
    BY <1>3, <1>4, <2>1 DEF TypeOK, Good
  <2>4. PairInv'
    BY <2>1 DEF FrameInv, PairInv
  <2>5. /\ reading' \in Msg \cup {Nothing} /\ header' \in 0 .. Len(got')
        /\ stored' \subseteq [header : DOMAIN got', data : Seq(Data)]
    BY <1>3, <2>1 DEF TypeOK
  <2>6. InLimits(reading')
    BY <2>1 DEF FrameInv, RefusedForCause
  <2> QED
    BY <1>1, <1>2, <2>1, <2>2, <2>3, <2>4, <2>5, <2>6, ContinueInv
<1>8. CASE /\ ~(DecodeLength(f.length) > maxFrameSize)
           /\ f.opcode \notin {"close", "ping", "pong"}
  <2>1. f.opcode \notin Control /\ ReadData(f)
    BY <1>2, <1>8 DEF Control
  <2>2. Payload(f).len = DecodeLength(f.length) /\ Payload(f).len \in Nat
    BY <1>4, DecodedLength, LengthType DEF Good, Data
  <2>3. Payload(f).len <= maxFrameSize
    BY <1>8, <2>2, WsFramingAssumption
  <2> QED
    BY <1>1, <1>2, <2>1, <2>3, ReadDataInv
<1> QED
  BY <1>5, <1>6, <1>7, <1>8

LEMMA LoseInv ==
  ASSUME FrameInv, LoseConn
  PROVE  FrameInv'
<1>1. End("lost") /\ UNCHANGED peer /\ wire' = wire
  BY DEF LoseConn
<1> QED
  BY <1>1, EndInv

LEMMA StutterInv ==
  ASSUME FrameInv, UNCHANGED vars
  PROVE  FrameInv'
<1>1. UNCHANGED <<said, saying, frames, pinged, wire, reading, header, got, stored,
                  ponged, ended>>
  BY DEF vars, peer, server
<1>2. \A R : Path(R) => Path(R)'
  BY <1>1 DEF Path, Here, There, Behind, Coming
<1>3. TypeOK' /\ MessagesArriveWhole' /\ PairInv' /\ RefusedForCause'
  BY <1>1 DEF FrameInv, TypeOK, MessagesArriveWhole, PairInv, RefusedForCause,
              InLimits, Current
<1> QED
  BY <1>1, <1>2, <1>3 DEF FrameInv

LEMMA InitInv == Init => FrameInv
<1> SUFFICES ASSUME Init
             PROVE  FrameInv
  OBVIOUS
<1>1. /\ said = <<>> /\ saying = Nothing /\ frames = 0 /\ pinged = <<>>
      /\ wire = <<>> /\ reading = Nothing /\ header = 0 /\ got = <<>> /\ stored = {}
      /\ ponged = <<>> /\ ended = "no"
  BY DEF Init
<1>2. TypeOK
  BY <1>1, WsFramingAssumption DEF TypeOK
<1>3. Here = There /\ Here \in Snap
  BY <1>1, <1>2, SnapTypes DEF Here, There
<1>4. IsPrefix(<<>>, <<>>)
  BY DEF IsPrefix
<1>5. MessagesArriveWhole
  BY <1>1, <1>4 DEF MessagesArriveWhole
<1>6. Behind(Here)
  <2>1. Within(Nothing, Nothing)
    BY DEF Within, Nothing
  <2>2. Coming(Len(got)) = Nothing
    BY <1>1 DEF Coming
  <2>3. Here.got = <<>> /\ Here.ponged = <<>> /\ Here.reading = Nothing
    BY <1>1 DEF Here
  <2> QED
    BY <1>1, <1>4, <2>1, <2>2, <2>3 DEF Behind
<1>7. \E R : Path(R)
  <2>1. PICK R : R = [j \in 1 .. 1 |-> Here]
    OBVIOUS
  <2>2. Len(wire) = 0
    BY <1>1
  <2> QED
    BY <1>3, <1>6, <2>1, <2>2 DEF Path
<1>8. PairInv /\ RefusedForCause
  <2>1. Range(got) \cup {reading} = {Nothing}
    BY <1>1 DEF Range
  <2> QED
    BY <1>1, <2>1, NothingInLimits DEF PairInv, RefusedForCause
<1> QED
  BY <1>1, <1>2, <1>5, <1>7, <1>8 DEF FrameInv

LEMMA FramesInvariant == Spec => []FrameInv
<1>1. FrameInv /\ [Next]_vars => FrameInv'
  <2> SUFFICES ASSUME FrameInv, [Next]_vars
               PROVE  FrameInv'
    OBVIOUS
  <2>1. CASE Next
    BY <2>1, ContinuationInv, FirstInv, ControlInv, ReadInv, LoseInv DEF Next
  <2>2. CASE UNCHANGED vars
    BY <2>2, StutterInv
  <2> QED
    BY <2>1, <2>2
<1> QED
  BY <1>1, InitInv, PTL DEF Spec

-----------------------------------------------------------------------------
(* Theorems. *)

\* Lengths, frames and messages have their types: in particular the chunk
\* header that dispatch waits for is a message that was received.
THEOREM FramingTypeCorrect == Spec => []TypeOK
<1>1. FrameInv => TypeOK
  BY DEF FrameInv
<1> QED
  BY <1>1, FramesInvariant, PTL

\* ReadMessage returns the messages that the peer sent, whole and in order,
\* however they are cut into frames, and answers its pings in order.
THEOREM MessagesAreWhole == Spec => []MessagesArriveWhole
<1>1. FrameInv => MessagesArriveWhole
  BY DEF FrameInv
<1> QED
  BY <1>1, FramesInvariant, PTL

\* What the read loop passes to writeChunk for a header is the binary message
\* that the peer sent right after it.
THEOREM ChunksPair == Spec => []ChunksArePaired
<1>1. FrameInv => ChunksArePaired
  <2> SUFFICES ASSUME FrameInv, NEW c \in stored
               PROVE  /\ {c.header, c.header + 1} \subseteq DOMAIN said
                      /\ said[c.header].kind = "chunk"
                      /\ said[c.header + 1].opcode = "binary"
                      /\ said[c.header + 1].payload = c.data
    BY DEF ChunksArePaired
  <2>1. got \in Seq(Msg) /\ said \in Seq(Msg) /\ IsPrefix(got, said)
    BY DEF FrameInv, TypeOK, MessagesArriveWhole
  <2>2. /\ Len(got) <= Len(said) /\ \A j \in 1 .. Len(got) : got[j] = said[j]
        /\ Len(got) \in Nat /\ Len(said) \in Nat
        /\ DOMAIN got = 1 .. Len(got) /\ DOMAIN said = 1 .. Len(said)
    BY <2>1, PrefixDef
  <2>3. /\ {c.header, c.header + 1} \subseteq DOMAIN got
        /\ got[c.header].kind = "chunk"
        /\ got[c.header + 1].opcode = "binary"
        /\ got[c.header + 1].payload = c.data
    BY DEF FrameInv, PairInv
  <2> QED
    BY <2>2, <2>3
<1> QED
  BY <1>1, FramesInvariant, PTL

\* A message that is within the limits of readFrame and ReadMessage is never
\* refused as too large, and one beyond either of them never gets through, not
\* even a part of it that is too large by itself.
THEOREM RefusalsHaveCause == Spec => []RefusedForCause
<1>1. FrameInv => RefusedForCause
  BY DEF FrameInv
<1> QED
  BY <1>1, FramesInvariant, PTL

=============================================================================
