----------------------------- MODULE InputProofs -----------------------------
(***************************************************************************)
(* The bytes that come in, for every frame and every capture file there    *)
(* is: no byte outside a payload is looked at, the payload and the         *)
(* hostname found are those that were sent, a capture is read as it was    *)
(* captured, and what is written to a capture file reads back.             *)
(***************************************************************************)
EXTENDS SNIExtractor, CaptureFiles, DataFacts

(* A byte inside a frame is a byte, and two of them are a number. *)
LEMMA ByteAt ==
  ASSUME NEW d \in Seq(Byte), NEW i \in Nat, i < Len(d)
  PROVE  At(d, i) \in Byte
<1>1. i + 1 \in 1..Len(d)
  OBVIOUS
<1>2. QED
  BY <1>1 DEF At

LEMMA NumberAt ==
  ASSUME NEW d \in Seq(Byte), NEW i \in Nat, i + 1 < Len(d)
  PROVE  readU16BE(d, i) \in Nat
<1> DEFINE high == At(d, i)
           low  == At(d, i + 1)
<1>0. Len(d) \in Nat /\ i + 1 \in Nat /\ i < Len(d)
  BY LenProperties
<1>1. high \in 0..255 /\ low \in 0..255
  BY <1>0, ByteAt DEF Byte
<1> HIDE DEF high, low
<1>2. 256 * high + low \in Nat
  BY <1>1
<1>3. QED
  BY <1>2 DEF readU16BE, high, low

(* The two header lengths that are half a byte, in words. *)
LEMMA HalfBytes ==
  ASSUME NEW b \in Byte
  PROVE  4 * (b % 16) \in Nat /\ 4 * (b \div 16) \in Nat
BY DEF Byte

(* What the headers of an accepted frame say of the payload keeps it       *)
(* inside the frame.                                                       *)
LEMMA HeadersInFrame ==
  ASSUME NEW d \in Seq(Byte), HasIPv4(d)
  PROVE  /\ L4At(d) \in Nat /\ L4Len(d) \in Nat /\ L4At(d) + L4Len(d) <= Len(d)
         /\ L4HeaderLen(d) \in Nat /\ L4HeaderLen(d) <= L4Len(d)
<1> DEFINE ihl == At(d, ETH_HEADER_LEN)
<1>1. Len(d) \in Nat /\ Len(d) >= 34
  BY DEF HasIPv4, ETH_HEADER_LEN, IPV4_MIN_HEADER_LEN
<1>2. ihl \in Byte
  BY <1>1, ByteAt DEF ETH_HEADER_LEN
<1>3. IPHeaderLen(d) \in Nat
  BY <1>2, HalfBytes DEF IPHeaderLen
<1>4. L4At(d) \in Nat /\ L4At(d) <= Len(d)
  BY <1>3 DEF L4At, HasIPv4, ETH_HEADER_LEN
<1>5. readU16BE(d, ETH_HEADER_LEN + 2) \in Nat
  BY <1>1, NumberAt DEF ETH_HEADER_LEN
<1>6. L4Len(d) \in Nat /\ L4At(d) + L4Len(d) <= Len(d)
  BY <1>1, <1>3, <1>4, <1>5 DEF L4Len, Least
<1>7. L4HeaderLen(d) \in Nat /\ L4HeaderLen(d) <= L4Len(d)
  <2>1. CASE HasTCP(d)
    <3>1. L4Len(d) >= 20
      BY <2>1 DEF HasTCP, TCP_MIN_HEADER_LEN
    <3>2. At(d, L4At(d) + 12) \in Byte
      BY <1>1, <1>4, <1>6, <3>1, ByteAt
    <3>3. 4 * (At(d, L4At(d) + 12) \div 16) \in Nat
      BY <3>2, HalfBytes
    <3>4. QED
      BY <2>1, <1>6, <3>1, <3>3 DEF L4HeaderLen, Least, Most, TCP_MIN_HEADER_LEN
  <2>2. CASE ~HasTCP(d) /\ HasUDP(d)
    BY <2>2, <1>6 DEF L4HeaderLen, HasUDP, UDP_HEADER_LEN
  <2>3. CASE ~HasTCP(d) /\ ~HasUDP(d)
    BY <2>3, <1>6 DEF L4HeaderLen
  <2>4. QED
    BY <2>1, <2>2, <2>3
<1>8. QED
  BY <1>4, <1>6, <1>7

LEMMA PayloadIsBytes ==
  ASSUME NEW d \in Seq(Byte), HasIPv4(d)
  PROVE  Payload(d) \in Seq(Byte)
<1>1. /\ PayloadAt(d) \in Nat /\ PayloadLen(d) \in Nat
      /\ PayloadAt(d) + PayloadLen(d) <= Len(d)
  BY HeadersInFrame DEF PayloadAt, PayloadLen
<1>2. QED
  BY <1>1, SubSeqProperties DEF Payload

-----------------------------------------------------------------------------
Extractors == {"tls", "http", "dns"}
Walking == {"session_id", "cipher_suites", "compression", "extensions", "extension", "server_name"}

(* A walk over a Client Hello has not left what it may look at, and that   *)
(* ends inside the payload; the first byte of a label may lie beyond it.   *)
Inside ==
  /\ payload \in Seq(Byte) /\ tries \in Seq(Extractors)
  /\ pc \in Extractors \cup Walking \cup {"try", "label", "done"}
  /\ offset \in Nat /\ end \in Nat
  /\ pc \in Walking => offset <= end /\ end <= length
  /\ pc = "label" => offset <= length /\ end <= length
  /\ touched \in [at : Nat, len : Nat]
  /\ ReadsInBounds

LEMMA Starts == Init => Inside
<1> SUFFICES ASSUME Init PROVE Inside
  OBVIOUS
<1>1. payload \in Seq(Byte)
  BY PayloadIsBytes, SNIExtractorAssumption DEF Init
<1>2. tries \in Seq(Extractors)
  <2>1. Attempts(Ports(sent.frame)) \in Seq(Extractors)
    <3> DEFINE one(b, x) == IF b THEN <<x>> ELSE <<>>
    <3>1. \A b : \A x \in Extractors : one(b, x) \in Seq(Extractors)
      OBVIOUS
    <3>2. <<"tls", "http">> \in Seq(Extractors) /\ "tls" \in Extractors /\ "http" \in Extractors /\ "dns" \in Extractors
      BY DEF Extractors
    <3>3. QED
      BY <3>1, <3>2, ConcatProperties DEF Attempts
  <2>2. QED
    BY <2>1 DEF Init
<1>3. QED
  BY <1>1, <1>2 DEF Init, Inside, ReadsInBounds, Walking, Extractors, length

(* What a step starts from. *)
LEMMA Known ==
  ASSUME Inside
  PROVE  /\ length \in Nat /\ offset \in Nat /\ end \in Nat
         /\ pc \in Walking => offset <= end /\ end <= length
         /\ pc = "label" => offset <= length /\ end <= length
         /\ \A i \in Nat : /\ i < length => P(i) \in 0..255
                           /\ i + 1 < length => U16(i) \in Nat
<1>1. payload \in Seq(Byte) /\ length \in Nat
  BY LenProperties DEF Inside, length
<1>2. \A i \in Nat : i < length => P(i) \in 0..255
  BY <1>1, ByteAt DEF P, length, Byte
<1>3. \A i \in Nat : i + 1 < length => U16(i) \in Nat
  BY <1>1, NumberAt DEF U16, length
<1>4. QED
  BY <1>1, <1>2, <1>3 DEF Inside

(* The three ways a step ends, provided it looked at bytes inside. *)
LEMMA Returns ==
  ASSUME Inside, NEW at \in Nat, NEW len \in Nat, at + len <= length,
         Reads(at, len), Nothing \/ \E h : Found(h)
  PROVE  Inside'
BY DEF Inside, Reads, Nothing, Found, ReadsInBounds, length, Walking, Extractors

LEMMA Walks ==
  ASSUME Inside, NEW at \in Nat, NEW len \in Nat, at + len <= length, Reads(at, len),
         NEW next \in Walking, NEW o \in Nat, GoOn(next, o),
         end' \in Nat, o <= end', end' <= length
  PROVE  Inside'
BY DEF Inside, Reads, GoOn, ReadsInBounds, length, Walking, Extractors

LEMMA Labels ==
  ASSUME Inside, NEW at \in Nat, NEW len \in Nat, at + len <= length, Reads(at, len),
         NEW o \in Nat, GoOn("label", o), o <= length, end' \in Nat, end' <= length
  PROVE  Inside'
BY DEF Inside, Reads, GoOn, ReadsInBounds, length, Walking, Extractors

-----------------------------------------------------------------------------
LEMMA VectorStep ==
  ASSUME Inside, NEW width \in {1, 2}, NEW at \in Walking, NEW next \in Walking, Vector(at, width, next)
  PROVE  Inside'
<1> DEFINE len   == IF width = 1 THEN P(offset) ELSE U16(offset)
           after == offset + width + len
<1>1. /\ length \in Nat /\ offset \in Nat /\ end \in Nat
      /\ offset <= end /\ end <= length
  BY Known DEF Vector
<1>2. CASE offset + width > end
  <2>1. Reads(offset, 0) /\ Nothing
    BY <1>2 DEF Vector
  <2>2. QED
    BY <1>1, <2>1, Returns
<1>3. CASE ~(offset + width > end)
  <2>1. len \in Nat
    <3>1. CASE width = 1
      BY <1>1, <1>3, <3>1, Known
    <3>2. CASE width = 2
      BY <1>1, <1>3, <3>2, Known
    <3>3. QED
      BY <3>1, <3>2
  <2>2. Reads(offset, width) /\ IF after > end THEN Nothing ELSE GoOn(next, after) /\ UNCHANGED <<end, labels>>
    BY <1>3 DEF Vector
  <2> HIDE DEF len
  <2>3. CASE after > end
    BY <1>1, <1>3, <2>2, <2>3, Returns
  <2>4. CASE ~(after > end)
    BY <1>1, <1>3, <2>1, <2>2, <2>4, Walks
  <2>5. QED
    BY <2>3, <2>4
<1>4. QED
  BY <1>2, <1>3

LEMMA ExtensionStep ==
  ASSUME Inside, Extension
  PROVE  Inside'
<1>1. /\ length \in Nat /\ offset \in Nat /\ end \in Nat
      /\ offset <= end /\ end <= length
  BY Known DEF Extension, Walking
<1>2. CASE offset + 4 > end
  <2>1. Reads(offset, 0) /\ Nothing
    BY <1>2 DEF Extension
  <2>2. QED
    BY <1>1, <2>1, Returns
<1>3. CASE ~(offset + 4 > end)
  <2>1. U16(offset + 2) \in Nat
    BY <1>1, <1>3, Known
  <2>2. AfterExtension \in Nat /\ offset + 4 <= AfterExtension
    BY <1>1, <2>1 DEF AfterExtension
  <2>3. Reads(offset, 4)
    BY <1>3 DEF Extension
  <2>4. CASE AfterExtension > end
    <3>1. Nothing
      BY <1>3, <2>4 DEF Extension
    <3>2. QED
      BY <1>1, <1>3, <2>3, <3>1, Returns
  <2>5. CASE ~(AfterExtension > end) /\ U16(offset) = 0
    <3>1. GoOn("server_name", offset + 4) /\ end' = AfterExtension
      BY <1>3, <2>5 DEF Extension
    <3>2. "server_name" \in Walking
      BY DEF Walking
    <3>3. QED
      BY <1>1, <1>3, <2>2, <2>3, <2>5, <3>1, <3>2, Walks
  <2>6. CASE ~(AfterExtension > end) /\ U16(offset) # 0
    <3>1. GoOn("extension", AfterExtension) /\ end' = end
      BY <1>3, <2>6 DEF Extension
    <3>2. "extension" \in Walking
      BY DEF Walking
    <3>3. QED
      BY <1>1, <1>3, <2>2, <2>3, <2>6, <3>1, <3>2, Walks
  <2>7. QED
    BY <2>4, <2>5, <2>6
<1>4. QED
  BY <1>2, <1>3

LEMMA ServerNameStep ==
  ASSUME Inside, ServerName
  PROVE  Inside'
<1> DEFINE n   == U16(offset + 3)
           bad == P(offset + 2) # 0 \/ n \notin 1..255 \/ offset + 5 + n > end
<1>1. /\ length \in Nat /\ offset \in Nat /\ end \in Nat
      /\ offset <= end /\ end <= length
  BY Known DEF ServerName, Walking
<1>2. CASE offset + 5 > end
  <2>1. Reads(offset, 0) /\ Nothing
    BY <1>2 DEF ServerName
  <2>2. QED
    BY <1>1, <2>1, Returns
<1>3. CASE ~(offset + 5 > end) /\ bad
  <2>1. Reads(offset, 5) /\ Nothing
    BY <1>3 DEF ServerName
  <2>2. QED
    BY <1>1, <1>3, <2>1, Returns
<1>4. CASE ~(offset + 5 > end) /\ ~bad
  <2>1. Reads(offset, 5 + n) /\ \E h : Found(h)
    BY <1>4 DEF ServerName
  <2>2. n \in Nat /\ offset + 5 + n <= end
    BY <1>1, <1>4, Known
  <2> HIDE DEF n
  <2>3. QED
    BY <1>1, <2>1, <2>2, Returns
<1>5. QED
  BY <1>2, <1>3, <1>4

LEMMA HelloStep ==
  ASSUME Inside, ClientHello \/ Extensions
  PROVE  Inside'
<1>1. length \in Nat /\ offset \in Nat /\ end \in Nat
  BY Known
<1>2. CASE ClientHello /\ IsClientHello
  <2>1. length >= 44 /\ HandshakeEnd >= 43
    BY <1>2 DEF IsClientHello
  <2>2. P(6) \in Nat /\ U16(7) \in Nat
    <3>1. 6 \in Nat /\ 6 < length /\ 7 \in Nat /\ 7 + 1 < length BY <1>1, <2>1
    <3>2. P(6) \in 0..255 BY <3>1, Known
    <3>3. U16(7) \in Nat BY <3>1, Known
    <3> QED BY <3>2, <3>3
  <2>3. HandshakeEnd \in Nat /\ HandshakeEnd <= length
    BY <1>1, <2>2, SMTT(30) DEF HandshakeEnd, Least
  <2>4. Reads(0, 9) /\ GoOn("session_id", 43) /\ end' = HandshakeEnd
    BY <1>2, <2>1 DEF ClientHello
  <2>5. "session_id" \in Walking
    BY DEF Walking
  <2>6. QED
    BY <1>1, <2>1, <2>3, <2>4, <2>5, Walks
<1>3. CASE ClientHello /\ ~IsClientHello
  <2> DEFINE len == IF length >= 44 THEN 9 ELSE 0
  <2>1. Reads(0, len) /\ Nothing
    BY <1>3 DEF ClientHello
  <2>2. len \in Nat /\ len <= length
    BY <1>1
  <2> HIDE DEF len
  <2>3. QED
    BY <1>1, <2>1, <2>2, Returns
<1>4. CASE Extensions
  <2>1. offset <= end /\ end <= length
    BY <1>4, Known DEF Extensions, Walking
  <2>2. CASE offset + 2 > end
    <3>1. Reads(offset, 0) /\ Nothing
      BY <1>4, <2>2 DEF Extensions
    <3>2. QED
      BY <1>1, <2>1, <3>1, Returns
  <2>3. CASE ~(offset + 2 > end)
    <3>1. U16(offset) \in Nat
      BY <1>1, <2>1, <2>3, Known
    <3>2. Reads(offset, 2) /\ GoOn("extension", offset + 2) /\ end' = Least(offset + 2 + U16(offset), end)
      BY <1>4, <2>3 DEF Extensions
    <3>3. end' \in Nat /\ offset + 2 <= end' /\ end' <= length
      BY <1>1, <2>1, <2>3, <3>1, <3>2 DEF Least
    <3>4. "extension" \in Walking
      BY DEF Walking
    <3>5. QED
      BY <1>1, <2>1, <2>3, <3>2, <3>3, <3>4, Walks
  <2>4. QED
    BY <2>2, <2>3
<1>5. QED
  BY <1>2, <1>3, <1>4

LEMMA HTTPStep ==
  ASSUME Inside, HTTPHost
  PROVE  Inside'
<1> DEFINE len == IF length >= 10 THEN scan_len ELSE 0
<1>1. length \in Nat
  BY Known
<1>2. len \in Nat /\ len <= length
  BY <1>1 DEF scan_len, Least
<1>3. Reads(0, len) /\ (Nothing \/ \E h : Found(h))
  BY DEF HTTPHost
<1> HIDE DEF len
<1>4. QED
  BY <1>1, <1>2, <1>3, Returns

LEMMA DNSStep ==
  ASSUME Inside, DNSHeader \/ DNSName \/ DNSLabel
  PROVE  Inside'
<1>1. length \in Nat /\ offset \in Nat /\ end \in Nat
  BY Known
<1>2. CASE DNSHeader /\ IsDNSQuery
  <2>1. length >= 12
    BY <1>2 DEF IsDNSQuery
  <2>2. Reads(0, 6) /\ GoOn("label", 12) /\ end' = Least(12 + 255, length)
    BY <1>2, <2>1 DEF DNSHeader
  <2>3. end' \in Nat /\ end' <= length
    BY <1>1, <2>2 DEF Least
  <2>4. QED
    BY <1>1, <2>1, <2>2, <2>3, Labels
<1>3. CASE DNSHeader /\ ~IsDNSQuery
  <2> DEFINE len == IF length >= 12 THEN 6 ELSE 0
  <2>1. Reads(0, len) /\ Nothing
    BY <1>3 DEF DNSHeader
  <2>2. len \in Nat /\ len <= length
    BY <1>1
  <2> HIDE DEF len
  <2>3. QED
    BY <1>1, <2>1, <2>2, Returns
<1>4. CASE DNSName
  <2> DEFINE len == IF offset < end THEN 1 ELSE 0
  <2>1. Reads(offset, len) /\ (Nothing \/ \E h : Found(h))
    BY <1>4 DEF DNSName
  <2>2. offset <= length /\ end <= length
    BY <1>4, Known DEF DNSName
  <2>3. len \in Nat /\ offset + len <= length
    BY <1>1, <2>2
  <2> HIDE DEF len
  <2>4. QED
    BY <1>1, <2>1, <2>3, Returns
<1>5. CASE DNSLabel
  <2> DEFINE n == P(offset)
  <2>1. offset < end /\ end <= length
    <3>1. pc = "label" /\ ~AtNameEnd BY <1>5 DEF DNSLabel
    <3>2. offset < end BY <1>1, <3>1 DEF AtNameEnd
    <3> QED BY <3>1, <3>2, Known
  <2>2. n \in Nat
    <3>1. offset < length BY <1>1, <2>1
    <3>2. n \in 0..255 BY <1>1, <3>1, Known
    <3> QED BY <3>2
  <2>3. IF n > 63 \/ offset + 1 + n > length THEN Reads(offset, 1) /\ Nothing
        ELSE Reads(offset, 1 + n) /\ GoOn("label", offset + 1 + n) /\ end' = end
    BY <1>5 DEF DNSLabel
  <2> HIDE DEF n
  <2>4. CASE n > 63 \/ offset + 1 + n > length
    BY <1>1, <2>1, <2>3, <2>4, Returns
  <2>5. CASE ~(n > 63 \/ offset + 1 + n > length)
    BY <1>1, <2>1, <2>2, <2>3, <2>5, Labels
  <2>6. QED
    BY <2>4, <2>5
<1>6. QED
  BY <1>2, <1>3, <1>4, <1>5

LEMMA TryStep ==
  ASSUME Inside, Try
  PROVE  Inside'
<1>1. CASE tries = <<>>
  BY <1>1 DEF Try, Inside, ReadsInBounds, length, Walking, Extractors
<1>2. CASE tries # <<>>
  <2>1. Head(tries) \in Extractors /\ Tail(tries) \in Seq(Extractors)
    BY <1>2, HeadTailProperties DEF Inside
  <2>2. QED
    BY <1>2, <2>1 DEF Try, Inside, ReadsInBounds, length, Walking, Extractors
<1>3. QED
  BY <1>1, <1>2

LEMMA Stays == Inside /\ [Next]_vars => Inside'
<1> SUFFICES ASSUME Inside, [Next]_vars PROVE Inside'
  OBVIOUS
<1>1. CASE Try
  BY <1>1, TryStep
<1>2. CASE ClientHello \/ Extensions
  BY <1>2, HelloStep
<1>3. CASE SessionID \/ CipherSuites \/ CompressionMethods
  <2>1. {"session_id", "cipher_suites", "compression", "extensions"} \subseteq Walking
    BY DEF Walking
  <2>2. QED
    BY <1>3, <2>1, VectorStep DEF SessionID, CipherSuites, CompressionMethods
<1>4. CASE Extension
  BY <1>4, ExtensionStep
<1>5. CASE ServerName
  BY <1>5, ServerNameStep
<1>6. CASE HTTPHost
  BY <1>6, HTTPStep
<1>7. CASE DNSHeader \/ DNSName \/ DNSLabel
  BY <1>7, DNSStep
<1>8. CASE UNCHANGED vars
  BY <1>8 DEF vars, Inside, ReadsInBounds, length
<1>9. QED
  BY <1>1, <1>2, <1>3, <1>4, <1>5, <1>6, <1>7, <1>8 DEF Next, Step

(* sni_extractor.cpp:4 "Every byte access is bounds-checked": whatever the *)
(* bytes of a frame are, no extractor looks outside the payload.           *)
THEOREM ReadsStayInside == Spec => []ReadsInBounds
<1>1. Inside => ReadsInBounds
  BY DEF Inside
<1>2. QED
  BY Starts, Stays, <1>1, PTL DEF Spec

-----------------------------------------------------------------------------
(* A frame as it was sent, w words of IP header and l4 bytes of transport  *)
(* header in front of the body; the capture may end anywhere, and other    *)
(* bytes may follow the body.                                              *)
CapturedAt(d, i, b) == i < Len(d) => At(d, i) = b

FrameLen(m, w, l4) == ETH_HEADER_LEN + 4 * w + l4 + Len(m.body)

TCPHeaderIs(m, w, l4) ==
  \E v \in 5..15, x \in 0..15, flags \in Byte :
    /\ l4 = 4 * v /\ m.flags = FlagsOf(flags)
    /\ CapturedAt(m.frame, 14 + 4 * w + 12, 16 * v + x) /\ CapturedAt(m.frame, 14 + 4 * w + 13, flags)

TransportIs(m, w, l4) ==
  \/ At(m.frame, 23) = PROTO_TCP /\ TCPHeaderIs(m, w, l4)
  \/ At(m.frame, 23) = PROTO_UDP /\ l4 = UDP_HEADER_LEN /\ m.flags = {}

SentIn(m, w, l4) ==
  /\ w \in 5..15 /\ l4 \in Nat /\ m.body \in Seq(Byte)
  /\ At(m.frame, 14) = 64 + w /\ readU16BE(m.frame, 16) = 4 * w + l4 + Len(m.body)
  /\ TransportIs(m, w, l4)
  /\ \A i \in 1..Len(m.body) : CapturedAt(m.frame, 14 + 4 * w + l4 + i - 1, m.body[i])
  /\ m.whole => Len(m.frame) >= FrameLen(m, w, l4)

IsSent(m) == HasIPv4(m.frame) => \E w, l4 : SentIn(m, w, l4)

LEMMA WordsOfHeader ==
  ASSUME NEW w \in 5..15, NEW x \in 0..15
  PROVE  /\ (64 + w) % 16 = w /\ (16 * w + x) \div 16 = w
         /\ 16 * w + x \in Nat
OBVIOUS

(* How much of the transport header and of the body was captured. *)
LEMMA HeaderCut ==
  ASSUME NEW d \in Seq(Byte), HasIPv4(d), NEW m, m.frame = d, NEW w, NEW l4, SentIn(m, w, l4)
  PROVE  LET left == Len(d) - (14 + 4 * w)
             n    == Len(m.body)
         IN /\ left \in Nat /\ n \in Nat /\ L4At(d) = 14 + 4 * w /\ L4Len(d) = Least(l4 + n, left)
            /\ \/ L4HeaderLen(d) = l4 /\ l4 <= L4Len(d)
               \/ L4HeaderLen(d) = L4Len(d) /\ left < l4 + n
<1> DEFINE left == Len(d) - (14 + 4 * w)
           n == Len(m.body)
<1>1. w \in 5..15 /\ l4 \in Nat /\ n \in Nat /\ Len(d) \in Nat /\ Len(d) >= 34
  BY LenProperties DEF SentIn, HasIPv4, ETH_HEADER_LEN, IPV4_MIN_HEADER_LEN
<1>2. IPHeaderLen(d) = 4 * w
  <2>1. At(d, 14) = 64 + w BY DEF SentIn
  <2>2. (64 + w) % 16 = w BY <1>1, WordsOfHeader
  <2> QED BY <2>1, <2>2 DEF IPHeaderLen, ETH_HEADER_LEN
<1>3. L4At(d) = 14 + 4 * w /\ L4At(d) <= Len(d)
  BY <1>2 DEF L4At, ETH_HEADER_LEN, HasIPv4
<1>4. left \in Nat BY <1>1, <1>3
<1>5. readU16BE(d, ETH_HEADER_LEN + 2) = 4 * w + l4 + n
  <2>1. ETH_HEADER_LEN + 2 = 16 BY DEF ETH_HEADER_LEN
  <2>2. readU16BE(m.frame, 16) = 4 * w + l4 + Len(m.body) BY DEF SentIn
  <2> QED BY <2>1, <2>2
<1>6. (IF 4 * w + l4 + n > 4 * w THEN 4 * w + l4 + n - 4 * w ELSE 0) = l4 + n
  <2> HIDE DEF n
  <2> QED BY <1>1
<1>7. L4Len(d) = Least(l4 + n, left)
  <2>1. Len(d) - L4At(d) = left BY <1>3
  <2> DEFINE t == readU16BE(d, ETH_HEADER_LEN + 2)
             i == IPHeaderLen(d)
             u == IF t > i THEN t - i ELSE 0
  <2>2. L4Len(d) = Least(u, Len(d) - L4At(d)) BY DEF L4Len
  <2>3. t = 4 * w + l4 + n /\ i = 4 * w BY <1>2, <1>5
  <2> HIDE DEF t, i, n
  <2>4. u = l4 + n BY <1>1, <1>6, <2>3
  <2> HIDE DEF u
  <2> QED BY <2>1, <2>2, <2>4
<1>8. \/ L4HeaderLen(d) = l4 /\ l4 <= L4Len(d)
      \/ L4HeaderLen(d) = L4Len(d) /\ left < l4 + n
  <2>0. Protocol(d) = At(d, 23) BY DEF Protocol, ETH_HEADER_LEN
  <2> DEFINE k == L4Len(d)
  <2>1. k \in Nat /\ k <= left /\ (k = l4 + n \/ left < l4 + n) /\ (k = l4 + n \/ k = left)
    <3> SUFFICES ASSUME NEW r \in Nat, r = left PROVE LET j == Least(l4 + n, r) IN
                 j \in Nat /\ j <= r /\ (j = l4 + n \/ r < l4 + n) /\ (j = l4 + n \/ j = r)
      BY <1>4, <1>7
    <3> QED BY ONLY <1>1, r \in Nat DEF Least
  <2> HIDE DEF k, left, n
  <2>2. CASE At(d, 23) = PROTO_TCP /\ TCPHeaderIs(m, w, l4)
    <3>1. PICK v \in 5..15, x \in 0..15 : l4 = 4 * v /\ CapturedAt(d, 14 + 4 * w + 12, 16 * v + x)
      BY <2>2 DEF TCPHeaderIs
    <3>2. PROTO_TCP # PROTO_UDP BY DEF PROTO_TCP, PROTO_UDP
    <3>3. ~HasUDP(d) /\ (HasTCP(d) <=> k >= 20)
      BY <2>0, <2>2, <3>2 DEF HasUDP, HasTCP, TCP_MIN_HEADER_LEN, k
    <3>4. CASE k >= 20
      <4>1. 14 + 4 * w + 12 < Len(d)
        <5>1. left = Len(d) - (14 + 4 * w) BY DEF left
        <5> QED BY ONLY <1>1, <2>1, <3>4, <5>1, <1>4
      <4>2. At(d, L4At(d) + 12) = 16 * v + x BY <1>3, <3>1, <4>1 DEF CapturedAt
      <4>3. 4 * (At(d, L4At(d) + 12) \div 16) = l4 BY <3>1, <4>2, WordsOfHeader
      <4>4. L4HeaderLen(d) = Least(Most(l4, 20), k)
        BY <3>3, <3>4, <4>3 DEF L4HeaderLen, TCP_MIN_HEADER_LEN, k
      <4>5. Most(l4, 20) = l4 BY <3>1 DEF Most
      <4>6. Least(l4, k) = IF l4 <= k THEN l4 ELSE k BY DEF Least
      <4>7. ~(l4 <= k) => left < l4 + n
        <5>1. n \in Nat BY <1>1
        <5> QED BY ONLY <1>1, <2>1, <5>1
      <4> QED BY <4>4, <4>5, <4>6, <4>7 DEF k
    <3>5. CASE ~(k >= 20)
      <4>1. L4HeaderLen(d) = k BY <3>3, <3>5 DEF L4HeaderLen, k
      <4>2. left < l4 + n
        <5>1. l4 >= 20 /\ n \in Nat BY <1>1, <3>1
        <5> QED BY ONLY <1>1, <2>1, <3>5, <5>1
      <4> QED BY <4>1, <4>2 DEF k
    <3> QED BY <3>4, <3>5
  <2>3. CASE At(d, 23) = PROTO_UDP /\ l4 = UDP_HEADER_LEN
    <3>2. PROTO_TCP # PROTO_UDP BY DEF PROTO_TCP, PROTO_UDP
    <3>3. ~HasTCP(d) /\ (HasUDP(d) <=> k >= 8) /\ l4 = 8
      BY <2>0, <2>3, <3>2 DEF HasUDP, HasTCP, UDP_HEADER_LEN, k
    <3>4. L4HeaderLen(d) = IF k >= 8 THEN 8 ELSE k BY <3>3 DEF L4HeaderLen, UDP_HEADER_LEN, k
    <3>5. ~(k >= 8) => left < l4 + n
      <4>1. n \in Nat BY <1>1
      <4> QED BY ONLY <1>1, <2>1, <3>3, <4>1
    <3> QED BY <2>1, <3>3, <3>4, <3>5 DEF k
  <2> QED BY <2>2, <2>3 DEF SentIn, TransportIs
<1> QED BY <1>1, <1>3, <1>4, <1>7, <1>8

LEMMA FlagsCaptured ==
  ASSUME NEW d \in Seq(Byte), HasIPv4(d), NEW m, m.frame = d, NEW w, NEW l4, SentIn(m, w, l4)
  PROVE  CountedFlags(d) \subseteq m.flags /\ (m.whole => CountedFlags(d) = m.flags)
<1>1. w \in 5..15 /\ l4 \in Nat /\ Len(m.body) \in Nat /\ Len(d) \in Nat /\ L4At(d) = 14 + 4 * w
  BY LenProperties, HeaderCut DEF SentIn
<1>2. Protocol(d) = At(d, 23) BY DEF Protocol, ETH_HEADER_LEN
<1>3. CASE At(d, 23) = PROTO_TCP /\ TCPHeaderIs(m, w, l4)
  <2>1. PICK v \in 5..15, flags \in Byte :
          l4 = 4 * v /\ m.flags = FlagsOf(flags) /\ CapturedAt(d, 14 + 4 * w + 13, flags)
    BY <1>3 DEF TCPHeaderIs
  <2>2. L4At(d) + 14 <= Len(d) => 14 + 4 * w + 13 < Len(d) /\ L4At(d) + 13 = 14 + 4 * w + 13 BY <1>1
  <2>3. L4At(d) + 14 <= Len(d) => FlagsOf(At(d, L4At(d) + 13)) = m.flags BY <2>1, <2>2 DEF CapturedAt
  <2>4. m.whole => Len(d) >= 48 /\ L4At(d) + 14 <= Len(d)
    <3>1. m.whole => Len(d) >= 14 + 4 * w + l4 + Len(m.body) BY DEF SentIn, FrameLen, ETH_HEADER_LEN
    <3>2. l4 >= 20 /\ w >= 5 BY <1>1, <2>1
    <3>3. \A l, b \in Nat : l >= 14 + 4 * w + l4 + b => l >= 48 /\ 14 + 4 * w + 14 <= l
      BY ONLY <1>1, <3>2
    <3> QED BY <1>1, <3>1, <3>3
  <2> QED BY <1>2, <1>3, <2>3, <2>4 DEF CountedFlags
<1>4. CASE At(d, 23) = PROTO_UDP /\ m.flags = {}
  <2>1. PROTO_TCP # PROTO_UDP BY DEF PROTO_TCP, PROTO_UDP
  <2> QED BY <1>2, <1>4, <2>1 DEF CountedFlags
<1> QED BY <1>3, <1>4 DEF SentIn, TransportIs

LEMMA Stretch ==
  ASSUME NEW S, NEW s \in Seq(S), NEW o \in Nat, NEW n \in Nat, o + n <= Len(s)
  PROVE  /\ SubSeq(s, o + 1, o + n) \in Seq(S) /\ Len(SubSeq(s, o + 1, o + n)) = n
         /\ \A i \in 1..n : SubSeq(s, o + 1, o + n)[i] = s[o + i]
<1> DEFINE from == o + 1
           to == o + n
<1>1. Len(s) \in Nat BY LenProperties
<1>2. /\ from \in Int /\ to \in Int /\ to - from + 1 = n /\ (IF from <= to THEN to - from + 1 ELSE 0) = n
      /\ \A i \in 1..n : from + i - 1 = o + i
  OBVIOUS
<1>3. \A i \in from..to : i \in 1..Len(s) BY <1>1
<1>4. \A i \in from..to : s[i] \in S BY <1>3, ElementOfSeq
<1> HIDE DEF from, to
<1>5. /\ SubSeq(s, from, to) \in Seq(S)
      /\ Len(SubSeq(s, from, to)) = IF from <= to THEN to - from + 1 ELSE 0
      /\ \A i \in 1..(to - from + 1) : SubSeq(s, from, to)[i] = s[from + i - 1]
  BY <1>2, <1>4, SubSeqProperties
<1>6. /\ SubSeq(s, from, to) \in Seq(S) /\ Len(SubSeq(s, from, to)) = n
      /\ \A i \in 1..n : SubSeq(s, from, to)[i] = s[o + i]
  BY <1>2, <1>5
<1> QED BY <1>6 DEF from, to

(* Where the body lies: of the k bytes captured of what IP carries, h are  *)
(* the transport header.                                                   *)
Cut(w, l4, n, l, k, h, left) ==
  /\ left = l - (14 + 4 * w) /\ k = Least(l4 + n, left)
  /\ (h = l4 /\ l4 <= k) \/ (h = k /\ left < l4 + n)

BodyLies(w, l4, n, l, k, h) ==
  /\ k - h \in Nat /\ k - h <= n /\ 14 + 4 * w + h + (k - h) <= l
  /\ k - h > 0 => h = l4
  /\ l >= 14 + 4 * w + l4 + n => k - h = n

LEMMA CutAtBody ==
  ASSUME NEW w \in Nat, NEW l4 \in Nat, NEW n \in Nat, NEW l \in Nat, NEW k \in Nat, NEW h \in Nat,
         NEW left \in Nat, Cut(w, l4, n, l, k, h, left)
  PROVE  BodyLies(w, l4, n, l, k, h)
<1>1. CASE l4 + n <= left
  <2>1. k = l4 + n /\ h = l4 BY <1>1 DEF Least, Cut
  <2> QED BY <1>1, <2>1 DEF Cut, BodyLies
<1>2. CASE ~(l4 + n <= left)
  <2>1. k = left BY <1>2 DEF Least, Cut
  <2> QED BY <1>2, <2>1 DEF Cut, BodyLies
<1> QED BY <1>1, <1>2

LEMMA BodyCaptured ==
  ASSUME NEW d \in Seq(Byte), HasIPv4(d), NEW m, m.frame = d, NEW w, NEW l4, SentIn(m, w, l4)
  PROVE  LET p == Payload(d) IN
         /\ Len(p) \in Nat /\ Len(p) <= Len(m.body) /\ p = SubSeq(m.body, 1, Len(p))
         /\ m.whole => p = m.body
<1> DEFINE n == Len(m.body)
           left == Len(d) - (14 + 4 * w)
           k == L4Len(d)
           h == L4HeaderLen(d)
           at == PayloadAt(d)
           len == PayloadLen(d)
           p == Payload(d)
<1>1. /\ w \in 5..15 /\ l4 \in Nat /\ n \in Nat /\ left \in Nat /\ Len(d) \in Nat
      /\ L4At(d) = 14 + 4 * w /\ k = Least(l4 + n, left)
      /\ (h = l4 /\ l4 <= k) \/ (h = k /\ left < l4 + n)
      /\ k \in Nat /\ h \in Nat /\ h <= k
  <2>1. w \in 5..15 /\ l4 \in Nat /\ Len(d) \in Nat BY LenProperties DEF SentIn
  <2>2. k \in Nat /\ h \in Nat /\ h <= k BY HeadersInFrame
  <2>3. /\ left \in Nat /\ n \in Nat /\ L4At(d) = 14 + 4 * w /\ k = Least(l4 + n, left)
        /\ (h = l4 /\ l4 <= k) \/ (h = k /\ left < l4 + n)
    BY HeaderCut
  <2> QED BY <2>1, <2>2, <2>3
<1>2. at = 14 + 4 * w + h /\ len = k - h BY <1>1 DEF PayloadAt, PayloadLen
<1>3. left = Len(d) - (14 + 4 * w) OBVIOUS
<1>4. \A i \in 1..n : CapturedAt(d, 14 + 4 * w + l4 + i - 1, m.body[i]) BY DEF SentIn
<1>5. m.body \in Seq(Byte) BY DEF SentIn
<1>6. p = SubSeq(d, at + 1, at + len) BY DEF Payload
<1>7. m.whole => Len(d) >= 14 + 4 * w + l4 + n BY DEF SentIn, FrameLen, ETH_HEADER_LEN
<1> HIDE DEF n, left, k, h, at, len, p
<1>8. /\ at \in Nat /\ len \in Nat /\ len <= n /\ at + len <= Len(d)
      /\ len > 0 => at = 14 + 4 * w + l4
      /\ Len(d) >= 14 + 4 * w + l4 + n => len = n
  <2>1. w \in Nat BY <1>1
  <2> SUFFICES ASSUME NEW l \in Nat, l = Len(d)
      PROVE  /\ at \in Nat /\ len \in Nat /\ len <= n /\ at + len <= l
             /\ len > 0 => at = 14 + 4 * w + l4
             /\ l >= 14 + 4 * w + l4 + n => len = n
    BY <1>1
  <2>2. /\ len \in Nat /\ len <= n /\ 14 + 4 * w + h + len <= l
        /\ len > 0 => h = l4
        /\ l >= 14 + 4 * w + l4 + n => len = n
    <3>1. /\ l4 \in Nat /\ n \in Nat /\ k \in Nat /\ h \in Nat /\ left \in Nat /\ l \in Nat
          /\ Cut(w, l4, n, l, k, h, left)
      BY <1>1, <1>3 DEF Cut
    <3>2. BodyLies(w, l4, n, l, k, h) BY <2>1, <3>1, CutAtBody
    <3> QED BY <1>2, <3>2 DEF BodyLies
  <2> QED BY <1>1, <1>2, <2>1, <2>2
<1>9. m.whole => len = n
  BY <1>7, <1>8
<1>11. /\ p \in Seq(Byte) /\ Len(p) = len
       /\ \A i \in 1..len : p[i] = d[at + i]
  <2>1. /\ SubSeq(d, at + 1, at + len) \in Seq(Byte) /\ Len(SubSeq(d, at + 1, at + len)) = len
        /\ \A i \in 1..len : SubSeq(d, at + 1, at + len)[i] = d[at + i]
    BY <1>8, Stretch
  <2> QED BY <1>6, <2>1
<1>12. ASSUME NEW i \in 1..len PROVE p[i] = m.body[i]
  <2>1. /\ i \in 1..n /\ at = 14 + 4 * w + l4
        /\ 14 + 4 * w + l4 + i - 1 < Len(d) /\ 14 + 4 * w + l4 + i - 1 + 1 = at + i
    BY <1>1, <1>8
  <2>2. d[at + i] = m.body[i] BY <1>4, <2>1 DEF CapturedAt, At
  <2> QED BY <1>11, <2>2
<1>14. p = SubSeq(m.body, 1, len)
  <2> DEFINE q == SubSeq(m.body, 1, len)
  <2>1. 0 \in Nat /\ 0 + 1 = 1 /\ 0 + len = len /\ 0 + len <= Len(m.body) /\ \A i \in 1..len : 0 + i = i
    BY <1>8 DEF n
  <2>2. q \in Seq(Byte) /\ Len(q) = len /\ \A i \in 1..len : q[i] = m.body[i]
    <3>1. /\ SubSeq(m.body, 0 + 1, 0 + len) \in Seq(Byte) /\ Len(SubSeq(m.body, 0 + 1, 0 + len)) = len
          /\ \A i \in 1..len : SubSeq(m.body, 0 + 1, 0 + len)[i] = m.body[0 + i]
      BY <1>5, <1>8, <2>1, Stretch
    <3> QED BY <2>1, <3>1
  <2> HIDE DEF q
  <2>3. p = q BY <1>11, <1>12, <2>2, SeqEqual
  <2> QED BY <2>3 DEF q
<1>15. m.whole => p = m.body
  <2>1. SubSeq(m.body, 1, n) = m.body BY <1>5, SubSeqFull DEF n
  <2> QED BY <1>9, <1>14, <2>1
<1> QED BY <1>8, <1>11, <1>14, <1>15 DEF p, n

(* What the extractors are given is the body that was sent, as far as the  *)
(* frame was captured, without options and without padding; and the flags  *)
(* counted are those sent.                                                 *)
THEOREM PayloadIsAsSent ==
  ASSUME \A m \in Messages : m.kind # "malformed" => IsSent(m)
  PROVE  Spec => []PayloadAsSent
<1> DEFINE Taken == sent \in Messages /\ HasIPv4(sent.frame) /\ payload = Payload(sent.frame)
<1>1. Init => Taken BY DEF Init
<1>2. Taken /\ [Next]_vars => Taken'
  <2>1. [Next]_vars => UNCHANGED <<sent, payload>>
    BY DEF Next, Step, Try, ClientHello, SessionID, CipherSuites, CompressionMethods, Vector, Extensions,
           Extension, ServerName, HTTPHost, DNSHeader, DNSLabel, DNSName, GoOn, Nothing, Found, vars
  <2> QED BY <2>1
<1>3. Taken => PayloadAsSent
  <2> SUFFICES ASSUME Taken, sent.kind # "malformed" PROVE PayloadAsSent BY DEF PayloadAsSent
  <2>1. sent.frame \in Seq(Byte) BY SNIExtractorAssumption
  <2>2. PICK w, l4 : SentIn(sent, w, l4) BY DEF IsSent
  <2>3. /\ length <= Len(sent.body) /\ payload = SubSeq(sent.body, 1, length)
        /\ sent.whole => payload = sent.body
    BY <2>1, <2>2, BodyCaptured DEF length
  <2>4. CountedFlags(sent.frame) \subseteq sent.flags /\ (sent.whole => CountedFlags(sent.frame) = sent.flags)
    BY <2>1, <2>2, FlagsCaptured
  <2> QED BY <2>3, <2>4 DEF PayloadAsSent
<1> QED BY <1>1, <1>2, <1>3, PTL DEF Spec

-----------------------------------------------------------------------------
(* Four bytes. *)
IsWord(v) == /\ v = <<v[1], v[2], v[3], v[4]>>
             /\ v[1] \in Byte /\ v[2] \in Byte /\ v[3] \in Byte /\ v[4] \in Byte

(* What readNextPacket() may return. *)
IsHeader(h) ==
  /\ h = [ts_sec |-> h.ts_sec, ts_usec |-> h.ts_usec, incl_len |-> h.incl_len, orig_len |-> h.orig_len]
  /\ IsWord(h.ts_sec) /\ IsWord(h.ts_usec) /\ IsWord(h.incl_len) /\ IsWord(h.orig_len)

IsPacket(p) ==
  /\ p = [header |-> p.header, data |-> p.data]
  /\ IsHeader(p.header) /\ ~TooLong(p.header.incl_len)
  /\ p.data \in Seq(Byte) /\ Len(p.data) = Value(p.header.incl_len)

LEMMA SwapTwice ==
  ASSUME NEW v, IsWord(v)
  PROVE  /\ IsWord(swapBytes(v)) /\ swapBytes(swapBytes(v)) = v
         /\ swapBytes(v) \in Seq(Byte) /\ Len(swapBytes(v)) = 4
         /\ Value(v) \in Nat
<1>1. /\ v = <<v[1], v[2], v[3], v[4]>>
      /\ v[1] \in Byte /\ v[2] \in Byte /\ v[3] \in Byte /\ v[4] \in Byte
  BY DEF IsWord
<1>2. IsWord(swapBytes(v)) BY <1>1 DEF IsWord, swapBytes
<1>3. swapBytes(swapBytes(v)) = v BY <1>1 DEF swapBytes
<1>4. swapBytes(v) \in Seq(Byte) /\ Len(swapBytes(v)) = 4 BY <1>1 DEF swapBytes
<1>5. Value(v) \in Nat
  <2> DEFINE a == v[2]
             b == v[3]
             c == v[4]
  <2>1. Value(v) = 65536 * a + 256 * b + c BY DEF Value
  <2>2. a \in 0..255 /\ b \in 0..255 /\ c \in 0..255 BY <1>1 DEF Byte
  <2> HIDE DEF a, b, c
  <2>3. 65536 * a + 256 * b + c \in Nat BY <2>2
  <2> QED BY <2>1, <2>3
<1> QED BY <1>2, <1>3, <1>4, <1>5

LEMMA WordAt ==
  ASSUME NEW d \in Seq(Byte), NEW at \in Nat, at + 4 <= Len(d), NEW b \in BOOLEAN
  PROVE  IsWord(U32At(d, at)) /\ IsWord(fixU32(b, U32At(d, at)))
<1>1. Len(d) \in Nat /\ \A k \in 1..Len(d) : d[k] \in Byte
  BY LenProperties, ElementOfSeq
<1>2. at + 1 \in 1..Len(d) /\ at + 2 \in 1..Len(d) /\ at + 3 \in 1..Len(d) /\ at + 4 \in 1..Len(d)
  BY <1>1
<1>3. IsWord(U32At(d, at)) BY <1>1, <1>2 DEF U32At, IsWord
<1> QED BY <1>3, SwapTwice DEF fixU32

(* A packet that is returned is one. *)
LEMMA PacketIsOne ==
  ASSUME NEW d \in Seq(Byte), NEW at \in Nat, ~AtEnd(d, at), ~Corrupt(d, at)
  PROVE  /\ IsPacket(PacketAt(d, at))
         /\ NextAt(d, at) \in Nat /\ at < NextAt(d, at) /\ NextAt(d, at) <= Len(d)
<1> DEFINE h == HeaderAt(d, at)
<1>1. Len(d) \in Nat /\ at + 16 <= Len(d) BY LenProperties DEF AtEnd, PacketHeaderLen
<1>2. IsHeader(h)
  <2> DEFINE b == ByteSwapped(d)
  <2>1. b \in BOOLEAN BY DEF ByteSwapped
  <2>2. /\ IsWord(fixU32(b, U32At(d, at + 0))) /\ IsWord(fixU32(b, U32At(d, at + 4)))
        /\ IsWord(fixU32(b, U32At(d, at + 8))) /\ IsWord(fixU32(b, U32At(d, at + 12)))
    <3>1. at + 0 \in Nat /\ at + 4 \in Nat /\ at + 8 \in Nat /\ at + 12 \in Nat OBVIOUS
    <3>2. (at + 0) + 4 <= Len(d) /\ (at + 4) + 4 <= Len(d) /\ (at + 8) + 4 <= Len(d) /\ (at + 12) + 4 <= Len(d)
      BY <1>1
    <3> QED BY <2>1, <3>1, <3>2, WordAt
  <2>3. h = [ts_sec |-> fixU32(b, U32At(d, at + 0)), ts_usec |-> fixU32(b, U32At(d, at + 4)),
             incl_len |-> fixU32(b, U32At(d, at + 8)), orig_len |-> fixU32(b, U32At(d, at + 12))]
    BY DEF HeaderAt
  <2> HIDE DEF b, h
  <2> QED BY <2>2, <2>3 DEF IsHeader
<1>3. Value(h.incl_len) \in Nat BY <1>2, SwapTwice DEF IsHeader
<1>4. ~TooLong(h.incl_len) /\ at + 16 + Value(h.incl_len) <= Len(d)
  <2>1. ~TooLong(h.incl_len) /\ ~(Len(d) < at + PacketHeaderLen + Value(h.incl_len)) BY DEF Corrupt
  <2> HIDE DEF h
  <2> QED BY <1>1, <1>3, <2>1 DEF PacketHeaderLen
<1> DEFINE x == SubSeq(d, at + 17, NextAt(d, at))
<1>5. NextAt(d, at) = at + 16 + Value(h.incl_len) BY DEF NextAt, PacketHeaderLen
<1>6. PacketAt(d, at) = [header |-> h, data |-> x]
  <2>1. at + PacketHeaderLen + 1 = at + 17 BY DEF PacketHeaderLen
  <2> QED BY <2>1 DEF PacketAt
<1> HIDE DEF h
<1>7. x \in Seq(Byte) /\ Len(x) = Value(h.incl_len)
  <2>1. \A k \in (at + 17)..NextAt(d, at) : d[k] \in Byte
    <3>1. \A k \in 1..Len(d) : d[k] \in Byte BY ElementOfSeq
    <3> QED BY <1>1, <1>3, <1>4, <1>5, <3>1
  <2>2. at + 17 \in Int /\ NextAt(d, at) \in Int BY <1>3, <1>5
  <2>3. x \in Seq(Byte) /\ Len(x) = IF at + 17 <= NextAt(d, at) THEN NextAt(d, at) - (at + 17) + 1 ELSE 0
    BY <2>1, <2>2, SubSeqProperties
  <2> QED BY <1>3, <1>5, <2>3
<1> HIDE DEF x
<1>8. IsPacket(PacketAt(d, at)) BY <1>2, <1>4, <1>6, <1>7 DEF IsPacket
<1> QED BY <1>3, <1>4, <1>5, <1>8

-----------------------------------------------------------------------------
(* What is written: five pieces, one behind the other. *)
Adds(t, s, n, v) ==
  /\ t \in Seq(Byte) /\ Len(t) = n + 4
  /\ \A k \in 1..n : t[k] = s[k]
  /\ t[n + 1] = v[4] /\ t[n + 2] = v[3] /\ t[n + 3] = v[2] /\ t[n + 4] = v[1]

LEMMA AddWord ==
  ASSUME NEW s \in Seq(Byte), NEW n, n = Len(s), NEW v, IsWord(v), NEW t, t = s \o InMemory(v)
  PROVE  Adds(t, s, n, v)
<1> DEFINE w == InMemory(v)
<1>1. w \in Seq(Byte) /\ Len(w) = 4 BY SwapTwice DEF InMemory
<1>2. w[1] = v[4] /\ w[2] = v[3] /\ w[3] = v[2] /\ w[4] = v[1] BY DEF InMemory, swapBytes
<1> HIDE DEF w
<1>3. n \in Nat BY LenProperties
<1>4. /\ t \in Seq(Byte) /\ Len(t) = n + 4
      /\ \A k \in 1..(n + 4) : t[k] = IF k <= n THEN s[k] ELSE w[k - n]
  <2>1. /\ s \o w \in Seq(Byte) /\ Len(s \o w) = Len(s) + Len(w)
        /\ \A k \in 1..(Len(s) + Len(w)) : (s \o w)[k] = IF k <= Len(s) THEN s[k] ELSE w[k - Len(s)]
    BY <1>1, ConcatProperties
  <2>2. t = s \o w BY DEF w
  <2> QED BY <1>1, <2>1, <2>2
<1>5. \A k \in 1..n : t[k] = s[k] BY <1>3, <1>4
<1>6. \A j \in 1..4 : t[n + j] = w[j]
  <2>1. \A j \in 1..4 : n + j \in 1..(n + 4) /\ ~(n + j <= n) /\ (n + j) - n = j
    BY <1>3
  <2> QED BY <1>4, <2>1
<1>7. 1 \in 1..4 /\ 2 \in 1..4 /\ 3 \in 1..4 /\ 4 \in 1..4 OBVIOUS
<1>8. t[n + 1] = w[1] /\ t[n + 2] = w[2] /\ t[n + 3] = w[3] /\ t[n + 4] = w[4]
  BY <1>6, <1>7
<1> QED BY <1>2, <1>4, <1>5, <1>8 DEF Adds

(* The bytes of a packet, and where they are. *)
WordIs(s, at, v) == s[at + 1] = v[4] /\ s[at + 2] = v[3] /\ s[at + 3] = v[2] /\ s[at + 4] = v[1]

Fields(s, at, h) == /\ WordIs(s, at, h.ts_sec) /\ WordIs(s, at + 4, h.ts_usec)
                    /\ WordIs(s, at + 8, h.incl_len) /\ WordIs(s, at + 12, h.orig_len)

LEMMA WordStays ==
  ASSUME NEW at \in Nat, NEW s, NEW t, NEW v, WordIs(s, at, v), \A k \in 1..(at + 4) : t[k] = s[k]
  PROVE  WordIs(t, at, v)
<1>1. at + 1 \in 1..(at + 4) /\ at + 2 \in 1..(at + 4) /\ at + 3 \in 1..(at + 4) /\ at + 4 \in 1..(at + 4)
  OBVIOUS
<1> QED BY <1>1 DEF WordIs

LEMMA PacketIsWritten ==
  ASSUME NEW p, IsPacket(p)
  PROVE  LET s == PacketBytes(p) IN
         /\ s \in Seq(Byte) /\ Len(p.data) \in Nat /\ Len(s) = 16 + Len(p.data)
         /\ Fields(s, 0, p.header)
         /\ \A k \in 1..Len(p.data) : s[16 + k] = p.data[k]
<1> DEFINE h == p.header
           s1 == InMemory(h.ts_sec)
           s2 == s1 \o InMemory(h.ts_usec)
           s3 == s2 \o InMemory(h.incl_len)
           s4 == s3 \o InMemory(h.orig_len)
           s5 == s4 \o p.data
<1>1. /\ IsWord(h.ts_sec) /\ IsWord(h.ts_usec) /\ IsWord(h.incl_len) /\ IsWord(h.orig_len)
      /\ p.data \in Seq(Byte) /\ Len(p.data) \in Nat
  BY LenProperties DEF IsPacket, IsHeader
<1>2. PacketBytes(p) = s5 BY DEF PacketBytes
<1>3. s1 \in Seq(Byte) /\ Len(s1) = 4 /\ WordIs(s1, 0, h.ts_sec)
  <2>1. s1 \in Seq(Byte) /\ Len(s1) = 4 BY <1>1, SwapTwice DEF InMemory
  <2>2. WordIs(s1, 0, h.ts_sec) BY DEF WordIs, InMemory, swapBytes
  <2> QED BY <2>1, <2>2
<1> HIDE DEF h, s1
<1>4. /\ s2 \in Seq(Byte) /\ Len(s2) = 8 /\ WordIs(s2, 4, h.ts_usec)
      /\ \A k \in 1..4 : s2[k] = s1[k]
  <2>1. Adds(s2, s1, 4, h.ts_usec) BY <1>1, <1>3, AddWord
  <2> HIDE DEF s2
  <2> QED BY <2>1 DEF Adds, WordIs
<1> HIDE DEF s2
<1>5. /\ s3 \in Seq(Byte) /\ Len(s3) = 12 /\ WordIs(s3, 8, h.incl_len)
      /\ \A k \in 1..8 : s3[k] = s2[k]
  <2>1. Adds(s3, s2, 8, h.incl_len) BY <1>1, <1>4, AddWord
  <2> HIDE DEF s3
  <2> QED BY <2>1 DEF Adds, WordIs
<1> HIDE DEF s3
<1>6. /\ s4 \in Seq(Byte) /\ Len(s4) = 16 /\ WordIs(s4, 12, h.orig_len)
      /\ \A k \in 1..12 : s4[k] = s3[k]
  <2>1. Adds(s4, s3, 12, h.orig_len) BY <1>1, <1>5, AddWord
  <2> HIDE DEF s4
  <2> QED BY <2>1 DEF Adds, WordIs
<1> HIDE DEF s4
<1>7. /\ s5 \in Seq(Byte) /\ Len(s5) = 16 + Len(p.data)
      /\ \A k \in 1..(16 + Len(p.data)) : s5[k] = IF k <= 16 THEN s4[k] ELSE p.data[k - 16]
  <2> DEFINE x == p.data
  <2>1. x \in Seq(Byte) BY <1>1
  <2> HIDE DEF x
  <2>2. /\ s4 \o x \in Seq(Byte) /\ Len(s4 \o x) = Len(s4) + Len(x)
        /\ \A k \in 1..(Len(s4) + Len(x)) : (s4 \o x)[k] = IF k <= Len(s4) THEN s4[k] ELSE x[k - Len(s4)]
    BY <2>1, <1>6, ConcatProperties
  <2>3. s5 = s4 \o x BY DEF x
  <2> HIDE DEF s5
  <2>4. /\ s5 \in Seq(Byte) /\ Len(s5) = 16 + Len(x)
        /\ \A k \in 1..(16 + Len(x)) : s5[k] = IF k <= 16 THEN s4[k] ELSE x[k - 16]
    BY <1>6, <2>2, <2>3
  <2> QED BY <2>4 DEF x
<1> HIDE DEF s5
<1>8. \A k \in 1..16 : s5[k] = s4[k]
  <2>1. \A n \in Nat : \A k \in 1..16 : k \in 1..(16 + n) /\ k <= 16 OBVIOUS
  <2>2. Len(p.data) \in Nat BY <1>1, LenProperties
  <2> QED BY <1>7, <2>1, <2>2
<1>9. Fields(s5, 0, h)
  <2>0. /\ \A k \in 1..12 : s5[k] = s4[k] /\ s4[k] = s3[k]
        /\ \A k \in 1..8 : s5[k] = s4[k] /\ s4[k] = s3[k] /\ s3[k] = s2[k]
    BY <1>5, <1>6, <1>8
  <2>1. \A k \in 1..(0 + 4) : s5[k] = s1[k]
    <3>1. \A k \in 1..4 : s5[k] = s2[k] /\ s2[k] = s1[k] BY <1>4, <2>0
    <3> QED BY <3>1
  <2>2. \A k \in 1..(4 + 4) : s5[k] = s2[k] BY <2>0
  <2>3. \A k \in 1..(8 + 4) : s5[k] = s3[k] BY <2>0
  <2>4. 12 + 4 = 16 /\ \A k \in 1..(12 + 4) : s5[k] = s4[k] BY <1>8
  <2>5. WordIs(s5, 0, h.ts_sec) BY <1>3, <2>1, WordStays
  <2>6. WordIs(s5, 4, h.ts_usec) BY <1>4, <2>2, WordStays
  <2>7. WordIs(s5, 8, h.incl_len) BY <1>5, <2>3, WordStays
  <2>8. WordIs(s5, 12, h.orig_len) BY <1>6, <2>4, WordStays
  <2> QED BY <2>5, <2>6, <2>7, <2>8 DEF Fields
<1>10. \A k \in 1..Len(p.data) : s5[16 + k] = p.data[k]
  <2>1. \A k \in 1..Len(p.data) : 16 + k \in 1..(16 + Len(p.data)) /\ ~(16 + k <= 16) /\ (16 + k) - 16 = k
    BY <1>1
  <2> QED BY <1>7, <2>1
<1> QED BY <1>1, <1>2, <1>7, <1>9, <1>10 DEF h

(* What a file starts with. *)
LEMMA HeaderIsWritten ==
  ASSUME NEW c \in Seq(Byte), HasHeader(c)
  PROVE  LET s == FileHeader(c) IN
         /\ s \in Seq(Byte) /\ Len(s) = 24
         /\ WordIs(s, 0, PCAP_MAGIC_NATIVE) /\ WordIs(s, 16, Snaplen(c)) /\ IsWord(Snaplen(c))
<1> DEFINE v1 == PCAP_MAGIC_NATIVE
           v2 == <<0, 4, 0, 2>>
           v3 == <<0, 0, 0, 0>>
           v5 == Snaplen(c)
           v6 == PCAP_LINK_ETHERNET
           s1 == InMemory(v1)
           s2 == s1 \o InMemory(v2)
           s3 == s2 \o InMemory(v3)
           s4 == s3 \o InMemory(v3)
           s5 == s4 \o InMemory(v5)
           s6 == s5 \o InMemory(v6)
<1>1. IsWord(v1) /\ IsWord(v2) /\ IsWord(v3) /\ IsWord(v6)
  BY DEF IsWord, PCAP_MAGIC_NATIVE, PCAP_LINK_ETHERNET, Byte
<1>2. IsWord(v5)
  <2>1. Len(c) \in Nat /\ Len(c) >= 24 BY LenProperties DEF HasHeader, GlobalHeaderLen
  <2>2. 16 + 4 <= Len(c) /\ ByteSwapped(c) \in BOOLEAN BY <2>1 DEF ByteSwapped
  <2> QED BY <2>2, WordAt DEF Snaplen
<1>3. FileHeader(c) = s6
  <2>1. InMemory(v2) = <<2, 0, 4, 0>> BY DEF InMemory, swapBytes
  <2> HIDE DEF v2
  <2> QED BY <2>1 DEF FileHeader
<1>4. s1 \in Seq(Byte) /\ Len(s1) = 4 /\ WordIs(s1, 0, v1)
  <2>1. s1 \in Seq(Byte) /\ Len(s1) = 4 BY <1>1, SwapTwice DEF InMemory
  <2>2. WordIs(s1, 0, v1) BY DEF WordIs, InMemory, swapBytes
  <2> QED BY <2>1, <2>2
<1> HIDE DEF v1, v2, v3, v5, v6, s1
<1>5. s2 \in Seq(Byte) /\ Len(s2) = 8 /\ \A k \in 1..4 : s2[k] = s1[k]
  <2>1. Adds(s2, s1, 4, v2) BY <1>1, <1>4, AddWord
  <2> HIDE DEF s2
  <2> QED BY <2>1 DEF Adds
<1> HIDE DEF s2
<1>6. s3 \in Seq(Byte) /\ Len(s3) = 12 /\ \A k \in 1..8 : s3[k] = s2[k]
  <2>1. Adds(s3, s2, 8, v3) BY <1>1, <1>5, AddWord
  <2> HIDE DEF s3
  <2> QED BY <2>1 DEF Adds
<1> HIDE DEF s3
<1>7. s4 \in Seq(Byte) /\ Len(s4) = 16 /\ \A k \in 1..12 : s4[k] = s3[k]
  <2>1. Adds(s4, s3, 12, v3) BY <1>1, <1>6, AddWord
  <2> HIDE DEF s4
  <2> QED BY <2>1 DEF Adds
<1> HIDE DEF s4
<1>8. s5 \in Seq(Byte) /\ Len(s5) = 20 /\ WordIs(s5, 16, v5) /\ \A k \in 1..16 : s5[k] = s4[k]
  <2>1. Adds(s5, s4, 16, v5) BY <1>2, <1>7, AddWord
  <2> HIDE DEF s5
  <2> QED BY <2>1 DEF Adds, WordIs
<1> HIDE DEF s5
<1>9. s6 \in Seq(Byte) /\ Len(s6) = 24 /\ \A k \in 1..20 : s6[k] = s5[k]
  <2>1. Adds(s6, s5, 20, v6) BY <1>1, <1>8, AddWord
  <2> HIDE DEF s6
  <2> QED BY <2>1 DEF Adds
<1> HIDE DEF s6
<1>10. WordIs(s6, 0, v1)
  <2>1. \A k \in 1..4 : s2[k] = s1[k] /\ s3[k] = s2[k] /\ s4[k] = s3[k] /\ s5[k] = s4[k] /\ s6[k] = s5[k]
    <3>1. 1..4 \subseteq 1..8 /\ 1..4 \subseteq 1..12 /\ 1..4 \subseteq 1..16 /\ 1..4 \subseteq 1..20 OBVIOUS
    <3>2. \A k \in 1..4 : s2[k] = s1[k] BY <1>5
    <3>3. \A k \in 1..4 : s3[k] = s2[k] BY <1>6, <3>1, Zenon
    <3>4. \A k \in 1..4 : s4[k] = s3[k] BY <1>7, <3>1, Zenon
    <3>5. \A k \in 1..4 : s5[k] = s4[k] BY <1>8, <3>1, Zenon
    <3>6. \A k \in 1..4 : s6[k] = s5[k] BY <1>9, <3>1, Zenon
    <3> QED BY <3>2, <3>3, <3>4, <3>5, <3>6, Zenon
  <2>2. \A k \in 1..4 : s6[k] = s1[k] BY <2>1
  <2>3. 0 + 1 \in 1..4 /\ 0 + 2 \in 1..4 /\ 0 + 3 \in 1..4 /\ 0 + 4 \in 1..4 OBVIOUS
  <2>4. s6[0 + 1] = s1[0 + 1] /\ s6[0 + 2] = s1[0 + 2] /\ s6[0 + 3] = s1[0 + 3] /\ s6[0 + 4] = s1[0 + 4]
    BY <2>2, <2>3
  <2> QED BY <1>4, <2>4 DEF WordIs
<1>11. WordIs(s6, 16, v5)
  <2>0. 1..(16 + 4) = 1..20 OBVIOUS
  <2>1. \A k \in 1..(16 + 4) : s6[k] = s5[k] BY <1>9, <2>0, Zenon
  <2> QED BY <1>8, <2>1, WordStays
<1> QED BY <1>2, <1>3, <1>9, <1>10, <1>11 DEF v1, v5

-----------------------------------------------------------------------------
(* The file f that holds the packets ps, the end of the i-th at o[i]; and  *)
(* the beginning d of a file.                                              *)
AnyPacket == [header : [ts_sec : Seq(Byte), ts_usec : Seq(Byte), incl_len : Seq(Byte), orig_len : Seq(Byte)],
              data : Seq(Byte)]

Layout(f, ps, o, snaplen) ==
  /\ f \in Seq(Byte) /\ ps \in Seq(AnyPacket) /\ IsWord(snaplen)
  /\ WordIs(f, 0, PCAP_MAGIC_NATIVE) /\ WordIs(f, 16, snaplen)
  /\ o \in [0..Len(ps) -> Nat] /\ o[0] = 24 /\ Len(f) = o[Len(ps)]
  /\ \A i \in 1..Len(ps) :
       /\ IsPacket(ps[i])
       /\ o[i] = o[i - 1] + 16 + Len(ps[i].data)
       /\ Fields(f, o[i - 1], ps[i].header)
       /\ \A k \in 1..Len(ps[i].data) : f[o[i - 1] + 16 + k] = ps[i].data[k]

Begins(d, f) == /\ d \in Seq(Byte) /\ f \in Seq(Byte) /\ Len(d) <= Len(f)
                /\ \A k \in 1..Len(d) : d[k] = f[k]

(* The same in the byte order that goes with a magic number.               *)
Magics == {PCAP_MAGIC_NATIVE, PCAP_MAGIC_NSEC, PCAP_MAGIC_SWAPPED}
Stored(v, magic) == fixU32(magic = PCAP_MAGIC_SWAPPED, v)
HeaderStored(h, magic) == [ts_sec |-> Stored(h.ts_sec, magic), ts_usec |-> Stored(h.ts_usec, magic),
                           incl_len |-> Stored(h.incl_len, magic), orig_len |-> Stored(h.orig_len, magic)]

LaidOutIn(f, ps, o, magic) ==
  /\ f \in Seq(Byte) /\ ps \in Seq(AnyPacket)
  /\ magic \in Magics /\ WordIs(f, 0, magic)
  /\ o \in [0..Len(ps) -> Nat] /\ o[0] = 24 /\ Len(f) = o[Len(ps)]
  /\ \A i \in 1..Len(ps) :
       /\ IsPacket(ps[i])
       /\ o[i] = o[i - 1] + 16 + Len(ps[i].data)
       /\ Fields(f, o[i - 1], HeaderStored(ps[i].header, magic))
       /\ \A k \in 1..Len(ps[i].data) : f[o[i - 1] + 16 + k] = ps[i].data[k]

(* One of two files begins the other. *)
Agree(d, f) == /\ d \in Seq(Byte) /\ f \in Seq(Byte)
               /\ \A k \in 1..Len(d) : k \in 1..Len(f) => d[k] = f[k]

LEMMA BeginsAgree ==
  ASSUME NEW d, NEW f
  PROVE  /\ Begins(d, f) => Agree(d, f) /\ Len(d) <= Len(f)
         /\ Begins(f, d) => Agree(d, f) /\ Len(f) <= Len(d)
BY DEF Begins, Agree

LEMMA MagicsAreWords == \A magic \in Magics : IsWord(magic)
BY DEF Magics, IsWord, PCAP_MAGIC_NATIVE, PCAP_MAGIC_NSEC, PCAP_MAGIC_SWAPPED, Byte

LEMMA StoredTwice ==
  ASSUME NEW v, IsWord(v), NEW magic
  PROVE  IsWord(Stored(v, magic)) /\ Stored(Stored(v, magic), magic) = v
BY SwapTwice DEF Stored, fixU32

LEMMA LayoutIsNative ==
  ASSUME NEW f, NEW ps, NEW o, NEW n, Layout(f, ps, o, n)
  PROVE  LaidOutIn(f, ps, o, PCAP_MAGIC_NATIVE)
<1> DEFINE m == PCAP_MAGIC_NATIVE
<1>1. m \in Magics /\ m # PCAP_MAGIC_SWAPPED BY DEF Magics, PCAP_MAGIC_NATIVE, PCAP_MAGIC_SWAPPED
<1> HIDE DEF m
<1>2. ASSUME NEW h, NEW at, Fields(f, at, h) PROVE Fields(f, at, HeaderStored(h, m))
  <2>1. \A v : Stored(v, m) = v BY <1>1 DEF Stored, fixU32
  <2>2. HeaderStored(h, m) = [ts_sec |-> h.ts_sec, ts_usec |-> h.ts_usec, incl_len |-> h.incl_len, orig_len |-> h.orig_len]
    BY <2>1 DEF HeaderStored
  <2> QED BY <1>2, <2>2 DEF Fields
<1> QED BY <1>1, <1>2 DEF Layout, LaidOutIn, m

LEMMA WordRead ==
  ASSUME NEW d, NEW f, Agree(d, f), NEW v, IsWord(v), NEW at \in Nat, WordIs(f, at, v),
         at + 4 <= Len(d), at + 4 <= Len(f)
  PROVE  U32At(d, at) = v
<1>1. Len(d) \in Nat /\ Len(f) \in Nat BY LenProperties DEF Agree
<1>2. /\ at + 1 \in 1..Len(d) /\ at + 2 \in 1..Len(d) /\ at + 3 \in 1..Len(d) /\ at + 4 \in 1..Len(d)
      /\ at + 1 \in 1..Len(f) /\ at + 2 \in 1..Len(f) /\ at + 3 \in 1..Len(f) /\ at + 4 \in 1..Len(f)
  BY <1>1
<1>3. d[at + 1] = v[4] /\ d[at + 2] = v[3] /\ d[at + 3] = v[2] /\ d[at + 4] = v[1]
  BY <1>2 DEF Agree, WordIs
<1> QED BY <1>3 DEF U32At, IsWord

LEMMA BeginningIsAccepted ==
  ASSUME NEW f, NEW ps, NEW o, NEW magic, LaidOutIn(f, ps, o, magic), NEW d, Agree(d, f), Len(d) >= 24, Len(f) >= 24
  PROVE  Accepted(d) /\ Magic(d) = magic
<1>1. Len(d) \in Nat /\ Len(f) \in Nat BY LenProperties DEF Agree
<1>2. 0 + 4 <= Len(d) /\ 0 + 4 <= Len(f) /\ 0 \in Nat BY <1>1
<1>3. IsWord(magic) BY MagicsAreWords DEF LaidOutIn
<1>4. Magic(d) = magic BY <1>2, <1>3, WordRead DEF LaidOutIn, Magic
<1> QED BY <1>4 DEF Accepted, HasHeader, GlobalHeaderLen, LaidOutIn, Magics

LEMMA SnaplenIsRead ==
  ASSUME NEW f, NEW ps, NEW o, NEW n, Layout(f, ps, o, n), NEW d, Begins(d, f), Len(d) >= 24
  PROVE  Accepted(d) /\ Snaplen(d) = n
<1>1. Len(d) \in Nat /\ Len(f) \in Nat /\ Len(d) <= Len(f) BY LenProperties DEF Begins
<1>2. 16 + 4 <= Len(d) /\ 16 + 4 <= Len(f) /\ Len(f) >= 24 BY <1>1
<1>3. Agree(d, f) BY BeginsAgree
<1>4. U32At(d, 16) = n BY <1>2, <1>3, WordRead DEF Layout
<1>5. Accepted(d) /\ Magic(d) = PCAP_MAGIC_NATIVE BY <1>2, <1>3, LayoutIsNative, BeginningIsAccepted
<1>6. PCAP_MAGIC_NATIVE # PCAP_MAGIC_SWAPPED BY DEF PCAP_MAGIC_NATIVE, PCAP_MAGIC_SWAPPED
<1> QED BY <1>4, <1>5, <1>6 DEF Snaplen, ByteSwapped, fixU32

(* The ends of the packets lie between the header and the end of the file. *)
LEMMA EndsInFile ==
  ASSUME NEW f, NEW ps, NEW o, NEW magic, LaidOutIn(f, ps, o, magic)
  PROVE  \A i \in 0..Len(ps) : o[i] \in 24..Len(f)
<1> DEFINE N == Len(ps)
<1>1. /\ N \in Nat /\ o \in [0..N -> Nat] /\ o[0] = 24 /\ Len(f) = o[N]
      /\ \A i \in 1..N : o[i - 1] <= o[i]
  <2>1. /\ N \in Nat /\ o \in [0..N -> Nat] /\ o[0] = 24 /\ Len(f) = o[N] BY LenProperties DEF LaidOutIn
  <2>2. ASSUME NEW i \in 1..N PROVE o[i - 1] <= o[i]
    <3>1. o[i] = o[i - 1] + 16 + Len(ps[i].data) /\ Len(ps[i].data) \in Nat
      BY LenProperties DEF LaidOutIn, IsPacket
    <3>2. o[i - 1] \in Nat BY <2>1
    <3> QED BY <3>1, <3>2
  <2> QED BY <2>1, <2>2
<1> HIDE DEF N
<1> DEFINE S == {k \in Nat : k <= N => 24 <= o[k]}
           T == {k \in Nat : k <= N => o[N - k] <= o[N]}
<1>2. 0 \in S BY <1>1
<1>3. ASSUME NEW k \in Nat, k \in S PROVE k + 1 \in S
  <2>1. k + 1 <= N => (k + 1) - 1 = k /\ k + 1 \in 1..N /\ k \in 0..N /\ k + 1 \in 0..N BY <1>1
  <2>2. k + 1 <= N => o[k] <= o[k + 1] /\ o[k] \in Nat /\ o[k + 1] \in Nat BY <1>1, <2>1
  <2> QED BY <1>1, <1>3, <2>2
<1>4. 0 \in T BY <1>1
<1>5. ASSUME NEW k \in Nat, k \in T PROVE k + 1 \in T
  <2>1. k + 1 <= N => (N - k) - 1 = N - (k + 1) /\ N - k \in 1..N /\ N - k \in 0..N /\ N - (k + 1) \in 0..N /\ N \in 0..N
    BY <1>1
  <2>2. k + 1 <= N => o[N - (k + 1)] <= o[N - k] /\ o[N - k] \in Nat /\ o[N - (k + 1)] \in Nat /\ o[N] \in Nat
    BY <1>1, <2>1
  <2> QED BY <1>1, <1>5, <2>2
<1> HIDE DEF S, T
<1>6. Nat \subseteq S /\ Nat \subseteq T BY <1>2, <1>3, <1>4, <1>5, Induction
<1>7. ASSUME NEW i \in 0..N PROVE o[i] \in 24..Len(f)
  <2>1. i \in Nat /\ i <= N /\ N - i \in Nat /\ N - i <= N /\ N - (N - i) = i BY <1>1
  <2>2. i \in S /\ N - i \in T BY <1>6, <2>1
  <2>3. 24 <= o[i] /\ o[i] <= o[N] BY <2>1, <2>2 DEF S, T
  <2>4. o[i] \in Nat BY <1>1
  <2> QED BY <1>1, <2>3, <2>4
<1> QED BY <1>7 DEF N

(* A packet of which all is there is read; one that is cut off is not. *)
LEMMA NextPacket ==
  ASSUME NEW f, NEW ps, NEW o, NEW magic, LaidOutIn(f, ps, o, magic),
         NEW d, Agree(d, f), Len(d) >= 24, NEW i \in 1..Len(ps)
  PROVE  LET at == o[i - 1] IN
         /\ o[i] <= Len(d) => ~AtEnd(d, at) /\ ~Corrupt(d, at) /\ PacketAt(d, at) = ps[i] /\ NextAt(d, at) = o[i]
         /\ ~(o[i] <= Len(d)) => AtEnd(d, at) \/ Corrupt(d, at)
<1> DEFINE at == o[i - 1]
           p == ps[i]
           h == p.header
           e == o[i]
           l == Len(d)
           m == Len(p.data)
<1>1. /\ Len(d) \in Nat /\ at \in Nat /\ e \in Nat /\ Len(p.data) \in Nat
      /\ e = at + 16 + Len(p.data)
      /\ e <= Len(f) /\ Len(f) \in Nat /\ Len(f) >= 24
      /\ IsPacket(p) /\ Fields(f, at, HeaderStored(h, magic)) /\ \A k \in 1..Len(p.data) : f[at + 16 + k] = p.data[k]
  <2>1. Len(ps) \in Nat /\ Len(d) \in Nat /\ i - 1 \in 0..Len(ps) /\ i \in 0..Len(ps)
    BY LenProperties DEF LaidOutIn, Agree
  <2>2. IsPacket(p) BY DEF LaidOutIn
  <2>3. Len(p.data) \in Nat BY <2>2, LenProperties DEF IsPacket
  <2>4. Len(f) \in Nat BY LenProperties DEF LaidOutIn
  <2>5. \A j \in 0..Len(ps) : o[j] \in 24..Len(f) BY EndsInFile
  <2>6. e \in 24..Len(f) BY <2>1, <2>5
  <2>7. e <= Len(f) /\ Len(f) >= 24 BY <2>4, <2>6
  <2>8. at \in Nat /\ e \in Nat BY <2>1 DEF LaidOutIn
  <2>9. e = at + 16 + Len(p.data) /\ Fields(f, at, HeaderStored(h, magic)) BY DEF LaidOutIn
  <2>10. \A k \in 1..Len(p.data) : f[at + 16 + k] = p.data[k] BY DEF LaidOutIn
  <2> HIDE DEF at, e, p, h
  <2> QED BY <2>1, <2>2, <2>3, <2>4, <2>7, <2>8, <2>9, <2>10
<1>5. l \in Nat /\ m \in Nat /\ at \in Nat /\ e \in Nat /\ e = at + 16 + m BY <1>1
<1>6. l = Len(d) /\ m = Len(p.data) OBVIOUS
<1> HIDE DEF at, p, h, e, l, m
<1>2. AtEnd(d, at) <=> ~(at + 16 <= Len(d)) BY <1>1 DEF AtEnd, PacketHeaderLen
<1>3. CASE ~(at + 16 <= Len(d))
  <2>1. ~(at + 16 <= l) BY <1>3, <1>6
  <2>2. ~(e <= l) BY <1>5, <2>1
  <2> QED BY <1>2, <1>3, <1>6, <2>2 DEF at, e
<1>4. CASE at + 16 <= Len(d)
  <2>1. /\ IsWord(h.ts_sec) /\ IsWord(h.ts_usec) /\ IsWord(h.incl_len) /\ IsWord(h.orig_len)
        /\ p = [header |-> h, data |-> p.data] /\ ~TooLong(h.incl_len) /\ Len(p.data) = Value(h.incl_len)
        /\ h = [ts_sec |-> h.ts_sec, ts_usec |-> h.ts_usec, incl_len |-> h.incl_len, orig_len |-> h.orig_len]
    BY <1>1 DEF IsPacket, IsHeader, h
  <2>2. /\ WordIs(f, at + 0, Stored(h.ts_sec, magic)) /\ WordIs(f, at + 4, Stored(h.ts_usec, magic))
        /\ WordIs(f, at + 8, Stored(h.incl_len, magic)) /\ WordIs(f, at + 12, Stored(h.orig_len, magic))
    <3>1. at + 0 = at BY <1>1
    <3> QED BY <1>1, <3>1 DEF Fields, HeaderStored
  <2>3. /\ at + 0 \in Nat /\ at + 4 \in Nat /\ at + 8 \in Nat /\ at + 12 \in Nat
        /\ (at + 0) + 4 <= Len(d) /\ (at + 4) + 4 <= Len(d) /\ (at + 8) + 4 <= Len(d) /\ (at + 12) + 4 <= Len(d)
        /\ (at + 0) + 4 <= Len(f) /\ (at + 4) + 4 <= Len(f) /\ (at + 8) + 4 <= Len(f) /\ (at + 12) + 4 <= Len(f)
    <3>1. at + 16 <= Len(d) /\ at + 16 <= Len(f) /\ Len(f) \in Nat /\ Len(d) \in Nat /\ at \in Nat
      <4> SUFFICES ASSUME NEW t \in Nat, t = Len(f), e <= t PROVE at + 16 <= t BY <1>1, <1>4
      <4> QED BY ONLY <1>5, t \in Nat, e <= t
    <3> QED BY ONLY <3>1
  <2>4. /\ U32At(d, at + 0) = Stored(h.ts_sec, magic) /\ U32At(d, at + 4) = Stored(h.ts_usec, magic)
        /\ U32At(d, at + 8) = Stored(h.incl_len, magic) /\ U32At(d, at + 12) = Stored(h.orig_len, magic)
    <3>1. /\ IsWord(Stored(h.ts_sec, magic)) /\ IsWord(Stored(h.ts_usec, magic))
          /\ IsWord(Stored(h.incl_len, magic)) /\ IsWord(Stored(h.orig_len, magic))
      BY <2>1, StoredTwice
    <3> DEFINE a == at + 0
               b == at + 4
               c == at + 8
               z == at + 12
    <3>a. a \in Nat /\ WordIs(f, a, Stored(h.ts_sec, magic)) /\ a + 4 <= Len(d) /\ a + 4 <= Len(f) BY <2>2, <2>3
    <3>b. b \in Nat /\ WordIs(f, b, Stored(h.ts_usec, magic)) /\ b + 4 <= Len(d) /\ b + 4 <= Len(f) BY <2>2, <2>3
    <3>c. c \in Nat /\ WordIs(f, c, Stored(h.incl_len, magic)) /\ c + 4 <= Len(d) /\ c + 4 <= Len(f) BY <2>2, <2>3
    <3>d. z \in Nat /\ WordIs(f, z, Stored(h.orig_len, magic)) /\ z + 4 <= Len(d) /\ z + 4 <= Len(f) BY <2>2, <2>3
    <3> HIDE DEF a, b, c, z
    <3>2. U32At(d, a) = Stored(h.ts_sec, magic) BY <3>1, <3>a, WordRead
    <3>3. U32At(d, b) = Stored(h.ts_usec, magic) BY <3>1, <3>b, WordRead
    <3>4. U32At(d, c) = Stored(h.incl_len, magic) BY <3>1, <3>c, WordRead
    <3>5. U32At(d, z) = Stored(h.orig_len, magic) BY <3>1, <3>d, WordRead
    <3> QED BY <3>2, <3>3, <3>4, <3>5 DEF a, b, c, z
  <2>5. Magic(d) = magic BY <1>1, BeginningIsAccepted
  <2>6. HeaderAt(d, at) = h
    <3>1. \A v : fixU32(ByteSwapped(d), v) = Stored(v, magic) BY <2>5 DEF ByteSwapped, Stored, fixU32
    <3>2. HeaderAt(d, at) = HeaderStored([ts_sec |-> U32At(d, at + 0), ts_usec |-> U32At(d, at + 4),
                                          incl_len |-> U32At(d, at + 8), orig_len |-> U32At(d, at + 12)], magic)
      BY <3>1 DEF HeaderAt, HeaderStored
    <3> QED BY <2>1, <2>4, <3>2, StoredTwice DEF HeaderStored
  <2>7. NextAt(d, at) = e BY <1>1, <2>1, <2>6 DEF NextAt, PacketHeaderLen
  <2>8. Corrupt(d, at) <=> ~(e <= Len(d))
    <3>1. at + PacketHeaderLen + Value(h.incl_len) = e BY <1>1, <2>1 DEF PacketHeaderLen
    <3>2. Corrupt(d, at) <=> Len(d) < e BY <1>2, <1>4, <2>1, <2>6, <3>1 DEF Corrupt
    <3>3. l < e <=> ~(e <= l) BY <1>5
    <3> QED BY <1>6, <3>2, <3>3
  <2>9. ASSUME e <= Len(d) PROVE PacketAt(d, at) = p
    <3> DEFINE x == SubSeq(d, at + 17, e)
    <3>1. at + PacketHeaderLen + 1 = at + 17 BY <1>1 DEF PacketHeaderLen
    <3>2. PacketAt(d, at) = [header |-> h, data |-> x] BY <2>6, <2>7, <3>1 DEF PacketAt
    <3>3. at + 17 \in Int /\ e \in Int /\ \A k \in (at + 17)..e : d[k] \in Byte
      <4>1. \A k \in 1..Len(d) : d[k] \in Byte BY ElementOfSeq DEF Agree
      <4>2. e <= l BY <1>6, <2>9
      <4>3. at + 17 \in Int /\ e \in Int /\ \A k \in (at + 17)..e : k \in 1..l BY <1>5, <4>2
      <4> QED BY <1>6, <4>1, <4>3
    <3>4. /\ x \in Seq(Byte) /\ Len(x) = IF at + 17 <= e THEN e - (at + 17) + 1 ELSE 0
          /\ \A k \in 1..(e - (at + 17) + 1) : x[k] = d[(at + 17) + k - 1]
      <4> QED BY ONLY <3>3, SubSeqProperties DEF x
    <3> HIDE DEF x
    <3>9. (IF at + 17 <= e THEN e - (at + 17) + 1 ELSE 0) = m BY <1>5
    <3>5. Len(x) = m BY <3>4, <3>9
    <3>6. ASSUME NEW k \in 1..Len(x) PROVE x[k] = p.data[k]
      <4>5. k \in 1..m /\ e <= l BY <1>6, <2>9, <3>5
      <4>1. k \in 1..(e - (at + 17) + 1) /\ (at + 17) + k - 1 = at + 16 + k /\ at + 16 + k \in 1..l
        BY <1>5, <4>5
      <4>2. x[k] = d[at + 16 + k] BY <3>4, <4>1
      <4>6. at + 16 + k \in 1..Len(f)
        <5>1. k \in 1..m /\ e <= Len(f) /\ Len(f) \in Nat BY <1>1, <4>5
        <5> QED BY ONLY <5>1, <1>5
      <4>3. d[at + 16 + k] = f[at + 16 + k] BY <1>1, <1>6, <4>1, <4>6 DEF Agree
      <4>4. f[at + 16 + k] = p.data[k] BY <1>1, <1>6, <4>5
      <4> QED BY <4>2, <4>3, <4>4
    <3>7. p.data \in Seq(Byte) BY <1>1 DEF IsPacket
    <3>8. x = p.data BY <1>6, <3>4, <3>5, <3>6, <3>7, SeqEqual
    <3> QED BY <2>1, <3>2, <3>8
  <2>10. ~AtEnd(d, at) BY <1>2, <1>4
  <2> QED BY <2>7, <2>8, <2>9, <2>10 DEF at, p, e
<1> QED BY <1>3, <1>4

-----------------------------------------------------------------------------
(* The recursion of Packets: it goes on behind the packet read.            *)
Stops(d, at) == AtEnd(d, at) \/ Corrupt(d, at)

IsReader(t, d) == \A at \in 0..Len(d) :
  t[at] = IF Stops(d, at) THEN <<>> ELSE <<PacketAt(d, at)>> \o t[NextAt(d, at)]

LEMMA WordIsBytes ==
  ASSUME NEW v, IsWord(v)
  PROVE  v \in Seq(Byte)
<1>1. \A b1, b2, b3, b4 \in Byte : <<b1, b2, b3, b4>> \in Seq(Byte) OBVIOUS
<1>2. /\ v = <<v[1], v[2], v[3], v[4]>>
      /\ v[1] \in Byte /\ v[2] \in Byte /\ v[3] \in Byte /\ v[4] \in Byte
  BY DEF IsWord
<1>3. <<v[1], v[2], v[3], v[4]>> \in Seq(Byte) BY <1>1, <1>2, Zenon
<1> QED BY <1>2, <1>3, Zenon

LEMMA PacketHasType ==
  ASSUME NEW p, IsPacket(p)
  PROVE  p \in AnyPacket
<1> DEFINE h == p.header
<1>1. IsHeader(h) /\ p = [header |-> h, data |-> p.data] /\ p.data \in Seq(Byte) BY DEF IsPacket
<1> HIDE DEF h
<1>2. /\ h.ts_sec \in Seq(Byte) /\ h.ts_usec \in Seq(Byte) /\ h.incl_len \in Seq(Byte) /\ h.orig_len \in Seq(Byte)
  BY <1>1, WordIsBytes DEF IsHeader
<1>3. h \in [ts_sec : Seq(Byte), ts_usec : Seq(Byte), incl_len : Seq(Byte), orig_len : Seq(Byte)]
  BY <1>1, <1>2 DEF IsHeader
<1> QED BY <1>1, <1>3 DEF AnyPacket

LEMMA ReaderExists ==
  ASSUME NEW d \in Seq(Byte)
  PROVE  \E t : t = [at \in 0..Len(d) |-> IF Stops(d, at) THEN <<>> ELSE <<PacketAt(d, at)>> \o t[NextAt(d, at)]]
<1> DEFINE l == Len(d)
           V == Seq(AnyPacket)
           D == 0..l
           C == {at \in D : ~Stops(d, at)}
           rank == [at \in D |-> l - at]
           next == [at \in C |-> NextAt(d, at)]
           step == [at \in C |-> [v \in V |-> <<PacketAt(d, at)>> \o v]]
           base == [at \in D |-> <<>>]
<1>1. l \in Nat BY LenProperties
<1>2. \A at \in C : PacketAt(d, at) \in AnyPacket /\ NextAt(d, at) \in (at + 1)..l
  BY PacketIsOne, PacketHasType DEF Stops
<1>3. C \subseteq D /\ rank \in [D -> Nat] /\ next \in [C -> D] /\ base \in [D -> V]
  BY <1>1, <1>2, EmptySeq
<1>4. step \in [C -> [V -> V]]
  <2>1. ASSUME NEW at \in C, NEW v \in V PROVE <<PacketAt(d, at)>> \o v \in V
    <3>1. <<PacketAt(d, at)>> \in Seq(AnyPacket) BY <1>2
    <3> QED BY <3>1, ConcatProperties
  <2> QED BY <2>1
<1>5. \A at \in C : rank[next[at]] < rank[at] BY <1>1, <1>2
<1>6. \E m \in Nat : \A at \in D : rank[at] < m
  <2>1. l + 1 \in Nat /\ \A at \in D : rank[at] < l + 1 BY <1>1
  <2> QED BY <2>1
<1>7. PICK t \in [D -> V] : Recursively(t, D, C, next, step, base)
  <2> HIDE DEF V, D, C, rank, next, step, base
  <2>1. IsRecursion(V, D, C, rank, next, step, base) BY <1>3, <1>4, <1>5, <1>6 DEF IsRecursion
  <2> QED BY <2>1, RecursionExists
<1>8. t = [at \in D |-> IF at \in C THEN step[at][t[next[at]]] ELSE base[at]] BY <1>7 DEF Recursively
<1>9. ASSUME NEW at \in D
      PROVE  (IF at \in C THEN step[at][t[next[at]]] ELSE base[at])
               = IF Stops(d, at) THEN <<>> ELSE <<PacketAt(d, at)>> \o t[NextAt(d, at)]
  <2>1. CASE at \in C
    <3>1. next[at] = NextAt(d, at) /\ next[at] \in D BY <1>3, <2>1
    <3>2. t[next[at]] \in V BY <1>7, <3>1
    <3>3. step[at][t[next[at]]] = <<PacketAt(d, at)>> \o t[NextAt(d, at)] BY <2>1, <3>1, <3>2
    <3> QED BY <2>1, <3>3
  <2>2. CASE at \notin C BY <2>2
  <2> QED BY <2>1, <2>2
<1>10. t = [at \in D |-> IF Stops(d, at) THEN <<>> ELSE <<PacketAt(d, at)>> \o t[NextAt(d, at)]]
  <2> HIDE DEF D, C, step, next, base
  <2>1. \A at \in D : (IF at \in C THEN step[at][t[next[at]]] ELSE base[at])
                       = IF Stops(d, at) THEN <<>> ELSE <<PacketAt(d, at)>> \o t[NextAt(d, at)]
    BY <1>9
  <2> QED BY <1>8, <2>1
<1> QED BY <1>10

LEMMA PacketsRead ==
  ASSUME NEW d \in Seq(Byte)
  PROVE  \E u : IsReader(u, d) /\ Packets(d) = IF Accepted(d) THEN u[GlobalHeaderLen] ELSE <<>>
<1> DEFINE F(t) == [at \in 0..Len(d) |-> IF Stops(d, at) THEN <<>> ELSE <<PacketAt(d, at)>> \o t[NextAt(d, at)]]
           u == CHOOSE t : t = F(t)
<1>1. u = F(u) BY ReaderExists
<1>2. Packets(d) = IF Accepted(d) THEN u[GlobalHeaderLen] ELSE <<>> BY DEF Packets, Stops
<1> HIDE DEF u
<1>3. IsReader(u, d) BY <1>1 DEF IsReader
<1> QED BY <1>2, <1>3

(* The beginning of a file of packets is read as the first of them; the    *)
(* whole file as all of them.                                              *)
LEMMA ReadsBack ==
  ASSUME NEW f, NEW ps, NEW o, NEW n, Layout(f, ps, o, n), NEW d, Begins(d, f)
  PROVE  /\ StartsWith(ps, Packets(d))
         /\ Len(d) = Len(f) => Accepted(d) /\ Packets(d) = ps /\ Snaplen(d) = n
<1> DEFINE N == Len(ps)
           l == Len(d)
<1>1. /\ N \in Nat /\ l \in Nat /\ Len(f) \in Nat /\ l <= Len(f) /\ o[0] = 24 /\ o[N] = Len(f)
      /\ d \in Seq(Byte) /\ ps \in Seq(AnyPacket) /\ \A i \in 0..N : o[i] \in 24..Len(f)
  BY LenProperties, LayoutIsNative, EndsInFile DEF Layout, Begins
<1>2. CASE ~(l >= 24)
  <2>1. ~Accepted(d) BY <1>2 DEF Accepted, HasHeader, GlobalHeaderLen
  <2>2. Packets(d) = <<>> BY <1>1, <2>1, PacketsRead
  <2>3. StartsWith(ps, <<>>)
    <3>1. Len(<<>>) = 0 /\ SubSeq(ps, 1, 0) = <<>> BY EmptySeq, SubSeqEmpty
    <3> QED BY <1>1, <3>1 DEF StartsWith
  <2>4. l # Len(f)
    <3>1. 24 <= Len(f)
      <4>1. 0 \in 0..N BY <1>1
      <4> QED BY <1>1, <4>1
    <3> QED BY <1>1, <1>2, <3>1
  <2> QED BY <2>2, <2>3, <2>4
<1>3. CASE l >= 24
  <2>1. Accepted(d) /\ Snaplen(d) = n BY <1>3, SnaplenIsRead
  <2>2. PICK u : IsReader(u, d) /\ Packets(d) = u[24]
    BY <1>1, <2>1, PacketsRead DEF GlobalHeaderLen
  <2> DEFINE S == {k \in Nat : k <= N /\ o[N - k] <= l =>
                     \E m \in (N - k)..N : /\ u[o[N - k]] = SubSeq(ps, (N - k) + 1, m)
                                           /\ l = Len(f) => m = N}
  <2>3. 0 \in S
    <3> SUFFICES ASSUME o[N] <= l PROVE u[o[N]] = SubSeq(ps, N + 1, N)
      <4>1. N - 0 = N /\ N \in N..N BY <1>1
      <4> QED BY <4>1
    <3>1. o[N] = l BY <1>1
    <3>2. Stops(d, l) /\ l \in 0..l BY <1>1 DEF Stops, AtEnd, PacketHeaderLen
    <3>3. u[l] = <<>> BY <2>2, <3>2 DEF IsReader
    <3>4. SubSeq(ps, N + 1, N) = <<>> BY <1>1, SubSeqEmpty
    <3> QED BY <3>1, <3>3, <3>4
  <2>4. ASSUME NEW k \in Nat, k \in S PROVE k + 1 \in S
    <3> SUFFICES ASSUME k + 1 <= N, o[N - (k + 1)] <= l
                 PROVE  \E m \in (N - (k + 1))..N : /\ u[o[N - (k + 1)]] = SubSeq(ps, (N - (k + 1)) + 1, m)
                                                    /\ l = Len(f) => m = N
      OBVIOUS
    <3> DEFINE i == N - k
               at == o[i - 1]
    <3>1. i \in 1..N /\ N - (k + 1) = i - 1 /\ (N - (k + 1)) + 1 = i /\ k <= N /\ i - 1 \in 0..N BY <1>1
    <3>2. /\ i <= N /\ o[i] <= l => \E m \in i..N : u[o[i]] = SubSeq(ps, i + 1, m) /\ (l = Len(f) => m = N)
      BY <2>4, <3>1
    <3> HIDE DEF i, S
    <3>3. at \in 0..l
      <4>1. at \in 24..Len(f) /\ at <= l BY <1>1, <3>1
      <4> QED BY <1>1, <4>1
    <3>4. u[at] = IF Stops(d, at) THEN <<>> ELSE <<PacketAt(d, at)>> \o u[NextAt(d, at)]
      BY <2>2, <3>3 DEF IsReader
    <3>5. /\ o[i] <= l => ~Stops(d, at) /\ PacketAt(d, at) = ps[i] /\ NextAt(d, at) = o[i]
          /\ ~(o[i] <= l) => Stops(d, at)
      BY <1>3, <3>1, LayoutIsNative, BeginsAgree, NextPacket DEF Stops
    <3>6. CASE o[i] <= l
      <4>1. PICK m \in i..N : u[o[i]] = SubSeq(ps, i + 1, m) /\ (l = Len(f) => m = N) BY <3>1, <3>2, <3>6
      <4>2. u[at] = <<ps[i]>> \o SubSeq(ps, i + 1, m) BY <3>4, <3>5, <3>6, <4>1
      <4>3. u[at] = SubSeq(ps, i, m) BY <1>1, <3>1, <4>2, SubSeqRecursiveFirst
      <4>4. m \in (i - 1)..N BY <3>1, <4>1
      <4> QED BY <3>1, <4>1, <4>3, <4>4
    <3>7. CASE ~(o[i] <= l)
      <4>1. u[at] = <<>> BY <3>4, <3>5, <3>7
      <4>2. SubSeq(ps, i, i - 1) = <<>> BY <3>1, SubSeqEmpty
      <4>3. l # Len(f)
        <5>1. o[i] \in 24..Len(f) BY <1>1, <3>1
        <5> QED BY <1>1, <3>7, <5>1
      <4>4. i - 1 \in (i - 1)..N BY <1>1, <3>1
      <4> QED BY <3>1, <4>1, <4>2, <4>3, <4>4
    <3> QED BY <3>6, <3>7
  <2> HIDE DEF S
  <2>5. N \in S BY <1>1, <2>3, <2>4, Induction
  <2>6. PICK m \in 0..N : u[24] = SubSeq(ps, 1, m) /\ (l = Len(f) => m = N)
    <3>1. N - N = 0 /\ N <= N /\ 0 + 1 = 1 /\ o[0] <= l BY <1>1, <1>3
    <3> QED BY <1>1, <2>5, <3>1 DEF S
  <2>7. StartsWith(ps, u[24])
    <3>1. \A j \in 1..m : ps[j] \in AnyPacket
      <4>1. \A j \in 1..N : ps[j] \in AnyPacket BY <1>1, ElementOfSeq
      <4> QED BY <1>1, <2>6, <4>1
    <3>2. 1 \in Int /\ m \in Int BY <1>1
    <3>3. Len(SubSeq(ps, 1, m)) = IF 1 <= m THEN m - 1 + 1 ELSE 0 BY <3>1, <3>2, SubSeqProperties
    <3>4. Len(SubSeq(ps, 1, m)) = m BY <1>1, <3>3
    <3> QED BY <1>1, <2>6, <3>4 DEF StartsWith
  <2>8. l = Len(f) => u[24] = ps BY <1>1, <2>6, SubSeqFull
  <2> QED BY <2>1, <2>2, <2>7, <2>8
<1> QED BY <1>2, <1>3

-----------------------------------------------------------------------------
LEMMA WordMoves ==
  ASSUME NEW b, NEW g, NEW l \in Nat, NEW m \in Nat, NEW at \in Nat, at + 4 <= m,
         \A k \in 1..m : g[l + k] = b[k], NEW v, WordIs(b, at, v)
  PROVE  WordIs(g, l + at, v)
<1>1. /\ (l + at) + 1 = l + (at + 1) /\ (l + at) + 2 = l + (at + 2)
      /\ (l + at) + 3 = l + (at + 3) /\ (l + at) + 4 = l + (at + 4)
      /\ at + 1 \in 1..m /\ at + 2 \in 1..m /\ at + 3 \in 1..m /\ at + 4 \in 1..m
  OBVIOUS
<1>2. /\ g[l + (at + 1)] = b[at + 1] /\ g[l + (at + 2)] = b[at + 2]
      /\ g[l + (at + 3)] = b[at + 3] /\ g[l + (at + 4)] = b[at + 4]
  BY <1>1
<1> QED BY <1>1, <1>2 DEF WordIs

LEMMA FieldsMove ==
  ASSUME NEW b, NEW g, NEW l \in Nat, NEW m \in Nat, 16 <= m,
         \A k \in 1..m : g[l + k] = b[k], NEW h, Fields(b, 0, h)
  PROVE  Fields(g, l, h)
<1>1. WordIs(b, 0, h.ts_sec) /\ WordIs(b, 4, h.ts_usec) /\ WordIs(b, 8, h.incl_len) /\ WordIs(b, 12, h.orig_len)
  <2>1. 0 + 4 = 4 /\ 0 + 8 = 8 /\ 0 + 12 = 12 OBVIOUS
  <2> QED BY <2>1 DEF Fields
<1>2. 0 + 4 <= m /\ 4 + 4 <= m /\ 8 + 4 <= m /\ 12 + 4 <= m /\ l + 0 = l OBVIOUS
<1>3. /\ WordIs(g, l + 0, h.ts_sec) /\ WordIs(g, l + 4, h.ts_usec)
      /\ WordIs(g, l + 8, h.incl_len) /\ WordIs(g, l + 12, h.orig_len)
  BY <1>1, <1>2, WordMoves
<1> QED BY <1>2, <1>3 DEF Fields

LEMMA FieldsStay ==
  ASSUME NEW s, NEW t, NEW at \in Nat, \A k \in 1..(at + 16) : t[k] = s[k], NEW h, Fields(s, at, h)
  PROVE  Fields(t, at, h)
<1>1. /\ \A k \in 1..(at + 4) : t[k] = s[k]
      /\ \A k \in 1..((at + 4) + 4) : t[k] = s[k]
      /\ \A k \in 1..((at + 8) + 4) : t[k] = s[k]
      /\ \A k \in 1..((at + 12) + 4) : t[k] = s[k]
  OBVIOUS
<1>2. at + 4 \in Nat /\ at + 8 \in Nat /\ at + 12 \in Nat OBVIOUS
<1> QED BY <1>1, <1>2, WordStays DEF Fields

(* A packet written behind a file of packets makes a file of one more.     *)
LEMMA LayoutAppends ==
  ASSUME NEW f, NEW ps, NEW o, NEW n, Layout(f, ps, o, n), NEW p, IsPacket(p)
  PROVE  \E o2 : Layout(f \o PacketBytes(p), Append(ps, p), o2, n)
<1> DEFINE N == Len(ps)
           l == Len(f)
           m == Len(p.data)
           b == PacketBytes(p)
           g == f \o b
           qs == Append(ps, p)
           o2 == [i \in 0..(N + 1) |-> IF i = N + 1 THEN l + 16 + m ELSE o[i]]
<1>1. /\ N \in Nat /\ l \in Nat /\ m \in Nat /\ f \in Seq(Byte) /\ ps \in Seq(AnyPacket) /\ IsWord(n)
      /\ b \in Seq(Byte) /\ Len(b) = 16 + m /\ Fields(b, 0, p.header)
      /\ \A k \in 1..m : b[16 + k] = p.data[k]
      /\ o \in [0..N -> Nat] /\ o[0] = 24 /\ o[N] = l
      /\ \A i \in 0..N : o[i] \in 24..l
  BY LenProperties, PacketIsWritten, LayoutIsNative, EndsInFile DEF Layout
<1>2. /\ qs \in Seq(AnyPacket) /\ Len(qs) = N + 1 /\ qs[N + 1] = p
      /\ \A i \in 1..N : qs[i] = ps[i]
  BY <1>1, PacketHasType, AppendProperties
<1>3. /\ \A i \in 1..N :
           /\ IsPacket(ps[i]) /\ Len(ps[i].data) \in Nat
           /\ o[i] = o[i - 1] + 16 + Len(ps[i].data)
           /\ Fields(f, o[i - 1], ps[i].header)
           /\ \A k \in 1..Len(ps[i].data) : f[o[i - 1] + 16 + k] = ps[i].data[k]
      /\ WordIs(f, 0, PCAP_MAGIC_NATIVE) /\ WordIs(f, 16, n)
  BY LenProperties DEF Layout, IsPacket
<1>0. /\ N \in Nat /\ l \in Nat /\ m \in Nat /\ Len(b) = 16 + m /\ \A i \in 0..N : o[i] \in 24..l BY <1>1
<1> HIDE DEF N, l, m, b, qs
<1>4. /\ g \in Seq(Byte) /\ Len(g) = l + 16 + m
      /\ \A k \in 1..l : g[k] = f[k]
      /\ \A k \in 1..(16 + m) : g[l + k] = b[k]
  <2>1. /\ g \in Seq(Byte) /\ Len(g) = l + Len(b)
        /\ \A k \in 1..(l + Len(b)) : g[k] = IF k <= l THEN f[k] ELSE b[k - l]
    <3>1. /\ f \o b \in Seq(Byte) /\ Len(f \o b) = Len(f) + Len(b)
          /\ \A k \in 1..(Len(f) + Len(b)) : (f \o b)[k] = IF k <= Len(f) THEN f[k] ELSE b[k - Len(f)]
      <4>1. f \in Seq(Byte) /\ b \in Seq(Byte) BY <1>1
      <4> QED BY ONLY <4>1, ConcatProperties
    <3> QED BY <3>1 DEF l
  <2> HIDE DEF g
  <2>2. \A k \in 1..(16 + m) : l + k \in 1..(l + Len(b)) /\ ~(l + k <= l) /\ (l + k) - l = k BY <1>0
  <2>3. \A k \in 1..l : k \in 1..(l + Len(b)) /\ k <= l BY <1>0
  <2>4. l + Len(b) = l + 16 + m BY <1>0
  <2>5. \A k \in 1..l : g[k] = f[k] BY <2>1, <2>3
  <2>6. \A k \in 1..(16 + m) : g[l + k] = b[k] BY <2>1, <2>2
  <2> QED BY <2>1, <2>4, <2>5, <2>6
<1>5. /\ o2 \in [0..(N + 1) -> Nat] /\ o2[N + 1] = l + 16 + m
      /\ \A i \in 0..N : o2[i] = o[i]
  BY <1>1
<1> HIDE DEF g, o2
<1>6. WordIs(g, 0, PCAP_MAGIC_NATIVE) /\ WordIs(g, 16, n)
  <2>1. 24 <= l
    <3>1. 0 \in 0..N BY <1>1
    <3> QED BY <1>1, <3>1
  <2>2. /\ \A k \in 1..(0 + 4) : g[k] = f[k]
        /\ \A k \in 1..(16 + 4) : g[k] = f[k]
    <3>1. 1..(0 + 4) \subseteq 1..l /\ 1..(16 + 4) \subseteq 1..l BY <1>0, <2>1
    <3> QED BY <1>4, <3>1
  <2> QED BY <1>3, <2>2, WordStays
<1>7. ASSUME NEW i \in 1..(N + 1)
      PROVE  /\ IsPacket(qs[i])
             /\ o2[i] = o2[i - 1] + 16 + Len(qs[i].data)
             /\ Fields(g, o2[i - 1], qs[i].header)
             /\ \A k \in 1..Len(qs[i].data) : g[o2[i - 1] + 16 + k] = qs[i].data[k]
  <2>1. CASE i = N + 1
    <3>1. i - 1 = N /\ N \in 0..N /\ qs[i] = p /\ o2[i - 1] = l /\ o2[i] = l + 16 + m BY <1>1, <1>2, <1>5, <2>1
    <3>2. Fields(g, l, p.header)
      <4>1. l \in Nat /\ 16 <= 16 + m /\ 16 + m \in Nat BY <1>0
      <4>2. Fields(b, 0, p.header) /\ \A k \in 1..(16 + m) : g[l + k] = b[k] BY <1>1, <1>4
      <4> QED BY <4>1, <4>2, FieldsMove
    <3>3. ASSUME NEW k \in 1..m PROVE g[l + 16 + k] = p.data[k]
      <4>1. 16 + k \in 1..(16 + m) /\ l + (16 + k) = l + 16 + k BY <1>0
      <4> QED BY <1>1, <1>4, <4>1
    <3> QED BY <3>1, <3>2, <3>3 DEF m
  <2>2. CASE i # N + 1
    <3>1. i \in 1..N /\ i - 1 \in 0..N /\ i \in 0..N BY <1>1, <2>2
    <3>2. qs[i] = ps[i] /\ o2[i] = o[i] /\ o2[i - 1] = o[i - 1] BY <1>2, <1>5, <3>1
    <3> DEFINE at == o[i - 1]
               h == ps[i].header
               x == ps[i].data
               j == Len(x)
    <3>3. /\ at \in Nat /\ j \in Nat /\ o[i] = at + 16 + j /\ o[i] \in Nat /\ o[i] <= l
          /\ IsPacket(ps[i]) /\ Fields(f, at, h) /\ \A k \in 1..j : f[at + 16 + k] = x[k]
      <4>1. at \in 24..l /\ o[i] \in 24..l BY <1>0, <3>1
      <4>2. at \in Nat /\ o[i] \in Nat /\ o[i] <= l BY <1>0, <4>1
      <4>3. /\ IsPacket(ps[i]) /\ j \in Nat /\ o[i] = at + 16 + j /\ Fields(f, at, h)
            /\ \A k \in 1..j : f[at + 16 + k] = x[k]
        BY <1>3, <3>1
      <4> QED BY <4>2, <4>3
    <3>8. at \in Nat /\ j \in Nat /\ o[i] = at + 16 + j /\ o[i] <= l BY <3>3
    <3> HIDE DEF at, h, x, j
    <3>4. at + 16 + j <= l BY <3>8
    <3>5. \A k \in 1..(at + 16) : g[k] = f[k]
      <4>1. 1..(at + 16) \subseteq 1..l BY <1>0, <3>4, <3>8
      <4> QED BY <1>4, <4>1
    <3>6. Fields(g, at, h) BY <3>3, <3>5, FieldsStay
    <3>7. ASSUME NEW k \in 1..j PROVE g[at + 16 + k] = x[k]
      <4>1. at + 16 + k \in 1..l BY <1>0, <3>4, <3>8
      <4> QED BY <1>4, <3>3, <4>1
    <3> QED BY <3>2, <3>3, <3>6, <3>7 DEF at, h, x, j
  <2> QED BY <2>1, <2>2
<1>8. o2[0] = 24 /\ Len(g) = o2[N + 1]
  <2>1. 0 \in 0..N BY <1>1
  <2> QED BY <1>1, <1>4, <1>5, <2>1
<1>9. Layout(g, qs, o2, n) BY <1>1, <1>2, <1>4, <1>5, <1>6, <1>7, <1>8 DEF Layout
<1> QED BY <1>9 DEF g, b, qs

(* A file that has only its header. *)
LEMMA LayoutStarts ==
  ASSUME NEW c \in Seq(Byte), HasHeader(c)
  PROVE  \E o : Layout(FileHeader(c), <<>>, o, Snaplen(c))
<1> DEFINE s == FileHeader(c)
           o == [i \in 0..0 |-> 24]
           e == <<>>
<1>1. /\ s \in Seq(Byte) /\ Len(s) = 24 /\ WordIs(s, 0, PCAP_MAGIC_NATIVE)
      /\ WordIs(s, 16, Snaplen(c)) /\ IsWord(Snaplen(c))
  BY HeaderIsWritten
<1>2. e \in Seq(AnyPacket) /\ Len(e) = 0 BY EmptySeq
<1>3. o \in [0..0 -> Nat] /\ o[0] = 24 OBVIOUS
<1>4. \A i \in 1..0 : FALSE OBVIOUS
<1> HIDE DEF s, o, e
<1>5. Layout(s, e, o, Snaplen(c)) BY <1>1, <1>2, <1>3, <1>4 DEF Layout
<1> QED BY <1>5 DEF s, e

LEMMA BytesAssociative ==
  \A a, b, c \in Seq(Byte) : (a \o b) \o c = a \o (b \o c)
BY ConcatAssociative

(* The front of the buffer goes to the disk, the rest stays. *)
LEMMA Split ==
  ASSUME NEW d \in Seq(Byte), NEW a \in Seq(Byte), NEW n \in 0..Len(a)
  PROVE  LET front == d \o SubSeq(a, 1, n)
             rest  == SubSeq(a, n + 1, Len(a))
         IN /\ front \in Seq(Byte) /\ Len(front) = Len(d) + n /\ rest \in Seq(Byte)
            /\ front \o rest = d \o a
            /\ Begins(front, d \o a) /\ (n = Len(a) => front = d \o a)
<1> DEFINE x == SubSeq(a, 1, n)
           y == SubSeq(a, n + 1, Len(a))
           front == d \o x
<1>1. Len(a) \in Nat /\ Len(d) \in Nat /\ \A k \in 1..Len(a) : a[k] \in Byte BY LenProperties, ElementOfSeq
<1>2. x \in Seq(Byte) /\ Len(x) = n
  <2>1. 1 \in Int /\ n \in Int /\ \A k \in 1..n : a[k] \in Byte BY <1>1
  <2>2. x \in Seq(Byte) /\ Len(x) = IF 1 <= n THEN n - 1 + 1 ELSE 0 BY <2>1, SubSeqProperties
  <2> QED BY <1>1, <2>2
<1>3. y \in Seq(Byte)
  <2>1. n + 1 \in Int /\ Len(a) \in Int /\ \A k \in (n + 1)..Len(a) : a[k] \in Byte BY <1>1
  <2> QED BY <2>1, SubSeqProperties
<1>4. x \o y = a
  <2>1. 1 \in 1..(Len(a) + 1) /\ n \in (1 - 1)..Len(a) /\ Len(a) \in n..Len(a) BY <1>1
  <2>2. x \o y = SubSeq(a, 1, Len(a)) BY <2>1, ConcatAdjacentSubSeq
  <2> QED BY <2>2, SubSeqFull
<1>5. n = Len(a) => x = a BY SubSeqFull
<1> HIDE DEF x, y
<1>6. /\ front \in Seq(Byte) /\ Len(front) = Len(d) + n
  BY <1>2, ConcatProperties
<1>7. front \o y = d \o a
  <2>1. (d \o x) \o y = d \o (x \o y)
    <3>1. d \in Seq(Byte) /\ x \in Seq(Byte) /\ y \in Seq(Byte) BY <1>2, <1>3
    <3> QED BY <3>1, BytesAssociative
  <2> QED BY <1>4, <2>1
<1>8. Begins(front, front \o y)
  <2> HIDE DEF front
  <2>1. Len(front) \in Nat /\ Len(y) \in Nat BY <1>3, <1>6, LenProperties
  <2>2. /\ front \o y \in Seq(Byte) /\ Len(front \o y) = Len(front) + Len(y)
        /\ \A k \in 1..(Len(front) + Len(y)) : (front \o y)[k] = IF k <= Len(front) THEN front[k] ELSE y[k - Len(front)]
    BY <1>3, <1>6, ConcatProperties
  <2>3. \A k \in 1..Len(front) : k \in 1..(Len(front) + Len(y)) /\ k <= Len(front) BY <2>1
  <2>4. Len(front) <= Len(front) + Len(y) BY <2>1
  <2> QED BY <1>6, <2>2, <2>3, <2>4 DEF Begins
<1> QED BY <1>3, <1>5, <1>6, <1>7, <1>8 DEF x, y

LEMMA WholeBlocks ==
  ASSUME NEW n \in Nat, NEW b \in Nat \ {0}
  PROVE  b * (n \div b) \in 0..n
<1> DEFINE q == n \div b
<1>1. n = b * q + (n % b) /\ n % b \in 0..(b - 1) /\ q \in Nat
  OBVIOUS
<1> QED BY <1>1

-----------------------------------------------------------------------------
(* What disk and buffer hold together is a file of the packets kept; once  *)
(* the process is gone, the disk holds the beginning of one, and all of it *)
(* after a regular end, unless the disk is full.                           *)
IsFileOf(f, ps, c) == \E o : Layout(f, ps, o, Snaplen(c))

FileTypes ==
  /\ capture \in Captures /\ bufferSize \in Nat \ {0} /\ room \in Nat /\ position \in Nat
  /\ disk \in Seq(Byte) /\ buffered \in Seq(Byte) /\ Len(disk) <= room

OpeningInv == run = "opening" => disk = <<>> /\ buffered = <<>> /\ kept = <<>>

ReadingInv == run = "reading" => Accepted(input) /\ IsFileOf(disk \o buffered, kept, input)

LeftBehind == \E f : /\ IsFileOf(f, kept, input) /\ Begins(disk, f)
                     /\ run = "ended" /\ Len(disk) < room => Len(disk) = Len(f)

StoppedInv == run \in {"ended", "refused", "crashed"} =>
                \/ run # "ended" /\ disk = <<>> /\ kept = <<>>
                \/ Accepted(input) /\ LeftBehind

FileInv == /\ FileTypes /\ run \in {"opening", "reading", "ended", "refused", "crashed"}
           /\ OpeningInv /\ ReadingInv /\ StoppedInv

LEMMA InputIsBytes ==
  ASSUME FileTypes
  PROVE  input \in Seq(Byte)
BY CaptureFilesAssumption DEF FileTypes, input, Byte

LEMMA BytesWritten ==
  ASSUME FileTypes
  PROVE  \A bytes \in Seq(Byte) :
           /\ Write(bytes) => /\ disk' \in Seq(Byte) /\ buffered' \in Seq(Byte) /\ Len(disk') <= room
                              /\ disk' \o buffered' = (disk \o buffered) \o bytes
           /\ WriteFails(bytes) => /\ disk' \in Seq(Byte) /\ buffered' = <<>> /\ Len(disk') <= room
                                   /\ Begins(disk', (disk \o buffered) \o bytes)
<1> SUFFICES ASSUME NEW bytes \in Seq(Byte)
             PROVE  /\ Write(bytes) => /\ disk' \in Seq(Byte) /\ buffered' \in Seq(Byte) /\ Len(disk') <= room
                                       /\ disk' \o buffered' = (disk \o buffered) \o bytes
                    /\ WriteFails(bytes) => /\ disk' \in Seq(Byte) /\ buffered' = <<>> /\ Len(disk') <= room
                                            /\ Begins(disk', (disk \o buffered) \o bytes)
  OBVIOUS
<1> DEFINE all == buffered \o bytes
           n == Blocks(all)
           m == room - Len(disk)
<1>1. disk \in Seq(Byte) /\ buffered \in Seq(Byte) /\ Len(disk) \in Nat /\ room \in Nat /\ Len(disk) <= room
  BY LenProperties DEF FileTypes
<1>2. all \in Seq(Byte) /\ Len(all) \in Nat /\ disk \o all = (disk \o buffered) \o bytes
  <2>1. all \in Seq(Byte) BY <1>1, ConcatProperties
  <2>2. disk \o all = (disk \o buffered) \o bytes
    <3>1. (disk \o buffered) \o bytes = disk \o (buffered \o bytes) BY <1>1, BytesAssociative
    <3> QED BY <3>1
  <2> HIDE DEF all
  <2> QED BY <2>1, <2>2, LenProperties
<1> HIDE DEF all
<1>3. n \in 0..Len(all) BY <1>2, WholeBlocks DEF FileTypes, Blocks
<1> HIDE DEF n
<1>4. ASSUME Write(bytes)
      PROVE  /\ disk' \in Seq(Byte) /\ buffered' \in Seq(Byte) /\ Len(disk') <= room
             /\ disk' \o buffered' = (disk \o buffered) \o bytes
  <2>1. /\ Len(disk) + n <= room /\ disk' = disk \o SubSeq(all, 1, n) /\ buffered' = SubSeq(all, n + 1, Len(all))
    BY <1>4 DEF Write, Fits, all, n
  <2> QED BY <1>1, <1>2, <1>3, <2>1, Split
<1>5. ASSUME WriteFails(bytes)
      PROVE  /\ disk' \in Seq(Byte) /\ buffered' = <<>> /\ Len(disk') <= room
             /\ Begins(disk', (disk \o buffered) \o bytes)
  <2>1. ~(Len(disk) + n <= room) /\ disk' = disk \o SubSeq(all, 1, m) /\ buffered' = <<>>
    BY <1>5 DEF WriteFails, Fits, all, n
  <2>2. m \in 0..Len(all) /\ Len(disk) + m = room
    <3> DEFINE l == Len(disk)
               a == Len(all)
    <3>1. l \in Nat /\ a \in Nat /\ n \in 0..a /\ l <= room /\ ~(l + n <= room) BY <1>1, <1>2, <1>3, <2>1
    <3>2. m = room - l OBVIOUS
    <3> HIDE DEF l, a, m
    <3>3. m \in 0..a /\ l + m = room BY <1>1, <3>1, <3>2
    <3> QED BY <3>3 DEF l, a
  <2> HIDE DEF m
  <2>3. disk' \in Seq(Byte) /\ Len(disk') = room /\ Begins(disk', disk \o all)
    BY <1>1, <1>2, <2>1, <2>2, Split
  <2> QED BY <1>1, <1>2, <2>1, <2>3
<1> QED BY <1>4, <1>5

(* A read leaves the reader in its file, with a packet. *)
LEMMA PacketGot ==
  ASSUME FileTypes, Read
  PROVE  /\ IsPacket(Packet) /\ PacketBytes(Packet) \in Seq(Byte) /\ run = "reading"
         /\ position' \in Nat /\ UNCHANGED <<capture, bufferSize, room>>
<1>1. /\ ~AtEnd(input, position) /\ ~Corrupt(input, position) /\ run = "reading"
      /\ position' = NextAt(input, position) /\ UNCHANGED <<capture, bufferSize, room>>
  BY DEF Read
<1>2. position \in Nat BY DEF FileTypes
<1>3. IsPacket(Packet) /\ position' \in Nat BY <1>1, <1>2, InputIsBytes, PacketIsOne DEF Packet
<1> QED BY <1>1, <1>3, PacketIsWritten

LEMMA FilesInitInv == FilesInit => FileInv
<1> SUFFICES ASSUME FilesInit PROVE FileInv
  OBVIOUS
<1>1. <<>> \in Seq(Byte) /\ Len(<<>>) = 0 BY EmptySeq
<1>2. bufferSize \in Nat \ {0} /\ room \in Nat BY CaptureFilesAssumption DEF FilesInit
<1>3. FileTypes BY <1>1, <1>2 DEF FilesInit, FileTypes
<1> QED BY <1>3 DEF FilesInit, FileInv, OpeningInv, ReadingInv, StoppedInv

LEMMA FilesStep == FileInv /\ [FilesNext]_fileVars => FileInv'
<1> SUFFICES ASSUME FileInv, [FilesNext]_fileVars PROVE FileInv'
  OBVIOUS
<1>0. FileTypes BY DEF FileInv
<1>1. CASE Open
  <2>1. /\ run = "opening" /\ Accepted(input) /\ Write(FileHeader(input)) /\ run' = "reading"
        /\ position' = 24 /\ UNCHANGED <<capture, bufferSize, room, kept>>
    BY <1>1 DEF Open, GlobalHeaderLen
  <2>2. disk \o buffered = <<>> /\ kept = <<>>
    <3>1. disk = <<>> /\ buffered = <<>> /\ kept = <<>> BY <2>1 DEF FileInv, OpeningInv
    <3> QED BY <1>0, <3>1, ConcatEmptySeq DEF FileTypes
  <2>3. FileHeader(input) \in Seq(Byte) /\ IsFileOf(FileHeader(input), <<>>, input)
    BY <1>0, <2>1, InputIsBytes, HeaderIsWritten, LayoutStarts DEF Accepted, IsFileOf
  <2>4. /\ disk' \in Seq(Byte) /\ buffered' \in Seq(Byte) /\ Len(disk') <= room
        /\ disk' \o buffered' = FileHeader(input)
    BY <1>0, <2>1, <2>2, <2>3, BytesWritten, ConcatEmptySeq
  <2>5. FileTypes' BY <1>0, <2>1, <2>4 DEF FileTypes
  <2>6. ReadingInv' BY <2>1, <2>2, <2>3, <2>4 DEF ReadingInv, input
  <2> QED BY <2>1, <2>5, <2>6 DEF FileInv, OpeningInv, StoppedInv
<1>2. CASE OpenFails
  <2>1. run = "opening" /\ run' = "refused" /\ UNCHANGED <<capture, bufferSize, room, position, kept>>
    BY <1>2 DEF OpenFails
  <2>2. disk = <<>> /\ buffered = <<>> /\ kept = <<>> BY <2>1 DEF FileInv, OpeningInv
  <2>3. CASE UNCHANGED <<buffered, disk>>
    <3>1. FileTypes' BY <1>0, <2>1, <2>3 DEF FileTypes
    <3>2. StoppedInv' BY <2>1, <2>2, <2>3 DEF StoppedInv
    <3> QED BY <2>1, <3>1, <3>2 DEF FileInv, OpeningInv, ReadingInv
  <2>4. CASE Accepted(input) /\ WriteFails(FileHeader(input))
    <3>1. FileHeader(input) \in Seq(Byte) /\ IsFileOf(FileHeader(input), <<>>, input)
      BY <1>0, <2>4, InputIsBytes, HeaderIsWritten, LayoutStarts DEF Accepted, IsFileOf
    <3>2. disk \o buffered = <<>> BY <1>0, <2>2, ConcatEmptySeq DEF FileTypes
    <3>3. /\ disk' \in Seq(Byte) /\ buffered' = <<>> /\ Len(disk') <= room /\ Begins(disk', FileHeader(input))
      BY <1>0, <2>4, <3>1, <3>2, BytesWritten, ConcatEmptySeq
    <3>4. FileTypes' BY <1>0, <2>1, <3>3, EmptySeq DEF FileTypes
    <3>5. StoppedInv' BY <2>1, <2>2, <2>4, <3>1, <3>3 DEF StoppedInv, LeftBehind, input
    <3> QED BY <2>1, <3>4, <3>5 DEF FileInv, OpeningInv, ReadingInv
  <2> QED BY <1>2, <2>3, <2>4 DEF OpenFails
<1>3. CASE DropPacket
  <2>1. Read /\ UNCHANGED <<run, kept, buffered, disk>> BY <1>3 DEF DropPacket
  <2>2. run = "reading" /\ position' \in Nat /\ UNCHANGED <<capture, bufferSize, room>> BY <1>0, <2>1, PacketGot
  <2>3. FileTypes' BY <1>0, <2>1, <2>2 DEF FileTypes
  <2>4. ReadingInv' BY <2>1, <2>2 DEF FileInv, ReadingInv, input
  <2> QED BY <2>1, <2>2, <2>3, <2>4 DEF FileInv, OpeningInv, StoppedInv
<1>4. ASSUME Read, kept' = Append(kept, Packet)
      PROVE  LET f == (disk \o buffered) \o PacketBytes(Packet) IN
             Accepted(input') /\ IsFileOf(f, kept', input')
  <2>1. IsPacket(Packet) /\ run = "reading" /\ input' = input BY <1>0, <1>4, PacketGot DEF input
  <2>2. Accepted(input) /\ IsFileOf(disk \o buffered, kept, input) BY <2>1 DEF FileInv, ReadingInv
  <2>3. IsFileOf((disk \o buffered) \o PacketBytes(Packet), Append(kept, Packet), input)
    BY <2>1, <2>2, LayoutAppends DEF IsFileOf
  <2> QED BY <1>4, <2>1, <2>2, <2>3
<1>5. CASE KeepPacket
  <2>1. Read /\ Write(PacketBytes(Packet)) /\ kept' = Append(kept, Packet) /\ UNCHANGED run BY <1>5 DEF KeepPacket
  <2>2. /\ PacketBytes(Packet) \in Seq(Byte) /\ run = "reading" /\ position' \in Nat
        /\ UNCHANGED <<capture, bufferSize, room>>
    BY <1>0, <2>1, PacketGot
  <2>3. /\ disk' \in Seq(Byte) /\ buffered' \in Seq(Byte) /\ Len(disk') <= room
        /\ disk' \o buffered' = (disk \o buffered) \o PacketBytes(Packet)
    BY <1>0, <2>1, <2>2, BytesWritten
  <2>4. FileTypes' BY <1>0, <2>2, <2>3 DEF FileTypes
  <2>5. ReadingInv' BY <1>4, <2>1, <2>3 DEF ReadingInv
  <2> QED BY <2>1, <2>2, <2>4, <2>5 DEF FileInv, OpeningInv, StoppedInv
<1>6. CASE KeepFails
  <2>1. Read /\ WriteFails(PacketBytes(Packet)) /\ kept' = Append(kept, Packet) /\ run' = "crashed"
    BY <1>6 DEF KeepFails
  <2>2. /\ PacketBytes(Packet) \in Seq(Byte) /\ run = "reading" /\ position' \in Nat
        /\ UNCHANGED <<capture, bufferSize, room>>
    BY <1>0, <2>1, PacketGot
  <2>3. /\ disk' \in Seq(Byte) /\ buffered' = <<>> /\ Len(disk') <= room
        /\ Begins(disk', (disk \o buffered) \o PacketBytes(Packet))
    BY <1>0, <2>1, <2>2, BytesWritten
  <2>4. FileTypes' BY <1>0, <2>2, <2>3, EmptySeq DEF FileTypes
  <2>5. LeftBehind' BY <1>4, <2>1, <2>3 DEF LeftBehind
  <2>6. StoppedInv' BY <1>4, <2>1, <2>5 DEF StoppedInv
  <2> QED BY <2>1, <2>4, <2>6 DEF FileInv, OpeningInv, ReadingInv
<1>7. CASE run = "reading" /\ Crash
  <2>1. /\ run = "reading" /\ run' = "crashed" /\ buffered' = <<>>
        /\ UNCHANGED <<capture, bufferSize, room, position, kept, disk>>
    BY <1>7 DEF Crash
  <2>2. FileTypes' BY <1>0, <2>1, EmptySeq DEF FileTypes
  <2>3. Accepted(input) /\ IsFileOf(disk \o buffered, kept, input) BY <2>1 DEF FileInv, ReadingInv
  <2>4. Begins(disk, disk \o buffered)
    <3>1. /\ disk \in Seq(Byte) /\ buffered \in Seq(Byte) /\ 0 \in 0..Len(buffered)
          /\ disk \o SubSeq(buffered, 1, 0) = disk
      <4>1. disk \in Seq(Byte) /\ buffered \in Seq(Byte) /\ Len(buffered) \in Nat BY <1>0, LenProperties DEF FileTypes
      <4>2. SubSeq(buffered, 1, 0) = <<>> BY SubSeqEmpty
      <4> QED BY <4>1, <4>2, ConcatEmptySeq
    <3> QED BY <3>1, Split
  <2>5. LeftBehind' BY <2>1, <2>3, <2>4 DEF LeftBehind, input
  <2>6. StoppedInv' BY <2>1, <2>3, <2>5 DEF StoppedInv, input
  <2> QED BY <2>1, <2>2, <2>6 DEF FileInv, OpeningInv, ReadingInv
<1>8. CASE Finish
  <2> DEFINE n == IF Fits(Len(buffered)) THEN Len(buffered) ELSE room - Len(disk)
  <2>1. /\ run = "reading" /\ run' = "ended" /\ buffered' = <<>> /\ disk' = disk \o SubSeq(buffered, 1, n)
        /\ UNCHANGED <<capture, bufferSize, room, position, kept>>
    BY <1>8 DEF Finish
  <2>2. Accepted(input) /\ IsFileOf(disk \o buffered, kept, input) BY <2>1 DEF FileInv, ReadingInv
  <2>3. disk \in Seq(Byte) /\ buffered \in Seq(Byte) /\ Len(disk) \in Nat /\ Len(buffered) \in Nat
    BY <1>0, LenProperties DEF FileTypes
  <2>4. n \in 0..Len(buffered) /\ Len(disk) + n <= room /\ (Len(disk) + n < room => n = Len(buffered))
    <3> DEFINE l == Len(disk)
               b == Len(buffered)
    <3>1. l \in Nat /\ b \in Nat /\ room \in Nat /\ l <= room BY <1>0, <2>3 DEF FileTypes
    <3>2. n = IF l + b <= room THEN b ELSE room - l BY DEF Fits
    <3> HIDE DEF l, b, n
    <3>3. n \in 0..b /\ l + n <= room /\ (l + n < room => n = b) BY <3>1, <3>2
    <3> QED BY <3>3 DEF l, b
  <2> HIDE DEF n
  <2>5. /\ disk' \in Seq(Byte) /\ Len(disk') = Len(disk) + n /\ Begins(disk', disk \o buffered)
        /\ n = Len(buffered) => disk' = disk \o buffered
    BY <2>1, <2>3, <2>4, Split
  <2>6. FileTypes' BY <1>0, <2>1, <2>4, <2>5, EmptySeq DEF FileTypes
  <2>7. Len(disk') < room => Len(disk') = Len(disk \o buffered) BY <2>4, <2>5
  <2>8. LeftBehind' BY <2>1, <2>2, <2>5, <2>7 DEF LeftBehind, input
  <2>9. StoppedInv' BY <2>1, <2>2, <2>8 DEF StoppedInv, input
  <2> QED BY <2>1, <2>6, <2>9 DEF FileInv, OpeningInv, ReadingInv
<1>9. CASE UNCHANGED fileVars
  <2>1. UNCHANGED <<capture, bufferSize, room, run, position, kept, buffered, disk>> BY <1>9 DEF fileVars
  <2> QED BY <2>1 DEF FileInv, FileTypes, OpeningInv, ReadingInv, StoppedInv, LeftBehind, input
<1>10. FilesNext => \/ Open \/ OpenFails \/ DropPacket \/ KeepPacket \/ KeepFails
                    \/ (run = "reading" /\ Crash) \/ Finish \/ UNCHANGED fileVars
  BY DEF FilesNext, ReadFails, Killed, Stopped
<1> QED BY <1>1, <1>2, <1>3, <1>5, <1>6, <1>7, <1>8, <1>9, <1>10

LEMMA FilesBack == FileInv => OutputReadsBack
<1> SUFFICES ASSUME FileInv PROVE OutputReadsBack
  OBVIOUS
<1>0. disk \in Seq(Byte) /\ buffered \in Seq(Byte) BY DEF FileInv, FileTypes
<1>1. CASE disk = <<>> /\ kept = <<>> /\ run # "ended"
  <2>1. ~Accepted(disk) BY <1>1, EmptySeq DEF Accepted, HasHeader, GlobalHeaderLen
  <2>2. Packets(disk) = <<>> BY <1>0, <2>1, PacketsRead
  <2>3. StartsWith(<<>>, <<>>)
    <3>1. Len(<<>>) = 0 /\ SubSeq(<<>>, 1, 0) = <<>> BY EmptySeq, SubSeqEmpty
    <3> QED BY <3>1 DEF StartsWith
  <2> QED BY <1>1, <2>2, <2>3 DEF OutputReadsBack
<1>2. CASE LeftBehind
  <2>1. PICK f : /\ IsFileOf(f, kept, input) /\ Begins(disk, f)
                 /\ run = "ended" /\ Len(disk) < room => Len(disk) = Len(f)
    BY <1>2 DEF LeftBehind
  <2>2. PICK o : Layout(f, kept, o, Snaplen(input)) BY <2>1 DEF IsFileOf
  <2>3. /\ StartsWith(kept, Packets(disk))
        /\ Len(disk) = Len(f) => Accepted(disk) /\ Packets(disk) = kept /\ Snaplen(disk) = Snaplen(input)
    BY <2>1, <2>2, ReadsBack
  <2> QED BY <2>1, <2>3 DEF OutputReadsBack
<1>3. CASE run = "reading"
  <2>1. IsFileOf(disk \o buffered, kept, input) BY <1>3 DEF FileInv, ReadingInv
  <2>2. Begins(disk, disk \o buffered)
    <3>1. Len(buffered) \in Nat BY <1>0, LenProperties
    <3>2. 0 \in 0..Len(buffered) BY <3>1
    <3>3. disk \o SubSeq(buffered, 1, 0) = disk BY <1>0, SubSeqEmpty, ConcatEmptySeq
    <3> QED BY <1>0, <3>2, <3>3, Split
  <2>3. LeftBehind BY <1>3, <2>1, <2>2 DEF LeftBehind
  <2> QED BY <1>2, <2>3
<1> QED BY <1>1, <1>2, <1>3 DEF FileInv, OpeningInv, StoppedInv

(* Whatever becomes of the process and of the disk, and whatever is read,  *)
(* the program reads its own output back: the packets it kept, from the    *)
(* first one on, and all of them after a regular end with room left.       *)
THEOREM WrittenReadsBack == FilesSpec => []OutputReadsBack
<1>1. FilesInit => FileInv BY FilesInitInv
<1>2. FileInv /\ [FilesNext]_fileVars => FileInv' BY FilesStep
<1>3. FileInv => OutputReadsBack BY FilesBack
<1> QED BY <1>1, <1>2, <1>3, PTL DEF FilesSpec

-----------------------------------------------------------------------------
(* What a capture is: the records of its packets in one of the byte orders *)
(* that are read, a beginning of that, or such records with one more that  *)
(* claims more than the file or a packet may hold; or it has another magic *)
(* number.  Only a whole one may be called intact.                         *)
GoesWrongAt(d, at, magic) ==
  /\ Len(d) >= at + 16
  /\ \E v : /\ IsWord(v) /\ WordIs(d, at + 8, Stored(v, magic))
            /\ TooLong(v) \/ Len(d) < at + 16 + Value(v)

Holds(c, f, ps, o, magic) ==
  /\ LaidOutIn(f, ps, o, magic) /\ StartsWith(c.packets, ps)
  /\ c.intact => c.bytes = f /\ ps = c.packets
  /\ Begins(c.bytes, f) \/ (Begins(f, c.bytes) /\ GoesWrongAt(c.bytes, Len(f), magic))

IsCapture(c) ==
  /\ c.packets \in Seq(AnyPacket)
  /\ \/ ~c.intact /\ \A magic \in Magics : ~WordIs(c.bytes, 0, magic)
     \/ \E f, ps, o, magic : Holds(c, f, ps, o, magic)

LEMMA MagicIsThere ==
  ASSUME NEW d \in Seq(Byte), Accepted(d)
  PROVE  \E magic \in Magics : WordIs(d, 0, magic)
<1>1. Magic(d) \in Magics BY DEF Accepted, Magics
<1>2. WordIs(d, 0, Magic(d)) BY DEF Magic, U32At, WordIs
<1> QED BY <1>1, <1>2

LEMMA GoingWrong ==
  ASSUME NEW d \in Seq(Byte), NEW at \in Nat, NEW magic, Magic(d) = magic, GoesWrongAt(d, at, magic)
  PROVE  Corrupt(d, at)
<1>1. PICK v : /\ IsWord(v) /\ WordIs(d, at + 8, Stored(v, magic))
               /\ TooLong(v) \/ Len(d) < at + 16 + Value(v)
  BY DEF GoesWrongAt
<1>2. Len(d) \in Nat /\ Len(d) >= at + 16 BY LenProperties DEF GoesWrongAt
<1>3. at + 8 \in Nat /\ (at + 8) + 4 <= Len(d) BY <1>2
<1>4. Agree(d, d) BY DEF Agree
<1>5. U32At(d, at + 8) = Stored(v, magic) BY <1>1, <1>3, <1>4, StoredTwice, WordRead
<1>6. HeaderAt(d, at).incl_len = v
  <2>1. \A w : fixU32(ByteSwapped(d), w) = Stored(w, magic) BY DEF ByteSwapped, Stored, fixU32
  <2>2. HeaderAt(d, at).incl_len = Stored(U32At(d, at + 8), magic) BY <2>1 DEF HeaderAt
  <2> QED BY <1>1, <1>5, <2>2, StoredTwice
<1>7. ~AtEnd(d, at) BY <1>2 DEF AtEnd, PacketHeaderLen
<1> QED BY <1>1, <1>6, <1>7 DEF Corrupt, PacketHeaderLen

(* The reader is in front of a record, and has read those before it.       *)
(* Which it is tells whether it goes on.                                   *)
LEMMA RecordAhead ==
  ASSUME NEW c, c.bytes \in Seq(Byte), NEW f, NEW ps, NEW o, NEW magic, Holds(c, f, ps, o, magic),
         Len(c.bytes) >= 24, NEW k \in 0..Len(ps)
  PROVE  LET d == c.bytes IN
         /\ o[k] \in Nat /\ Accepted(d)
         /\ ~Stops(d, o[k]) => /\ k + 1 \in 1..Len(ps)
                               /\ PacketAt(d, o[k]) = ps[k + 1] /\ NextAt(d, o[k]) = o[k + 1]
         /\ c.intact => ~Corrupt(d, o[k])
         /\ c.intact /\ AtEnd(d, o[k]) => k = Len(ps)
<1> DEFINE d == c.bytes
           N == Len(ps)
<1>1. /\ LaidOutIn(f, ps, o, magic) /\ d \in Seq(Byte) /\ N \in Nat /\ Len(d) \in Nat /\ Len(f) \in Nat
      /\ o \in [0..N -> Nat] /\ o[N] = Len(f) /\ \A i \in 0..N : o[i] \in 24..Len(f)
  BY LenProperties, EndsInFile DEF Holds, LaidOutIn
<1>2. Len(f) >= 24
  <2>1. 0 \in 0..N BY <1>1
  <2> QED BY <1>1, <2>1
<1>3. Agree(d, f) BY BeginsAgree DEF Holds
<1>4. Accepted(d) /\ Magic(d) = magic BY <1>1, <1>2, <1>3, BeginningIsAccepted
<1>5. c.intact => d = f BY DEF Holds
<1>6. o[k] \in Nat /\ o[k] <= Len(f) BY <1>1
<1>7. CASE k = N
  <2>1. o[k] = Len(f) BY <1>1, <1>7
  <2>2. ASSUME Begins(d, f) PROVE AtEnd(d, o[k]) /\ ~Corrupt(d, o[k])
    <3>1. Len(d) <= Len(f) BY <2>2, BeginsAgree
    <3>2. AtEnd(d, o[k]) BY <1>1, <2>1, <3>1 DEF AtEnd, PacketHeaderLen
    <3> QED BY <3>2 DEF Corrupt
  <2>3. ASSUME GoesWrongAt(d, Len(f), magic) PROVE Corrupt(d, o[k])
    BY <1>1, <1>4, <2>1, <2>3, GoingWrong
  <2>4. Stops(d, o[k]) BY <2>2, <2>3 DEF Holds, Stops
  <2>5. c.intact => ~Corrupt(d, o[k])
    <3>1. Begins(f, f) BY <1>1 DEF LaidOutIn, Begins
    <3> QED BY <1>5, <2>2, <3>1
  <2> HIDE DEF d
  <2> QED BY <1>4, <1>6, <1>7, <2>4, <2>5 DEF d
<1>8. CASE k # N
  <2>1. k + 1 \in 1..N /\ (k + 1) - 1 = k BY <1>1, <1>8
  <2>2. /\ o[k + 1] <= Len(d) => /\ ~AtEnd(d, o[k]) /\ ~Corrupt(d, o[k])
                                 /\ PacketAt(d, o[k]) = ps[k + 1] /\ NextAt(d, o[k]) = o[k + 1]
        /\ ~(o[k + 1] <= Len(d)) => AtEnd(d, o[k]) \/ Corrupt(d, o[k])
    <3>1. LaidOutIn(f, ps, o, magic) /\ Agree(d, f) /\ Len(d) >= 24 BY <1>1, <1>3
    <3> HIDE DEF d
    <3>2. /\ o[k + 1] <= Len(d) => /\ ~AtEnd(d, o[(k + 1) - 1]) /\ ~Corrupt(d, o[(k + 1) - 1])
                                   /\ PacketAt(d, o[(k + 1) - 1]) = ps[k + 1] /\ NextAt(d, o[(k + 1) - 1]) = o[k + 1]
          /\ ~(o[k + 1] <= Len(d)) => AtEnd(d, o[(k + 1) - 1]) \/ Corrupt(d, o[(k + 1) - 1])
      BY <2>1, <3>1, NextPacket
    <3> QED BY <2>1, <3>2
  <2>3. c.intact => o[k + 1] <= Len(d)
    <3>1. k + 1 \in 0..N BY <1>1, <2>1
    <3>2. o[k + 1] <= Len(f) BY <1>1, <3>1
    <3> QED BY <1>5, <3>2
  <2> HIDE DEF d
  <2> QED BY <1>4, <1>6, <2>1, <2>2, <2>3 DEF d, Stops
<1> QED BY <1>7, <1>8

(* Where the reader is, and what it has returned.                          *)
HasRead(f, ps, o, magic, k) ==
  /\ Holds(capture, f, ps, o, magic) /\ k \in 0..Len(ps)
  /\ position = o[k] /\ got = SubSeq(ps, 1, k)
  /\ run = "ended" => AtEnd(input, position)

ReaderInv ==
  /\ capture \in Captures
  /\ \/ run \in {"opening", "refused"} /\ got = <<>>
     \/ /\ run \in {"reading", "ended", "crashed"} /\ Len(input) >= 24
        /\ \E f, ps, o, magic, k : HasRead(f, ps, o, magic, k)

LEMMA FirstNone ==
  ASSUME NEW s
  PROVE  SubSeq(s, 1, 0) = <<>>
BY SubSeqEmpty

LEMMA OneMore ==
  ASSUME NEW S, NEW s \in Seq(S), NEW k \in Nat, k + 1 \in 1..Len(s)
  PROVE  Append(SubSeq(s, 1, k), s[k + 1]) = SubSeq(s, 1, k + 1)
<1>1. Len(s) \in Nat BY LenProperties
<1> QED BY <1>1, SubSeqRecursiveSecond

LEMMA ReaderStep ==
  ASSUME \A c \in Captures : IsCapture(c), ReaderInv, [FilesNext]_fileVars
  PROVE  ReaderInv'
<1>1. /\ capture \in Captures /\ IsCapture(capture) /\ input \in Seq(Byte)
  BY CaptureFilesAssumption DEF ReaderInv, input, Byte
<1>2. CASE Open
  <2>1. /\ run = "opening" /\ Accepted(input) /\ run' = "reading" /\ position' = 24
        /\ UNCHANGED <<capture, got>>
    BY <1>2 DEF Open, GlobalHeaderLen
  <2>2. PICK f, ps, o, magic : Holds(capture, f, ps, o, magic)
    BY <1>1, <2>1, MagicIsThere DEF IsCapture, input
  <2>3. 0 \in 0..Len(ps) /\ o[0] = 24
    BY <2>2, LenProperties DEF Holds, LaidOutIn
  <2>4. got = <<>> BY <2>1 DEF ReaderInv
  <2>5. HasRead(f, ps, o, magic, 0)' BY <2>1, <2>2, <2>3, <2>4, FirstNone DEF HasRead
  <2>6. Len(input) >= 24 /\ input' = input BY <2>1 DEF Accepted, HasHeader, GlobalHeaderLen, input
  <2> QED BY <1>1, <2>1, <2>5, <2>6 DEF ReaderInv
<1>3. CASE OpenFails
  BY <1>1, <1>3 DEF OpenFails, ReaderInv
<1>4. ASSUME run \in {"reading", "ended", "crashed"}
      PROVE  /\ Len(input) >= 24
             /\ \E f, ps, o, magic, k : HasRead(f, ps, o, magic, k)
  BY <1>4 DEF ReaderInv
<1>5. CASE Read /\ run' \in {"reading", "crashed"}
  <2>1. /\ run = "reading" /\ ~Stops(input, position) /\ position' = NextAt(input, position)
        /\ got' = Append(got, PacketAt(input, position)) /\ UNCHANGED capture
    BY <1>5 DEF Read, Packet, Stops
  <2>2. PICK f, ps, o, magic, k : HasRead(f, ps, o, magic, k) BY <1>4, <2>1
  <2>3. Holds(capture, f, ps, o, magic) /\ k \in 0..Len(ps) /\ position = o[k] /\ got = SubSeq(ps, 1, k)
    BY <2>2 DEF HasRead
  <2>4. /\ k + 1 \in 1..Len(ps)
        /\ PacketAt(input, o[k]) = ps[k + 1] /\ NextAt(input, o[k]) = o[k + 1]
    BY <1>1, <1>4, <2>1, <2>3, RecordAhead DEF input
  <2>5. got' = SubSeq(ps, 1, k + 1)
    <3>1. ps \in Seq(AnyPacket) BY <2>3 DEF Holds, LaidOutIn
    <3>2. k \in Nat BY <2>3
    <3> QED BY <2>1, <2>3, <2>4, <3>1, <3>2, OneMore
  <2>6. k + 1 \in 0..Len(ps) BY <2>3, <2>4
  <2>7. HasRead(f, ps, o, magic, k + 1)' BY <1>5, <2>1, <2>3, <2>4, <2>5, <2>6 DEF HasRead
  <2>8. input' = input BY <2>1 DEF input
  <2> QED BY <1>1, <1>4, <1>5, <2>1, <2>7, <2>8 DEF ReaderInv
<1>6. CASE UNCHANGED <<capture, position, got>> /\ run = "reading" /\ (run' = "crashed" \/ Finish)
  <2>1. PICK f, ps, o, magic, k : HasRead(f, ps, o, magic, k) BY <1>4, <1>6
  <2>2. input' = input BY <1>6 DEF input
  <2>3. run' = "ended" => AtEnd(input', position') BY <1>6, <2>2 DEF Finish
  <2>4. HasRead(f, ps, o, magic, k)' BY <1>6, <2>1, <2>3 DEF HasRead
  <2>5. run' \in {"ended", "crashed"} BY <1>6 DEF Finish
  <2> QED BY <1>1, <1>4, <1>6, <2>2, <2>4, <2>5 DEF ReaderInv
<1>7. CASE UNCHANGED fileVars
  BY <1>7 DEF ReaderInv, HasRead, fileVars, input
<1>8. \/ Open \/ OpenFails \/ (Read /\ run' \in {"reading", "crashed"})
      \/ (UNCHANGED <<capture, position, got>> /\ run = "reading" /\ (run' = "crashed" \/ Finish))
      \/ UNCHANGED fileVars
  <2>1. DropPacket \/ KeepPacket => Read /\ run' = "reading" BY DEF DropPacket, KeepPacket, Read
  <2>2. KeepFails => Read /\ run' = "crashed" BY DEF KeepFails
  <2>3. ReadFails \/ Killed => UNCHANGED <<capture, position, got>> /\ run = "reading" /\ run' = "crashed"
    BY DEF ReadFails, Killed, Crash
  <2>4. Finish => UNCHANGED <<capture, position, got>> /\ run = "reading" BY DEF Finish
  <2> QED BY <2>1, <2>2, <2>3, <2>4 DEF FilesNext, Stopped
<1> QED BY <1>2, <1>3, <1>5, <1>6, <1>7, <1>8

LEMMA BeginningOfBeginning ==
  ASSUME NEW S, NEW s \in Seq(S), NEW t \in Seq(S), StartsWith(s, t), NEW k \in 0..Len(t)
  PROVE  StartsWith(s, SubSeq(t, 1, k))
<1>1. Len(s) \in Nat /\ Len(t) \in Nat /\ Len(t) <= Len(s) /\ SubSeq(s, 1, Len(t)) = t
  BY LenProperties DEF StartsWith
<1>2. CASE k = 0
  <2>1. SubSeq(t, 1, 0) = <<>> /\ SubSeq(s, 1, 0) = <<>> /\ Len(<<>>) = 0 BY SubSeqEmpty, EmptySeq
  <2> QED BY <1>1, <1>2, <2>1 DEF StartsWith
<1>3. CASE k # 0
  <2>1. /\ 1 \in 1..Len(s) /\ Len(t) \in 1..Len(s) /\ 1 \in 1..Len(t) - 1 + 1 /\ k \in 1..Len(t) - 1 + 1
        /\ 1 + 1 - 1 = 1 /\ 1 + k - 1 = k /\ k \in 1..Len(t) /\ k <= Len(s)
    <3> SUFFICES ASSUME NEW a \in Nat, a = Len(s), NEW b \in Nat, b = Len(t), b <= a, k \in 0..b
                 PROVE  /\ 1 \in 1..a /\ b \in 1..a /\ 1 \in 1..b - 1 + 1 /\ k \in 1..b - 1 + 1
                        /\ 1 + 1 - 1 = 1 /\ 1 + k - 1 = k /\ k \in 1..b /\ k <= a
      BY <1>1
    <3> QED BY <1>3
  <2>2. SubSeq(SubSeq(s, 1, Len(t)), 1, k) = SubSeq(s, 1 + 1 - 1, 1 + k - 1)
    BY <2>1, SubSeqOfSubSeq
  <2>3. SubSeq(t, 1, k) = SubSeq(s, 1, k) BY <1>1, <2>1, <2>2
  <2>4. Len(SubSeq(t, 1, k)) = k
    <3>1. \A i \in 1..k : t[i] \in S
      <4>1. \A i \in 1..k : i \in 1..Len(t) BY <1>1, <2>1
      <4> QED BY <4>1, ElementOfSeq
    <3>2. k \in Int /\ 1 \in Int BY <2>1
    <3>3. Len(SubSeq(t, 1, k)) = IF 1 <= k THEN k - 1 + 1 ELSE 0 BY ONLY <3>1, <3>2, SubSeqProperties
    <3> QED BY <2>1, <3>3
  <2> QED BY <2>1, <2>3, <2>4 DEF StartsWith
<1> QED BY <1>2, <1>3

LEMMA ReadAsCaptured ==
  ASSUME \A c \in Captures : IsCapture(c), ReaderInv
  PROVE  PacketsAsCaptured
<1>1. capture \in Captures /\ IsCapture(capture) /\ input \in Seq(Byte) /\ capture.packets \in Seq(AnyPacket)
  BY CaptureFilesAssumption DEF ReaderInv, IsCapture, input, Byte
<1>2. ASSUME capture.intact PROVE Accepted(input)
  <2>1. PICK f, ps, o, magic : Holds(capture, f, ps, o, magic) BY <1>1, <1>2 DEF IsCapture
  <2>2. input = f /\ Len(f) >= 24 /\ LaidOutIn(f, ps, o, magic)
    <3>1. LaidOutIn(f, ps, o, magic) /\ input = f BY <1>2, <2>1 DEF Holds, input
    <3>2. 0 \in 0..Len(ps) /\ Len(f) \in Nat BY <3>1, LenProperties DEF LaidOutIn
    <3>3. o[0] \in 24..Len(f) BY <3>1, <3>2, EndsInFile
    <3> QED BY <3>1, <3>2, <3>3
  <2>3. Agree(input, f) BY <1>1, <2>2 DEF Agree
  <2> QED BY <2>2, <2>3, BeginningIsAccepted
<1>3. CASE run \in {"opening", "refused"} /\ got = <<>>
  <2>1. StartsWith(capture.packets, <<>>)
    <3>1. Len(<<>>) = 0 /\ SubSeq(capture.packets, 1, 0) = <<>> /\ Len(capture.packets) \in Nat
      BY <1>1, EmptySeq, SubSeqEmpty, LenProperties
    <3> QED BY <3>1 DEF StartsWith
  <2> QED BY <1>2, <1>3, <2>1 DEF PacketsAsCaptured
<1>4. CASE Len(input) >= 24 /\ \E f, ps, o, magic, k : HasRead(f, ps, o, magic, k)
  <2>1. PICK f, ps, o, magic, k : HasRead(f, ps, o, magic, k) BY <1>4
  <2>2. /\ Holds(capture, f, ps, o, magic) /\ k \in 0..Len(ps) /\ position = o[k] /\ got = SubSeq(ps, 1, k)
        /\ run = "ended" => AtEnd(input, position)
    BY <2>1 DEF HasRead
  <2>3. ps \in Seq(AnyPacket) /\ StartsWith(capture.packets, ps) /\ (capture.intact => ps = capture.packets)
    BY <2>2 DEF Holds, LaidOutIn
  <2>4. StartsWith(capture.packets, got) BY <1>1, <2>2, <2>3, BeginningOfBeginning
  <2>5. /\ capture.intact => ~Corrupt(input, position)
        /\ capture.intact /\ AtEnd(input, position) => k = Len(ps)
    BY <1>1, <1>4, <2>2, RecordAhead DEF input
  <2>6. capture.intact /\ run = "ended" => got = capture.packets
    <3>1. SubSeq(ps, 1, Len(ps)) = ps BY <2>3, SubSeqFull
    <3> QED BY <2>2, <2>3, <2>5, <3>1
  <2> QED BY <1>2, <2>4, <2>5, <2>6 DEF PacketsAsCaptured
<1> QED BY <1>3, <1>4 DEF ReaderInv

(* The packets of a capture are read as they were captured, in each of the *)
(* byte orders, as many of them as the file still has; an intact capture   *)
(* is accepted and read to its end.                                        *)
THEOREM CapturesAreRead ==
  ASSUME \A c \in Captures : IsCapture(c)
  PROVE  FilesSpec => []PacketsAsCaptured
<1>1. FilesInit => ReaderInv BY DEF FilesInit, ReaderInv
<1>2. ReaderInv /\ [FilesNext]_fileVars => ReaderInv' BY ReaderStep
<1>3. ReaderInv => PacketsAsCaptured BY ReadAsCaptured
<1> QED BY <1>1, <1>2, <1>3, PTL DEF FilesSpec

-----------------------------------------------------------------------------
(* What the messages are: a Client Hello, with its extensions one after    *)
(* the other and at most the last of those looked at naming a host; an     *)
(* HTTP request with its first Host header, if any, on a line that ends    *)
(* within what is searched; a DNS response, or a question whose labels lie *)
(* one behind the other within 255 bytes.                                  *)
HelloEnd(b)        == 9 + 65536 * At(b, 6) + readU16BE(b, 7)
SessionEnd(b)      == 44 + At(b, 43)
SuitesEnd(b)       == SessionEnd(b) + 2 + readU16BE(b, SessionEnd(b))
MethodsEnd(b)      == SuitesEnd(b) + 1 + At(b, SuitesEnd(b))
ExtensionsEnd(b)   == MethodsEnd(b) + 2 + readU16BE(b, MethodsEnd(b))
ExtensionEnd(b, i) == i + 4 + readU16BE(b, i + 2)

NamedAt(b, name, i) ==
  /\ readU16BE(b, i) = 0 /\ At(b, i + 6) = 0 /\ readU16BE(b, i + 7) \in 1..255
  /\ i + 9 + readU16BE(b, i + 7) <= ExtensionEnd(b, i)
  /\ name = <<[at |-> i + 9, len |-> readU16BE(b, i + 7)]>>

ExtensionsIn(b, name, k, start) ==
  /\ MethodsEnd(b) + 2 <= HelloEnd(b) /\ ExtensionsEnd(b) <= HelloEnd(b)
  /\ k \in Nat /\ start \in [0..k -> Nat] /\ start[0] = MethodsEnd(b) + 2
  /\ \A j \in 0..k : start[j] <= ExtensionsEnd(b)
  /\ \A j \in 1..k : /\ start[j - 1] + 4 <= ExtensionsEnd(b) /\ readU16BE(b, start[j - 1]) # 0
                     /\ start[j] = ExtensionEnd(b, start[j - 1])
  /\ \/ start[k] = ExtensionsEnd(b) /\ name = NoHost
     \/ /\ start[k] + 4 <= ExtensionsEnd(b) /\ ExtensionEnd(b, start[k]) <= ExtensionsEnd(b)
        /\ NamedAt(b, name, start[k])

IsHello(b, name) ==
  /\ Len(b) >= 44 /\ At(b, 0) = 22 /\ At(b, 5) = 1 /\ HelloEnd(b) <= Len(b)
  /\ SessionEnd(b) + 2 <= HelloEnd(b) /\ SuitesEnd(b) + 1 <= HelloEnd(b)
  /\ \/ MethodsEnd(b) = HelloEnd(b) /\ name = NoHost
     \/ \E k, start : ExtensionsIn(b, name, k, start)

HostAt(b, i) == i + 7 <= Len(b) /\ \A k \in 0..5 : At(b, i + k) \in HostHeader[k + 1]

HostLineIn(b, name, h, eol, c) ==
  /\ h \in Nat /\ eol \in Nat /\ c \in Nat
  /\ HostAt(b, h) /\ \A i \in 0..(h - 1) : ~HostAt(b, i)
  /\ h + 6 < c /\ c <= eol /\ eol < Len(b) /\ eol < 8192 /\ Len(b) >= 10
  /\ At(b, eol) \in LineEnds /\ \A j \in (h + 6)..(eol - 1) : At(b, j) \notin LineEnds
  /\ \/ c < eol /\ At(b, c) = 58 /\ \A j \in (c + 1)..(eol - 1) : At(b, j) \in Digits
     \/ c = eol /\ \A j \in (h + 6)..(eol - 1) :
                     At(b, j) = 58 => \E i \in (j + 1)..(eol - 1) : At(b, i) \notin Digits
  /\ name = <<[at |-> h + 6, len |-> c - (h + 6)]>>

IsHTTPRequest(b, name) ==
  /\ \E v \in Verbs : Len(v) <= Len(b) /\ \A i \in DOMAIN v : At(b, i - 1) = v[i]
  /\ \/ name = NoHost /\ \A i \in 0..Len(b) : ~HostAt(b, i)
     \/ \E h, eol, c : HostLineIn(b, name, h, eol, c)

LooksLikeHello(b) == At(b, 0) = 22 /\ At(b, 5) = 1 /\ HelloEnd(b) >= 43

LabelsEnd(name, j) == IF j = 0 THEN 12 ELSE name[j].at + name[j].len

LabelSet == [at : Nat, len : 1..63]

IsQuestion(b, name) ==
  /\ At(b, 2) \div 8 = 0 /\ readU16BE(b, 4) # 0
  /\ name \in Seq(LabelSet)
  /\ \A j \in 0..Len(name) : LabelsEnd(name, j) < 12 + 255 /\ LabelsEnd(name, j) < Len(b)
  /\ \A j \in 1..Len(name) : /\ name[j].at = LabelsEnd(name, j - 1) + 1
                             /\ name[j].len = At(b, LabelsEnd(name, j - 1))
  /\ At(b, LabelsEnd(name, Len(name))) \in {0} \cup 192..255

IsDNSMessage(b, name) ==
  Len(b) >= 12 /\ (IsQuestion(b, name) \/ (At(b, 2) >= 128 /\ name = NoHost))

(* DNS is only looked for on its port; what else is sent from or to that   *)
(* port is taken for a question first.                                     *)
IsNamed(m) ==
  \/ m.kind = "tls" /\ 53 \notin Ports(m.frame) /\ IsHello(m.body, m.name)
  \/ m.kind = "http" /\ IsHTTPRequest(m.body, m.name)
  \/ /\ m.kind = "dns" /\ (Payload(m.frame) # <<>> => 53 \in Ports(m.frame))
     /\ ~LooksLikeHello(m.body) /\ IsDNSMessage(m.body, m.name)

-----------------------------------------------------------------------------
(* The bytes of the payload are those of the body, as far as it goes.      *)
Body == sent.body

Carried ==
  /\ Body \in Seq(Byte) /\ Len(sent.name) \in Nat
  /\ length <= Len(Body) /\ payload = SubSeq(Body, 1, length)
  /\ sent.whole => length = Len(Body)

KnownBody ==
  /\ length \in Nat /\ Len(Body) \in Nat /\ length <= Len(Body)
  /\ \A i \in Nat : /\ i < length => P(i) = At(Body, i)
                    /\ i + 1 < length => U16(i) = readU16BE(Body, i)
                    /\ i < Len(Body) => At(Body, i) \in 0..255
                    /\ i + 1 < Len(Body) => readU16BE(Body, i) \in Nat

LEMMA BodyKnown ==
  ASSUME Inside, Carried
  PROVE  KnownBody
<1>1. length \in Nat /\ Body \in Seq(Byte) /\ Len(Body) \in Nat /\ length <= Len(Body)
  BY Known, LenProperties DEF Carried
<1>2. \A i \in 1..length : payload[i] = Body[i]
  <2>1. 0 \in Nat /\ 0 + 1 = 1 /\ 0 + length = length /\ 0 + length <= Len(Body) /\ \A i \in 1..length : 0 + i = i
    BY <1>1
  <2>2. \A i \in 1..length : SubSeq(Body, 0 + 1, 0 + length)[i] = Body[0 + i]
    BY <1>1, <2>1, Stretch
  <2> QED BY <2>1, <2>2 DEF Carried
<1>3. ASSUME NEW i \in Nat, i < length PROVE P(i) = At(Body, i)
  <2>1. i + 1 \in 1..length BY <1>1, <1>3
  <2> QED BY <1>2, <2>1 DEF P, At
<1>4. ASSUME NEW i \in Nat, i + 1 < length PROVE U16(i) = readU16BE(Body, i)
  <2>1. i < length /\ i + 1 \in Nat BY <1>1, <1>4
  <2>2. P(i) = At(Body, i) /\ P(i + 1) = At(Body, i + 1) BY <1>3, <1>4, <2>1
  <2> QED BY <2>2 DEF U16, P, readU16BE
<1>5. \A i \in Nat : i < Len(Body) => At(Body, i) \in 0..255
  BY <1>1, ByteAt DEF Byte
<1>6. \A i \in Nat : i + 1 < Len(Body) => readU16BE(Body, i) \in Nat
  BY <1>1, NumberAt
<1> QED BY <1>1, <1>3, <1>4, <1>5, <1>6 DEF KnownBody

(* The result, and that an extractor which finds it is still to come.      *)
IsAnswer(h) ==
  /\ Prefix(h, sent.name) /\ (sent.kind = "tls" => h \in {NoHost, sent.name})
  /\ length = Len(Body) => h = sent.name

Sure == length = Len(Body) /\ sent.name # NoHost

Answer ==
  /\ pc # "done" => host = NoHost
  /\ pc = "done" => IsAnswer(host)
  /\ Sure /\ pc \in {"try"} \cup (Extractors \ {sent.kind}) => sent.kind \in Range(tries)

LEMMA NoneIsAnswer ==
  ASSUME Carried, ~Sure
  PROVE  IsAnswer(NoHost)
BY EmptySeq DEF Carried, Sure, IsAnswer, Prefix, NoHost

LEMMA TryAnswers ==
  ASSUME Inside, Carried, Answer, sent.kind \in Extractors, Try
  PROVE  Answer'
<1>1. /\ UNCHANGED <<sent, payload, host>> /\ pc = "try" /\ host = NoHost
      /\ Sure => sent.kind \in Range(tries)
  BY DEF Try, Answer
<1>2. Sure' = Sure /\ (IsAnswer(host))' = IsAnswer(host)
  BY <1>1 DEF Sure, IsAnswer, length, Body
<1>3. CASE tries = <<>>
  <2>1. pc' = "done" BY <1>3 DEF Try
  <2>2. sent.kind \notin Range(tries) BY <1>3 DEF Range
  <2>3. IsAnswer(host) BY <1>1, <2>2, NoneIsAnswer
  <2>4. "done" \notin {"try"} \cup Extractors BY DEF Extractors
  <2> QED BY <1>1, <1>2, <2>1, <2>3, <2>4 DEF Answer
<1>4. CASE tries # <<>>
  <2>1. pc' = Head(tries) /\ tries' = Tail(tries) BY <1>4 DEF Try
  <2>2. <<Head(tries)>> \o Tail(tries) = tries /\ Head(tries) \in Extractors /\ Tail(tries) \in Seq(Extractors)
    BY <1>4, HeadFirst DEF Inside
  <2>3. Range(tries) = {Head(tries)} \cup Range(Tail(tries)) BY <2>2, RangeOfCons
  <2>4. pc' # "done" /\ pc' # "try" BY <2>1, <2>2 DEF Extractors
  <2> QED BY <1>1, <1>2, <2>1, <2>3, <2>4 DEF Answer
<1> QED BY <1>3, <1>4

LEMMA NothingAnswers ==
  ASSUME Answer, Nothing, pc # "done", ~Sure \/ pc \in Extractors \ {sent.kind}
  PROVE  Answer'
<1>1. UNCHANGED <<sent, payload, tries, host>> /\ pc' = "try" BY DEF Nothing
<1>2. Sure' = Sure BY <1>1 DEF Sure, length, Body
<1> QED BY <1>1, <1>2 DEF Answer

LEMMA FoundAnswers ==
  ASSUME Answer, NEW h, Found(h), IsAnswer(h)
  PROVE  Answer'
<1>1. UNCHANGED <<sent, payload>> /\ pc' = "done" /\ host' = h BY DEF Found
<1>2. IsAnswer(host)' BY <1>1 DEF IsAnswer, length, Body
<1>3. "done" \notin {"try"} \cup Extractors BY DEF Extractors
<1> QED BY <1>1, <1>2, <1>3 DEF Answer

LEMMA GoOnAnswers ==
  ASSUME Answer, pc # "done", NEW next \in Walking \cup {"label"}, NEW o, GoOn(next, o)
  PROVE  Answer'
<1>1. host' = host /\ pc' = next BY DEF GoOn
<1>2. next \notin {"try", "done"} \cup Extractors BY DEF Walking, Extractors
<1> QED BY <1>1, <1>2 DEF Answer

LEMMA StillCarried ==
  ASSUME Carried, UNCHANGED <<sent, payload>>
  PROVE  Carried'
BY DEF Carried, Body, length

LEMMA SentStays ==
  ASSUME [Next]_vars
  PROVE  UNCHANGED <<sent, payload>>
BY DEF Next, Step, Try, ClientHello, SessionID, CipherSuites, CompressionMethods, Vector, Extensions,
       Extension, ServerName, HTTPHost, DNSHeader, DNSLabel, DNSName, GoOn, Nothing, Found, vars

-----------------------------------------------------------------------------
(* A Client Hello.                                                         *)
LEMMA HelloNumbers ==
  ASSUME KnownBody, NEW name, IsHello(Body, name)
  PROVE  /\ HelloEnd(Body) \in Nat /\ SessionEnd(Body) \in Nat /\ SuitesEnd(Body) \in Nat /\ MethodsEnd(Body) \in Nat
         /\ 44 <= SessionEnd(Body) /\ SessionEnd(Body) + 2 <= SuitesEnd(Body)
         /\ SuitesEnd(Body) + 1 <= MethodsEnd(Body)
         /\ MethodsEnd(Body) <= HelloEnd(Body) /\ HelloEnd(Body) <= Len(Body)
<1> SUFFICES ASSUME NEW n \in Nat, n = Len(Body) PROVE
         /\ HelloEnd(Body) \in Nat /\ SessionEnd(Body) \in Nat /\ SuitesEnd(Body) \in Nat /\ MethodsEnd(Body) \in Nat
         /\ 44 <= SessionEnd(Body) /\ SessionEnd(Body) + 2 <= SuitesEnd(Body)
         /\ SuitesEnd(Body) + 1 <= MethodsEnd(Body)
         /\ MethodsEnd(Body) <= HelloEnd(Body) /\ HelloEnd(Body) <= n
  BY DEF KnownBody
<1>1. \A i \in Nat : /\ i < n => At(Body, i) \in 0..255
                     /\ i + 1 < n => readU16BE(Body, i) \in Nat
  BY DEF KnownBody
<1>2. /\ n >= 44 /\ HelloEnd(Body) <= n
      /\ SessionEnd(Body) + 2 <= HelloEnd(Body) /\ SuitesEnd(Body) + 1 <= HelloEnd(Body)
      /\ MethodsEnd(Body) = HelloEnd(Body) \/ MethodsEnd(Body) + 2 <= HelloEnd(Body)
  BY DEF IsHello, ExtensionsIn
<1>3. At(Body, 6) \in 0..255 /\ At(Body, 43) \in 0..255 /\ readU16BE(Body, 7) \in Nat
  <2>1. 6 \in Nat /\ 6 < n /\ 43 \in Nat /\ 43 < n /\ 7 \in Nat /\ 7 + 1 < n BY <1>2
  <2> QED BY <1>1, <2>1
<1>4. HelloEnd(Body) \in Nat
  <2> DEFINE x == At(Body, 6)
             y == readU16BE(Body, 7)
  <2>1. x \in 0..255 /\ y \in Nat BY <1>3
  <2>2. HelloEnd(Body) = 9 + 65536 * x + y BY DEF HelloEnd
  <2> HIDE DEF x, y
  <2>3. 9 + 65536 * x + y \in Nat BY <2>1
  <2> QED BY <2>2, <2>3
<1>5. SessionEnd(Body) \in Nat /\ 44 <= SessionEnd(Body)
  <2>1. \A x \in 0..255 : 44 + x \in Nat /\ 44 <= 44 + x OBVIOUS
  <2>2. 44 + At(Body, 43) \in Nat /\ 44 <= 44 + At(Body, 43) BY <1>3, <2>1
  <2> QED BY <2>2 DEF SessionEnd
<1>6. readU16BE(Body, SessionEnd(Body)) \in Nat
  <2>1. SessionEnd(Body) + 1 < n BY <1>2, <1>4, <1>5
  <2> QED BY <1>1, <1>5, <2>1
<1>7. SuitesEnd(Body) \in Nat /\ SessionEnd(Body) + 2 <= SuitesEnd(Body) BY <1>5, <1>6 DEF SuitesEnd
<1>8. At(Body, SuitesEnd(Body)) \in 0..255
  <2>1. SuitesEnd(Body) < n BY <1>2, <1>4, <1>7
  <2> QED BY <1>1, <1>7, <2>1
<1>9. MethodsEnd(Body) \in Nat /\ SuitesEnd(Body) + 1 <= MethodsEnd(Body)
  <2>1. \A s \in Nat, x \in 0..255 : s + 1 + x \in Nat /\ s + 1 <= s + 1 + x OBVIOUS
  <2>2. SuitesEnd(Body) + 1 + At(Body, SuitesEnd(Body)) \in Nat
        /\ SuitesEnd(Body) + 1 <= SuitesEnd(Body) + 1 + At(Body, SuitesEnd(Body))
    BY <1>7, <1>8, <2>1
  <2> QED BY <2>2 DEF MethodsEnd
<1> QED BY <1>2, <1>4, <1>5, <1>7, <1>9

(* Where the walk is.                                                      *)
AtExtension(k, start) ==
  /\ ExtensionsIn(Body, sent.name, k, start)
  /\ \/ pc = "extension" /\ end = Least(ExtensionsEnd(Body), length) /\ \E j \in 0..k : offset = start[j]
     \/ pc = "server_name" /\ offset = start[k] + 4 /\ end = ExtensionEnd(Body, start[k])
        /\ NamedAt(Body, sent.name, start[k])

HelloPlace ==
  /\ pc \in {"session_id", "cipher_suites", "compression", "extensions"} => end = Least(HelloEnd(Body), length)
  /\ pc = "session_id"    => offset = 43
  /\ pc = "cipher_suites" => offset = SessionEnd(Body)
  /\ pc = "compression"   => offset = SuitesEnd(Body)
  /\ pc = "extensions"    => offset = MethodsEnd(Body)
  /\ pc \in {"extension", "server_name"} => \E k, start : AtExtension(k, start)

HelloInv ==
  /\ Carried /\ Answer /\ sent.kind = "tls" /\ IsHello(Body, sent.name)
  /\ "dns" \notin Range(tries) /\ pc \notin {"dns", "label"}
  /\ HelloPlace

(* Such a step either gets to the next place or was cut off.               *)
LEMMA VectorGoesOn ==
  ASSUME Inside, KnownBody, NEW width \in {1, 2}, NEW at, NEW next, Vector(at, width, next),
         NEW stop \in Nat, end = Least(stop, length), stop <= Len(Body),
         NEW o \in Nat, o <= stop, offset + width <= o,
         o = offset + width + (IF width = 1 THEN At(Body, offset) ELSE readU16BE(Body, offset))
  PROVE  \/ GoOn(next, o) /\ UNCHANGED <<end, labels>>
         \/ Nothing /\ length < Len(Body)
<1>1. /\ offset \in Nat /\ length \in Nat /\ Len(Body) \in Nat /\ length <= Len(Body)
      /\ end <= length /\ end <= stop /\ (end = stop \/ end = length)
  <2> SUFFICES ASSUME NEW l \in Nat, l = length PROVE LET e == Least(stop, l) IN e <= l /\ e <= stop /\ (e = stop \/ e = l)
    BY DEF KnownBody, Inside
  <2> QED BY DEF Least
<1>2. end \in Nat BY DEF Inside
<1>3. CASE offset + width > end
  <2>1. Nothing BY <1>3 DEF Vector
  <2>2. length < Len(Body)
    <3> HIDE DEF Vector
    <3> QED BY <1>1, <1>2, <1>3
  <2> QED BY <2>1, <2>2
<1>4. CASE ~(offset + width > end)
  <2>1. (IF width = 1 THEN P(offset) ELSE U16(offset)) = IF width = 1 THEN At(Body, offset) ELSE readU16BE(Body, offset)
    <3>1. CASE width = 1
      <4>1. offset < length BY <1>1, <1>2, <1>4, <3>1
      <4> QED BY <1>1, <3>1, <4>1 DEF KnownBody
    <3>2. CASE width = 2
      <4>1. offset + 1 < length BY <1>1, <1>2, <1>4, <3>2
      <4> QED BY <1>1, <3>2, <4>1 DEF KnownBody
    <3> QED BY <3>1, <3>2
  <2>2. IF o > end THEN Nothing ELSE GoOn(next, o) /\ UNCHANGED <<end, labels>>
    BY <1>4, <2>1 DEF Vector
  <2>3. o > end => length < Len(Body) BY <1>1, <1>2
  <2> QED BY <2>2, <2>3
<1> QED BY <1>3, <1>4

LEMMA HelloVectors ==
  ASSUME Inside, HelloInv, SessionID \/ CipherSuites \/ CompressionMethods
  PROVE  HelloInv'
<1>1. KnownBody BY BodyKnown DEF HelloInv
<1>2. /\ HelloEnd(Body) \in Nat /\ SessionEnd(Body) \in Nat /\ SuitesEnd(Body) \in Nat /\ MethodsEnd(Body) \in Nat
      /\ 44 <= SessionEnd(Body) /\ SessionEnd(Body) + 2 <= SuitesEnd(Body)
      /\ SuitesEnd(Body) + 1 <= MethodsEnd(Body)
      /\ MethodsEnd(Body) <= HelloEnd(Body) /\ HelloEnd(Body) <= Len(Body)
  BY <1>1, HelloNumbers DEF HelloInv
<1>3. SessionEnd(Body) <= HelloEnd(Body) /\ SuitesEnd(Body) <= HelloEnd(Body) BY <1>2
<1>4. /\ Carried /\ Answer /\ sent.kind = "tls" /\ IsHello(Body, sent.name) /\ "dns" \notin Range(tries)
      /\ pc \in {"session_id", "cipher_suites", "compression"} /\ end = Least(HelloEnd(Body), length)
  BY DEF HelloInv, HelloPlace, SessionID, CipherSuites, CompressionMethods, Vector
<1>5. \/ \E o : /\ GoOn("cipher_suites", o) /\ o = SessionEnd(Body) /\ UNCHANGED <<end, labels>>
      \/ \E o : /\ GoOn("compression", o) /\ o = SuitesEnd(Body) /\ UNCHANGED <<end, labels>>
      \/ \E o : /\ GoOn("extensions", o) /\ o = MethodsEnd(Body) /\ UNCHANGED <<end, labels>>
      \/ Nothing /\ length < Len(Body)
  <2>1. CASE SessionID
    <3>1. offset = 43 BY <2>1 DEF SessionID, Vector, HelloInv, HelloPlace
    <3>2. Vector("session_id", 1, "cipher_suites") BY <2>1 DEF SessionID
    <3>3. SessionEnd(Body) = offset + 1 + (IF 1 = 1 THEN At(Body, offset) ELSE readU16BE(Body, offset))
      BY <3>1 DEF SessionEnd
    <3>4. offset + 1 <= SessionEnd(Body) /\ 1 \in {1, 2} BY <1>2, <3>1
    <3> QED BY <1>1, <1>2, <1>3, <1>4, <3>2, <3>3, <3>4, VectorGoesOn
  <2>2. CASE CipherSuites
    <3>1. offset = SessionEnd(Body) BY <2>2 DEF CipherSuites, Vector, HelloInv, HelloPlace
    <3>2. Vector("cipher_suites", 2, "compression") BY <2>2 DEF CipherSuites
    <3>3. SuitesEnd(Body) = offset + 2 + (IF 2 = 1 THEN At(Body, offset) ELSE readU16BE(Body, offset))
      BY <3>1 DEF SuitesEnd
    <3>4. offset + 2 <= SuitesEnd(Body) /\ 2 \in {1, 2} BY <1>2, <3>1
    <3> QED BY <1>1, <1>2, <1>3, <1>4, <3>2, <3>3, <3>4, VectorGoesOn
  <2>3. CASE CompressionMethods
    <3>1. offset = SuitesEnd(Body) BY <2>3 DEF CompressionMethods, Vector, HelloInv, HelloPlace
    <3>2. Vector("compression", 1, "extensions") BY <2>3 DEF CompressionMethods
    <3>3. MethodsEnd(Body) = offset + 1 + (IF 1 = 1 THEN At(Body, offset) ELSE readU16BE(Body, offset))
      BY <3>1 DEF MethodsEnd
    <3>4. offset + 1 <= MethodsEnd(Body) /\ 1 \in {1, 2} BY <1>2, <3>1
    <3> QED BY <1>1, <1>2, <1>3, <1>4, <3>2, <3>3, <3>4, VectorGoesOn
  <2> QED BY <2>1, <2>2, <2>3
<1>6. UNCHANGED <<sent, payload, tries>> BY <1>5 DEF GoOn, Nothing
<1>7. Carried' /\ Body' = Body /\ length' = length BY <1>4, <1>6, StillCarried DEF Body, length
<1>8. CASE Nothing /\ length < Len(Body)
  <2>1. ~Sure /\ pc # "done" /\ pc' = "try" BY <1>1, <1>4, <1>8 DEF Sure, KnownBody, Nothing
  <2>2. Answer' BY <1>4, <1>8, <2>1, NothingAnswers
  <2> QED BY <1>4, <1>6, <1>7, <2>1, <2>2 DEF HelloInv, HelloPlace
<1>9. ASSUME NEW next \in {"cipher_suites", "compression", "extensions"}, NEW o, GoOn(next, o), UNCHANGED <<end, labels>>,
             next = "cipher_suites" => o = SessionEnd(Body), next = "compression" => o = SuitesEnd(Body),
             next = "extensions" => o = MethodsEnd(Body)
      PROVE  HelloInv'
  <2>1. pc' = next /\ offset' = o /\ end' = end BY <1>9 DEF GoOn
  <2>2. next \in Walking /\ pc # "done" BY <1>4, <1>9 DEF Walking
  <2>3. Answer' BY <1>4, <1>9, <2>2, GoOnAnswers
  <2>4. HelloPlace' BY <1>4, <1>7, <1>9, <2>1 DEF HelloPlace
  <2> QED BY <1>4, <1>6, <1>7, <1>9, <2>1, <2>3, <2>4 DEF HelloInv
<1> QED BY <1>5, <1>8, <1>9

LEMMA HelloStarts ==
  ASSUME Inside, HelloInv, ClientHello
  PROVE  HelloInv'
<1>1. KnownBody BY BodyKnown DEF HelloInv
<1>2. /\ HelloEnd(Body) \in Nat /\ HelloEnd(Body) >= 43
      /\ length \in Nat /\ Len(Body) \in Nat /\ length <= Len(Body) /\ Len(Body) >= 44
  <2>1. /\ HelloEnd(Body) \in Nat /\ SessionEnd(Body) \in Nat /\ 44 <= SessionEnd(Body)
        /\ SessionEnd(Body) + 2 <= HelloEnd(Body)
    BY <1>1, HelloNumbers DEF HelloInv, IsHello
  <2> QED BY <1>1, <2>1 DEF KnownBody, HelloInv, IsHello
<1>3. /\ Carried /\ Answer /\ sent.kind = "tls" /\ IsHello(Body, sent.name) /\ "dns" \notin Range(tries) /\ pc = "tls"
  BY DEF HelloInv, ClientHello
<1>4. UNCHANGED <<sent, payload, tries>> BY DEF ClientHello, GoOn, Nothing
<1>5. Carried' /\ Body' = Body /\ length' = length BY <1>3, <1>4, StillCarried DEF Body, length
<1>6. CASE length >= 44
  <2>1. P(0) = 22 /\ P(5) = 1 /\ P(6) = At(Body, 6) /\ U16(7) = readU16BE(Body, 7)
    <3>1. 0 \in Nat /\ 0 < length /\ 5 \in Nat /\ 5 < length /\ 6 \in Nat /\ 6 < length /\ 7 \in Nat /\ 7 + 1 < length
      BY <1>2, <1>6
    <3> QED BY <1>1, <1>3, <3>1 DEF KnownBody, IsHello
  <2>2. HandshakeEnd = Least(HelloEnd(Body), length) BY <2>1 DEF HandshakeEnd, HelloEnd
  <2>3. HandshakeEnd >= 43 BY <1>2, <1>6, <2>2 DEF Least
  <2>4. GoOn("session_id", 43) /\ end' = HandshakeEnd
    BY <1>6, <2>1, <2>3 DEF ClientHello, IsClientHello
  <2>5. "session_id" \in Walking /\ pc # "done" BY <1>3 DEF Walking
  <2>6. Answer' BY <1>3, <2>4, <2>5, GoOnAnswers
  <2>7. pc' = "session_id" /\ offset' = 43 BY <2>4 DEF GoOn
  <2> QED BY <1>3, <1>4, <1>5, <2>2, <2>4, <2>6, <2>7 DEF HelloInv, HelloPlace
<1>7. CASE ~(length >= 44)
  <2>1. Nothing BY <1>7 DEF ClientHello, IsClientHello
  <2>2. ~Sure /\ pc # "done" BY <1>2, <1>3, <1>7 DEF Sure
  <2>3. Answer' /\ pc' = "try" BY <1>3, <2>1, <2>2, NothingAnswers DEF Nothing
  <2> QED BY <1>3, <1>4, <1>5, <2>3 DEF HelloInv, HelloPlace
<1> QED BY <1>6, <1>7

LEMMA LeastOf ==
  ASSUME NEW a \in Nat, NEW b \in Nat
  PROVE  /\ Least(a, b) \in Nat /\ Least(a, b) <= a /\ Least(a, b) <= b
         /\ Least(a, b) = a \/ Least(a, b) = b
         /\ b >= a => Least(a, b) = a
         /\ \A c \in Nat : a <= c => Least(a, Least(c, b)) = Least(a, b)
BY DEF Least

LEMMA ExtensionsNumbers ==
  ASSUME KnownBody, NEW name, IsHello(Body, name), NEW k, NEW start, ExtensionsIn(Body, name, k, start)
  PROVE  ExtensionsEnd(Body) \in Nat /\ ExtensionsEnd(Body) <= Len(Body)
<1>1. /\ HelloEnd(Body) \in Nat /\ MethodsEnd(Body) \in Nat /\ HelloEnd(Body) <= Len(Body)
      /\ MethodsEnd(Body) + 2 <= HelloEnd(Body) /\ ExtensionsEnd(Body) <= HelloEnd(Body) /\ Len(Body) \in Nat
  BY HelloNumbers DEF ExtensionsIn, KnownBody
<1>2. MethodsEnd(Body) + 1 < Len(Body) BY <1>1
<1>3. readU16BE(Body, MethodsEnd(Body)) \in Nat BY <1>1, <1>2 DEF KnownBody
<1>4. ExtensionsEnd(Body) \in Nat BY <1>1, <1>3 DEF ExtensionsEnd
<1> QED BY <1>1, <1>4

LEMMA HelloExtensions ==
  ASSUME Inside, HelloInv, Extensions
  PROVE  HelloInv'
<1>1. KnownBody BY BodyKnown DEF HelloInv
<1>2. /\ Carried /\ Answer /\ sent.kind = "tls" /\ IsHello(Body, sent.name) /\ "dns" \notin Range(tries)
      /\ pc = "extensions" /\ end = Least(HelloEnd(Body), length) /\ offset = MethodsEnd(Body)
  BY DEF HelloInv, HelloPlace, Extensions
<1>3. /\ HelloEnd(Body) \in Nat /\ MethodsEnd(Body) \in Nat /\ HelloEnd(Body) <= Len(Body)
      /\ length \in Nat /\ Len(Body) \in Nat /\ length <= Len(Body)
  BY <1>1, <1>2, HelloNumbers DEF KnownBody
<1>4. end \in Nat /\ end <= HelloEnd(Body) /\ end <= length /\ (length = Len(Body) => end = HelloEnd(Body))
  BY <1>2, <1>3, LeastOf
<1>5. UNCHANGED <<sent, payload, tries>> BY DEF Extensions, GoOn, Nothing
<1>6. Carried' /\ Body' = Body /\ length' = length BY <1>2, <1>5, StillCarried DEF Body, length
<1>7. CASE offset + 2 > end
  <2>1. Nothing BY <1>7 DEF Extensions
  <2>2. ~Sure
    <3> SUFFICES ASSUME Sure PROVE FALSE OBVIOUS
    <3>1. end = HelloEnd(Body) /\ sent.name # NoHost BY <1>4 DEF Sure
    <3>2. MethodsEnd(Body) + 2 <= HelloEnd(Body) BY <1>2, <3>1 DEF IsHello, ExtensionsIn
    <3> QED BY <1>2, <1>3, <1>7, <3>1, <3>2
  <2>3. Answer' /\ pc' = "try" BY <1>2, <2>1, <2>2, NothingAnswers DEF Nothing
  <2> QED BY <1>2, <1>5, <1>6, <2>3 DEF HelloInv, HelloPlace
<1>8. CASE ~(offset + 2 > end)
  <2>1. PICK k, start : ExtensionsIn(Body, sent.name, k, start)
    <3>1. MethodsEnd(Body) # HelloEnd(Body) BY <1>2, <1>3, <1>4, <1>8
    <3> QED BY <1>2, <3>1 DEF IsHello
  <2>2. GoOn("extension", offset + 2) /\ end' = Least(offset + 2 + U16(offset), end)
    BY <1>8 DEF Extensions
  <2>3. offset + 2 + U16(offset) = ExtensionsEnd(Body)
    <3>1. offset + 1 < length BY <1>2, <1>3, <1>4, <1>8
    <3> QED BY <1>1, <1>2, <1>3, <3>1 DEF KnownBody, ExtensionsEnd
  <2>4. ExtensionsEnd(Body) \in Nat /\ ExtensionsEnd(Body) <= HelloEnd(Body)
    BY <1>1, <1>2, <2>1, ExtensionsNumbers DEF ExtensionsIn
  <2>5. end' = Least(ExtensionsEnd(Body), length)
    <3>1. end' = Least(ExtensionsEnd(Body), Least(HelloEnd(Body), length)) BY <1>2, <2>2, <2>3
    <3>2. Least(ExtensionsEnd(Body), Least(HelloEnd(Body), length)) = Least(ExtensionsEnd(Body), length)
      BY <1>3, <2>4, LeastOf
    <3> QED BY <3>1, <3>2
  <2>6. pc' = "extension" /\ offset' = start[0] /\ 0 \in 0..k
    BY <1>2, <2>1, <2>2 DEF GoOn, ExtensionsIn
  <2>7. AtExtension(k, start)' BY <1>5, <1>6, <2>1, <2>5, <2>6 DEF AtExtension
  <2>8. "extension" \in Walking BY DEF Walking
  <2>9. Answer' BY <1>2, <2>2, <2>8, GoOnAnswers
  <2>10. HelloPlace' BY <2>6, <2>7 DEF HelloPlace
  <2> QED BY <1>2, <1>5, <1>6, <2>6, <2>9, <2>10 DEF HelloInv
<1> QED BY <1>7, <1>8

LEMMA HelloExtension ==
  ASSUME Inside, HelloInv, Extension
  PROVE  HelloInv'
<1>1. KnownBody BY BodyKnown DEF HelloInv
<1>2. /\ Carried /\ Answer /\ sent.kind = "tls" /\ IsHello(Body, sent.name) /\ "dns" \notin Range(tries)
      /\ pc = "extension"
  BY DEF HelloInv, Extension
<1>3. PICK k, start : AtExtension(k, start) BY <1>2 DEF HelloInv, HelloPlace
<1> DEFINE X == ExtensionsEnd(Body)
<1>4. /\ ExtensionsIn(Body, sent.name, k, start) /\ end = Least(X, length) /\ k \in Nat
      /\ start \in [0..k -> Nat] /\ \A i \in 0..k : start[i] <= X
      /\ \A i \in 1..k : /\ start[i - 1] + 4 <= X /\ readU16BE(Body, start[i - 1]) # 0
                         /\ start[i] = ExtensionEnd(Body, start[i - 1])
      /\ \/ start[k] = X /\ sent.name = NoHost
         \/ /\ start[k] + 4 <= X /\ ExtensionEnd(Body, start[k]) <= X
            /\ NamedAt(Body, sent.name, start[k])
  BY <1>2, <1>3 DEF AtExtension, ExtensionsIn
<1>5. PICK j \in 0..k : offset = start[j] BY <1>2, <1>3 DEF AtExtension
<1>6. /\ X \in Nat /\ X <= Len(Body) /\ length \in Nat /\ Len(Body) \in Nat /\ length <= Len(Body)
      /\ offset \in Nat
  BY <1>1, <1>2, <1>4, <1>5, ExtensionsNumbers DEF KnownBody
<1> HIDE DEF X
<1>7. end \in Nat /\ end <= X /\ end <= length /\ (length = Len(Body) => end = X)
  BY <1>4, <1>6, LeastOf
<1>8. UNCHANGED <<sent, payload, tries>> BY DEF Extension, GoOn, Nothing
<1>9. Carried' /\ Body' = Body /\ length' = length BY <1>2, <1>8, StillCarried DEF Body, length
<1>10. CASE Nothing /\ ~Sure
  <2>1. Answer' /\ pc' = "try" BY <1>2, <1>10, NothingAnswers DEF Nothing
  <2> QED BY <1>2, <1>8, <1>9, <2>1 DEF HelloInv, HelloPlace
<1>11. \/ /\ j # k /\ j + 1 \in 1..k /\ (j + 1) - 1 = j /\ offset + 4 <= X /\ readU16BE(Body, offset) # 0
          /\ start[j + 1] = ExtensionEnd(Body, offset) /\ ExtensionEnd(Body, offset) <= X
       \/ /\ j = k /\ offset = X /\ sent.name = NoHost
       \/ /\ j = k /\ offset + 4 <= X /\ ExtensionEnd(Body, offset) <= X /\ NamedAt(Body, sent.name, offset)
  <2>1. CASE j = k BY <1>4, <1>5, <2>1
  <2>2. CASE j # k
    <3>1. j + 1 \in 1..k /\ (j + 1) - 1 = j /\ j + 1 \in 0..k BY <1>4, <2>2
    <3>2. /\ start[(j + 1) - 1] + 4 <= X /\ readU16BE(Body, start[(j + 1) - 1]) # 0
          /\ start[j + 1] = ExtensionEnd(Body, start[(j + 1) - 1])
      BY <1>4, <3>1
    <3>3. start[j + 1] <= X BY <1>4, <3>1
    <3> QED BY <1>5, <2>2, <3>1, <3>2, <3>3
  <2> QED BY <2>1, <2>2
<1>12. CASE offset + 4 > end
  <2>1. Nothing BY <1>12 DEF Extension
  <2>2. ~Sure BY <1>6, <1>7, <1>11, <1>12 DEF Sure
  <2> QED BY <1>10, <2>1, <2>2
<1>13. CASE ~(offset + 4 > end)
  <2>1. offset + 4 <= X /\ offset # X /\ offset + 1 < length /\ offset + 2 \in Nat /\ (offset + 2) + 1 < length
    BY <1>6, <1>7, <1>13
  <2>2. U16(offset) = readU16BE(Body, offset) /\ AfterExtension = ExtensionEnd(Body, offset)
    BY <1>1, <1>6, <2>1 DEF KnownBody, AfterExtension, ExtensionEnd
  <2>3. ExtensionEnd(Body, offset) <= X BY <1>11, <2>1
  <2>4. readU16BE(Body, offset + 2) \in Nat
    <3>1. (offset + 2) + 1 < Len(Body) BY <1>6, <2>1
    <3> QED BY <1>1, <2>1, <3>1 DEF KnownBody
  <2>5. ExtensionEnd(Body, offset) \in Nat BY <1>6, <2>4 DEF ExtensionEnd
  <2>6. CASE AfterExtension > end
    <3>1. Nothing BY <1>13, <2>6 DEF Extension
    <3>2. ~Sure BY <1>6, <1>7, <2>2, <2>3, <2>5, <2>6 DEF Sure
    <3> QED BY <1>10, <3>1, <3>2
  <2>7. CASE ~(AfterExtension > end) /\ U16(offset) = 0
    <3>1. GoOn("server_name", offset + 4) /\ end' = AfterExtension BY <1>13, <2>7 DEF Extension
    <3>2. j = k /\ NamedAt(Body, sent.name, offset) BY <1>11, <2>1, <2>2, <2>7
    <3>3. pc' = "server_name" /\ offset' = offset + 4 BY <3>1 DEF GoOn
    <3>4. AtExtension(k, start)' BY <1>4, <1>5, <1>8, <1>9, <2>2, <3>1, <3>2, <3>3 DEF AtExtension
    <3>5. "server_name" \in Walking BY DEF Walking
    <3>6. Answer' BY <1>2, <3>1, <3>5, GoOnAnswers
    <3>7. HelloPlace' BY <3>3, <3>4 DEF HelloPlace
    <3> QED BY <1>2, <1>8, <1>9, <3>3, <3>6, <3>7 DEF HelloInv
  <2>8. CASE ~(AfterExtension > end) /\ U16(offset) # 0
    <3>1. GoOn("extension", AfterExtension) /\ end' = end BY <1>13, <2>8 DEF Extension
    <3>2. j + 1 \in 0..k /\ AfterExtension = start[j + 1]
      <4>1. j # k BY <1>11, <2>1, <2>2, <2>8 DEF NamedAt
      <4>2. j + 1 \in 0..k BY <1>4, <4>1
      <4> QED BY <1>11, <2>2, <4>1, <4>2
    <3>3. pc' = "extension" /\ offset' = start[j + 1] BY <3>1, <3>2 DEF GoOn
    <3>4. AtExtension(k, start)' BY <1>4, <1>8, <1>9, <3>1, <3>2, <3>3 DEF AtExtension, X
    <3>5. "extension" \in Walking BY DEF Walking
    <3>6. Answer' BY <1>2, <3>1, <3>5, GoOnAnswers
    <3>7. HelloPlace' BY <3>3, <3>4 DEF HelloPlace
    <3> QED BY <1>2, <1>8, <1>9, <3>3, <3>6, <3>7 DEF HelloInv
  <2> QED BY <2>6, <2>7, <2>8
<1> QED BY <1>12, <1>13

LEMMA HelloServerName ==
  ASSUME Inside, HelloInv, ServerName
  PROVE  HelloInv'
<1>1. KnownBody BY BodyKnown DEF HelloInv
<1>2. /\ Carried /\ Answer /\ sent.kind = "tls" /\ IsHello(Body, sent.name) /\ "dns" \notin Range(tries)
      /\ pc = "server_name"
  BY DEF HelloInv, ServerName
<1>3. PICK k, start : AtExtension(k, start) BY <1>2 DEF HelloInv, HelloPlace
<1> DEFINE s == start[k]
           n == readU16BE(Body, s + 7)
<1>4. /\ offset = s + 4 /\ end = ExtensionEnd(Body, s) /\ NamedAt(Body, sent.name, s) /\ s \in Nat
  BY <1>2, <1>3 DEF AtExtension, ExtensionsIn
<1>5. /\ At(Body, s + 6) = 0 /\ n \in 1..255 /\ s + 9 + n <= end /\ sent.name = <<[at |-> s + 9, len |-> n]>>
  BY <1>4 DEF NamedAt
<1>6. length \in Nat /\ Len(Body) \in Nat /\ end <= length /\ end \in Nat
  BY <1>1, <1>2, Known DEF KnownBody, Walking
<1> HIDE DEF s, n
<1>7. /\ offset + 2 = s + 6 /\ offset + 3 = s + 7 /\ offset + 5 = s + 9
      /\ s + 6 \in Nat /\ s + 6 < length /\ s + 7 \in Nat /\ (s + 7) + 1 < length
      /\ ~(offset + 5 > end) /\ ~(offset + 5 + n > end)
  BY <1>4, <1>5, <1>6
<1>8. P(offset + 2) = 0 /\ U16(offset + 3) = n BY <1>1, <1>5, <1>7 DEF KnownBody, n
<1>9. Found(sent.name) BY <1>5, <1>7, <1>8 DEF ServerName
<1>10. UNCHANGED <<sent, payload, tries>> /\ pc' = "done" BY <1>9 DEF Found
<1>11. Carried' /\ Body' = Body BY <1>2, <1>10, StillCarried DEF Body
<1>12. IsAnswer(sent.name)
  <2>1. Prefix(sent.name, sent.name)
    <3>1. Len(sent.name) \in Nat BY <1>2 DEF Carried
    <3>2. \A i \in DOMAIN sent.name : sent.name[i].len = n BY <1>5
    <3> QED BY <1>5, <3>1, <3>2 DEF Prefix
  <2> QED BY <2>1 DEF IsAnswer
<1>13. Answer' BY <1>2, <1>9, <1>12, FoundAnswers
<1> QED BY <1>2, <1>10, <1>11, <1>13 DEF HelloInv, HelloPlace

LEMMA HelloTry ==
  ASSUME Inside, HelloInv, Try
  PROVE  HelloInv'
<1>1. UNCHANGED <<sent, payload>> BY DEF Try
<1>2. Carried' /\ Body' = Body BY <1>1, StillCarried DEF HelloInv, Body
<1>3. "tls" \in Extractors BY DEF Extractors
<1>4. Answer' BY <1>3, TryAnswers DEF HelloInv
<1>5. pc' \in {"tls", "http", "done"} /\ "dns" \notin Range(tries')
  <2>1. CASE tries = <<>>
    BY <2>1 DEF Try, HelloInv
  <2>2. CASE tries # <<>>
    <3>1. <<Head(tries)>> \o Tail(tries) = tries /\ Head(tries) \in Extractors /\ Tail(tries) \in Seq(Extractors)
      BY <2>2, HeadFirst DEF Inside
    <3>2. Range(tries) = {Head(tries)} \cup Range(Tail(tries)) BY <3>1, RangeOfCons
    <3> QED BY <2>2, <3>1, <3>2 DEF Try, HelloInv, Extractors
  <2> QED BY <2>1, <2>2
<1> QED BY <1>1, <1>2, <1>4, <1>5 DEF HelloInv, HelloPlace

LEMMA HelloIsNoRequest ==
  ASSUME Inside, HelloInv, HTTPHost
  PROVE  HelloInv'
<1>1. KnownBody BY BodyKnown DEF HelloInv
<1>2. /\ Carried /\ Answer /\ sent.kind = "tls" /\ IsHello(Body, sent.name) /\ "dns" \notin Range(tries)
      /\ pc = "http"
  BY DEF HelloInv, HTTPHost
<1>3. ~IsRequest
  <2> SUFFICES ASSUME IsRequest PROVE FALSE OBVIOUS
  <2>1. length \in Nat /\ 0 < length /\ 0 \in Nat BY <1>1 DEF IsRequest, KnownBody
  <2>2. P(0) = 22 BY <1>1, <1>2, <2>1 DEF KnownBody, IsHello
  <2>3. PICK v \in Verbs : \A i \in DOMAIN v : P(i - 1) = v[i] BY DEF IsRequest
  <2>4. 1 \in DOMAIN v /\ v[1] # 22 BY DEF Verbs
  <2> QED BY <2>2, <2>3, <2>4
<1>4. Nothing BY <1>3 DEF HTTPHost
<1>5. UNCHANGED <<sent, payload, tries>> /\ pc' = "try" BY <1>4 DEF Nothing
<1>6. Carried' /\ Body' = Body BY <1>2, <1>5, StillCarried DEF Body
<1>7. pc \in Extractors \ {sent.kind} /\ pc # "done" BY <1>2 DEF Extractors
<1>8. Answer' BY <1>2, <1>4, <1>7, NothingAnswers
<1> QED BY <1>2, <1>5, <1>6, <1>8 DEF HelloInv, HelloPlace

LEMMA HelloStays ==
  ASSUME Inside, HelloInv, [Next]_vars
  PROVE  HelloInv'
<1>1. ~(DNSHeader \/ DNSLabel \/ DNSName) BY DEF HelloInv, DNSHeader, DNSLabel, DNSName
<1>2. CASE UNCHANGED vars
  <2>1. UNCHANGED <<sent, payload, tries, pc, offset, end, host>> BY <1>2 DEF vars
  <2>2. Carried' BY <2>1, StillCarried DEF HelloInv
  <2> QED BY <2>1, <2>2 DEF HelloInv, Answer, Sure, IsAnswer, HelloPlace, AtExtension, Body, length
<1>3. CASE SessionID \/ CipherSuites \/ CompressionMethods
  BY <1>3, HelloVectors
<1>4. CASE ClientHello \/ Extensions
  BY <1>4, HelloStarts, HelloExtensions
<1>5. CASE Extension \/ ServerName
  BY <1>5, HelloExtension, HelloServerName
<1>6. CASE Try \/ HTTPHost
  BY <1>6, HelloTry, HelloIsNoRequest
<1> QED BY <1>1, <1>2, <1>3, <1>4, <1>5, <1>6 DEF Next, Step

-----------------------------------------------------------------------------
(* An HTTP request.                                                        *)
LEMMA FirstIs ==
  ASSUME NEW S \in SUBSET Nat, NEW n \in S, \A m \in S : n <= m
  PROVE  First(S) = n
<1>1. First(S) \in S /\ \A m \in S : First(S) <= m BY DEF First
<1>2. First(S) <= n /\ n <= First(S) /\ First(S) \in Nat /\ n \in Nat BY <1>1
<1> QED BY <1>2

LEMMA LatestIs ==
  ASSUME NEW S \in SUBSET Nat, NEW n \in S, \A m \in S : m <= n
  PROVE  Latest(S) = n
<1>1. Latest(S) \in S /\ \A m \in S : m <= Latest(S) BY DEF Latest
<1>2. Latest(S) <= n /\ n <= Latest(S) /\ Latest(S) \in Nat /\ n \in Nat BY <1>1
<1> QED BY <1>2

LEMMA PortCut ==
  ASSUME NEW from \in Nat, NEW to \in Nat, from <= to
  PROVE  /\ WithoutPort(from, to) \in from..to
         /\ WithoutPort(from, to) # to => \E k \in from..(to - 1) :
              P(k) = 58 /\ \A j \in (k + 1)..(to - 1) : P(j) \in Digits
         /\ \A k \in from..(to - 1) :
              P(k) = 58 /\ (\A j \in (k + 1)..(to - 1) : P(j) \in Digits) => WithoutPort(from, to) = k
<1> DEFINE colons == {k \in from..(to - 1) : P(k) = 58}
<1>1. colons # {} => Latest(colons) \in colons /\ \A m \in colons : m <= Latest(colons)
  <2> SUFFICES ASSUME colons # {} PROVE \E k \in colons : \A m \in colons : m <= k BY DEF Latest
  <2>1. colons \in SUBSET (0..to)
    <3>1. \A k \in from..(to - 1) : k \in 0..to OBVIOUS
    <3> QED BY <3>1
  <2> HIDE DEF colons
  <2> QED BY <2>1, GreatestElement
<1>2. WithoutPort(from, to) = IF colons # {} /\ \A k \in (Latest(colons) + 1)..(to - 1) : P(k) \in Digits
                              THEN Latest(colons) ELSE to
  BY DEF WithoutPort
<1>3. \A k : k \in colons <=> k \in from..(to - 1) /\ P(k) = 58 OBVIOUS
<1>4. \A k \in from..(to - 1) : k \in from..to /\ k \in Nat OBVIOUS
<1> HIDE DEF colons
<1>5. WithoutPort(from, to) \in from..to
  <2>1. to \in from..to OBVIOUS
  <2> QED BY <1>1, <1>2, <1>3, <1>4, <2>1
<1>6. WithoutPort(from, to) # to => \E k \in from..(to - 1) :
        P(k) = 58 /\ \A j \in (k + 1)..(to - 1) : P(j) \in Digits
  BY <1>1, <1>2, <1>3
<1>7. ASSUME NEW k \in from..(to - 1), P(k) = 58, \A j \in (k + 1)..(to - 1) : P(j) \in Digits
      PROVE  WithoutPort(from, to) = k
  <2>1. k \in colons /\ colons \in SUBSET Nat BY <1>3, <1>4, <1>7
  <2>2. ASSUME NEW m \in colons PROVE m <= k
    <3>1. m \in from..(to - 1) /\ P(m) = 58 BY <1>3
    <3>2. m > k => m \in (k + 1)..(to - 1) BY <3>1
    <3>3. 58 \notin Digits BY DEF Digits
    <3> QED BY <1>7, <3>1, <3>2, <3>3
  <2>3. Latest(colons) = k BY <2>1, <2>2, LatestIs
  <2> QED BY <1>2, <1>7, <2>1, <2>3
<1> QED BY <1>5, <1>6, <1>7

RequestInv ==
  /\ Carried /\ Answer /\ sent.kind = "http" /\ IsHTTPRequest(Body, sent.name)
  /\ pc \in Extractors \cup {"try", "done"}

LEMMA RequestBytes ==
  ASSUME KnownBody, NEW name, IsHTTPRequest(Body, name)
  PROVE  /\ length > 0 => P(0) # 22
         /\ length > 2 => ~(P(2) \div 8 = 0)
         /\ length = Len(Body) /\ length >= 10 => IsRequest
<1>1. PICK v \in Verbs : Len(v) <= Len(Body) /\ \A i \in DOMAIN v : At(Body, i - 1) = v[i] BY DEF IsHTTPRequest
<1>2. length \in Nat BY DEF KnownBody
<1>3. 1 \in DOMAIN v /\ v[1] # 22 /\ 3 \in DOMAIN v /\ v[3] \in 65..90 BY DEF Verbs
<1>4. ASSUME length > 0 PROVE P(0) # 22
  <2>1. P(0) = At(Body, 0) /\ 1 - 1 = 0 BY <1>2, <1>4 DEF KnownBody
  <2> QED BY <1>1, <1>3, <2>1
<1>5. ASSUME length > 2 PROVE ~(P(2) \div 8 = 0)
  <2>1. P(2) = At(Body, 2) /\ 3 - 1 = 2 BY <1>2, <1>5 DEF KnownBody
  <2>2. P(2) \in 65..90 BY <1>1, <1>3, <2>1
  <2>3. \A x \in 65..90 : ~(x \div 8 = 0) OBVIOUS
  <2> QED BY <2>2, <2>3
<1>6. ASSUME length = Len(Body), length >= 10 PROVE IsRequest
  <2>2. DOMAIN v = 1..Len(v) /\ Len(v) \in Nat BY DEF Verbs
  <2>3. ASSUME NEW i \in DOMAIN v PROVE P(i - 1) = v[i]
    <3>1. i - 1 \in Nat /\ i - 1 < length BY <1>1, <1>2, <1>6, <2>2
    <3>2. P(i - 1) = At(Body, i - 1) BY <3>1 DEF KnownBody
    <3> QED BY <1>1, <3>2
  <2> QED BY <1>6, <2>3 DEF IsRequest
<1> QED BY <1>4, <1>5, <1>6

(* The searched part of the payload against the whole request: the same    *)
(* header, the same line or its beginning.                                 *)
LEMMA HostsSame ==
  ASSUME KnownBody
  PROVE  /\ scan_len \in Nat /\ scan_len <= length /\ scan_len <= 8192
         /\ scan_len = length \/ scan_len = 8192
         /\ HostsAt \in SUBSET Nat
         /\ \A i \in Nat : i \in HostsAt <=> i + 7 <= scan_len /\ HostAt(Body, i)
<1>1. length \in Nat /\ Len(Body) \in Nat /\ length <= Len(Body) BY DEF KnownBody
<1>2. /\ scan_len \in Nat /\ scan_len <= length /\ scan_len <= 8192
      /\ scan_len = length \/ scan_len = 8192
  BY <1>1 DEF scan_len, Least
<1>3. HostsAt \in SUBSET Nat
  <2>1. \A i \in 0..(scan_len - 1) : i \in Nat BY <1>2
  <2> QED BY <2>1 DEF HostsAt
<1>4. ASSUME NEW i \in Nat PROVE i \in HostsAt <=> i + 7 <= scan_len /\ HostAt(Body, i)
  <2>1. i + 7 <= scan_len => i \in 0..(scan_len - 1) /\ i + 7 <= Len(Body) BY <1>1, <1>2
  <2>2. i + 7 <= scan_len => \A k \in 0..5 : P(i + k) = At(Body, i + k)
    <3>1. i + 7 <= scan_len => \A k \in 0..5 : i + k \in Nat /\ i + k < length BY <1>1, <1>2
    <3> QED BY <3>1 DEF KnownBody
  <2> QED BY <2>1, <2>2 DEF HostsAt, HostAt
<1> QED BY <1>2, <1>3, <1>4

LEMMA LineFound ==
  ASSUME KnownBody, NEW name, NEW h, NEW eol, NEW c, HostLineIn(Body, name, h, eol, c), HostsAt # {}
  PROVE  /\ First(HostsAt) = h
         /\ LineEnd(h + 6) = Least(eol, scan_len) /\ h + 7 <= scan_len
<1>1. /\ h \in Nat /\ eol \in Nat /\ c \in Nat /\ HostAt(Body, h) /\ \A i \in 0..(h - 1) : ~HostAt(Body, i)
      /\ h + 6 < c /\ c <= eol /\ At(Body, eol) \in LineEnds
      /\ \A j \in (h + 6)..(eol - 1) : At(Body, j) \notin LineEnds
  BY DEF HostLineIn
<1>2. /\ scan_len \in Nat /\ scan_len <= length /\ HostsAt \in SUBSET Nat /\ length \in Nat
      /\ \A i \in Nat : i \in HostsAt <=> i + 7 <= scan_len /\ HostAt(Body, i)
  BY HostsSame DEF KnownBody
<1>3. ASSUME NEW i \in HostsAt PROVE h <= i /\ i + 7 <= scan_len
  <2>1. i \in Nat /\ i + 7 <= scan_len /\ HostAt(Body, i) BY <1>2
  <2>2. i \notin 0..(h - 1) BY <1>1, <2>1
  <2> QED BY <1>1, <2>1, <2>2
<1>4. h + 7 <= scan_len
  <2>1. PICK i \in HostsAt : TRUE OBVIOUS
  <2> QED BY <1>1, <1>2, <1>3, <2>1
<1>5. First(HostsAt) = h BY <1>1, <1>2, <1>3, <1>4, FirstIs
<1> DEFINE ends == {scan_len} \cup {j \in (h + 6)..(scan_len - 1) : P(j) \in LineEnds}
<1>6. \A j : j \in ends <=> j = scan_len \/ (j \in (h + 6)..(scan_len - 1) /\ At(Body, j) \in LineEnds)
  <2>1. ASSUME NEW j \in (h + 6)..(scan_len - 1) PROVE P(j) = At(Body, j)
    <3>1. j \in Nat /\ j < length BY <1>1, <1>2
    <3> QED BY <3>1 DEF KnownBody
  <2> QED BY <2>1
<1>7. LineEnd(h + 6) = First(ends) BY DEF LineEnd
<1>8. ends \in SUBSET Nat
  <2>1. \A j \in (h + 6)..(scan_len - 1) : j \in Nat BY <1>1, <1>2
  <2> QED BY <1>2, <2>1
<1> HIDE DEF ends
<1>9. CASE eol < scan_len
  <2>1. eol \in ends
    <3>1. eol \in (h + 6)..(scan_len - 1) BY <1>1, <1>2, <1>9
    <3> QED BY <1>1, <1>6, <3>1
  <2>2. ASSUME NEW j \in ends PROVE eol <= j
    <3>1. j = scan_len \/ (j \in (h + 6)..(scan_len - 1) /\ j \notin (h + 6)..(eol - 1)) BY <1>1, <1>6
    <3> QED BY <1>1, <1>2, <1>9, <3>1
  <2>3. First(ends) = eol BY <1>8, <2>1, <2>2, FirstIs
  <2>4. Least(eol, scan_len) = eol BY <1>1, <1>2, <1>9 DEF Least
  <2> QED BY <1>4, <1>5, <1>7, <2>3, <2>4
<1>10. CASE ~(eol < scan_len)
  <2>1. scan_len \in ends BY <1>6
  <2>2. ASSUME NEW j \in ends PROVE scan_len <= j
    <3>1. j \in (h + 6)..(scan_len - 1) => j \in (h + 6)..(eol - 1) BY <1>1, <1>2, <1>10
    <3>2. j = scan_len BY <1>1, <1>6, <3>1
    <3> QED BY <1>2, <3>2
  <2>3. First(ends) = scan_len BY <1>8, <2>1, <2>2, FirstIs
  <2>4. Least(eol, scan_len) = scan_len BY <1>1, <1>2, <1>10 DEF Least
  <2> QED BY <1>4, <1>5, <1>7, <2>3, <2>4
<1> QED BY <1>9, <1>10

(* What the search returns is the name, or where the line was cut off the  *)
(* beginning of it.                                                        *)
LEMMA ValueFound ==
  ASSUME KnownBody, NEW name, NEW h, NEW eol, NEW c, HostLineIn(Body, name, h, eol, c), HostsAt # {},
         NEW to, to = WithoutPort(h + 6, LineEnd(h + 6))
  PROVE  /\ to \in (h + 6)..c
         /\ length = Len(Body) => to = c
<1> DEFINE from == h + 6
           le == Least(eol, scan_len)
<1>1. /\ h \in Nat /\ eol \in Nat /\ c \in Nat /\ from < c /\ c <= eol /\ eol < Len(Body) /\ eol < 8192
      /\ \/ c < eol /\ At(Body, c) = 58 /\ \A j \in (c + 1)..(eol - 1) : At(Body, j) \in Digits
         \/ c = eol /\ \A j \in from..(eol - 1) :
                         At(Body, j) = 58 => \E i \in (j + 1)..(eol - 1) : At(Body, i) \notin Digits
  BY DEF HostLineIn
<1>2. /\ scan_len \in Nat /\ scan_len <= length /\ length \in Nat
      /\ scan_len = length \/ scan_len = 8192
  BY HostsSame DEF KnownBody
<1>3. LineEnd(from) = le /\ from + 1 <= scan_len /\ to = WithoutPort(from, le) BY <1>1, <1>2, LineFound
<1>4. /\ le \in Nat /\ le <= eol /\ le <= scan_len /\ (le = eol \/ le = scan_len)
      /\ scan_len > eol => le = eol
  BY <1>1, <1>2 DEF Least
<1>5. from \in Nat /\ from < le /\ (length = Len(Body) => le = eol)
  <2>1. length = Len(Body) => scan_len > eol BY <1>1, <1>2
  <2> QED BY <1>1, <1>2, <1>3, <1>4, <2>1
<1>6. \A j \in from..(le - 1) : P(j) = At(Body, j)
  <2>1. \A j \in from..(le - 1) : j \in Nat /\ j < length BY <1>2, <1>4, <1>5
  <2> QED BY <2>1 DEF KnownBody
<1> HIDE DEF from, le
<1>7. /\ WithoutPort(from, le) \in from..le
      /\ WithoutPort(from, le) # le => \E k \in from..(le - 1) :
              P(k) = 58 /\ \A j \in (k + 1)..(le - 1) : P(j) \in Digits
      /\ \A k \in from..(le - 1) :
              P(k) = 58 /\ (\A j \in (k + 1)..(le - 1) : P(j) \in Digits) => WithoutPort(from, le) = k
  <2>1. from <= le BY <1>4, <1>5
  <2> QED BY <1>4, <1>5, <2>1, PortCut
<1>8. CASE c < eol /\ At(Body, c) = 58 /\ \A j \in (c + 1)..(eol - 1) : At(Body, j) \in Digits
  <2>1. CASE c < le
    <3>1. c \in from..(le - 1) BY <1>1, <1>4, <1>5, <2>1
    <3>2. ASSUME NEW j \in (c + 1)..(le - 1) PROVE P(j) \in Digits
      <4>1. j \in from..(le - 1) /\ j \in (c + 1)..(eol - 1) BY <1>1, <1>4, <1>5
      <4> QED BY <1>6, <1>8, <4>1
    <3>3. to = c BY <1>3, <1>6, <1>7, <1>8, <3>1, <3>2
    <3>4. c \in from..c BY <1>1, <1>5
    <3> QED BY <3>3, <3>4 DEF from
  <2>2. CASE ~(c < le)
    <3>1. length # Len(Body) BY <1>1, <1>4, <1>5, <1>8, <2>2
    <3>2. to \in from..c BY <1>1, <1>3, <1>4, <1>5, <1>7, <2>2
    <3> QED BY <3>1, <3>2 DEF from
  <2> QED BY <2>1, <2>2
<1>9. CASE c = eol /\ \A j \in from..(eol - 1) :
                        At(Body, j) = 58 => \E i \in (j + 1)..(eol - 1) : At(Body, i) \notin Digits
  <2>1. to \in from..c BY <1>1, <1>3, <1>4, <1>5, <1>7, <1>9
  <2>2. ASSUME length = Len(Body) PROVE to = c
    <3> SUFFICES ASSUME to # c PROVE FALSE OBVIOUS
    <3>1. le = eol /\ c = eol BY <1>5, <1>9, <2>2
    <3>2. PICK k \in from..(le - 1) : P(k) = 58 /\ \A j \in (k + 1)..(le - 1) : P(j) \in Digits
      BY <1>3, <1>7, <3>1
    <3>3. PICK i \in (k + 1)..(eol - 1) : At(Body, i) \notin Digits BY <1>6, <1>9, <3>1, <3>2
    <3>4. i \in from..(le - 1) BY <1>1, <1>5, <3>1, <3>2, <3>3
    <3> QED BY <1>6, <3>1, <3>2, <3>3, <3>4
  <2> QED BY <2>1, <2>2 DEF from
<1> QED BY <1>1, <1>8, <1>9 DEF from

LEMMA RequestSearched ==
  ASSUME Inside, RequestInv, HTTPHost
  PROVE  RequestInv'
<1>1. KnownBody BY BodyKnown DEF RequestInv
<1>2. /\ Carried /\ Answer /\ sent.kind = "http" /\ IsHTTPRequest(Body, sent.name) /\ pc = "http"
      /\ length \in Nat /\ Len(Body) \in Nat
  BY <1>1 DEF RequestInv, HTTPHost, KnownBody
<1>3. UNCHANGED <<sent, payload>> /\ pc' \in {"try", "done"} BY DEF HTTPHost, Nothing, Found
<1>4. Carried' /\ Body' = Body BY <1>2, <1>3, StillCarried DEF Body
<1>5. ASSUME Answer' PROVE RequestInv' BY <1>2, <1>3, <1>4, <1>5 DEF RequestInv
<1>6. CASE ~IsRequest \/ HostsAt = {}
  <2>1. Nothing BY <1>6 DEF HTTPHost
  <2>2. ~Sure
    <3> SUFFICES ASSUME Sure PROVE FALSE OBVIOUS
    <3>1. PICK h, eol, c : HostLineIn(Body, sent.name, h, eol, c) BY <1>2 DEF Sure, IsHTTPRequest
    <3>2. /\ h \in Nat /\ h + 6 < eol /\ eol < length /\ eol < 8192 /\ length >= 10 /\ HostAt(Body, h)
          /\ eol \in Nat
      <4>1. /\ h \in Nat /\ eol \in Nat /\ c \in Nat /\ h + 6 < c /\ c <= eol /\ eol < Len(Body) /\ eol < 8192
            /\ Len(Body) >= 10 /\ HostAt(Body, h) /\ length = Len(Body)
        BY <3>1 DEF HostLineIn, Sure
      <4> QED BY <4>1
    <3>3. IsRequest BY <1>1, <1>2, <3>2, RequestBytes DEF Sure
    <3>4. h \in HostsAt
      <4>1. /\ scan_len \in Nat /\ (scan_len = length \/ scan_len = 8192)
            /\ \A i \in Nat : i \in HostsAt <=> i + 7 <= scan_len /\ HostAt(Body, i)
        BY <1>1, HostsSame
      <4>2. h + 7 <= scan_len BY <1>2, <3>2, <4>1
      <4> QED BY <3>2, <4>1, <4>2
    <3> QED BY <1>6, <3>3, <3>4
  <2>3. Answer' BY <1>2, <2>1, <2>2, NothingAnswers
  <2> QED BY <1>5, <2>3
<1>7. CASE ~(~IsRequest \/ HostsAt = {})
  <2>1. PICK h, eol, c : HostLineIn(Body, sent.name, h, eol, c)
    <3>1. /\ HostsAt \in SUBSET Nat
          /\ \A i \in Nat : i \in HostsAt <=> i + 7 <= scan_len /\ HostAt(Body, i)
      BY <1>1, HostsSame
    <3>2. PICK i \in HostsAt : TRUE BY <1>7
    <3>3. i \in Nat /\ HostAt(Body, i) BY <3>1, <3>2
    <3>4. i \in 0..Len(Body) BY <1>2, <3>3 DEF HostAt
    <3> QED BY <1>2, <3>3, <3>4 DEF IsHTTPRequest
  <2>2. /\ h \in Nat /\ c \in Nat /\ h + 6 < c /\ sent.name = <<[at |-> h + 6, len |-> c - (h + 6)]>>
    BY <2>1 DEF HostLineIn
  <2> DEFINE from == h + 6
             to == WithoutPort(from, LineEnd(from))
  <2>3. First(HostsAt) = h BY <1>1, <1>7, <2>1, LineFound
  <2>4. to \in from..c /\ (length = Len(Body) => to = c) BY <1>1, <1>7, <2>1, ValueFound
  <2>5. IF to = from THEN Nothing ELSE Found(<<[at |-> from, len |-> to - from]>>)
    BY <1>7, <2>3 DEF HTTPHost
  <2>6. from \in Nat /\ from < c /\ sent.name = <<[at |-> from, len |-> c - from]>> BY <2>2
  <2> HIDE DEF from, to
  <2>7. CASE to = from
    <3>1. ~Sure BY <1>2, <2>2, <2>4, <2>6, <2>7 DEF Sure
    <3>2. Answer' BY <1>2, <2>5, <2>7, <3>1, NothingAnswers
    <3> QED BY <1>5, <3>2
  <2>8. CASE to # from
    <3> DEFINE found == <<[at |-> from, len |-> to - from]>>
    <3>1. IsAnswer(found)
      <4>1. to - from <= c - from BY <2>2, <2>4, <2>6
      <4>2. Prefix(found, sent.name) BY <2>6, <4>1 DEF Prefix
      <4>3. length = Len(Body) => found = sent.name BY <2>4, <2>6
      <4>4. sent.kind # "tls" BY <1>2
      <4> QED BY <4>2, <4>3, <4>4 DEF IsAnswer
    <3>2. Found(found) BY <2>5, <2>8
    <3> HIDE DEF found
    <3>3. Answer' BY <1>2, <3>1, <3>2, FoundAnswers
    <3> QED BY <1>5, <3>3
  <2> QED BY <2>7, <2>8
<1> QED BY <1>6, <1>7

LEMMA RequestStays ==
  ASSUME Inside, RequestInv, [Next]_vars
  PROVE  RequestInv'
<1>1. KnownBody BY BodyKnown DEF RequestInv
<1>2. /\ Carried /\ Answer /\ sent.kind = "http" /\ IsHTTPRequest(Body, sent.name)
      /\ pc \in Extractors \cup {"try", "done"} /\ length \in Nat
  BY <1>1 DEF RequestInv, KnownBody
<1>3. UNCHANGED <<sent, payload>> BY SentStays
<1>4. Carried' /\ Body' = Body BY <1>2, <1>3, StillCarried DEF Body
<1>5. ASSUME Nothing, pc \in Extractors \ {"http"} PROVE RequestInv'
  <2>1. pc # "done" /\ pc' = "try" BY <1>5 DEF Nothing, Extractors
  <2>2. Answer' BY <1>2, <1>5, <2>1, NothingAnswers
  <2> QED BY <1>2, <1>3, <1>4, <2>1, <2>2 DEF RequestInv
<1>6. CASE Try
  <2>1. "http" \in Extractors BY DEF Extractors
  <2>2. Answer' BY <1>2, <1>6, <2>1, TryAnswers
  <2>3. pc' \in Extractors \cup {"try", "done"}
    <3>1. tries # <<>> => Head(tries) \in Extractors BY HeadTailProperties DEF Inside
    <3> QED BY <1>6, <3>1 DEF Try
  <2> QED BY <1>2, <1>3, <1>4, <2>2, <2>3 DEF RequestInv
<1>7. CASE ClientHello
  <2>1. ~IsClientHello BY <1>1, <1>2, RequestBytes DEF IsClientHello
  <2> QED BY <1>5, <1>7, <2>1 DEF ClientHello, Extractors
<1>8. CASE DNSHeader
  <2>1. ~IsDNSQuery BY <1>1, <1>2, RequestBytes DEF IsDNSQuery
  <2> QED BY <1>5, <1>8, <2>1 DEF DNSHeader, Extractors
<1>9. CASE HTTPHost
  BY <1>9, RequestSearched
<1>10. CASE UNCHANGED vars
  <2>1. UNCHANGED <<sent, payload, tries, pc, host>> BY <1>10 DEF vars
  <2> QED BY <1>4, <2>1 DEF RequestInv, Answer, Sure, IsAnswer, Body, length
<1>11. ~(SessionID \/ CipherSuites \/ CompressionMethods \/ Extensions \/ Extension \/ ServerName \/ DNSLabel \/ DNSName)
  BY <1>2 DEF Extractors, SessionID, CipherSuites, CompressionMethods, Vector, Extensions, Extension, ServerName,
              DNSLabel, DNSName
<1> QED BY <1>6, <1>7, <1>8, <1>9, <1>10, <1>11 DEF Next, Step

-----------------------------------------------------------------------------
(* A DNS message.                                                          *)
AtLabel(j) ==
  /\ j \in 0..Len(sent.name) /\ offset = LabelsEnd(sent.name, j)
  /\ labels = SubSeq(sent.name, 1, j) /\ end = Least(12 + 255, length)

QuestionInv ==
  /\ Carried /\ Answer /\ sent.kind = "dns" /\ ~LooksLikeHello(Body) /\ IsDNSMessage(Body, sent.name)
  /\ pc \in Extractors \cup {"try", "label", "done"}
  /\ pc = "label" => IsQuestion(Body, sent.name) /\ \E j : AtLabel(j)

LEMMA SomeLabels ==
  ASSUME sent.kind = "dns", sent.name \in Seq(LabelSet), NEW j \in 0..Len(sent.name),
         length = Len(Body) => j = Len(sent.name)
  PROVE  IsAnswer(SubSeq(sent.name, 1, j)) /\ (j # 0 => SubSeq(sent.name, 1, j) # <<>>)
<1> DEFINE name == sent.name
           some == SubSeq(name, 1, j)
<1>1. Len(name) \in Nat /\ j \in Nat /\ j <= Len(name) BY LenProperties
<1>2. some \in Seq(LabelSet) /\ Len(some) = j /\ \A i \in 1..j : some[i] = name[i]
  <2>1. 0 \in Nat /\ 0 + 1 = 1 /\ 0 + j = j /\ 0 + j <= Len(name) /\ \A i \in 1..j : 0 + i = i BY <1>1
  <2>2. /\ SubSeq(name, 0 + 1, 0 + j) \in Seq(LabelSet) /\ Len(SubSeq(name, 0 + 1, 0 + j)) = j
        /\ \A i \in 1..j : SubSeq(name, 0 + 1, 0 + j)[i] = name[0 + i]
    BY <1>1, <2>1, Stretch
  <2> QED BY <2>1, <2>2
<1>3. length = Len(Body) => some = name BY SubSeqFull
<1>4. j # 0 => some # <<>> BY <1>1, <1>2, EmptySeq
<1> HIDE DEF some
<1>5. Prefix(some, name)
  <2>1. DOMAIN some = 1..j BY <1>2, LenProperties
  <2>2. ASSUME NEW i \in 1..j PROVE some[i].at = name[i].at /\ some[i].len <= name[i].len
    <3>1. some[i] \in LabelSet BY <1>2, <2>2, ElementOfSeq
    <3>2. \A r \in LabelSet : r.len \in 1..63 BY DEF LabelSet
    <3>3. some[i].len \in 1..63 BY <3>1, <3>2
    <3>4. some[i] = name[i] BY <1>2
    <3>5. \A n \in 1..63 : n <= n OBVIOUS
    <3>6. some[i].len <= some[i].len BY <3>3, <3>5
    <3> QED BY <3>4, <3>6
  <2> QED BY <1>1, <1>2, <2>1, <2>2 DEF Prefix
<1>6. sent.kind # "tls" OBVIOUS
<1> QED BY <1>3, <1>4, <1>5, <1>6 DEF IsAnswer, some

LEMMA QuestionBytes ==
  ASSUME KnownBody, ~LooksLikeHello(Body), NEW name, IsDNSMessage(Body, name)
  PROVE  /\ ~IsClientHello /\ ~IsRequest
         /\ IsDNSQuery => IsQuestion(Body, name)
         /\ length = Len(Body) /\ name # NoHost => IsDNSQuery
<1>1. length \in Nat /\ Len(Body) \in Nat /\ length <= Len(Body) /\ Len(Body) >= 12
  BY DEF KnownBody, IsDNSMessage
<1>2. length > 2 => P(2) = At(Body, 2) /\ P(2) \in 0..255
  <2>1. 2 \in Nat /\ 2 < Len(Body) BY <1>1
  <2>2. At(Body, 2) \in 0..255 BY <2>1 DEF KnownBody
  <2>3. 2 < length => P(2) = At(Body, 2) BY <2>1 DEF KnownBody
  <2> QED BY <1>1, <2>2, <2>3
<1>3. At(Body, 2) \div 8 = 0 \/ At(Body, 2) >= 128 BY DEF IsDNSMessage, IsQuestion
<1>4. ~IsClientHello
  <2> SUFFICES ASSUME IsClientHello PROVE FALSE OBVIOUS
  <2>1. length >= 44 /\ P(0) = 22 /\ P(5) = 1 /\ HandshakeEnd >= 43 BY DEF IsClientHello
  <2>2. P(0) = At(Body, 0) /\ P(5) = At(Body, 5) /\ P(6) = At(Body, 6) /\ U16(7) = readU16BE(Body, 7)
    <3>1. 0 \in Nat /\ 0 < length /\ 5 \in Nat /\ 5 < length /\ 6 \in Nat /\ 6 < length /\ 7 \in Nat /\ 7 + 1 < length
      BY <1>1, <2>1
    <3> QED BY <3>1 DEF KnownBody
  <2>3. HandshakeEnd = Least(HelloEnd(Body), length) BY <2>2 DEF HandshakeEnd, HelloEnd
  <2>4. HelloEnd(Body) \in Nat
    <3> DEFINE x == At(Body, 6)
               y == readU16BE(Body, 7)
    <3>1. x \in 0..255 /\ y \in Nat
      <4>1. 6 \in Nat /\ 6 < Len(Body) /\ 7 \in Nat /\ 7 + 1 < Len(Body) BY <1>1
      <4> QED BY <4>1 DEF KnownBody
    <3>2. HelloEnd(Body) = 9 + 65536 * x + y BY DEF HelloEnd
    <3> HIDE DEF x, y
    <3>3. 9 + 65536 * x + y \in Nat BY <3>1
    <3> QED BY <3>2, <3>3
  <2>5. HelloEnd(Body) >= 43 BY <1>1, <2>1, <2>3, <2>4 DEF Least
  <2> QED BY <2>1, <2>2, <2>5 DEF LooksLikeHello
<1>5. ~IsRequest
  <2> SUFFICES ASSUME IsRequest PROVE FALSE OBVIOUS
  <2>1. PICK v \in Verbs : \A i \in DOMAIN v : P(i - 1) = v[i] BY DEF IsRequest
  <2>2. 3 \in DOMAIN v /\ v[3] \in 65..90 /\ 3 - 1 = 2 BY DEF Verbs
  <2>3. P(2) \in 65..90 /\ length > 2
    <3>1. P(3 - 1) = v[3] BY <2>1, <2>2
    <3>2. length > 2 BY <1>1 DEF IsRequest
    <3> QED BY <2>2, <3>1, <3>2
  <2>4. \A x \in 65..90 : ~(x \div 8 = 0) /\ ~(x >= 128) OBVIOUS
  <2> QED BY <1>2, <1>3, <2>3, <2>4
<1>6. ASSUME IsDNSQuery PROVE IsQuestion(Body, name)
  <2>1. P(2) \div 8 = 0 /\ length > 2 BY <1>1, <1>6 DEF IsDNSQuery
  <2>2. \A x \in 0..255 : x \div 8 = 0 => ~(x >= 128) OBVIOUS
  <2>3. ~(At(Body, 2) >= 128) BY <1>2, <2>1, <2>2
  <2> QED BY <2>3 DEF IsDNSMessage
<1>7. ASSUME length = Len(Body), name # NoHost PROVE IsDNSQuery
  <2>1. IsQuestion(Body, name) BY <1>7 DEF IsDNSMessage
  <2>2. 4 \in Nat /\ 4 + 1 < length /\ length > 2 BY <1>1, <1>7
  <2>3. U16(4) = readU16BE(Body, 4) BY <2>2 DEF KnownBody
  <2> QED BY <1>1, <1>2, <1>7, <2>1, <2>2, <2>3 DEF IsQuestion, IsDNSQuery
<1> QED BY <1>4, <1>5, <1>6, <1>7

LEMMA QuestionLabels ==
  ASSUME Inside, QuestionInv, DNSLabel \/ DNSName
  PROVE  QuestionInv'
<1>1. KnownBody BY BodyKnown DEF QuestionInv
<1>2. /\ Carried /\ Answer /\ sent.kind = "dns" /\ ~LooksLikeHello(Body) /\ IsDNSMessage(Body, sent.name)
      /\ pc = "label" /\ IsQuestion(Body, sent.name)
  BY DEF QuestionInv, DNSLabel, DNSName
<1>3. PICK j : AtLabel(j) BY <1>2 DEF QuestionInv
<1> DEFINE name == sent.name
           b == At(Body, offset)
<1>4. /\ name \in Seq(LabelSet) /\ Len(name) \in Nat /\ j \in 0..Len(name)
      /\ offset = LabelsEnd(name, j) /\ offset < 267 /\ offset < Len(Body)
      /\ labels = SubSeq(name, 1, j) /\ end = Least(267, length)
  BY <1>2, <1>3, LenProperties DEF AtLabel, IsQuestion
<1>5. /\ offset \in Nat /\ length \in Nat /\ Len(Body) \in Nat /\ length <= Len(Body) /\ end \in Nat
      /\ end <= length /\ (offset >= end => length # Len(Body)) /\ b \in 0..255
  <2>1. offset \in Nat /\ length \in Nat /\ Len(Body) \in Nat /\ length <= Len(Body) BY <1>1 DEF Inside, KnownBody
  <2>2. end \in Nat /\ end <= length /\ (offset >= end => length # Len(Body))
    BY <1>4, <2>1 DEF Least
  <2>3. b \in 0..255 BY <1>1, <1>4, <2>1 DEF KnownBody
  <2> QED BY <2>1, <2>2, <2>3
<1>6. offset < end => P(offset) = b
  <2>1. offset < end => offset < length BY <1>5
  <2> QED BY <1>1, <1>5, <2>1 DEF KnownBody
<1>7. \/ j = Len(name) /\ b \in {0} \cup 192..255
      \/ /\ j # Len(name) /\ j + 1 \in 1..Len(name) /\ b \in 1..63 /\ name[j + 1] = [at |-> offset + 1, len |-> b]
         /\ LabelsEnd(name, j + 1) = offset + 1 + b /\ offset + 1 + b < Len(Body)
  <2>1. CASE j = Len(name)
    BY <1>2, <1>4, <2>1 DEF IsQuestion
  <2>2. CASE j # Len(name)
    <3>1. j \in Nat /\ j + 1 \in 1..Len(name) /\ j + 1 \in 0..Len(name) /\ (j + 1) - 1 = j /\ j + 1 # 0
      BY <1>4, <2>2
    <3>2. name[j + 1].at = LabelsEnd(name, (j + 1) - 1) + 1 /\ name[j + 1].len = At(Body, LabelsEnd(name, (j + 1) - 1))
      BY <1>2, <3>1 DEF IsQuestion
    <3>3. name[j + 1] \in LabelSet BY <1>4, <3>1, ElementOfSeq
    <3>4. LabelsEnd(name, j + 1) < Len(Body) BY <1>2, <3>1 DEF IsQuestion
    <3>5. /\ name[j + 1].at = offset + 1 /\ name[j + 1].len = b /\ b \in 1..63
          /\ name[j + 1] = [at |-> offset + 1, len |-> b]
      BY <1>4, <3>1, <3>2, <3>3 DEF LabelSet
    <3>6. LabelsEnd(name, j + 1) = offset + 1 + b BY <3>1, <3>5 DEF LabelsEnd
    <3> QED BY <2>2, <3>1, <3>4, <3>5, <3>6
  <2> QED BY <2>1, <2>2
<1> HIDE DEF b
<1>8. UNCHANGED <<sent, payload>> /\ pc' \in {"try", "label", "done"}
  BY DEF DNSLabel, DNSName, GoOn, Nothing, Found
<1>9. Carried' /\ Body' = Body /\ length' = length BY <1>2, <1>8, StillCarried DEF Body, length
<1>10. ASSUME Answer', pc' # "label" PROVE QuestionInv'
  BY <1>2, <1>8, <1>9, <1>10 DEF QuestionInv
<1>11. CASE DNSName
  <2>1. length = Len(Body) => j = Len(name)
    <3> SUFFICES ASSUME length = Len(Body), j # Len(name) PROVE FALSE OBVIOUS
    <3>1. offset < end BY <1>5
    <3>2. P(offset) \in {0} \cup 192..255 BY <1>11, <3>1 DEF DNSName, AtNameEnd
    <3>3. b \in 1..63 BY <1>7
    <3>4. \A x \in 1..63 : x \notin {0} \cup 192..255 OBVIOUS
    <3> QED BY <1>6, <3>1, <3>2, <3>3, <3>4
  <2>2. IsAnswer(labels) /\ (j # 0 => labels # <<>>) BY <1>2, <1>4, <2>1, SomeLabels
  <2>3. IF labels = <<>> THEN Nothing ELSE Found(labels) BY <1>11 DEF DNSName
  <2>4. CASE labels = <<>>
    <3>1. ~Sure BY <2>2, <2>4 DEF IsAnswer, Sure, NoHost
    <3>2. Answer' BY <1>2, <2>3, <2>4, <3>1, NothingAnswers
    <3>3. pc' # "label" BY <2>3, <2>4 DEF Nothing
    <3> QED BY <1>10, <3>2, <3>3
  <2>5. CASE labels # <<>>
    <3>1. Answer' BY <1>2, <2>2, <2>3, <2>5, FoundAnswers
    <3>2. pc' # "label" BY <2>3, <2>5 DEF Found
    <3> QED BY <1>10, <3>1, <3>2
  <2> QED BY <2>4, <2>5
<1>12. CASE DNSLabel
  <2>1. offset < end /\ b \notin {0} \cup 192..255
    <3>1. ~AtNameEnd BY <1>12 DEF DNSLabel
    <3> QED BY <1>5, <1>6, <3>1 DEF AtNameEnd
  <2>2. /\ j # Len(name) /\ j + 1 \in 1..Len(name) /\ b \in 1..63 /\ name[j + 1] = [at |-> offset + 1, len |-> b]
        /\ LabelsEnd(name, j + 1) = offset + 1 + b /\ offset + 1 + b < Len(Body)
    BY <1>7, <2>1
  <2>3. IF b > 63 \/ offset + 1 + b > length THEN Nothing
        ELSE /\ GoOn("label", offset + 1 + b)
             /\ labels' = Append(labels, [at |-> offset + 1, len |-> b]) /\ UNCHANGED end
    BY <1>6, <1>12, <2>1 DEF DNSLabel
  <2>4. ~(b > 63)
    <3>1. b \in 1..63 BY <2>2
    <3> QED BY <3>1
  <2>5. CASE offset + 1 + b > length
    <3>1. ~Sure BY <1>5, <2>2, <2>5 DEF Sure
    <3>2. Nothing BY <2>3, <2>5
    <3>3. Answer' BY <1>2, <3>1, <3>2, NothingAnswers
    <3>4. pc' # "label" BY <3>2 DEF Nothing
    <3> QED BY <1>10, <3>3, <3>4
  <2>6. CASE ~(offset + 1 + b > length)
    <3>1. /\ GoOn("label", offset + 1 + b)
          /\ labels' = Append(labels, [at |-> offset + 1, len |-> b]) /\ UNCHANGED end
      BY <2>3, <2>4, <2>6
    <3>2. labels' = SubSeq(name, 1, j + 1)
      <4>1. j \in Nat BY <1>4
      <4>2. Append(SubSeq(name, 1, j), name[j + 1]) = SubSeq(name, 1, j + 1) BY <1>4, <2>2, <4>1, OneMore
      <4> QED BY <1>4, <2>2, <3>1, <4>2
    <3>3. j + 1 \in 0..Len(name) BY <1>4, <2>2
    <3>4. pc' = "label" /\ offset' = LabelsEnd(name, j + 1) BY <2>2, <3>1 DEF GoOn
    <3>5. AtLabel(j + 1)' BY <1>4, <1>8, <1>9, <3>1, <3>2, <3>3, <3>4 DEF AtLabel
    <3>6. Answer' BY <1>2, <3>1, GoOnAnswers
    <3> QED BY <1>2, <1>8, <1>9, <3>4, <3>5, <3>6 DEF QuestionInv
  <2> QED BY <2>5, <2>6
<1> QED BY <1>11, <1>12

LEMMA QuestionStays ==
  ASSUME Inside, QuestionInv, [Next]_vars
  PROVE  QuestionInv'
<1>1. KnownBody BY BodyKnown DEF QuestionInv
<1>2. /\ Carried /\ Answer /\ sent.kind = "dns" /\ ~LooksLikeHello(Body) /\ IsDNSMessage(Body, sent.name)
      /\ pc \in Extractors \cup {"try", "label", "done"} /\ length \in Nat
  BY <1>1 DEF QuestionInv, KnownBody
<1>3. UNCHANGED <<sent, payload>> BY SentStays
<1>4. Carried' /\ Body' = Body /\ length' = length BY <1>2, <1>3, StillCarried DEF Body, length
<1>5. /\ ~IsClientHello /\ ~IsRequest
      /\ IsDNSQuery => IsQuestion(Body, sent.name)
      /\ Sure => IsDNSQuery
  BY <1>1, <1>2, QuestionBytes DEF Sure
<1>6. ASSUME Nothing, pc \in {"tls", "http"} \/ (pc = "dns" /\ ~Sure) PROVE QuestionInv'
  <2>1. pc # "done" /\ pc' = "try" BY <1>6 DEF Nothing
  <2>2. ~Sure \/ pc \in Extractors \ {sent.kind} BY <1>2, <1>6 DEF Extractors
  <2>3. Answer' BY <1>2, <1>6, <2>1, <2>2, NothingAnswers
  <2> QED BY <1>2, <1>3, <1>4, <2>1, <2>3 DEF QuestionInv
<1>7. CASE Try
  <2>1. "dns" \in Extractors BY DEF Extractors
  <2>2. Answer' BY <1>2, <1>7, <2>1, TryAnswers
  <2>3. pc' \in Extractors \cup {"try", "done"}
    <3>1. tries # <<>> => Head(tries) \in Extractors BY HeadTailProperties DEF Inside
    <3> QED BY <1>7, <3>1 DEF Try
  <2>4. pc' # "label" BY <2>3 DEF Extractors
  <2> QED BY <1>2, <1>3, <1>4, <2>2, <2>3, <2>4 DEF QuestionInv
<1>8. CASE ClientHello
  BY <1>5, <1>6, <1>8 DEF ClientHello
<1>9. CASE HTTPHost
  BY <1>5, <1>6, <1>9 DEF HTTPHost
<1>10. CASE DNSHeader
  <2>1. CASE IsDNSQuery
    <3>1. GoOn("label", 12) /\ end' = Least(12 + 255, length) /\ labels' = <<>> /\ pc = "dns"
      BY <1>10, <2>1 DEF DNSHeader
    <3>2. pc' = "label" /\ offset' = 12 BY <3>1 DEF GoOn
    <3>3. AtLabel(0)'
      <4>1. Len(sent.name) \in Nat BY <1>2 DEF Carried
      <4>2. 0 \in 0..Len(sent.name) BY <4>1
      <4> QED BY <1>3, <1>4, <3>1, <3>2, <4>2, FirstNone DEF AtLabel, LabelsEnd
    <3>4. Answer' BY <1>2, <3>1, GoOnAnswers
    <3> QED BY <1>2, <1>3, <1>4, <1>5, <2>1, <3>2, <3>3, <3>4 DEF QuestionInv
  <2>2. CASE ~IsDNSQuery
    BY <1>5, <1>6, <1>10, <2>2 DEF DNSHeader
  <2> QED BY <2>1, <2>2
<1>11. CASE DNSLabel \/ DNSName
  BY <1>11, QuestionLabels
<1>12. CASE UNCHANGED vars
  <2>1. UNCHANGED <<sent, payload, tries, pc, offset, end, labels, host>> BY <1>12 DEF vars
  <2> QED BY <1>4, <2>1 DEF QuestionInv, Answer, Sure, IsAnswer, AtLabel, Body, length
<1>13. ~(SessionID \/ CipherSuites \/ CompressionMethods \/ Extensions \/ Extension \/ ServerName)
  BY <1>2 DEF Extractors, SessionID, CipherSuites, CompressionMethods, Vector, Extensions, Extension, ServerName
<1> QED BY <1>7, <1>8, <1>9, <1>10, <1>11, <1>12, <1>13 DEF Next, Step

-----------------------------------------------------------------------------
(* The extractors the ports call for end with both that need no port.      *)
LEMMA ExtractorsTried ==
  ASSUME NEW ports
  PROVE  /\ {"tls", "http"} \subseteq Range(Attempts(ports))
         /\ "dns" \in Range(Attempts(ports)) <=> 53 \in ports
<1> DEFINE one(b, x) == IF b THEN <<x>> ELSE <<>>
           secure == 443 \in ports
           plain  == ports \cap {80, 8080} # {}
           https == one(secure, "tls")
           web   == one(plain, "http")
           names == one(53 \in ports, "dns")
           both  == <<"tls", "http">>
           u     == https \o web
           v     == u \o names
<1>1. /\ "tls" \in Extractors /\ "http" \in Extractors /\ "dns" \in Extractors
  BY DEF Extractors
<1>2. \A b : \A x \in Extractors : one(b, x) \in Seq(Extractors) /\ Range(one(b, x)) \subseteq {x}
                                   /\ (x \in Range(one(b, x)) <=> b)
  <2> SUFFICES ASSUME NEW b, NEW x \in Extractors
               PROVE  one(b, x) \in Seq(Extractors) /\ Range(one(b, x)) \subseteq {x} /\ (x \in Range(one(b, x)) <=> b)
    OBVIOUS
  <2>1. CASE b
    <3>1. one(b, x) = <<x>> BY <2>1
    <3>2. Range(<<x>>) = {x} /\ <<x>> \in Seq(Extractors) BY DEF Range
    <3> QED BY <2>1, <3>1, <3>2
  <2>2. CASE ~b
    <3>1. one(b, x) = <<>> BY <2>2
    <3>2. Range(<<>>) = {} /\ <<>> \in Seq(Extractors) BY DEF Range
    <3> QED BY <2>2, <3>1, <3>2
  <2> QED BY <2>1, <2>2
<1>3. https \in Seq(Extractors) /\ Range(https) \subseteq {"tls"}
  <2> HIDE DEF secure
  <2> QED BY <1>1, <1>2
<1>4. web \in Seq(Extractors) /\ Range(web) \subseteq {"http"}
  <2> HIDE DEF plain
  <2> QED BY <1>1, <1>2
<1>5. names \in Seq(Extractors) /\ Range(names) \subseteq {"dns"} /\ ("dns" \in Range(names) <=> 53 \in ports)
  BY <1>1, <1>2
<1>6. both \in Seq(Extractors) /\ Range(both) = {"tls", "http"} BY <1>1 DEF Range
<1>7. Attempts(ports) = v \o both BY DEF Attempts
<1> HIDE DEF https, web, names, both
<1>8. u \in Seq(Extractors) /\ Range(u) = Range(https) \cup Range(web)
  BY <1>3, <1>4, ConcatProperties, RangeConcatenation
<1> HIDE DEF u
<1>9. v \in Seq(Extractors) /\ Range(v) = Range(u) \cup Range(names)
  BY <1>5, <1>8, ConcatProperties, RangeConcatenation
<1> HIDE DEF v
<1>10. Range(Attempts(ports)) = Range(v) \cup Range(both)
  BY <1>6, <1>7, <1>9, RangeConcatenation
<1> QED BY <1>3, <1>4, <1>5, <1>6, <1>8, <1>9, <1>10

NameInv == sent.kind = "malformed" \/ HelloInv \/ RequestInv \/ QuestionInv

LEMMA NameStarts ==
  ASSUME \A m \in Messages : m.kind # "malformed" => IsSent(m) /\ (HasIPv4(m.frame) => IsNamed(m)),
         Init
  PROVE  NameInv
<1> SUFFICES ASSUME sent.kind # "malformed" PROVE HelloInv \/ RequestInv \/ QuestionInv BY DEF NameInv
<1>1. /\ sent \in Messages /\ HasIPv4(sent.frame) /\ payload = Payload(sent.frame) /\ IsNamed(sent) /\ IsSent(sent)
      /\ pc = "try" /\ host = NoHost
      /\ tries = IF payload = <<>> THEN <<>> ELSE Attempts(Ports(sent.frame))
  BY DEF Init
<1>2. PICK w, l4 : SentIn(sent, w, l4) BY <1>1 DEF IsSent
<1>3. /\ Body \in Seq(Byte) /\ length <= Len(Body) /\ payload = SubSeq(Body, 1, length)
      /\ sent.whole => length = Len(Body)
  <2>1. sent.frame \in Seq(Byte) BY <1>1, SNIExtractorAssumption
  <2>2. /\ length <= Len(Body) /\ payload = SubSeq(Body, 1, length)
        /\ sent.whole => payload = Body
    BY <1>1, <1>2, <2>1, BodyCaptured DEF length, Body
  <2>3. Body \in Seq(Byte) BY <1>2 DEF SentIn, Body
  <2> QED BY <2>2, <2>3 DEF length
<1>4. /\ \/ sent.kind = "tls" /\ 53 \notin Ports(sent.frame) /\ IsHello(Body, sent.name)
         \/ sent.kind = "http" /\ IsHTTPRequest(Body, sent.name)
         \/ /\ sent.kind = "dns" /\ (payload # <<>> => 53 \in Ports(sent.frame))
            /\ ~LooksLikeHello(Body) /\ IsDNSMessage(Body, sent.name)
  BY <1>1 DEF IsNamed, Body
<1>5. Len(sent.name) \in Nat /\ (sent.name # NoHost => Len(Body) > 0)
  <2>1. CASE sent.name = NoHost
    BY <2>1, EmptySeq DEF NoHost
  <2>2. CASE sent.kind = "tls" /\ IsHello(Body, sent.name) /\ sent.name # NoHost
    <3>1. PICK k, start : ExtensionsIn(Body, sent.name, k, start) BY <2>2 DEF IsHello
    <3>2. NamedAt(Body, sent.name, start[k]) BY <2>2, <3>1 DEF ExtensionsIn
    <3>3. Len(sent.name) = 1 BY <3>2 DEF NamedAt
    <3>4. Len(Body) >= 44 /\ Len(Body) \in Nat BY <1>3, <2>2, LenProperties DEF IsHello
    <3> QED BY <3>3, <3>4
  <2>3. CASE sent.kind = "http" /\ IsHTTPRequest(Body, sent.name) /\ sent.name # NoHost
    <3>1. PICK h, eol, c : HostLineIn(Body, sent.name, h, eol, c) BY <2>3 DEF IsHTTPRequest
    <3>2. Len(sent.name) = 1 /\ Len(Body) >= 10 BY <3>1 DEF HostLineIn
    <3>3. Len(Body) \in Nat BY <1>3, LenProperties
    <3> QED BY <3>2, <3>3
  <2>4. CASE sent.kind = "dns" /\ IsDNSMessage(Body, sent.name) /\ sent.name # NoHost
    <3>1. sent.name \in Seq(LabelSet) /\ Len(Body) >= 12 BY <2>4 DEF IsDNSMessage, IsQuestion
    <3>2. Len(Body) \in Nat /\ Len(sent.name) \in Nat BY <1>3, <3>1, LenProperties
    <3> QED BY <3>1, <3>2
  <2> QED BY <1>4, <2>1, <2>2, <2>3, <2>4
<1>6. Carried BY <1>3, <1>5 DEF Carried
<1>7. Sure => payload # <<>> BY <1>3, <1>5, EmptySeq DEF Sure, length
<1>8. /\ {"tls", "http"} \subseteq Range(Attempts(Ports(sent.frame)))
      /\ "dns" \in Range(Attempts(Ports(sent.frame))) <=> 53 \in Ports(sent.frame)
  BY ExtractorsTried
<1>9. Answer
  <2>1. Sure => sent.kind \in Range(tries) BY <1>1, <1>4, <1>7, <1>8
  <2> QED BY <1>1, <2>1 DEF Answer
<1>10. sent.kind = "tls" => "dns" \notin Range(tries)
  <2>1. Range(<<>>) = {} BY DEF Range
  <2> QED BY <1>1, <1>4, <1>8, <2>1
<1>11. CASE sent.kind = "tls"
  BY <1>1, <1>4, <1>6, <1>9, <1>10, <1>11 DEF HelloInv, HelloPlace
<1>12. CASE sent.kind = "http"
  BY <1>1, <1>4, <1>6, <1>9, <1>12 DEF RequestInv
<1>13. CASE sent.kind = "dns"
  BY <1>1, <1>4, <1>6, <1>9, <1>13 DEF QuestionInv
<1> QED BY <1>4, <1>11, <1>12, <1>13

LEMMA NameStays ==
  ASSUME Inside, NameInv, [Next]_vars
  PROVE  NameInv'
<1>1. UNCHANGED sent BY SentStays
<1> QED BY <1>1, HelloStays, RequestStays, QuestionStays DEF NameInv

LEMMA NameFound ==
  ASSUME Inside, NameInv
  PROVE  NameAsSent
<1> SUFFICES ASSUME pc = "done", sent.kind # "malformed"
             PROVE  /\ sent.kind = "tls" => host \in {NoHost, sent.name}
                    /\ Prefix(host, sent.name)
                    /\ sent.whole => host = sent.name
  BY DEF NameAsSent
<1>1. Answer /\ Carried BY DEF NameInv, HelloInv, RequestInv, QuestionInv
<1> QED BY <1>1 DEF Answer, IsAnswer, Carried

(* The hostname that is found is the one that was sent, for any Client     *)
(* Hello, any HTTP request and any DNS question: wherever its extensions,  *)
(* its Host header or its labels lie, and on whatever port for the first   *)
(* two; of a frame that was cut short it is that or none from TLS, and its *)
(* beginning from the others.                                              *)
THEOREM NameIsAsSent ==
  ASSUME \A m \in Messages : m.kind # "malformed" => IsSent(m) /\ (HasIPv4(m.frame) => IsNamed(m))
  PROVE  Spec => []NameAsSent
<1>1. Init => Inside /\ NameInv BY Starts, NameStarts
<1>2. Inside /\ NameInv /\ [Next]_vars => (Inside /\ NameInv)' BY Stays, NameStays
<1>3. Inside /\ NameInv => NameAsSent BY NameFound
<1> QED BY <1>1, <1>2, <1>3, PTL DEF Spec
==============================================================================
