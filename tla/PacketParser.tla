---------------------------- MODULE PacketParser ----------------------------
(***************************************************************************)
(* src/packet_parser.cpp: where the headers of a captured frame say that   *)
(* its payload is.  A frame is the sequence of its captured bytes, which a *)
(* capture may have cut short; offsets count from 0 as in the code.        *)
(***************************************************************************)
EXTENDS Naturals, Sequences

Byte == 0..255

ETH_HEADER_LEN == 14
IPV4_MIN_HEADER_LEN == 20
TCP_MIN_HEADER_LEN == 20
UDP_HEADER_LEN == 8
ETHERTYPE_IPV4 == 2048
PROTO_TCP == 6
PROTO_UDP == 17

Least(a, b) == IF a <= b THEN a ELSE b
Most(a, b)  == IF a <= b THEN b ELSE a

At(d, i)        == d[i + 1]
readU16BE(d, i) == 256 * At(d, i) + At(d, i + 1)

(* parse() accepts the frame: Ethernet and a plausible IPv4 header. *)
IPHeaderLen(d) == 4 * (At(d, ETH_HEADER_LEN) % 16)
L4At(d)        == ETH_HEADER_LEN + IPHeaderLen(d)

HasIPv4(d) ==
  /\ Len(d) >= ETH_HEADER_LEN + IPV4_MIN_HEADER_LEN
  /\ readU16BE(d, 12) = ETHERTYPE_IPV4
  /\ At(d, ETH_HEADER_LEN) \div 16 = 4
  /\ IPHeaderLen(d) >= IPV4_MIN_HEADER_LEN
  /\ L4At(d) <= Len(d)

(* Mutant: the frame is taken to its end, whatever the IP header says. *)
L4LenOfFrame(d) == Len(d) - L4At(d)

(* What IP carries, cut to what was captured. *)
L4Len(d) ==
  LET total == readU16BE(d, ETH_HEADER_LEN + 2)
  IN Least(IF total > IPHeaderLen(d) THEN total - IPHeaderLen(d) ELSE 0, Len(d) - L4At(d))

Protocol(d) == At(d, ETH_HEADER_LEN + 9)
HasTCP(d)   == Protocol(d) = PROTO_TCP /\ L4Len(d) >= TCP_MIN_HEADER_LEN
HasUDP(d)   == Protocol(d) = PROTO_UDP /\ L4Len(d) >= UDP_HEADER_LEN

L4HeaderLen(d) ==
  IF HasTCP(d) THEN Least(Most(4 * (At(d, L4At(d) + 12) \div 16), TCP_MIN_HEADER_LEN), L4Len(d))
  ELSE IF HasUDP(d) THEN UDP_HEADER_LEN ELSE L4Len(d)

(* Both ports; a segment too short for its header has none (0). *)
Ports(d) == IF HasTCP(d) \/ HasUDP(d) THEN {readU16BE(d, L4At(d)), readU16BE(d, L4At(d) + 2)} ELSE {0}

PayloadAt(d)  == L4At(d) + L4HeaderLen(d)
PayloadLen(d) == L4Len(d) - L4HeaderLen(d)
Payload(d)    == SubSeq(d, PayloadAt(d) + 1, PayloadAt(d) + PayloadLen(d))

(* The application that the ports suggest. *)
app_hint(src, dst) ==
  IF 443 \in {src, dst} THEN "HTTPS"
  ELSE IF {src, dst} \cap {80, 8080} # {} THEN "HTTP"
  ELSE IF 53 \in {src, dst} THEN "DNS" ELSE "UNKNOWN"

(* The TCP flags a FastPath counts: it reads the frame once more, whether  *)
(* or not parse() found a TCP header.                                      *)
FlagsOf(b) == (IF b % 2 = 1 THEN {"FIN"} ELSE {}) \cup (IF (b \div 2) % 2 = 1 THEN {"SYN"} ELSE {})
              \cup (IF (b \div 4) % 2 = 1 THEN {"RST"} ELSE {})
CountedFlags(d) ==
  IF Len(d) >= 48 /\ Protocol(d) = PROTO_TCP /\ L4At(d) + 14 <= Len(d) THEN FlagsOf(At(d, L4At(d) + 13)) ELSE {}
=============================================================================
