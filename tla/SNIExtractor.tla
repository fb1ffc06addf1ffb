---------------------------- MODULE SNIExtractor ----------------------------
(***************************************************************************)
(* SNIExtractor::extractAny, src/sni_extractor.cpp, on the payload that    *)
(* PacketParser finds in a captured frame: the walks over a TLS Client     *)
(* Hello and a DNS question, one step per length field, and the search for *)
(* an HTTP Host header.  A hostname is where it lies in the payload: a     *)
(* sequence of [at, len], one for each label of a DNS name.                *)
(***************************************************************************)
EXTENDS PacketParser

CONSTANTS
  Messages   \* frames as captured, and what was sent: [frame, kind, whole, body, name, flags]

ASSUME SNIExtractorAssumption == \A m \in Messages : m.frame \in Seq(Byte)

VARIABLES
  sent,      \* the message under inspection
  payload,
  tries,     \* the extractors extractAny() has still to call
  pc,        \* the next step
  offset,    \* of the walk
  end,       \* hs_end, extensions_end, the end of the SNI extension, name_end
  labels,    \* domain, as far as it is known
  host,      \* the result
  touched    \* history: the bytes of the payload the last step looked at

vars == <<sent, payload, tries, pc, offset, end, labels, host, touched>>

NoHost == <<>>
length == Len(payload)
P(i)   == At(payload, i)
U16(i) == readU16BE(payload, i)

(* By port first, then TLS and HTTP on any port. *)
Attempts(ports) ==
  (IF 443 \in ports THEN <<"tls">> ELSE <<>>)
  \o (IF ports \cap {80, 8080} # {} THEN <<"http">> ELSE <<>>)
  \o (IF 53 \in ports THEN <<"dns">> ELSE <<>>)
  \o <<"tls", "http">>

Init ==
  /\ sent \in {m \in Messages : HasIPv4(m.frame)}
  /\ payload = Payload(sent.frame)
  /\ tries = IF payload = <<>> THEN <<>> ELSE Attempts(Ports(sent.frame))
  /\ pc = "try" /\ offset = 0 /\ end = 0 /\ labels = <<>> /\ host = NoHost
  /\ touched = [at |-> 0, len |-> 0]

Reads(at, len) == touched' = [at |-> at, len |-> len]

(* An extractor goes on at o, returns nullopt, or returns h. *)
GoOn(step, o) == pc' = step /\ offset' = o /\ UNCHANGED <<sent, payload, tries, host>>
Nothing       == pc' = "try" /\ UNCHANGED <<sent, payload, tries, offset, end, labels, host>>
Found(h)      == pc' = "done" /\ host' = h /\ UNCHANGED <<sent, payload, tries, offset, end, labels>>

Try ==
  /\ pc = "try"
  /\ IF tries = <<>> THEN pc' = "done" /\ UNCHANGED tries
     ELSE pc' = Head(tries) /\ tries' = Tail(tries)
  /\ UNCHANGED <<sent, payload, offset, end, labels, host, touched>>

-----------------------------------------------------------------------------
(* extractSNI *)

HandshakeEnd  == Least(9 + 65536 * P(6) + U16(7), length)
IsClientHello == length >= 44 /\ P(0) = 22 /\ P(5) = 1 /\ HandshakeEnd >= 43

(* Record and handshake header, version and random. *)
ClientHello ==
  /\ pc = "tls"
  /\ Reads(0, IF length >= 44 THEN 9 ELSE 0)
  /\ IF IsClientHello
     THEN GoOn("session_id", 43) /\ end' = HandshakeEnd /\ UNCHANGED labels
     ELSE Nothing

(* A length of one or two bytes and that many more. *)
Vector(at, width, next) ==
  /\ pc = at
  /\ IF offset + width > end THEN Reads(offset, 0) /\ Nothing
     ELSE /\ Reads(offset, width)
          /\ LET after == offset + width + (IF width = 1 THEN P(offset) ELSE U16(offset))
             IN IF after > end THEN Nothing ELSE GoOn(next, after) /\ UNCHANGED <<end, labels>>

SessionID          == Vector("session_id", 1, "cipher_suites")
CipherSuites       == Vector("cipher_suites", 2, "compression")
CompressionMethods == Vector("compression", 1, "extensions")

Extensions ==
  /\ pc = "extensions"
  /\ IF offset + 2 > end THEN Reads(offset, 0) /\ Nothing
     ELSE /\ Reads(offset, 2)
          /\ GoOn("extension", offset + 2)
          /\ end' = Least(offset + 2 + U16(offset), end) /\ UNCHANGED labels

(* Mutant: an empty extension is not skipped. *)
StuckAtEmpty == IF U16(offset + 2) = 0 THEN offset ELSE offset + 4 + U16(offset + 2)

AfterExtension == offset + 4 + U16(offset + 2)

Extension ==
  /\ pc = "extension"
  /\ IF offset + 4 > end THEN Reads(offset, 0) /\ Nothing
     ELSE /\ Reads(offset, 4)
          /\ IF AfterExtension > end THEN Nothing
             ELSE IF U16(offset) = 0
                  THEN GoOn("server_name", offset + 4) /\ end' = AfterExtension /\ UNCHANGED labels
                  ELSE GoOn("extension", AfterExtension) /\ UNCHANGED <<end, labels>>

(* The SNI extension lies between offset and end. *)
ServerName ==
  /\ pc = "server_name"
  /\ IF offset + 5 > end THEN Reads(offset, 0) /\ Nothing
     ELSE LET n == U16(offset + 3) IN
          IF P(offset + 2) # 0 \/ n \notin 1..255 \/ offset + 5 + n > end
          THEN Reads(offset, 5) /\ Nothing
          ELSE Reads(offset, 5 + n) /\ Found(<<[at |-> offset + 5, len |-> n]>>)

-----------------------------------------------------------------------------
(* extractHTTPHost.  The verbs, and "Host: " in either case, in ASCII. *)

Verbs == {<<71, 69, 84, 32>>, <<80, 79, 83, 84, 32>>, <<80, 85, 84, 32>>,
          <<68, 69, 76, 69, 84, 69, 32>>, <<72, 69, 65, 68, 32>>, <<79, 80, 84, 73, 79, 78, 83, 32>>,
          <<80, 65, 84, 67, 72, 32>>, <<84, 82, 65, 67, 69, 32>>, <<67, 79, 78, 78, 69, 67, 84, 32>>}
HostHeader == <<{72, 104}, {79, 111}, {83, 115}, {84, 116}, {58}, {32}>>
LineEnds   == {10, 13}
Digits     == 48..57

scan_len  == Least(length, 8192)
First(S)  == CHOOSE n \in S : \A m \in S : n <= m
Latest(S) == CHOOSE n \in S : \A m \in S : m <= n
IsRequest == length >= 10 /\ \E v \in Verbs : \A i \in DOMAIN v : P(i - 1) = v[i]
HostsAt   == {i \in 0..(scan_len - 1) : i + 7 <= scan_len /\ \A k \in 0..5 : P(i + k) \in HostHeader[k + 1]}
LineEnd(i)  == First({scan_len} \cup {j \in i..(scan_len - 1) : P(j) \in LineEnds})

(* Mutant: the port stays. *)
WithPort(from, to) == to

(* The value without the port, if digits or nothing follow its last colon. *)
WithoutPort(from, to) ==
  LET colons == {k \in from..(to - 1) : P(k) = 58}
  IN IF colons # {} /\ \A k \in (Latest(colons) + 1)..(to - 1) : P(k) \in Digits
     THEN Latest(colons) ELSE to

HTTPHost ==
  /\ pc = "http"
  /\ Reads(0, IF length >= 10 THEN scan_len ELSE 0)
  /\ IF ~IsRequest \/ HostsAt = {} THEN Nothing
     ELSE LET from == First(HostsAt) + 6
              to   == WithoutPort(from, LineEnd(from))
          IN IF to = from THEN Nothing ELSE Found(<<[at |-> from, len |-> to - from]>>)

-----------------------------------------------------------------------------
(* extractDNSQuery *)

IsDNSQuery == length >= 12 /\ P(2) \div 8 = 0 /\ U16(4) # 0

DNSHeader ==
  /\ pc = "dns"
  /\ Reads(0, IF length >= 12 THEN 6 ELSE 0)
  /\ IF IsDNSQuery
     THEN GoOn("label", 12) /\ end' = Least(12 + 255, length) /\ labels' = <<>>
     ELSE Nothing

(* The root label, a compression pointer or the end of what there is. *)
AtNameEnd == offset < end => P(offset) \in {0} \cup 192..255

DNSName ==
  /\ pc = "label" /\ AtNameEnd
  /\ Reads(offset, IF offset < end THEN 1 ELSE 0)
  /\ IF labels = <<>> THEN Nothing ELSE Found(labels)

(* Mutant: the length of a label is believed. *)
DNSTrustedLabel ==
  /\ pc = "label" /\ ~AtNameEnd
  /\ LET n == P(offset) IN
     IF n > 63 THEN Reads(offset, 1) /\ Nothing
     ELSE /\ Reads(offset, 1 + n)
          /\ GoOn("label", offset + 1 + n)
          /\ labels' = Append(labels, [at |-> offset + 1, len |-> n]) /\ UNCHANGED end

DNSLabel ==
  /\ pc = "label" /\ ~AtNameEnd
  /\ LET n == P(offset) IN
     IF n > 63 \/ offset + 1 + n > length THEN Reads(offset, 1) /\ Nothing
     ELSE /\ Reads(offset, 1 + n)
          /\ GoOn("label", offset + 1 + n)
          /\ labels' = Append(labels, [at |-> offset + 1, len |-> n]) /\ UNCHANGED end

-----------------------------------------------------------------------------
Step == \/ Try
        \/ ClientHello \/ SessionID \/ CipherSuites \/ CompressionMethods
        \/ Extensions \/ Extension \/ ServerName
        \/ HTTPHost
        \/ DNSHeader \/ DNSLabel \/ DNSName

Next == Step \/ (pc = "done" /\ UNCHANGED vars)

(* The function is called and runs: it is scheduled. *)
Spec == Init /\ [][Next]_vars /\ WF_vars(Step)

-----------------------------------------------------------------------------
(* sni_extractor.cpp:4 every byte access is inside the payload, whatever   *)
(* the length fields in it say.                                            *)
ReadsInBounds == touched.at + touched.len <= length

(* packet_parser.cpp: the payload is what was sent, without options and    *)
(* without padding, as far as the frame was captured; fast_path.cpp: so    *)
(* are the TCP flags.                                                      *)
PayloadAsSent ==
  sent.kind # "malformed" =>
    /\ length <= Len(sent.body) /\ payload = SubSeq(sent.body, 1, length)
    /\ CountedFlags(sent.frame) \subseteq sent.flags
    /\ sent.whole => payload = sent.body /\ CountedFlags(sent.frame) = sent.flags

Prefix(s, t) == Len(s) <= Len(t) /\ \A i \in DOMAIN s : s[i].at = t[i].at /\ s[i].len <= t[i].len

(* The hostname found is the one sent.  A frame that was cut short yields  *)
(* it or none from TLS; from HTTP and DNS it may yield the beginning.      *)
NameAsSent ==
  pc = "done" /\ sent.kind # "malformed" =>
    /\ sent.kind = "tls" => host \in {NoHost, sent.name}
    /\ Prefix(host, sent.name)
    /\ sent.whole => host = sent.name

(* No length field makes a walk stand still: extractAny() returns. *)
ExtractionEnds == <>(pc = "done")
=============================================================================
