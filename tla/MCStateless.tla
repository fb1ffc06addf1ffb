---------------------------- MODULE MCStateless ----------------------------
(***************************************************************************)
(* Inputs of all kinds, one at a time: PacketParser and SNIExtractor on    *)
(* captured frames that are whole, cut short at every byte, or changed in  *)
(* any one byte; FlowAnalyzer on flows around each of its thresholds;      *)
(* CaptureFiles on files in every byte order, cut short at every byte.     *)
(***************************************************************************)
EXTENDS SNIExtractor, FlowAnalyzer, CaptureFiles

VARIABLE flow

Zeros(n) == [i \in 1..n |-> 0]
U16Of(n) == <<n \div 256, n % 256>>

(* An IP packet with o words of options, behind an Ethernet header. *)
Frame(proto, o, l4) ==
  Zeros(12) \o <<8, 0>> \o <<64 + 5 + o, 0>> \o U16Of(20 + 4 * o + Len(l4))
  \o <<0, 0, 0, 0, 64, proto, 0, 0, 10, 0, 0, 1, 10, 0, 0, 2>> \o Zeros(4 * o) \o l4

TCP(port, o, body) == U16Of(40000) \o U16Of(port) \o Zeros(8) \o <<16 * (5 + o), 25>> \o Zeros(6 + 4 * o) \o body
UDP(port, body)    == U16Of(40000) \o U16Of(port) \o U16Of(8 + Len(body)) \o <<0, 0>> \o body

(* Client Hellos: a session id of s bytes, and extensions before SNI. *)
SNI        == <<0, 0, 0, 8, 0, 6, 0, 0, 3, 97, 46, 98>>
Hello(s, exts) ==
  LET body == Zeros(34) \o <<s>> \o Zeros(s) \o <<0, 2, 19, 1, 1, 0>> \o U16Of(Len(exts)) \o exts
  IN <<22, 3, 1>> \o U16Of(4 + Len(body)) \o <<1, 0>> \o U16Of(Len(body)) \o body

Empty == <<0, 23, 0, 0>>
Other == <<0, 16, 0, 2, 1, 2>>

Request(line) == <<71, 69, 84, 32, 47, 10>> \o line \o <<13, 10>>
HostLine      == <<72, 111, 115, 116, 58, 32, 97, 46, 98>>

Question(flags, name) == <<0, 7, flags, 0, 0, 1>> \o Zeros(6) \o name \o <<0, 1, 0, 1>>
Label(n) == <<n>> \o [i \in 1..n |-> 97]

Message(kind, frame, body, name) ==
  [frame |-> frame, kind |-> kind, whole |-> TRUE, body |-> body, name |-> name,
   flags |-> IF kind = "dns" THEN {} ELSE {"FIN"}]
At3(o) == <<[at |-> o, len |-> 3]>>

TLSMessage(port, o, body, name) == Message("tls", Frame(6, o, TCP(port, o, body)), body, name)
HTTPMessage(port, body, name)   == Message("http", Frame(6, 0, TCP(port, 0, body)) \o <<0, 0>>, body, name)
DNSMessage(body, name)          == Message("dns", Frame(17, 0, UDP(53, body)), body, name)

Short ==
  {TLSMessage(443, 0, Hello(0, SNI), At3(61)), TLSMessage(8443, 1, Hello(1, Empty \o SNI), At3(66)),
   TLSMessage(443, 0, Hello(0, Other \o SNI \o Empty), At3(67)), TLSMessage(443, 0, Hello(0, Empty), NoHost),
   HTTPMessage(80, Request(HostLine), At3(12)), HTTPMessage(8080, Request(HostLine \o <<58, 56, 48>>), At3(12)),
   HTTPMessage(80, Request(<<97>>), NoHost),
   DNSMessage(Question(1, Label(1) \o Label(2) \o <<0>>), <<[at |-> 13, len |-> 1], [at |-> 15, len |-> 2]>>),
   DNSMessage(Question(129, Label(2) \o <<0>>), NoHost)}

(* A name of 255 bytes, the longest there is. *)
Long == DNSMessage(Question(1, Label(63) \o Label(63) \o Label(63) \o Label(61) \o <<0>>),
                   <<[at |-> 13, len |-> 63], [at |-> 77, len |-> 63], [at |-> 141, len |-> 63], [at |-> 205, len |-> 61]>>)

Cut(m, n)        == [m EXCEPT !.frame = SubSeq(@, 1, n), !.whole = FALSE]
Changed(m, i, b) == [m EXCEPT !.frame[i] = b, !.kind = "malformed"]

MCMessages ==
  Short \cup {Long} \cup {Cut(Long, n) : n \in {54, 55, 117, 118, 119, 309, 310}}
  \cup UNION {{Cut(m, n) : n \in 0..(Len(m.frame) - 1)} : m \in Short}
  \cup UNION {{Changed(m, i, b) : i \in 13..Len(m.frame), b \in {0, 1, 70, 192, 255}} : m \in Short}

-----------------------------------------------------------------------------
(* n packets of the same size but for some that are longer. *)
Flow(n, size, odd, extra, syn, fin, rst, entropy, app) ==
  [packet_count |-> n, byte_count |-> n * size + odd * extra,
   squares |-> (n - odd) * size * size + odd * (size + extra) * (size + extra),
   syn |-> syn, fin |-> fin, rst |-> rst, entropy |-> entropy, app_type |-> app]

ShortFlows == {Flow(n, size, 0, 0, syn, fin, rst, entropy, app) :
                 n \in 0..6, size \in {127, 128}, syn \in 0..6, fin \in 0..1, rst \in {0, 1, 4, 5},
                 entropy \in {7500, 7501, 7699, 7700, 8000}, app \in {"HTTPS", "DNS"}}
LongFlows  == {Flow(n, 60, odd, extra, syn, 0, rst, 0, "DNS") :
                 n \in {5, 49, 50, 51}, odd \in 0..5, extra \in 1..15, syn \in {0, 1}, rst \in {0, 4}}
BulkFlows  == {Flow(n, size, odd, 1, 0, 0, 0, 0, "DNS") :
                 n \in {10, 20}, size \in {4999, 5000, 9999, 10000}, odd \in 0..10}
              \cup {Flow(40, size, odd, 1, 0, 0, 0, 0, "DNS") :
                 size \in {2047, 2048, 2499, 2500, 2866, 2867, 2868, 4096}, odd \in 0..40}
MCFlows == {f \in ShortFlows : {f.syn, f.fin, f.rst} \subseteq 0..f.packet_count} \cup LongFlows \cup BulkFlows
NewFlow == Flow(0, 127, 0, 0, 0, 0, 0, 7500, "DNS")

-----------------------------------------------------------------------------
(* Two packets, one of them empty, in a file of any of the three kinds.    *)
Word(n)   == <<0, 0, n \div 256, n % 256>>
Record(time, data, orig) ==
  [header |-> [ts_sec |-> <<101, 2, 3, time>>, ts_usec |-> Word(1000 + time),
               incl_len |-> Word(Len(data)), orig_len |-> Word(orig)], data |-> data]
Sent == <<Record(7, <<11, 12, 13>>, 300), Record(8, <<>>, 60), Record(9, <<14>>, 1)>>

(* A file whose magic is m, written by a host whose uint32_t is Mem(_). *)
CaptureOf(m, Mem(_), packets) ==
  LET flat(p) == Mem(p.header.ts_sec) \o Mem(p.header.ts_usec) \o Mem(p.header.incl_len)
                 \o Mem(p.header.orig_len) \o p.data
      from[i \in 1..(Len(packets) + 1)] == IF i > Len(packets) THEN <<>> ELSE flat(packets[i]) \o from[i + 1]
  IN Mem(m) \o <<2, 0, 4, 0>> \o Zeros(8) \o Mem(Word(2000)) \o Mem(Word(1)) \o from[1]

BigEndian(v)    == v
LittleEndian(v) == <<v[4], v[3], v[2], v[1]>>
WholeFiles == {CaptureOf(<<161, 178, 195, 212>>, LittleEndian, Sent), CaptureOf(<<161, 178, 195, 212>>, BigEndian, Sent),
               CaptureOf(<<161, 178, 60, 77>>, LittleEndian, Sent)}
Oversized(n) == LET r == Record(7, <<11>>, 300) IN
                CaptureOf(<<161, 178, 195, 212>>, BigEndian, <<[r EXCEPT !.header.incl_len = n]>>)

CaptureFile(bytes, intact) == [bytes |-> bytes, packets |-> Sent, intact |-> intact]
MCCaptures == {CaptureFile(f, TRUE) : f \in WholeFiles}
              \cup UNION {{CaptureFile(SubSeq(f, 1, n), FALSE) : n \in 0..(Len(f) - 1)} : f \in WholeFiles}
              \cup {CaptureFile(Oversized(n), FALSE) : n \in {<<0, 1, 0, 0>>, <<0, 1, 0, 1>>, <<255, 0, 0, 1>>}}
              \cup {CaptureFile(CaptureOf(<<10, 13, 13, 10>>, LittleEndian, Sent), FALSE)}
NoCapture == CaptureFile(<<>>, FALSE)

-----------------------------------------------------------------------------
(* Every frame, every flow and every file once. *)
NewMessage == Cut(Long, 54)
NoMessage == sent = NewMessage
NoFlow    == flow = NewFlow
NoFile    == capture = NoCapture /\ bufferSize = 1 /\ room = 1000
StatelessInit ==
  \/ NoFile /\ FilesInit /\ NoFlow /\ Init
  \/ NoFile /\ FilesInit /\ NoMessage /\ Init /\ flow \in MCFlows
  \/ NoMessage /\ Init /\ NoFlow /\ FilesInit
StatelessNext ==
  \/ Next /\ UNCHANGED <<flow, fileVars>>
  \/ capture # NoCapture /\ FilesNext /\ UNCHANGED <<vars, flow>>
StatelessSpec == StatelessInit /\ [][StatelessNext]_<<vars, flow, fileVars>> /\ WF_vars(Step /\ UNCHANGED <<flow, fileVars>>)

(* Every flow is judged right: it is flagged by score() exactly when one   *)
(* of the documented conditions holds, for all the rounding, ordering and  *)
(* short-cuts; the score stays in [0, 1] and an unflagged flow with a type *)
(* has a score.                                                            *)
FlaggedIffSuspicious == WellFormed(flow) /\ JudgedRight(flow)
=============================================================================
