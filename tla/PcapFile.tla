------------------------------- MODULE PcapFile -------------------------------
(***************************************************************************)
(* A capture file as PcapReader and PcapWriter of src/pcap_reader.cpp see  *)
(* it, on a little-endian host.  A file is the sequence of its bytes, and  *)
(* a uint32_t the sequence of its four bytes, most significant one first.  *)
(***************************************************************************)
EXTENDS Naturals, Sequences

PCAP_MAGIC_NATIVE  == <<161, 178, 195, 212>>
PCAP_MAGIC_SWAPPED == <<212, 195, 178, 161>>
PCAP_MAGIC_NSEC    == <<161, 178, 60, 77>>
PCAP_LINK_ETHERNET == <<0, 0, 0, 1>>

GlobalHeaderLen == 24
PacketHeaderLen == 16

swapBytes(v) == <<v[4], v[3], v[2], v[1]>>

(* A uint32_t in memory, and what read() into one and write() of one do. *)
InMemory(v)  == swapBytes(v)
U32At(d, at) == <<d[at + 4], d[at + 3], d[at + 2], d[at + 1]>>

fixU32(swapped, v) == IF swapped THEN swapBytes(v) ELSE v

(* PcapReader::open() returns. *)
Magic(d)       == U32At(d, 0)
HasHeader(d)   == Len(d) >= GlobalHeaderLen
Accepted(d)    == HasHeader(d) /\ Magic(d) \in {PCAP_MAGIC_NATIVE, PCAP_MAGIC_NSEC, PCAP_MAGIC_SWAPPED}
ByteSwapped(d) == Magic(d) = PCAP_MAGIC_SWAPPED
Snaplen(d)     == fixU32(ByteSwapped(d), U32At(d, 16))

(* incl_len > MAX_PACKET_SIZE; the values below it. *)
TooLong(v) == v[1] > 0 \/ v[2] > 1 \/ (v[2] = 1 /\ v[3] + v[4] > 0)
Value(v)   == 65536 * v[2] + 256 * v[3] + v[4]

(* Mutant: the lengths are left in the order of the file. *)
HeaderWithRawLengths(d, at) ==
  LET fixed(o) == fixU32(ByteSwapped(d), U32At(d, at + o))
  IN [ts_sec |-> fixed(0), ts_usec |-> fixed(4), incl_len |-> U32At(d, at + 8), orig_len |-> U32At(d, at + 12)]

(* The packet header behind position at, which readNextPacket() reads and  *)
(* puts in order.                                                          *)
HeaderAt(d, at) ==
  LET fixed(o) == fixU32(ByteSwapped(d), U32At(d, at + o))
  IN [ts_sec |-> fixed(0), ts_usec |-> fixed(4), incl_len |-> fixed(8), orig_len |-> fixed(12)]

(* Its three ways out: no more header, an exception, a packet. *)
AtEnd(d, at)   == Len(d) < at + PacketHeaderLen
Corrupt(d, at) == LET len == HeaderAt(d, at).incl_len IN
                  ~AtEnd(d, at) /\ (TooLong(len) \/ Len(d) < at + PacketHeaderLen + Value(len))
NextAt(d, at)  == at + PacketHeaderLen + Value(HeaderAt(d, at).incl_len)
PacketAt(d, at) == [header |-> HeaderAt(d, at), data |-> SubSeq(d, at + PacketHeaderLen + 1, NextAt(d, at))]

(* All that a reader gets out of a file. *)
Packets(d) ==
  LET from[at \in 0..Len(d)] ==
        IF AtEnd(d, at) \/ Corrupt(d, at) THEN <<>> ELSE <<PacketAt(d, at)>> \o from[NextAt(d, at)]
  IN IF Accepted(d) THEN from[GlobalHeaderLen] ELSE <<>>

(* Mutant: a filtered capture starts like the one it comes from. *)
HeaderOfInput(input) == SubSeq(input, 1, GlobalHeaderLen)

(* What PcapWriter writes: a header with the input's snaplen, then packets. *)
FileHeader(input) ==
  InMemory(PCAP_MAGIC_NATIVE) \o <<2, 0, 4, 0>> \o InMemory(<<0, 0, 0, 0>>) \o InMemory(<<0, 0, 0, 0>>)
  \o InMemory(Snaplen(input)) \o InMemory(PCAP_LINK_ETHERNET)

PacketBytes(p) ==
  InMemory(p.header.ts_sec) \o InMemory(p.header.ts_usec) \o InMemory(p.header.incl_len)
  \o InMemory(p.header.orig_len) \o p.data
=============================================================================
