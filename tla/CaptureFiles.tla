----------------------------- MODULE CaptureFiles -----------------------------
(***************************************************************************)
(* From capture to capture: how src/main_simple.cpp reads its input and    *)
(* writes its output, as far as the files go; which packets are dropped is *)
(* left open.  What is written lies in a buffer first.  The disk may be    *)
(* full, the process may be killed, and an exception out of the loop ends  *)
(* it: the buffer is lost then.                                            *)
(***************************************************************************)
EXTENDS PcapFile

CONSTANTS
  Captures,   \* input files, as they are and as they were meant: [bytes, packets, intact]
  Buffers,    \* sizes of an output buffer
  Rooms       \* how many bytes may fit on the disk

ASSUME CaptureFilesAssumption ==
  /\ \A c \in Captures : c.bytes \in Seq(0..255) /\ c.intact \in BOOLEAN
  /\ Buffers \subseteq Nat \ {0} /\ Rooms \subseteq Nat

VARIABLES
  capture,     \* the input
  bufferSize, room,
  run,         \* "opening", "reading", "ended", "refused" (return 1) or "crashed"
  position,    \* of the reader
  got,         \* history: the packets readNextPacket() returned
  kept,        \* history: the packets given to writePacket()
  buffered,    \* written, but not on the disk
  disk         \* the output file

fileVars == <<capture, bufferSize, room, run, position, got, kept, buffered, disk>>

input == capture.bytes

FilesInit ==
  /\ capture \in Captures /\ bufferSize \in Buffers /\ room \in Rooms
  /\ run = "opening" /\ position = 0
  /\ got = <<>> /\ kept = <<>> /\ buffered = <<>> /\ disk = <<>>

(* Bytes go to the buffer, and to the disk in blocks of the buffer's size. *)
Blocks(bytes) == bufferSize * (Len(bytes) \div bufferSize)
Fits(n)       == Len(disk) + n <= room

Write(bytes) ==
  LET all == buffered \o bytes IN
  /\ Fits(Blocks(all))
  /\ disk' = disk \o SubSeq(all, 1, Blocks(all))
  /\ buffered' = SubSeq(all, Blocks(all) + 1, Len(all))

(* write() fails once the disk is full, and open() or writePacket() throws. *)
WriteFails(bytes) ==
  LET all == buffered \o bytes IN
  /\ ~Fits(Blocks(all))
  /\ disk' = disk \o SubSeq(all, 1, room - Len(disk))
  /\ buffered' = <<>>

(* Both files are opened in one try block; a failure is reported. *)
Open ==
  /\ run = "opening"
  /\ Accepted(input)
  /\ Write(FileHeader(input))
  /\ run' = "reading" /\ position' = GlobalHeaderLen
  /\ UNCHANGED <<capture, bufferSize, room, got, kept>>

OpenFails ==
  /\ run = "opening"
  /\ \/ ~Accepted(input) /\ UNCHANGED <<buffered, disk>>
     \/ Accepted(input) /\ WriteFails(FileHeader(input))
     \/ Accepted(input) /\ UNCHANGED <<buffered, disk>>     \* the output cannot be created
  /\ run' = "refused"
  /\ UNCHANGED <<capture, bufferSize, room, position, got, kept>>

(* readNextPacket() returns a packet. *)
Packet == PacketAt(input, position)
Read ==
  /\ run = "reading" /\ ~AtEnd(input, position) /\ ~Corrupt(input, position)
  /\ position' = NextAt(input, position)
  /\ got' = Append(got, Packet)
  /\ UNCHANGED <<capture, bufferSize, room>>

DropPacket == Read /\ UNCHANGED <<run, kept, buffered, disk>>

KeepPacket ==
  /\ Read
  /\ Write(PacketBytes(Packet))
  /\ kept' = Append(kept, Packet)
  /\ UNCHANGED run

(* Outside any try block: std::terminate. *)
KeepFails ==
  /\ Read
  /\ WriteFails(PacketBytes(Packet))
  /\ kept' = Append(kept, Packet) /\ run' = "crashed"

Crash == /\ run' = "crashed" /\ buffered' = <<>>
         /\ UNCHANGED <<capture, bufferSize, room, position, got, kept, disk>>

ReadFails == run = "reading" /\ Corrupt(input, position) /\ Crash
Killed    == run = "reading" /\ Crash

(* Mutant: the writer is never closed. *)
FinishUnflushed ==
  /\ run = "reading" /\ AtEnd(input, position)
  /\ run' = "ended" /\ buffered' = <<>>
  /\ UNCHANGED <<capture, bufferSize, room, position, got, kept, disk>>

(* A header that is missing or cut short is the end of the file.  close()  *)
(* flushes, and does not look whether that worked.                         *)
Finish ==
  /\ run = "reading" /\ AtEnd(input, position)
  /\ run' = "ended"
  /\ disk' = disk \o SubSeq(buffered, 1, IF Fits(Len(buffered)) THEN Len(buffered) ELSE room - Len(disk))
  /\ buffered' = <<>>
  /\ UNCHANGED <<capture, bufferSize, room, position, got, kept>>

Stopped == run \in {"ended", "refused", "crashed"} /\ UNCHANGED fileVars

FilesNext ==
  \/ Open \/ OpenFails \/ DropPacket \/ KeepPacket \/ KeepFails
  \/ ReadFails \/ Killed \/ Finish \/ Stopped

FilesSpec == FilesInit /\ [][FilesNext]_fileVars

-----------------------------------------------------------------------------
StartsWith(s, t) == Len(t) <= Len(s) /\ SubSeq(s, 1, Len(t)) = t

(* Whatever becomes of the process and of the disk, the output read by the *)
(* program itself yields the packets kept, from the first one on, with     *)
(* their times, lengths and data; all of them after a regular end with     *)
(* room on the disk, when nothing else is in the file either.              *)
OutputReadsBack ==
  /\ StartsWith(kept, Packets(disk))
  /\ run = "ended" /\ Len(disk) < room =>
       /\ Accepted(disk) /\ Packets(disk) = kept
       /\ Snaplen(disk) = Snaplen(input)

(* In whichever byte order a capture was written, the packets are read as  *)
(* they were captured, as many of them as the file still has; an intact    *)
(* file is accepted, and read to its end.                                  *)
PacketsAsCaptured ==
  /\ StartsWith(capture.packets, got)
  /\ capture.intact => Accepted(input) /\ ~(run = "reading" /\ Corrupt(input, position))
  /\ capture.intact /\ run = "ended" => got = capture.packets
=============================================================================
