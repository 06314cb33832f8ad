---------------------------- MODULE FrameParser ----------------------------
(***************************************************************************)
(* The receiving half of everybot_bringup (uart_communication.cpp): every  *)
(* call of receiveData appends what the serial line has to a static buffer *)
(* and cuts frames out of it, one with every turn of the loop of           *)
(* searchAndParseData.                                                     *)
(*                                                                         *)
(*   frame: preamble (2) | size (1) | data (size - 1) | checksum (1)       *)
(*                                                                         *)
(* A byte has Byte values (256 in the code), so the size and the checksum  *)
(* wrap at Byte.  The fields of an accepted frame are not told apart; what *)
(* McuLink reads of them is McuLink!McuFrame.                              *)
(***************************************************************************)
EXTENDS Integers, Sequences, SequencesExt

CONSTANTS
  Byte,         \* number of values of a byte
  Preamble,     \* 0xAA, 0x55
  Commands,     \* RX_V1PROTOCOL_, RX_V2PROTOCOL_
  MinPacket,    \* 185, the shortest frame parseDataFields takes
  ReadMax,      \* num_bytes_to_read
  MaxBytes,     \* bound: bytes on the line in a behaviour
  MaxUnread     \* bound: bytes waiting in the driver

Bytes == 0..(Byte - 1)
Header == 5     \* searchAndParseData waits for this many bytes

ASSUME ParserConstants ==
  /\ {Byte, ReadMax, MaxBytes, MaxUnread} \subseteq Nat \ {0}
  /\ Preamble \in Bytes \X Bytes /\ Preamble[1] # Preamble[2]
  /\ Commands \subseteq Bytes
  /\ MinPacket \in Header..(Byte + 2)

VARIABLES
  unread,    \* bytes in the driver
  buffer,
  parsing,   \* the loop of searchAndParseData goes on
  received,  \* history: every byte read so far
  frames     \* history: the frames cut so far, where they began and whether
             \* they were handed to the setters

parserVars == <<unread, buffer, parsing, received, frames>>

ParserInit ==
  unread = <<>> /\ buffer = <<>> /\ parsing = FALSE /\ received = <<>> /\ frames = <<>>

Preambles(s) == {i \in 1..(Len(s) - 1) : s[i] = Preamble[1] /\ s[i + 1] = Preamble[2]}

\* p is the first preamble of s that begins at n or later.
FirstPreamble(s, n, p) ==
  p \in Preambles(s) /\ n <= p /\ \A q \in Preambles(s) : n <= q => p <= q

FrameSize(s, p) == s[p + 2] + 3
FrameEnd(s, p) == p + FrameSize(s, p) - 1
Frame(s, p) == SubSeq(s, p, FrameEnd(s, p))

\* The bytes from p on hold a header and the frame it announces.
Complete(s, p) == p + Header - 1 <= Len(s) /\ FrameEnd(s, p) <= Len(s)

\* The sum starts behind the size; of an empty frame the size itself is taken
\* for the checksum.
ChecksumOK(frame) ==
  FoldLeft(+, 0, SubSeq(frame, 4, Len(frame) - 1)) % Byte = Last(frame)

\* parseDataFields: too short a frame or an unknown command sets nothing.
ParseDataFields(frame) == Len(frame) >= MinPacket /\ frame[4] \in Commands

Taken(frame) == ChecksumOK(frame) /\ ParseDataFields(frame)
-----------------------------------------------------------------------------
(* The line delivers a byte to the driver.                                 *)
UartByte ==
  /\ Len(received) + Len(unread) < MaxBytes /\ Len(unread) < MaxUnread
  /\ \E b \in Bytes : unread' = Append(unread, b)
  /\ UNCHANGED <<buffer, parsing, received, frames>>

\* receiveData: nothing happens without bytes or with a failed read; at most
\* ReadMax of the bytes that are there are read, maybe fewer.
ReceiveData ==
  /\ ~parsing /\ parsing' = TRUE
  /\ \E n \in 1..Len(unread) :
       /\ n <= ReadMax
       /\ buffer' = buffer \o SubSeq(unread, 1, n)
       /\ received' = received \o SubSeq(unread, 1, n)
       /\ unread' = SubSeq(unread, n + 1, Len(unread))
  /\ UNCHANGED frames

DropByteAll(buf) == <<>>    \* mutant: a buffer without preamble is junk

DropByte(buf) == Tail(buf)

\* Without a preamble the buffer is emptied byte by byte until a header no
\* longer fits.
NoPreamble ==
  /\ parsing /\ Len(buffer) >= Header /\ Preambles(buffer) = {}
  /\ buffer' = DropByte(buffer)
  /\ UNCHANGED <<unread, parsing, received, frames>>

ErasedAll(buf, p) == <<>>   \* mutant: what follows the frame goes with it

Erased(buf, p) == SubSeq(buf, FrameEnd(buf, p) + 1, Len(buf))

\* A frame, handed on or not, is erased with the junk before it.
CutFrame ==
  /\ parsing
  /\ \E p \in Preambles(buffer) :
       /\ FirstPreamble(buffer, 1, p) /\ Complete(buffer, p)
       /\ buffer' = Erased(buffer, p)
       /\ frames' = Append(frames, [at |-> Len(received) - Len(buffer) + p,
                                    taken |-> Taken(Frame(buffer, p))])
  /\ UNCHANGED <<unread, parsing, received>>

\* mutant: a buffer without preamble is kept as well
WaitsLong(buf) == \A p \in Preambles(buf) : FirstPreamble(buf, 1, p) => ~Complete(buf, p)

Waits(buf) ==
  \/ Len(buf) < Header
  \/ \E p \in Preambles(buf) : FirstPreamble(buf, 1, p) /\ ~Complete(buf, p)

\* The loop ends; the rest waits in the buffer for more.
WaitForMore ==
  /\ parsing /\ parsing' = FALSE
  /\ Waits(buffer)
  /\ UNCHANGED <<unread, buffer, received, frames>>

ParserNext == UartByte \/ ReceiveData \/ NoPreamble \/ CutFrame \/ WaitForMore

ParserSpec == ParserInit /\ [][ParserNext]_parserVars
-----------------------------------------------------------------------------
\* The first byte behind the frame k of the stream.
Behind(k) == IF k = 0 THEN 1 ELSE FrameEnd(received, frames[k].at) + 1

(* However the stream is cut into reads, through preambles, sizes and      *)
(* checksums, the frames cut are those of the stream read as a whole: each *)
(* the first that begins behind the one before, with no other in between,  *)
(* taken or not for what it is in the stream, and none that is complete is *)
(* left when the loop has ended.                                           *)
DecodedAsWhole ==
  /\ \A k \in DOMAIN frames :
       LET p == frames[k].at IN
       /\ FirstPreamble(received, Behind(k - 1), p) /\ Complete(received, p)
       /\ frames[k].taken <=> Taken(Frame(received, p))
  /\ ~parsing => \A p \in Preambles(received) :
       FirstPreamble(received, Behind(Len(frames)), p) => ~Complete(received, p)

(* Between two reads the buffer holds at most the frame it waits for and   *)
(* the junk of one read before it, however damaged the stream is, and      *)
(* never more than another read.                                           *)
BufferBounded ==
  Len(buffer) <= (Byte + 1) + (ReadMax + Header - 3) + (IF parsing THEN ReadMax ELSE 0)

(* Damage is forgotten: once the loop has ended, an intact frame is lost   *)
(* only if something that looks like a preamble began less than a longest  *)
(* frame before it.                                                        *)
IntactFrameAccepted ==
  ~parsing => \A p \in Preambles(received) :
    /\ Complete(received, p) /\ Taken(Frame(received, p))
    /\ \A q \in Preambles(received) : q >= p \/ q + Byte + 2 <= p
    => \E k \in DOMAIN frames : frames[k] = [at |-> p, taken |-> TRUE]
=============================================================================
