--------------------------- MODULE WaveshareWire ---------------------------
(***************************************************************************)
(* The data frames of the Waveshare USB-CAN-A serial protocol: how a CAN   *)
(* message becomes bytes and how the scanner finds the next frame in a     *)
(* buffer of received bytes.  Pure operators, no state.                    *)
(*                                                                         *)
(*   0xAA | 0xC0 + 0x20 (extended) + dlc | id, little endian | data | 0x55 *)
(*                                                                         *)
(* A sequence of length 0 or 1 stands for an Option.                       *)
(***************************************************************************)
EXTENDS Integers, Sequences

Byte == 0..255
FRAME_START == 170              \* 0xAA
FRAME_FOOTER == 85              \* 0x55
DATA_FRAME_MAX_SIZE == 15
MIN_FRAME_SIZE == 5             \* the scan needs this many bytes to go on

-----------------------------------------------------------------------------
(* CAN messages: an 11-bit or a 29-bit identifier, up to 8 data bytes.  A  *)
(* remote frame has a dlc and no data.                                     *)

StandardId == 0..2047
EXTENDED_MAX == 536870911       \* 0x1FFFFFFF
ExtendedId == 0..EXTENDED_MAX
IdRange(ext) == IF ext THEN ExtendedId ELSE StandardId

CanMessage ==
  {m \in [ext : BOOLEAN, id : Nat, rtr : BOOLEAN, dlc : 0..8, data : Seq(Byte)] :
     /\ m.id \in IdRange(m.ext)
     /\ IF m.rtr THEN m.data = <<>> ELSE Len(m.data) = m.dlc}

NewData(ext, id, data) ==
  IF Len(data) > 8 THEN <<>>
  ELSE <<[ext |-> ext, id |-> id, rtr |-> FALSE, dlc |-> Len(data), data |-> data]>>

NewRemote(ext, id, dlc) ==
  IF dlc > 8 THEN <<>>
  ELSE <<[ext |-> ext, id |-> id, rtr |-> TRUE, dlc |-> dlc, data |-> <<>>]>>

-----------------------------------------------------------------------------
(* Building.                                                               *)

IdLen(ext) == IF ext THEN 4 ELSE 2

\* to_le_bytes, cut to the length of the id.
IdBytes(ext, id) ==
  LET high == id \div 256
      top  == (high \div 256) \div 256
  IN  IF ext THEN <<id % 256, high % 256, (high \div 256) % 256, top % 256>>
             ELSE <<id % 256, high % 256>>

\* The bit-ors of the code are sums: the three fields share no bit.
InfoByte(ext, dlc) == 192 + (IF ext THEN 32 ELSE 0) + dlc

BuildDataFrameInto(ext, id, data) ==
  IF Len(data) > 8
  THEN [ok |-> FALSE, bytes |-> <<>>]
  ELSE [ok |-> TRUE,
        bytes |-> <<FRAME_START, InfoByte(ext, Len(data))>>
                    \o IdBytes(ext, id) \o data \o <<FRAME_FOOTER>>]

\* The frame's kind is not passed on: a remote frame has no data and goes out
\* as an empty data frame.
BuildDataFrame(m) == BuildDataFrameInto(m.ext, m.id, m.data)

-----------------------------------------------------------------------------
(* Scanning.  Offsets are the code's, from 0: offset o is the byte         *)
(* buf[o + 1].                                                             *)

FrameLen(info) == 2 + (IF info \div 16 = 14 THEN 4 ELSE 2) + (info % 16) + 1

\* A faulty variant the runs must tell apart: it takes the low nibble for a
\* dlc without looking at its range.
HeaderAnyDlc(buf, o) ==
  buf[o + 1] = FRAME_START /\ buf[o + 2] \div 16 \in {12, 14}

HeaderAt(buf, o) ==
  /\ buf[o + 1] = FRAME_START
  /\ buf[o + 2] \div 16 \in {12, 14}
  /\ buf[o + 2] % 16 <= 8

\* Faulty: a frame that ends with the buffer is taken for incomplete.
CompleteStrictly(buf, o) == Len(buf) - o > FrameLen(buf[o + 2])

CompleteAt(buf, o) == Len(buf) - o >= FrameLen(buf[o + 2])
FooterAt(buf, o) == buf[o + FrameLen(buf[o + 2])] = FRAME_FOOTER

\* The loop gives up the byte at o as junk.
SkipAt(buf, o) ==
  /\ Len(buf) - o >= MIN_FRAME_SIZE
  /\ HeaderAt(buf, o) => CompleteAt(buf, o) /\ ~FooterAt(buf, o)

\* A whole frame starts at o.
FrameAt(buf, o) ==
  /\ Len(buf) - o >= MIN_FRAME_SIZE
  /\ HeaderAt(buf, o)
  /\ CompleteAt(buf, o)
  /\ FooterAt(buf, o)

\* The loop ends at the first offset it does not skip.
StopsAt(buf, o) == ~SkipAt(buf, o) /\ \A p \in 0..(o - 1) : SkipAt(buf, p)
ScanEnd(buf) == CHOOSE o \in 0..Len(buf) : StopsAt(buf, o)

\* ParsedFrameMeta and data_out of the frame at o.  The u32 id is kept as its
\* four little-endian bytes, zero-filled for a standard frame.
MetaAt(buf, o) ==
  LET info == buf[o + 2]
      ext  == info \div 16 = 14
      at   == o + 2 + IdLen(ext)
  IN  [ext  |-> ext,
       dlc  |-> info % 16,
       id   |-> IF ext THEN SubSeq(buf, o + 3, o + 6)
                       ELSE SubSeq(buf, o + 3, o + 4) \o <<0, 0>>,
       data |-> SubSeq(buf, at + 1, at + (info % 16))]

ParseNextFrame(buf) ==
  LET o == ScanEnd(buf)
  IN  IF FrameAt(buf, o)
      THEN [consumed |-> o + FrameLen(buf[o + 2]), frame |-> <<MetaAt(buf, o)>>]
      ELSE [consumed |-> o, frame |-> <<>>]

\* Faulty: any four bytes are an id.
IdUnchecked(meta) == TRUE

\* StandardId::new / ExtendedId::new refuse an id out of range.
IdValid(meta) ==
  IF meta.ext THEN meta.id[4] <= 31
              ELSE meta.id[2] <= 7 /\ meta.id[3] = 0 /\ meta.id[4] = 0

FromLittleEndian(b) == b[1] + 256 * (b[2] + 256 * (b[3] + 256 * b[4]))

ParsedToMessage(meta) ==
  IF IdValid(meta) THEN NewData(meta.ext, FromLittleEndian(meta.id), meta.data)
                   ELSE <<>>
=============================================================================
