--------------------------- MODULE SettingsFrame ---------------------------
(***************************************************************************)
(* The settings frame of the adapter: the speeds and modes, the frame that *)
(* carries a Config, and its checksum.  Pure operators, no state.          *)
(*                                                                         *)
(* A u32 is kept as its two halves, since TLC's integers have 32 bits and  *)
(* a sign.                                                                 *)
(***************************************************************************)
EXTENDS WaveshareWire

CMD_FRAME_SIZE == 20
CMD_FRAME_MARKER == 85          \* 0x55
CMD_TYPE == 18                  \* 0x12

-----------------------------------------------------------------------------
(* Speeds and modes, with the discriminants of the enums.                  *)

CanSpeed == 1..12

Bps == <<1000000, 800000, 500000, 400000, 250000, 200000,
         125000, 100000, 50000, 20000, 10000, 5000>>
AsBps(speed) == Bps[speed]

\* The arms of try_from, and the one that matches, if any.
SpeedArms ==
  {<<1000000, 1>>, <<800000, 2>>, <<500000, 3>>, <<400000, 4>>, <<250000, 5>>, <<200000, 6>>,
   <<125000, 7>>, <<100000, 8>>, <<50000, 9>>, <<20000, 10>>, <<10000, 11>>, <<5000, 12>>}
SpeedFromBps(value) == {arm[2] : arm \in {a \in SpeedArms : a[1] = value}}

CanMode == 0..3                 \* Normal, Silent, Loopback, LoopbackSilent

HALF_MAX == 65535
Half == 0..HALF_MAX
Word == [high : Half, low : Half]

Config == [speed : CanSpeed, mode : CanMode, extended : BOOLEAN,
           filter : Word, mask : Word, retransmit : BOOLEAN]

-----------------------------------------------------------------------------
(* The frame.                                                              *)

\* The four bytes of a u32, the lowest first.
WordBytes(w) == <<w.low % 256, w.low \div 256, w.high % 256, w.high \div 256>>

ByteSum(s) ==
  LET sum[n \in 0..Len(s)] == IF n = 0 THEN 0 ELSE sum[n - 1] + s[n]
  IN  sum[Len(s)] % 256

\* A faulty variant the runs must tell apart: the sum starts one byte late.
ChecksumLate(data, offset, length) == ByteSum(SubSeq(data, offset + 2, offset + length))

GenerateChecksum(data, offset, length) == ByteSum(SubSeq(data, offset + 1, offset + length))

\* The frame with a zero where the checksum goes.
Unsigned(c) ==
  <<FRAME_START, CMD_FRAME_MARKER, CMD_TYPE, c.speed, IF c.extended THEN 2 ELSE 1>>
    \o WordBytes(c.filter) \o WordBytes(c.mask)
    \o <<c.mode, IF c.retransmit THEN 0 ELSE 1, 0, 0, 0, 0, 0>>

BuildSettingsFrame(c) == [Unsigned(c) EXCEPT ![20] = GenerateChecksum(Unsigned(c), 2, 17)]

-----------------------------------------------------------------------------
(* What the frame says, read by the layout its documentation gives: the    *)
(* reference the frame is compared with.                                   *)

WordOf(b) == [high |-> b[3] + 256 * b[4], low |-> b[1] + 256 * b[2]]

WellFormed(f) ==
  /\ Len(f) = CMD_FRAME_SIZE
  /\ f[1] = FRAME_START /\ f[2] = CMD_FRAME_MARKER /\ f[3] = CMD_TYPE
  /\ f[4] \in CanSpeed /\ f[5] \in {1, 2} /\ f[14] \in CanMode /\ f[15] \in {0, 1}
  /\ f[20] = ByteSum(SubSeq(f, 3, 19))

SettingsOf(f) ==
  [speed |-> f[4], mode |-> f[14], extended |-> f[5] = 2,
   filter |-> WordOf(SubSeq(f, 6, 9)), mask |-> WordOf(SubSeq(f, 10, 13)),
   retransmit |-> f[15] = 0]
=============================================================================
