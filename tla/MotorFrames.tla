---------------------------- MODULE MotorFrames ----------------------------
(***************************************************************************)
(* From commands to CAN frames: Transaction packs commands into a batch,   *)
(* send_cmd cuts a command into frames.                                    *)
(***************************************************************************)
EXTENDS MotorCommands

CONSTANT MMCL_LEN       \* capacity of a transaction (512)

\* The packet numbers of the longest batch fit into their byte of the id.
ASSUME LimitAssumption == MMCL_LEN \in 1..(7 * 256 - 3)

Least(m, n) == IF m < n THEN m ELSE n

-----------------------------------------------------------------------------
(* Transactions.                                                           *)

\* Faulty: a command that does not fit whole is left out.
LoadWhole(buf, cmd) == IF Len(buf) + Len(cmd) <= MMCL_LEN THEN buf \o cmd ELSE buf

\* load: what does not fit is cut off.
Load(buf, cmd) == buf \o SubSeq(cmd, 1, Least(Len(cmd), MMCL_LEN - Len(buf)))

\* commit: the batch frame with its total length.
Batch(addr, buf) == <<addr, \hAA>> \o Be16(Len(buf) + 5) \o buf \o <<CHECK>>

-----------------------------------------------------------------------------
(* Frames.                                                                 *)

Ceil7(n) == (n + 6) \div 7

\* Faulty: seven bytes are taken for the room in a frame after the code, and
\* one more.
FramesOfNine(cmd) ==
  [n \in 1..(IF Len(cmd) < 2 THEN 0 ELSE (Len(cmd) + 5) \div 8) |->
     [ext_id |-> cmd[1] * 256 + (n - 1),
      data   |-> <<cmd[2]>> \o SubSeq(cmd, 8 * n - 5, Least(8 * n + 2, Len(cmd)))]]

\* Faulty: only the first frame has the function code.
FramesWithoutCode(cmd) ==
  [n \in 1..(IF Len(cmd) < 2 THEN 0 ELSE Ceil7(Len(cmd) - 2)) |->
     [ext_id |-> cmd[1] * 256 + (n - 1),
      data   |-> (IF n = 1 THEN <<cmd[2]>> ELSE <<>>)
                   \o SubSeq(cmd, 7 * n - 4, Least(7 * n + 2, Len(cmd)))]]

\* The CAN frames of a command: the address and the number of the packet in the
\* id, the function code and up to seven further bytes in the data.  A slice
\* without a function code has none.
FramesOf(cmd) ==
  [n \in 1..(IF Len(cmd) < 2 THEN 0 ELSE Ceil7(Len(cmd) - 2)) |->
     [ext_id |-> cmd[1] * 256 + (n - 1),
      data   |-> <<cmd[2]>> \o SubSeq(cmd, 7 * n - 4, Least(7 * n + 2, Len(cmd)))]]
=============================================================================
