----------------------------- MODULE WireCheck -----------------------------
(***************************************************************************)
(* A frame between other bytes: build_data_frame writes a message, noise   *)
(* without a start byte comes before it and anything comes after it.       *)
(***************************************************************************)
EXTENDS WaveshareWire

CONSTANTS Messages,      \* messages to write
          Before, After, \* the bytes that may come before and after them
          MaxBefore, MaxAfter  \* bound: how many

ASSUME WireAssumption ==
  /\ Messages \subseteq CanMessage
  /\ Before \subseteq Byte \ {FRAME_START}
  /\ After \subseteq Byte
  /\ {MaxBefore, MaxAfter} \subseteq Nat

VARIABLES before, msg, after

vars == <<before, msg, after>>

Init == before = <<>> /\ msg \in Messages /\ after = <<>>

NoiseBefore ==
  /\ Len(before) < MaxBefore
  /\ \E b \in Before : before' = Append(before, b)
  /\ UNCHANGED <<msg, after>>

BytesAfter ==
  /\ Len(after) < MaxAfter
  /\ \E b \in After : after' = Append(after, b)
  /\ UNCHANGED <<before, msg>>

Next == NoiseBefore \/ BytesAfter

Spec == Init /\ [][Next]_vars

Buffer == before \o BuildDataFrame(msg).bytes \o after

Decodes ==
  LET p == ParseNextFrame(Buffer)
  IN  /\ p.consumed = Len(before) + Len(BuildDataFrame(msg).bytes)
      /\ p.frame # <<>>
      /\ ParsedToMessage(p.frame[1]) = <<msg>>

\* A data frame is found behind the noise, whatever follows it, and read back
\* as the message it was built from.
RoundTrip == ~msg.rtr => Decodes

\* The documentation of write and send says that they accept any
\* embedded_can::Frame, so a remote frame should arrive as what it is, too.
AnyFrameRoundTrips == Decodes
=============================================================================
