--------------------------- MODULE StreamDecoder ---------------------------
(***************************************************************************)
(* What the receiving side promises, without buffers, chunks, deadlines or *)
(* calls: the bytes that ever arrived form one stream, a scan moves over   *)
(* it from left to right, and the messages of the frames it passes are     *)
(* delivered in stream order, each once.  How the bytes were cut into      *)
(* reads, and when, leaves no trace.                                       *)
(***************************************************************************)
EXTENDS WaveshareWire

VARIABLES stream,       \* every byte that arrived
          pos,          \* how many of them the scan is done with
          delivered     \* the messages handed to the caller

vars == <<stream, pos, delivered>>

Init ==
  /\ stream = <<>>
  /\ pos = 0
  /\ delivered = <<>>

Rest == SubSeq(stream, pos + 1, Len(stream))

Arrive ==
  /\ stream' \in Seq(Byte)
  /\ Len(stream') >= Len(stream)
  /\ SubSeq(stream', 1, Len(stream)) = stream
  /\ UNCHANGED <<pos, delivered>>

\* The first k bytes of the rest are junk and are given up.
Skip(k) ==
  /\ \A p \in 0..(k - 1) : SkipAt(Rest, p)
  /\ pos' = pos + k
  /\ UNCHANGED <<stream, delivered>>

\* A frame follows the junk.  A frame whose id is out of range is dropped.
Take(k) ==
  /\ \A p \in 0..(k - 1) : SkipAt(Rest, p)
  /\ FrameAt(Rest, k)
  /\ pos' = pos + k + FrameLen(Rest[k + 2])
  /\ delivered' = delivered \o ParsedToMessage(MetaAt(Rest, k))
  /\ UNCHANGED stream

Next == Arrive \/ \E k \in 0..Len(Rest) : Skip(k) \/ Take(k)

Spec == Init /\ [][Next]_vars
=============================================================================
