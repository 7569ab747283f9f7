--------------------------- MODULE WireCheckProofs ---------------------------
(* The round trip of a message over the wire, for every message. *)
EXTENDS WireCheck, WaveshareWireProofs

\* The bytes around the frame stay in their sets and the message never changes.
Inv ==
  /\ before \in Seq(Byte \ {FRAME_START})
  /\ msg \in CanMessage
  /\ after \in Seq(Byte)

LEMMA InvHolds == Spec => []Inv
<1> USE WireAssumption
<1>1. Init => Inv
  BY DEF Init, Inv
<1>2. Inv /\ [Next]_vars => Inv'
  <2> SUFFICES ASSUME Inv, [Next]_vars PROVE Inv'
    OBVIOUS
  <2>1. CASE NoiseBefore
    <3>1. PICK b \in Before : before' = Append(before, b)
      BY <2>1 DEF NoiseBefore
    <3> QED
      BY <2>1, <3>1 DEF NoiseBefore, Inv
  <2>2. CASE BytesAfter
    <3>1. PICK b \in After : after' = Append(after, b)
      BY <2>2 DEF BytesAfter
    <3> QED
      BY <2>2, <3>1 DEF BytesAfter, Inv
  <2>3. CASE UNCHANGED vars
    BY <2>3 DEF Inv, vars
  <2> QED
    BY <2>1, <2>2, <2>3 DEF Next
<1> QED
  BY <1>1, <1>2, PTL DEF Spec

\* Every data frame is read back as the message it was built from, behind any
\* noise without a start byte and before any other bytes
\* (build_data_frame_into and parse_next_frame).
THEOREM RoundTripHolds == Spec => []RoundTrip
<1>1. Inv => RoundTrip
  <2> SUFFICES ASSUME Inv, ~msg.rtr PROVE Decodes
    BY DEF RoundTrip
  <2> QED
    BY BuiltFrameFound, Zenon DEF Inv, Decodes, Buffer
<1> QED
  BY <1>1, InvHolds, PTL
=============================================================================
