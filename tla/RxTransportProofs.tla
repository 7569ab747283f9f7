-------------------------- MODULE RxTransportProofs --------------------------
(***************************************************************************)
(* The receive buffer never overflows, no byte is lost and the transport   *)
(* implements the stream decoder, for every size of the buffers that       *)
(* SizesAssumption allows and every device.  Noise that costs nothing      *)
(* loses no message, and no noise loses more than three.                   *)
(***************************************************************************)
EXTENDS RxTransport, WaveshareWireProofs

-----------------------------------------------------------------------------
(* The inductive invariant.                                                *)

\* How many bytes of the stream the scan is done with.
Done == Len(stream) - Len(rx) - Len(line)

\* The buffer and the line are the rest of the stream.
Suffix ==
  /\ Done \in Nat
  /\ Window(rx, stream, Done)
  /\ Window(line, stream, Done + Len(rx))

\* Past the parse loop, the buffer starts where the scan has to wait.
Scanned ==
  pc \in {"check", "wait"} => ParseNextFrame(rx) = [consumed |-> 0, frame |-> <<>>]

Inv == TypeOK /\ Suffix /\ Scanned

LEMMA InitInv == Init => Inv
<1> SUFFICES ASSUME Init PROVE Inv
  OBVIOUS
<1>1. TypeOK
  <2>1. \A S : <<>> \in Seq(S)
    OBVIOUS
  <2>2. Len(rx) <= RX_BUFFER /\ items \in 0..MaxItems
    BY SizesAssumption, InputAssumption DEF Init
  <2> QED
    BY <2>1, <2>2, Zenon DEF Init, TypeOK
<1>2. Suffix
  BY DEF Init, Suffix, Done, Window
<1>3. Scanned
  BY DEF Init, Scanned
<1> QED
  BY <1>1, <1>2, <1>3 DEF Inv

\* A buffer that was scanned in vain holds at most 14 bytes, so that a whole
\* read still fits.
LEMMA RoomForRead ==
  ASSUME Inv, pc \in {"check", "wait"}
  PROVE  Len(rx) <= DATA_FRAME_MAX_SIZE - 1 /\ Len(rx) + TEMP <= RX_BUFFER
<1>1. rx \in Seq(Byte) /\ ParseNextFrame(rx).frame = <<>> /\ ParseNextFrame(rx).consumed = 0
  BY DEF Inv, TypeOK, Scanned
<1>2. Len(rx) - 0 <= DATA_FRAME_MAX_SIZE - 1
  BY <1>1, ParseResidue
<1> QED
  BY <1>1, <1>2, SizesAssumption DEF DATA_FRAME_MAX_SIZE

-----------------------------------------------------------------------------
(* Every step preserves it.                                                *)

\* Bytes that arrive go to the end of the line and of the stream.
LEMMA EmitInv ==
  ASSUME Inv, NEW bytes \in Seq(Byte), Emit(bytes),
         sent' \in Seq(Messages), tail' \in Seq(Messages)
  PROVE  Inv' /\ Done' = Done
<1> USE DEF Inv
<1>1. /\ line \in Seq(Byte) /\ rx \in Seq(Byte) /\ stream \in Seq(Byte)
      /\ line' = line \o bytes /\ stream' = stream \o bytes /\ rx' = rx /\ pc' = pc
  BY DEF TypeOK, Emit
<1>2. TypeOK'
  BY <1>1, InputAssumption DEF TypeOK, Emit
<1>3. /\ line' \in Seq(Byte) /\ Len(line') = Len(line) + Len(bytes)
      /\ stream' \in Seq(Byte) /\ Len(stream') = Len(stream) + Len(bytes)
      /\ Window(stream, stream', 0) /\ Window(bytes, stream', Len(stream))
  BY <1>1, PartsAreWindows
<1>4. /\ Done' = Done /\ Done \in Nat /\ Done + Len(rx) \in Nat
      /\ (Done + Len(rx)) + Len(line) = Len(stream)
  BY <1>1, <1>3 DEF Done, Suffix
<1>5. Window(rx, stream', Done)
  <2>1. Window(rx, stream', Done + 0)
    BY <1>1, <1>3, <1>4, WindowOfWindow DEF Suffix
  <2> QED
    BY <1>4, <2>1
<1>6. Window(line', stream', Done + Len(rx))
  <2>1. Window(line, stream', (Done + Len(rx)) + 0)
    BY <1>1, <1>3, <1>4, WindowOfWindow DEF Suffix
  <2>2. Window(line, stream', Done + Len(rx))
    BY <1>4, <2>1
  <2>3. Window(bytes, stream', (Done + Len(rx)) + Len(line))
    BY <1>3, <1>4
  <2> QED
    BY <1>1, <1>3, <1>4, <2>2, <2>3, AdjacentWindows
<1>7. Scanned'
  BY <1>1 DEF Scanned
<1> QED
  BY <1>1, <1>2, <1>4, <1>5, <1>6, <1>7 DEF Suffix

\* Dropping what was consumed leaves a suffix.
LEMMA DropInv ==
  ASSUME Inv, NEW c \in 0..Len(rx), Drop(c), UNCHANGED <<line, stream>>
  PROVE  /\ Suffix'
         /\ rx' \in Seq(Byte) /\ Len(rx') <= RX_BUFFER
         /\ Done' = Done + c
<1> USE DEF Inv
<1>1. /\ rx \in Seq(Byte) /\ line \in Seq(Byte) /\ stream \in Seq(Byte)
      /\ Len(rx) <= RX_BUFFER /\ RX_BUFFER \in Nat
  BY SizesAssumption DEF TypeOK
<1>2. rx' \in Seq(Byte) /\ Len(rx') = Len(rx) - c /\ Window(rx', rx, c)
  BY <1>1, RestIsWindow DEF Drop
<1>3. /\ Done' = c + Done /\ c + Done \in Nat /\ Done \in Nat
      /\ Done' + Len(rx') = Done + Len(rx)
  BY <1>1, <1>2 DEF Done, Suffix
<1>4. Window(rx', stream, c + Done)
  BY <1>1, <1>2, <1>3, WindowOfWindow DEF Suffix
<1>5. Window(rx', stream', Done')
  BY <1>3, <1>4
<1>6. Window(line', stream', Done' + Len(rx'))
  BY <1>3 DEF Suffix
<1> QED
  BY <1>1, <1>2, <1>3, <1>5, <1>6 DEF Suffix

\* What is read moves from the front of the line to the end of the buffer,
\* which has room for it.
LEMMA FillInv ==
  ASSUME Inv, NEW n \in 1..TEMP, ReadBytes(n)
  PROVE  Inv' /\ Done' = Done
<1> USE DEF Inv
<1>1. /\ rx \in Seq(Byte) /\ line \in Seq(Byte) /\ stream \in Seq(Byte) /\ stream' = stream
      /\ n \in 0..Len(line) /\ RX_BUFFER \in Nat /\ TEMP \in Nat
  BY SizesAssumption DEF TypeOK, ReadBytes
<1> DEFINE got == SubSeq(line, 1, n)
<1>2. got \in Seq(Byte) /\ Len(got) = n /\ Window(got, line, 0)
  BY <1>1 DEF Window
<1>3. Len(rx) + TEMP <= RX_BUFFER
  BY RoomForRead DEF ReadBytes
<1>4. rx' = rx \o got
  <2>1. ~(Len(rx) + Len(got) > RX_BUFFER)
    BY <1>1, <1>2, <1>3
  <2> QED
    BY <2>1, Zenon DEF ReadBytes, Fill
<1> HIDE DEF got
<1>5. /\ rx' \in Seq(Byte) /\ Len(rx') = Len(rx) + n /\ Len(rx') <= RX_BUFFER
  <2>1. /\ rx \o got \in Seq(Byte) /\ Len(rx \o got) = Len(rx) + Len(got)
    BY <1>1, <1>2, PartsAreWindows
  <2>2. Len(rx) + n <= RX_BUFFER
    BY <1>1, <1>3
  <2> QED
    BY <1>2, <1>4, <2>1, <2>2
<1>6. line' \in Seq(Byte) /\ Len(line') = Len(line) - n /\ Window(line', line, n)
  BY <1>1, RestIsWindow DEF ReadBytes
<1>7. /\ Done' = Done /\ Done \in Nat /\ Done + Len(rx) \in Nat
      /\ n + (Done + Len(rx)) = Done + Len(rx')
  BY <1>1, <1>5, <1>6 DEF Done, Suffix
<1>8. Window(rx', stream', Done')
  <2>1. Window(got, stream, 0 + (Done + Len(rx)))
    BY <1>1, <1>2, <1>7, WindowOfWindow DEF Suffix
  <2>2. Window(got, stream, Done + Len(rx))
    BY <1>7, <2>1
  <2>3. Window(rx \o got, stream, Done)
    BY <1>1, <1>2, <1>7, <2>2, AdjacentWindows DEF Suffix
  <2> QED
    BY <1>1, <1>4, <1>7, <2>3
<1>9. Window(line', stream', Done' + Len(rx'))
  <2>1. Window(line', stream, n + (Done + Len(rx)))
    BY <1>1, <1>6, <1>7, WindowOfWindow DEF Suffix
  <2> QED
    BY <1>1, <1>7, <2>1
<1>10. TypeOK'
  BY <1>5, <1>6 DEF TypeOK, ReadBytes
<1>11. Scanned'
  BY DEF Scanned, ReadBytes
<1> QED
  BY <1>7, <1>8, <1>9, <1>10, <1>11 DEF Suffix

\* One round of try_read_frame drops what parse_next_frame consumed; when it
\* found nothing, scanning again will find nothing either.
LEMMA ParseInv ==
  ASSUME Inv, Parse
  PROVE  Inv'
<1> USE DEF Inv
<1> DEFINE p == ParseNextFrame(rx)
<1>1. rx \in Seq(Byte) /\ delivered \in Seq(CanMessage) /\ p.consumed \in 0..Len(rx)
  BY ParseConsumes DEF TypeOK
<1>2. Drop(p.consumed) /\ UNCHANGED <<line, stream>>
  BY DEF Parse, ParseMessage, ParseInvalid, ParseNothing, env
<1>3. Suffix' /\ rx' \in Seq(Byte) /\ Len(rx') <= RX_BUFFER
  BY <1>1, <1>2, DropInv
<1>4. CASE ParseMessage
  <2>1. ParsedToMessage(p.frame[1]) \in Seq(CanMessage)
    <3>1. FrameAt(rx, ScanEnd(rx)) /\ ScanEnd(rx) \in 0..Len(rx)
      BY <1>1, <1>4, ParseConsumes, ScanStops DEF ParseMessage
    <3>2. p.frame[1] = MetaAt(rx, ScanEnd(rx))
      BY <3>1 DEF ParseNextFrame
    <3> QED
      BY <1>1, <3>1, <3>2, ParsedType
  <2>2. delivered' \in Seq(CanMessage)
    BY <1>1, <1>4, <2>1 DEF ParseMessage
  <2>3. TypeOK'
    BY <1>3, <1>4, <2>2 DEF TypeOK, ParseMessage, Return, env
  <2>4. Scanned'
    BY <1>4 DEF Scanned, ParseMessage, Return
  <2> QED
    BY <1>3, <2>3, <2>4
<1>5. CASE ParseInvalid
  <2>1. TypeOK'
    BY <1>3, <1>5 DEF TypeOK, ParseInvalid, env
  <2>2. Scanned'
    BY <1>5 DEF Scanned, ParseInvalid
  <2> QED
    BY <1>3, <2>1, <2>2
<1>6. CASE ParseNothing
  <2>1. TypeOK'
    BY <1>3, <1>6 DEF TypeOK, ParseNothing, Return, env
  <2>2. p.frame = <<>> /\ rx' = SubSeq(rx, p.consumed + 1, Len(rx))
    BY <1>6 DEF ParseNothing, Drop
  <2>3. ParseNextFrame(rx') = [consumed |-> 0, frame |-> <<>>]
    BY <1>1, <2>2, NothingLeft
  <2>4. Scanned'
    BY <2>3 DEF Scanned
  <2> QED
    BY <1>3, <2>1, <2>4
<1> QED
  BY <1>4, <1>5, <1>6 DEF Parse

\* No other step touches a byte.
LEMMA QuietInv ==
  ASSUME Inv,
         \/ Unplug \/ DeadlinePasses \/ Calls \/ CheckLate \/ CheckInTime
         \/ ReadTimeout \/ ReadFails \/ UNCHANGED vars
  PROVE  Inv' /\ UNCHANGED <<line, rx, stream, delivered>>
<1> USE DEF Inv
<1>1. UNCHANGED <<line, rx, stream, delivered, sent, tail, items>>
  BY DEF Unplug, DeadlinePasses, Calls, CallRead, CallReadZero, CallTryRead, Call, Cancel,
         CheckLate, CheckInTime, ReadTimeout, ReadFails, Return, env, vars
<1>2. Suffix'
  BY <1>1 DEF Suffix, Done
<1>3. /\ up' \in BOOLEAN /\ expired' \in BOOLEAN
      /\ pc' \in {"idle", "parse", "check", "wait"}
      /\ call' \in {"read", "zero", "try"}
      /\ outcome' \in {"none", "message", "nothing", "timeout", "io", "cancelled"}
  BY ZenonT(30) DEF TypeOK, Unplug, DeadlinePasses, Calls, CallRead, CallReadZero, CallTryRead, Call,
         Cancel, CheckLate, CheckInTime, ReadTimeout, ReadFails, Return, env, vars
<1>4. TypeOK'
  BY <1>1, <1>3 DEF TypeOK
<1>5. pc' \in {"check", "wait"} => pc \in {"check", "wait"}
  BY DEF Unplug, DeadlinePasses, Calls, CallRead, CallReadZero, CallTryRead, Call, Cancel,
         CheckLate, CheckInTime, ReadTimeout, ReadFails, Return, env, vars
<1>6. Scanned'
  BY <1>1, <1>5 DEF Scanned
<1> QED
  BY <1>1, <1>2, <1>4, <1>6

LEMMA DeviceInv ==
  ASSUME Inv, \/ \E m \in Messages : DeviceSends(m)
              \/ \E b \in Noise : DeviceNoise(b)
  PROVE  /\ Inv' /\ Done' = Done
         /\ \E bytes \in Seq(Byte) : Emit(bytes)
<1>1. sent \in Seq(Messages) /\ tail \in Seq(Messages)
  BY DEF Inv, TypeOK
<1>2. ASSUME NEW m \in Messages, DeviceSends(m)
      PROVE  /\ Inv' /\ Done' = Done
             /\ \E bytes \in Seq(Byte) : Emit(bytes)
  <2>1. BuildDataFrame(m).bytes \in Seq(Byte)
    BY InputAssumption, BuildType
  <2>2. sent' \in Seq(Messages) /\ tail' \in Seq(Messages) /\ Emit(BuildDataFrame(m).bytes)
    BY <1>1, <1>2 DEF DeviceSends
  <2> QED
    BY <2>1, <2>2, EmitInv
<1>3. ASSUME NEW b \in Noise, DeviceNoise(b)
      PROVE  /\ Inv' /\ Done' = Done
             /\ \E bytes \in Seq(Byte) : Emit(bytes)
  <2>1. b \in Seq(Byte)
    BY InputAssumption
  <2>2. sent' \in Seq(Messages) /\ tail' \in Seq(Messages) /\ Emit(b)
    BY <1>1, <1>3 DEF DeviceNoise
  <2> QED
    BY <2>1, <2>2, EmitInv
<1> QED
  BY <1>2, <1>3

LEMMA StepInv == Inv /\ [Next]_vars => Inv'
<1> SUFFICES ASSUME Inv, [Next]_vars PROVE Inv'
  OBVIOUS
<1>1. CASE \/ \E m \in Messages : DeviceSends(m)
           \/ \E b \in Noise : DeviceNoise(b)
  BY <1>1, DeviceInv
<1>2. CASE Parse
  BY <1>2, ParseInv
<1>3. CASE ReadSome
  BY <1>3, FillInv DEF ReadSome
<1>4. CASE \/ Unplug \/ DeadlinePasses \/ Calls \/ CheckLate \/ CheckInTime
           \/ ReadTimeout \/ ReadFails \/ UNCHANGED vars
  BY <1>4, QuietInv
<1> QED
  BY <1>1, <1>2, <1>3, <1>4 DEF Next, Environment

\* The strengthened invariant holds in every reachable state.
THEOREM Invariant == Spec => []Inv
<1>1. Init => Inv
  BY InitInv
<1>2. Inv /\ [Next]_vars => Inv'
  BY StepInv
<1> QED
  BY <1>1, <1>2, PTL DEF Spec

-----------------------------------------------------------------------------
(* What the invariant gives.                                               *)

\* Types are kept and the buffer stays within its allocation.
THEOREM TypeCorrect == Spec => []TypeOK
<1>1. Inv => TypeOK
  BY DEF Inv
<1> QED
  BY <1>1, Invariant, PTL

\* When the port is read, there is room for whatever it returns: the branch
\* of read_frame that empties the buffer is never taken.
THEOREM NeverOverflows == Spec => []NoOverflow
<1>1. Inv => NoOverflow
  BY RoomForRead DEF NoOverflow
<1> QED
  BY <1>1, Invariant, PTL

\* A read never sleeps on a message it could return.
THEOREM NothingHeldBack == Spec => []NothingParsableWhileWaiting
<1>1. Inv => NothingParsableWhileWaiting
  BY DEF Inv, Scanned, NothingParsableWhileWaiting
<1> QED
  BY <1>1, Invariant, PTL

\* Only a read with time left gets past the deadline to the port.
InTime ==
  /\ call = "zero" /\ pc # "idle" => expired
  /\ pc \in {"check", "wait"} => call # "try"
  /\ pc = "wait" => call = "read"

LEMMA InTimeStep ==
  ASSUME Inv, InTime, [Next]_vars
  PROVE  InTime' /\ (Len(line') < Len(line) => call = "read")
<1>1. CASE \/ \E m \in Messages : DeviceSends(m)
           \/ \E b \in Noise : DeviceNoise(b)
  <2>1. PICK bytes \in Seq(Byte) : Emit(bytes)
    BY <1>1, DeviceInv
  <2>2. Len(line') >= Len(line)
    BY <2>1 DEF Emit, Inv, TypeOK
  <2>3. Len(line') \in Nat /\ Len(line) \in Nat
    BY <2>1 DEF Emit, Inv, TypeOK
  <2>4. InTime'
    BY <2>1 DEF Emit, InTime
  <2> QED
    BY <2>2, <2>3, <2>4
<1>2. CASE \/ Unplug \/ DeadlinePasses \/ Calls \/ CheckLate \/ CheckInTime
           \/ ReadTimeout \/ ReadFails \/ UNCHANGED vars
  <2>1. line' = line /\ Len(line) \in Nat
    BY <1>2, QuietInv DEF Inv, TypeOK
  <2>2. InTime'
    BY <1>2 DEF Inv, TypeOK, InTime, Unplug, DeadlinePasses, Calls, CallRead, CallReadZero,
                CallTryRead, Call, Cancel, CheckLate, CheckInTime, ReadTimeout, ReadFails,
                Return, env, vars
  <2> QED
    BY <2>1, <2>2
<1>3. CASE Parse
  <2>1. line' = line /\ Len(line) \in Nat
    BY <1>3 DEF Inv, TypeOK, Parse, ParseMessage, ParseInvalid, ParseNothing, env
  <2>2. InTime'
    BY <1>3 DEF InTime, Parse, ParseMessage, ParseInvalid, ParseNothing, Return
  <2> QED
    BY <2>1, <2>2
<1>4. CASE ReadSome
  BY <1>4 DEF InTime, ReadSome, ReadBytes
<1> QED
  BY <1>1, <1>2, <1>3, <1>4 DEF Next, Environment

\* try_read and a read with a timeout of zero return what the buffer holds and
\* leave the port alone, for every device and every sequence of calls.
THEOREM PollsStayOff == Spec => PollsLeavePort
<1>1. Init => InTime
  BY DEF Init, InTime
<1>2. Inv /\ InTime /\ [Next]_vars => InTime'
  BY InTimeStep
<1>3. Inv /\ InTime /\ [Next]_vars => [Len(line') < Len(line) => call = "read"]_vars
  BY InTimeStep
<1> QED
  BY <1>1, <1>2, <1>3, Invariant, PTL DEF Spec, PollsLeavePort

\* No call, however it ends, doubles or reorders a received byte or leaves a
\* consumed one in the buffer.
THEOREM BytesKeptInOrder == Spec => []BytesInOrder
<1>1. ASSUME Inv PROVE BytesInOrder
  <2>1. /\ rx \in Seq(Byte) /\ line \in Seq(Byte) /\ stream \in Seq(Byte)
        /\ Done \in Nat /\ Done + (Len(rx) + Len(line)) = Len(stream)
        /\ Len(rx) + Len(line) <= Len(stream)
        /\ Window(rx, stream, Done) /\ Window(line, stream, Done + Len(rx))
    BY <1>1 DEF Inv, TypeOK, Suffix, Done
  <2> DEFINE both == rx \o line
             end == SubSeq(stream, Done + 1, Len(stream))
  <2>2. both \in Seq(Byte) /\ Len(both) = Len(rx) + Len(line)
    BY <2>1, PartsAreWindows
  <2>3. Window(both, stream, Done)
    BY <2>1, AdjacentWindows
  <2>4. end \in Seq(Byte) /\ Len(end) = Len(stream) - Done /\ Window(end, stream, Done)
    BY <2>1, RestIsWindow
  <2> HIDE DEF both, end
  <2>5. Len(both) = Len(end)
    BY <2>1, <2>2, <2>4
  <2>6. \A i \in 1..Len(both) : both[i] = end[i]
    BY <2>3, <2>4, <2>5 DEF Window
  <2>7. both = end
    BY <2>2, <2>4, <2>5, <2>6, SeqEqual
  <2> QED
    BY <2>1, <2>7 DEF BytesInOrder, both, end, Done
<1> QED
  BY <1>1, Invariant, PTL

-----------------------------------------------------------------------------
(* The transport implements the stream decoder.                            *)

\* The decoder's copies of the scanner's operators are the transport's.
LEMMA SameScanner ==
  /\ Decoder!Byte = Byte
  /\ \A info : Decoder!FrameLen(info) = FrameLen(info)
  /\ \A buf, o : Decoder!SkipAt(buf, o) <=> SkipAt(buf, o)
  /\ \A buf, o : Decoder!FrameAt(buf, o) <=> FrameAt(buf, o)
<1>1. Decoder!Byte = Byte
  BY DEF Decoder!Byte, Byte
<1>2. ASSUME NEW info PROVE Decoder!FrameLen(info) = FrameLen(info)
  BY Zenon DEF Decoder!FrameLen, FrameLen
<1>3. ASSUME NEW buf, NEW o
      PROVE  /\ Decoder!HeaderAt(buf, o) <=> HeaderAt(buf, o)
             /\ Decoder!CompleteAt(buf, o) <=> CompleteAt(buf, o)
             /\ Decoder!FooterAt(buf, o) <=> FooterAt(buf, o)
             /\ Decoder!MIN_FRAME_SIZE = MIN_FRAME_SIZE
  BY <1>2, SMT DEF Decoder!HeaderAt, HeaderAt, Decoder!CompleteAt, CompleteAt, Decoder!FooterAt,
              FooterAt, Decoder!MIN_FRAME_SIZE, MIN_FRAME_SIZE, Decoder!FRAME_START,
              FRAME_START, Decoder!FRAME_FOOTER, FRAME_FOOTER
<1>4. ASSUME NEW buf, NEW o
      PROVE  /\ Decoder!SkipAt(buf, o) <=> SkipAt(buf, o)
             /\ Decoder!FrameAt(buf, o) <=> FrameAt(buf, o)
  BY <1>3, Zenon DEF Decoder!SkipAt, SkipAt, Decoder!FrameAt, FrameAt
<1> QED
  BY <1>1, <1>2, <1>4

LEMMA SameMessages ==
  /\ \A buf, o : Decoder!MetaAt(buf, o) = MetaAt(buf, o)
  /\ \A meta : Decoder!ParsedToMessage(meta) = ParsedToMessage(meta)
<1>1. ASSUME NEW buf, NEW o PROVE Decoder!MetaAt(buf, o) = MetaAt(buf, o)
  BY Zenon DEF Decoder!MetaAt, MetaAt, Decoder!IdLen, IdLen
<1>2. ASSUME NEW meta PROVE Decoder!ParsedToMessage(meta) = ParsedToMessage(meta)
  BY Zenon DEF Decoder!ParsedToMessage, ParsedToMessage, Decoder!IdValid, IdValid,
               Decoder!NewData, NewData, Decoder!FromLittleEndian, FromLittleEndian
<1> QED
  BY <1>1, <1>2

\* What the transport's scan decides of its buffer, the decoder's scan decides
\* of the rest of the stream.
LEMMA ScanOfRest ==
  ASSUME Inv
  PROVE  LET e == ScanEnd(rx) IN
         /\ e \in 0..Len(rx) /\ e \in 0..Len(Decoder!Rest)
         /\ \A p \in 0..(e - 1) : Decoder!SkipAt(Decoder!Rest, p)
         /\ FrameAt(rx, e) => /\ Decoder!FrameAt(Decoder!Rest, e)
                              /\ Decoder!MetaAt(Decoder!Rest, e) = MetaAt(rx, e)
                              /\ Decoder!Rest[e + 2] = rx[e + 2]
<1> DEFINE e == ScanEnd(rx)
           rest == Decoder!Rest
<1>1. /\ rx \in Seq(Byte) /\ line \in Seq(Byte) /\ stream \in Seq(Byte)
      /\ Done \in 0..Len(stream) /\ Done + Len(rx) <= Len(stream)
      /\ Window(rx, stream, Done)
  BY DEF Inv, TypeOK, Suffix, Done
<1>2. e \in 0..Len(rx) /\ \A p \in 0..(e - 1) : SkipAt(rx, p)
  BY <1>1, ScanStops DEF StopsAt
<1>3. rest = SubSeq(stream, Done + 1, Len(stream))
  BY DEF Decoder!Rest, Done
<1>4. rest \in Seq(Byte) /\ Len(rest) = Len(stream) - Done /\ Window(rest, stream, Done)
  BY <1>1, <1>3, RestIsWindow
<1> HIDE DEF rest, e
<1>5. Window(rx, rest, 0)
  <2>1. Len(rx) + 0 <= Len(rest)
    BY <1>1, <1>4
  <2>2. \A i \in 1..Len(rx) : rx[i] = rest[i + 0]
    BY <1>1, <1>4, <2>1 DEF Window
  <2> QED
    BY <2>1, <2>2 DEF Window
<1>6. ASSUME NEW o \in Nat
      PROVE  /\ SkipAt(rx, o) => SkipAt(rest, o)
             /\ FrameAt(rx, o) => /\ FrameAt(rest, o)
                                  /\ MetaAt(rx, o) = MetaAt(rest, o)
                                  /\ rx[o + 2] = rest[o + 2]
  <2>1. o + 0 = o
    OBVIOUS
  <2> QED
    BY <1>1, <1>4, <1>5, <2>1, DecisionsKept
<1>7. e \in Nat /\ 0..(e - 1) \subseteq Nat /\ e \in 0..Len(rest)
  BY <1>1, <1>2, <1>4
<1>8. \A p \in 0..(e - 1) : Decoder!SkipAt(rest, p)
  BY <1>2, <1>6, <1>7, SameScanner
<1>9. FrameAt(rx, e) => /\ Decoder!FrameAt(rest, e)
                        /\ Decoder!MetaAt(rest, e) = MetaAt(rx, e)
                        /\ rest[e + 2] = rx[e + 2]
  BY <1>6, <1>7, SameScanner, SameMessages
<1> QED
  BY <1>2, <1>7, <1>8, <1>9 DEF rest, e

LEMMA ParseRefines ==
  ASSUME Inv, Parse
  PROVE  Decoder!Next
<1> DEFINE p == ParseNextFrame(rx)
           e == ScanEnd(rx)
<1>1. rx \in Seq(Byte) /\ p.consumed \in 0..Len(rx)
  BY ParseConsumes DEF Inv, TypeOK
<1>2. Drop(p.consumed) /\ UNCHANGED <<line, stream>>
  BY DEF Parse, ParseMessage, ParseInvalid, ParseNothing, env
<1>3. Done' = Done + p.consumed
  BY <1>1, <1>2, DropInv
<1>4. CASE FrameAt(rx, e)
  <2>1. p.frame = <<MetaAt(rx, e)>> /\ p.consumed = e + FrameLen(rx[e + 2])
    BY <1>4 DEF ParseNextFrame
  <2>2. delivered \in Seq(CanMessage)
    BY DEF Inv, TypeOK
  <2>3. delivered' = delivered \o ParsedToMessage(MetaAt(rx, e))
    <3>1. p.frame # <<>> /\ p.frame[1] = MetaAt(rx, e)
      BY <2>1
    <3>2. CASE ParseMessage
      BY <3>1, <3>2, Zenon DEF ParseMessage
    <3>3. CASE ParseInvalid
      <4>1. ParsedToMessage(MetaAt(rx, e)) = <<>> /\ delivered' = delivered
        BY <3>1, <3>3 DEF ParseInvalid
      <4> QED
        BY <2>2, <4>1
    <3>4. ~ParseNothing
      BY <3>1 DEF ParseNothing
    <3> QED
      BY <3>2, <3>3, <3>4 DEF Parse
  <2>4. /\ e \in 0..Len(Decoder!Rest)
        /\ \A q \in 0..(e - 1) : Decoder!SkipAt(Decoder!Rest, q)
        /\ Decoder!FrameAt(Decoder!Rest, e)
        /\ Decoder!MetaAt(Decoder!Rest, e) = MetaAt(rx, e)
        /\ Decoder!Rest[e + 2] = rx[e + 2]
    BY <1>4, ScanOfRest
  <2>5. FrameLen(rx[e + 2]) \in Nat /\ e \in Nat /\ Done \in Nat
    <3>1. e \in 0..Len(rx)
      BY <1>1, ScanStops
    <3> QED
      BY <1>1, <1>4, <3>1, FrameAtRange DEF Inv, Suffix
  <2> HIDE DEF e
  <2>6. Done' = Done + e + Decoder!FrameLen(Decoder!Rest[e + 2])
    <3>1. Decoder!FrameLen(Decoder!Rest[e + 2]) = FrameLen(rx[e + 2])
      BY <2>4, SameScanner
    <3> QED
      BY <1>3, <2>1, <2>5, <3>1
  <2>7. delivered' = delivered \o Decoder!ParsedToMessage(Decoder!MetaAt(Decoder!Rest, e))
    BY <2>3, <2>4, SameMessages
  <2>8. Decoder!Take(e)
    BY <1>2, <2>4, <2>6, <2>7 DEF Decoder!Take, Done
  <2> QED
    BY <2>4, <2>8 DEF Decoder!Next
<1>5. CASE ~FrameAt(rx, e)
  <2>1. p.frame = <<>> /\ p.consumed = e
    BY <1>5 DEF ParseNextFrame
  <2>2. delivered' = delivered
    BY <2>1 DEF Parse, ParseMessage, ParseInvalid, ParseNothing
  <2>3. Decoder!Skip(e)
    BY <1>2, <1>3, <2>1, <2>2, ScanOfRest DEF Decoder!Skip, Done
  <2>4. e \in 0..Len(Decoder!Rest)
    BY ScanOfRest
  <2> QED
    BY <2>3, <2>4 DEF Decoder!Next
<1> QED
  BY <1>4, <1>5

LEMMA EmitRefines ==
  ASSUME Inv, NEW bytes \in Seq(Byte), Emit(bytes), Done' = Done
  PROVE  Decoder!Next
<1>1. stream \in Seq(Byte) /\ stream' = stream \o bytes /\ delivered' = delivered
  BY DEF Inv, TypeOK, Emit
<1>2. /\ stream' \in Seq(Byte) /\ Len(stream') >= Len(stream)
      /\ SubSeq(stream', 1, Len(stream)) = stream
  <2>1. stream' \in Seq(Byte) /\ Len(stream') = Len(stream) + Len(bytes)
    BY <1>1
  <2>2. Window(stream, stream', 0)
    BY <1>1, PartsAreWindows
  <2>3. Len(stream) \in Nat /\ Len(bytes) \in Nat
    BY <1>1
  <2> DEFINE begin == SubSeq(stream', 1, Len(stream))
  <2>4. begin \in Seq(Byte) /\ Len(begin) = Len(stream)
    BY <2>1, <2>3
  <2>5. \A i \in 1..Len(begin) : begin[i] = stream[i]
    BY <2>1, <2>2, <2>3, <2>4 DEF Window
  <2>6. begin = stream
    BY <1>1, <2>4, <2>5, SeqEqual
  <2> QED
    BY <2>1, <2>3, <2>6
<1>3. Decoder!Arrive
  BY <1>1, <1>2, SameScanner DEF Decoder!Arrive, Done
<1> QED
  BY <1>3 DEF Decoder!Next

LEMMA StepRefines == Inv /\ [Next]_vars => [Decoder!Next]_(Decoder!vars)
<1> SUFFICES ASSUME Inv, [Next]_vars PROVE [Decoder!Next]_(Decoder!vars)
  OBVIOUS
<1>1. CASE \/ \E m \in Messages : DeviceSends(m)
           \/ \E b \in Noise : DeviceNoise(b)
  BY <1>1, DeviceInv, EmitRefines
<1>2. CASE Parse
  BY <1>2, ParseRefines
<1>3. CASE ReadSome
  <2>1. stream' = stream /\ delivered' = delivered /\ Done' = Done
    BY <1>3, FillInv DEF ReadSome, ReadBytes
  <2> QED
    BY <2>1 DEF Decoder!vars, Done
<1>4. CASE \/ Unplug \/ DeadlinePasses \/ Calls \/ CheckLate \/ CheckInTime
           \/ ReadTimeout \/ ReadFails \/ UNCHANGED vars
  <2>1. UNCHANGED <<line, rx, stream, delivered>>
    BY <1>4, QuietInv
  <2> QED
    BY <2>1 DEF Decoder!vars
<1> QED
  BY <1>1, <1>2, <1>3, <1>4 DEF Next, Environment

\* What is delivered is what one scan over the whole stream finds, in its
\* order, whatever the reads, timeouts, cancellations and failures.
THEOREM ImplementsDecoder == Spec => DecodesStream
<1>1. ASSUME Init PROVE Decoder!Init
  <2>1. stream = <<>> /\ rx = <<>> /\ line = <<>> /\ delivered = <<>>
    BY <1>1 DEF Init
  <2>2. Len(stream) = 0 /\ Len(rx) = 0 /\ Len(line) = 0
    BY <2>1
  <2>3. Len(stream) - Len(rx) - Len(line) = 0
    BY <2>2
  <2> QED
    BY <2>1, <2>3 DEF Decoder!Init
<1>2. Inv /\ [Next]_vars => [Decoder!Next]_(Decoder!vars)
  BY StepRefines
<1> QED
  BY <1>1, <1>2, Invariant, PTL DEF Spec, DecodesStream, Decoder!Spec
-----------------------------------------------------------------------------
(* Where the frames lie in the stream.                                     *)

\* at holds the offset of each frame the device sent.
Laid(at) ==
  /\ Len(at) = Len(sent)
  /\ \A i \in 1..Len(sent) : Window(Bytes(sent[i]), stream, at[i])
  /\ \A i, j \in 1..Len(sent) : i < j => at[i] + Size(sent[i]) <= at[j]

\* A frame that was sent is a frame of the stream, and reads as its message.
LEMMA LaidFrame ==
  ASSUME Inv, DataMessages, NEW at \in Seq(Nat), Laid(at), NEW i \in 1..Len(sent)
  PROVE  /\ at[i] \in Nat /\ sent[i] \in Messages
         /\ Size(sent[i]) \in Nat /\ Size(sent[i]) >= 5 /\ Size(sent[i]) <= 15
         /\ at[i] + Size(sent[i]) <= Len(stream)
         /\ FrameAt(stream, at[i]) /\ FrameLen(stream[at[i] + 2]) = Size(sent[i])
         /\ ParsedToMessage(MetaAt(stream, at[i])) = <<sent[i]>>
<1> DEFINE m == sent[i]
           b == Bytes(m)
           d == at[i]
<1>1. sent \in Seq(Messages) /\ stream \in Seq(Byte)
  BY DEF Inv, TypeOK
<1>2. m \in Messages /\ m \in CanMessage /\ ~m.rtr
  <2>1. m \in Messages
    BY <1>1
  <2> QED
    BY <2>1, InputAssumption DEF DataMessages
<1>3. d \in Nat /\ Window(b, stream, d)
  BY <1>1 DEF Laid
<1> HIDE DEF m, d
<1>4. /\ b \in Seq(Byte) /\ Size(m) \in Nat /\ Size(m) >= 5 /\ Size(m) <= 15
      /\ FrameAt(b, 0) /\ FrameLen(b[2]) = Size(m) /\ Len(b) = Size(m)
      /\ ParsedToMessage(MetaAt(b, 0)) = <<m>>
  BY <1>2, MessageFrame DEF Size
<1> HIDE DEF b
<1>5. d + Size(m) <= Len(stream)
  BY <1>1, <1>3, <1>4 DEF Window
<1>6. FrameAt(stream, d) /\ MetaAt(b, 0) = MetaAt(stream, d) /\ b[2] = stream[d + 2]
  <2>1. 0 \in Nat /\ 0 + d = d /\ 0 + 2 = 2 /\ (0 + d) + 2 = d + 2
    BY <1>3
  <2>2. /\ FrameAt(stream, 0 + d) /\ MetaAt(b, 0) = MetaAt(stream, 0 + d)
        /\ b[0 + 2] = stream[0 + d + 2]
    BY <1>1, <1>3, <1>4, <2>1, DecisionsKept
  <2> QED
    BY <2>1, <2>2
<1> QED
  BY <1>2, <1>3, <1>4, <1>5, <1>6 DEF m, d

\* The scan does not pass a frame that was sent.
LEMMA NotPassed ==
  ASSUME Inv, DataMessages, NEW at \in Seq(Nat), Laid(at), NEW i \in 1..Len(sent),
         Done <= at[i], NEW q \in Nat, \A p \in Done..(q - 1) : SkipAt(stream, p)
  PROVE  q <= at[i]
<1>1. at[i] \in Nat /\ FrameAt(stream, at[i]) /\ Done \in Nat
  BY LaidFrame DEF Inv, Suffix
<1>2. ~SkipAt(stream, at[i])
  BY <1>1 DEF FrameAt, SkipAt
<1>3. ASSUME ~(q <= at[i]) PROVE FALSE
  <2>1. at[i] \in Done..(q - 1)
    BY <1>1, <1>3
  <2> QED
    BY <1>2, <2>1
<1> QED
  BY <1>3

\* One round of try_read_frame, seen from the stream: the scan goes from Done to
\* the next frame, or to where it has to wait.
Found(q) ==
  /\ FrameAt(stream, q)
  /\ FrameLen(stream[q + 2]) \in 5..DATA_FRAME_MAX_SIZE
  /\ q + FrameLen(stream[q + 2]) <= Len(stream)
  /\ Done' = q + FrameLen(stream[q + 2])
  /\ delivered' = delivered \o ParsedToMessage(MetaAt(stream, q))
Missed(q) == q <= Len(stream) /\ Done' = q /\ delivered' = delivered

LEMMA Round ==
  ASSUME Inv, Parse
  PROVE  /\ UNCHANGED <<stream, sent, tail>>
         /\ \E q \in Nat : /\ Done <= q /\ (\A p \in Done..(q - 1) : SkipAt(stream, p))
                           /\ Found(q) \/ Missed(q)
<1> DEFINE r == ParseNextFrame(rx)
           e == ScanEnd(rx)
           q == Done + e
<1>1. /\ rx \in Seq(Byte) /\ line \in Seq(Byte) /\ stream \in Seq(Byte) /\ Done \in Nat
      /\ Window(rx, stream, Done) /\ delivered \in Seq(CanMessage)
      /\ Done + Len(rx) <= Len(stream)
  BY DEF Inv, TypeOK, Suffix, Done
<1>2. r.consumed \in 0..Len(rx)
  BY <1>1, ParseConsumes
<1>3. Drop(r.consumed) /\ UNCHANGED <<line, stream, sent, tail>>
  BY DEF Parse, ParseMessage, ParseInvalid, ParseNothing, env
<1>4. Done' = Done + r.consumed
  BY <1>2, <1>3, DropInv
<1>5. e \in 0..Len(rx) /\ \A p \in 0..(e - 1) : SkipAt(rx, p)
  BY <1>1, ScanStops DEF StopsAt
<1>6. ASSUME NEW o \in Nat
      PROVE  /\ SkipAt(rx, o) => SkipAt(stream, o + Done)
             /\ FrameAt(rx, o) => /\ FrameAt(stream, o + Done)
                                  /\ MetaAt(rx, o) = MetaAt(stream, o + Done)
                                  /\ rx[o + 2] = stream[o + Done + 2]
  BY <1>1, DecisionsKept
<1>7. \A p \in Done..(q - 1) : SkipAt(stream, p)
  <2> SUFFICES ASSUME NEW p \in Done..(q - 1) PROVE SkipAt(stream, p)
    OBVIOUS
  <2> HIDE DEF e
  <2>1. p - Done \in 0..(e - 1) /\ p - Done \in Nat /\ (p - Done) + Done = p
    BY <1>1, <1>5
  <2>2. SkipAt(stream, (p - Done) + Done)
    BY <1>5, <1>6, <2>1
  <2> QED
    BY <2>1, <2>2
<1>8. CASE FrameAt(rx, e)
  <2>1. r.frame = <<MetaAt(rx, e)>> /\ r.consumed = e + FrameLen(rx[e + 2])
    BY <1>8 DEF ParseNextFrame
  <2>2. delivered' = delivered \o ParsedToMessage(MetaAt(rx, e))
    <3>1. r.frame # <<>> /\ r.frame[1] = MetaAt(rx, e)
      BY <2>1
    <3>2. CASE ParseMessage
      BY <3>1, <3>2, Zenon DEF ParseMessage
    <3>3. CASE ParseInvalid
      <4>1. ParsedToMessage(MetaAt(rx, e)) = <<>> /\ delivered' = delivered
        BY <3>1, <3>3 DEF ParseInvalid
      <4> QED
        BY <1>1, <4>1
    <3>4. ~ParseNothing
      BY <3>1 DEF ParseNothing
    <3> QED
      BY <3>2, <3>3, <3>4 DEF Parse
  <2>3. FrameLen(rx[e + 2]) \in 5..DATA_FRAME_MAX_SIZE /\ e + FrameLen(rx[e + 2]) <= Len(rx)
    BY <1>1, <1>5, <1>8, FrameAtRange
  <2>4. /\ FrameAt(stream, q) /\ MetaAt(rx, e) = MetaAt(stream, q)
        /\ rx[e + 2] = stream[q + 2] /\ q \in Nat /\ q >= Done
    <3> HIDE DEF e
    <3>1. e \in Nat /\ e + Done = q /\ (e + Done) + 2 = q + 2
      BY <1>1, <1>5
    <3>2. /\ FrameAt(stream, e + Done) /\ MetaAt(rx, e) = MetaAt(stream, e + Done)
          /\ rx[e + 2] = stream[e + Done + 2]
      BY <1>6, <1>8, <3>1
    <3> QED
      BY <1>1, <1>5, <3>1, <3>2
  <2>5. Found(q)
    <3> DEFINE n == FrameLen(rx[e + 2])
    <3>1. n \in Nat /\ e \in Nat
      <4>1. Len(rx) \in Nat
        BY <1>1
      <4>2. n \in Nat
        BY <2>3 DEF DATA_FRAME_MAX_SIZE
      <4> HIDE DEF n, e
      <4>3. e \in Nat
        BY <1>5, <4>1
      <4> QED
        BY <4>2, <4>3
    <3>2. FrameLen(stream[q + 2]) = n /\ Done' = Done + (e + n) /\ e + n <= Len(rx)
      BY <1>4, <2>1, <2>3, <2>4
    <3> HIDE DEF n, e
    <3>3. q + n <= Len(stream) /\ Done' = q + n
      BY <1>1, <3>1, <3>2
    <3>4. n \in 5..DATA_FRAME_MAX_SIZE
      BY <2>3 DEF n
    <3> QED
      BY <2>2, <2>4, <3>2, <3>3, <3>4, Zenon DEF Found
  <2> QED
    BY <1>3, <1>7, <2>4, <2>5
<1>9. CASE ~FrameAt(rx, e)
  <2>1. r.frame = <<>> /\ r.consumed = e
    BY <1>9 DEF ParseNextFrame
  <2>2. delivered' = delivered
    BY <2>1 DEF Parse, ParseMessage, ParseInvalid, ParseNothing
  <2> HIDE DEF e
  <2>3. q \in Nat /\ q >= Done /\ q <= Len(stream) /\ Done' = q
    BY <1>1, <1>4, <1>5, <2>1
  <2> QED
    BY <1>3, <1>7, <2>2, <2>3 DEF Missed
<1> QED
  BY <1>8, <1>9

\* A found frame is one that was sent and begins there: its message comes out.
LEMMA FoundSent ==
  ASSUME Inv, DataMessages, NEW at \in Seq(Nat), Laid(at), NEW i \in 1..Len(sent), Found(at[i])
  PROVE  Done' = at[i] + Size(sent[i]) /\ delivered' = Append(delivered, sent[i])
<1>1. /\ FrameLen(stream[at[i] + 2]) = Size(sent[i]) /\ sent[i] \in Messages
      /\ ParsedToMessage(MetaAt(stream, at[i])) = <<sent[i]>>
  BY LaidFrame
<1>2. Done' = at[i] + Size(sent[i]) /\ delivered' = delivered \o <<sent[i]>>
  BY <1>1, Zenon DEF Found
<1>3. delivered \in Seq(CanMessage) /\ sent[i] \in CanMessage
  BY <1>1, InputAssumption DEF Inv, TypeOK
<1> DEFINE m == sent[i]
<1>4. delivered \o <<m>> = Append(delivered, m)
  <2> HIDE DEF m
  <2> QED
    BY <1>3
<1> QED
  BY <1>2, <1>4
-----------------------------------------------------------------------------
(* On a line whose noise costs nothing, every message is delivered.        *)

\* Between the frames there is nothing that the scan could take for a message,
\* or for a frame that reaches into the next one.
Outside(at, p) == \A i \in 1..Len(sent) : p < at[i] \/ at[i] + Size(sent[i]) <= p
ClearOf(at, p) == \A i \in 1..Len(sent) : p < at[i] => p + FrameLen(stream[p + 2]) <= at[i]
GapsQuiet(at) ==
  \A p \in 0..(Len(stream) - 1) : Outside(at, p) /\ stream[p + 1] = FRAME_START =>
    Harmless(stream, p) /\ (HeaderAt(stream, p) => ClearOf(at, p))

\* The first messages have come out and their frames are behind the scan, the
\* other frames are before it.
Caught(at) ==
  /\ Len(delivered) <= Len(sent)
  /\ \A i \in 1..Len(delivered) :
       delivered[i] = sent[i] /\ at[i] + Size(sent[i]) <= Done
  /\ \A i \in 1..Len(sent) : i > Len(delivered) => Done <= at[i]

Lossless == \E at \in Seq(Nat) : Laid(at) /\ GapsQuiet(at) /\ Caught(at)

LEMMA HarmlessKept ==
  ASSUME NEW a \in Seq(Byte), NEW b \in Seq(Byte), NEW d \in Nat, Window(a, b, d),
         NEW o \in Nat, Harmless(a, o)
  PROVE  /\ Harmless(b, o + d)
         /\ HeaderAt(b, o + d) => (o + d) + FrameLen(b[(o + d) + 2]) <= Len(a) + d
<1>1. /\ o + 2 <= Len(a) /\ Len(a) \in Nat /\ Len(b) \in Nat /\ Len(a) + d <= Len(b)
      /\ (o + d) + 2 <= Len(b)
  BY DEF Harmless, Window
<1>2. a[o + 1] = b[(o + d) + 1] /\ a[o + 2] = b[(o + d) + 2] /\ a[o + 2] \in Byte
  BY <1>1 DEF Window
<1>3. HeaderAt(a, o) <=> HeaderAt(b, o + d)
  BY <1>2 DEF HeaderAt
<1>4. CASE ~HeaderAt(a, o)
  BY <1>1, <1>3, <1>4 DEF Harmless
<1>5. CASE HeaderAt(a, o)
  <2> DEFINE len == FrameLen(a[o + 2])
  <2>1. len \in 5..DATA_FRAME_MAX_SIZE
    BY <1>2, <1>5, FrameLenRange DEF HeaderAt
  <2>2. CompleteAt(a, o) /\ (FooterAt(a, o) => ~IdValid(MetaAt(a, o)))
    BY <1>5 DEF Harmless
  <2>3. len <= Len(a) - o
    BY <2>2 DEF CompleteAt
  <2>4. FrameLen(b[(o + d) + 2]) = len
    BY <1>2
  <2> HIDE DEF len
  <2>5. len \in Nat /\ len >= 5
    BY <2>1, SizeRange
  <2>6. /\ (o + d) + len <= Len(a) + d /\ len <= Len(b) - (o + d) /\ Len(a) - o >= 5
        /\ o + len \in 1..Len(a) /\ (o + len) + d = (o + d) + len
    BY <1>1, <2>3, <2>5
  <2>7. CompleteAt(b, o + d)
    BY <2>4, <2>6 DEF CompleteAt
  <2>8. a[o + len] = b[(o + d) + len]
    <3>1. a[o + len] = b[(o + len) + d]
      BY <2>6 DEF Window
    <3> QED
      BY <2>6, <3>1
  <2>9. FooterAt(b, o + d) => FooterAt(a, o)
    BY <2>4, <2>8 DEF FooterAt, len
  <2>10. FooterAt(a, o) => MetaAt(a, o) = MetaAt(b, o + d)
    <3>1. FooterAt(a, o) => FrameAt(a, o)
      BY <1>5, <2>2, <2>6 DEF FrameAt, MIN_FRAME_SIZE
    <3> QED
      BY <3>1, DecisionsKept
  <2> QED
    BY <1>1, <2>2, <2>4, <2>6, <2>7, <2>9, <2>10 DEF Harmless
<1> QED
  BY <1>4, <1>5

\* Bytes that arrive leave the frames before them and the gaps between them.
LEMMA LaidOn ==
  ASSUME Inv, NEW at \in Seq(Nat), Laid(at), NEW bytes \in Seq(Byte),
         stream' = stream \o bytes
  PROVE  /\ stream' \in Seq(Byte) /\ Len(stream') = Len(stream) + Len(bytes)
         /\ Window(stream, stream', 0) /\ Window(bytes, stream', Len(stream))
         /\ \A i \in 1..Len(sent) : Window(Bytes(sent[i]), stream', at[i])
<1>1. stream \in Seq(Byte) /\ sent \in Seq(Messages)
  BY DEF Inv, TypeOK
<1>2. /\ stream' \in Seq(Byte) /\ Len(stream') = Len(stream) + Len(bytes)
      /\ Window(stream, stream', 0) /\ Window(bytes, stream', Len(stream))
  BY <1>1, PartsAreWindows
<1>3. ASSUME NEW i \in 1..Len(sent) PROVE Window(Bytes(sent[i]), stream', at[i])
  <2>1. sent[i] \in Messages /\ at[i] \in Nat /\ Window(Bytes(sent[i]), stream, at[i])
    BY <1>1 DEF Laid
  <2>2. Bytes(sent[i]) \in Seq(Byte)
    BY <2>1, InputAssumption, BuildType DEF Bytes
  <2> DEFINE w == Bytes(sent[i])
             d == at[i]
  <2> HIDE DEF w, d
  <2>3. w \in Seq(Byte) /\ d \in Nat /\ Window(w, stream, d)
    BY <2>1, <2>2 DEF w, d
  <2>4. Window(w, stream', d + 0)
    BY <1>1, <1>2, <2>3, WindowOfWindow
  <2>5. d + 0 = d
    BY <2>3
  <2> QED
    BY <2>4, <2>5 DEF w, d
<1> QED
  BY <1>2, <1>3

\* A message that is sent adds its frame.
LEMMA LaidSends ==
  ASSUME Inv, DataMessages, NEW at \in Seq(Nat), Laid(at), NEW m \in Messages, DeviceSends(m)
  PROVE  /\ \E on \in Seq(Nat) :
              /\ Laid(on)' /\ on[Len(sent) + 1] = Len(stream)
              /\ \A i \in 1..Len(sent) : on[i] = at[i]
         /\ Len(sent') = Len(sent) + 1 /\ sent'[Len(sent) + 1] = m
         /\ \A i \in 1..Len(sent) : sent'[i] = sent[i]
         /\ Bytes(m) \in Seq(Byte) /\ Size(m) \in Nat /\ Size(m) >= 5 /\ Size(m) <= 15
         /\ stream' = stream \o Bytes(m)
<1> DEFINE n == Len(sent)
<1>1. /\ sent \in Seq(Messages) /\ stream \in Seq(Byte) /\ Len(stream) \in Nat
      /\ sent' = Append(sent, m) /\ stream' = stream \o Bytes(m)
      /\ n \in Nat /\ Len(at) = n
  BY DEF Inv, TypeOK, DeviceSends, Emit, Bytes, Laid
<1>2. m \in CanMessage /\ ~m.rtr
  BY InputAssumption DEF DataMessages
<1>3. Bytes(m) \in Seq(Byte) /\ Size(m) \in Nat /\ Size(m) >= 5 /\ Size(m) <= 15
  BY <1>2, MessageFrame
<1>4. /\ Len(sent') = n + 1 /\ sent'[n + 1] = m /\ \A i \in 1..n : sent'[i] = sent[i]
      /\ 1..Len(sent') = 1..(n + 1)
  BY <1>1
<1>9. PICK on \in Seq(Nat) :
        Len(on) = n + 1 /\ on[n + 1] = Len(stream) /\ \A i \in 1..n : on[i] = at[i]
  <2> DEFINE on == Append(at, Len(stream))
  <2>1. on \in Seq(Nat)
    BY <1>1
  <2>2. Len(on) = n + 1 /\ on[n + 1] = Len(stream) /\ \A i \in 1..n : on[i] = at[i]
    BY <1>1
  <2> QED
    BY <2>1, <2>2
<1>10. \A i \in 1..Len(sent') : i = n + 1 \/ i \in 1..n
  <2> HIDE DEF n
  <2> QED
    BY <1>1, <1>4
<1>5. /\ Window(Bytes(m), stream', Len(stream))
      /\ \A i \in 1..n : Window(Bytes(sent[i]), stream', at[i])
  BY <1>1, <1>3, LaidOn
<1>6. \A i \in 1..Len(sent') : Window(Bytes(sent'[i]), stream', on[i])
  <2> SUFFICES ASSUME NEW i \in 1..Len(sent')
               PROVE  Window(Bytes(sent'[i]), stream', on[i])
    OBVIOUS
  <2>1. CASE i = n + 1
    BY <1>4, <1>5, <1>9, <2>1
  <2>2. CASE i \in 1..n
    BY <1>4, <1>5, <1>9, <2>2
  <2> QED
    BY <1>10, <2>1, <2>2
<1>7. \A i, j \in 1..Len(sent') : i < j => on[i] + Size(sent'[i]) <= on[j]
  <2> SUFFICES ASSUME NEW i \in 1..Len(sent'), NEW j \in 1..Len(sent'), i < j
               PROVE  on[i] + Size(sent'[i]) <= on[j]
    OBVIOUS
  <2>1. i \in 1..n
    BY <1>1, <1>4
  <2>2. on[i] = at[i] /\ sent'[i] = sent[i]
    BY <1>4, <1>9, <2>1
  <2>3. CASE j = n + 1
    <3>1. at[i] + Size(sent[i]) <= Len(stream)
      BY <2>1, LaidFrame
    <3> QED
      BY <1>9, <2>2, <2>3, <3>1
  <2>4. CASE j \in 1..n
    BY <1>9, <2>1, <2>2, <2>4 DEF Laid
  <2> QED
    BY <1>10, <2>3, <2>4
<1>8. Laid(on)'
  <2>1. Len(on) = Len(sent')
    BY <1>4, <1>9
  <2> QED
    BY <1>6, <1>7, <2>1 DEF Laid
<1> QED
  BY <1>1, <1>3, <1>4, <1>8, <1>9
\* What arrives changes nothing about the gaps before it.
LEMMA GapKept ==
  ASSUME Inv, NEW at \in Seq(Nat), Laid(at), NEW bytes \in Seq(Byte),
         stream' = stream \o bytes, NEW p \in 0..(Len(stream) - 1)
  PROVE  /\ stream'[p + 1] = stream[p + 1]
         /\ Harmless(stream, p) /\ (HeaderAt(stream, p) => ClearOf(at, p)) =>
              /\ Harmless(stream', p)
              /\ HeaderAt(stream', p) =>
                   /\ p + FrameLen(stream'[p + 2]) <= Len(stream)
                   /\ \A i \in 1..Len(sent) : p < at[i] => p + FrameLen(stream'[p + 2]) <= at[i]
<1>1. /\ stream \in Seq(Byte) /\ stream' \in Seq(Byte) /\ Window(stream, stream', 0)
      /\ Len(stream) \in Nat /\ p \in Nat /\ p + 0 = p /\ Len(stream) + 0 = Len(stream)
  <2>1. stream \in Seq(Byte) /\ Len(stream) \in Nat
    BY DEF Inv, TypeOK
  <2>2. stream' \in Seq(Byte) /\ Window(stream, stream', 0)
    BY LaidOn
  <2>3. p \in Nat /\ p + 0 = p /\ Len(stream) + 0 = Len(stream)
    BY <2>1
  <2> QED
    BY <2>1, <2>2, <2>3
<1>2. \A i \in 1..Len(stream) : stream[i] = stream'[i]
  BY <1>1 DEF Window
<1>3. stream'[p + 1] = stream[p + 1]
  BY <1>1, <1>2
<1>4. ASSUME Harmless(stream, p), HeaderAt(stream, p) => ClearOf(at, p)
      PROVE  /\ Harmless(stream', p)
             /\ HeaderAt(stream', p) =>
                  /\ p + FrameLen(stream'[p + 2]) <= Len(stream)
                  /\ \A i \in 1..Len(sent) : p < at[i] => p + FrameLen(stream'[p + 2]) <= at[i]
  <2>1. /\ Harmless(stream', p + 0)
        /\ HeaderAt(stream', p + 0) =>
             (p + 0) + FrameLen(stream'[(p + 0) + 2]) <= Len(stream) + 0
    BY <1>1, <1>4, HarmlessKept
  <2>2. /\ Harmless(stream', p)
        /\ HeaderAt(stream', p) => p + FrameLen(stream'[p + 2]) <= Len(stream)
    BY <1>1, <2>1
  <2>3. stream'[p + 2] = stream[p + 2]
    BY <1>1, <1>2, <1>4 DEF Harmless
  <2>4. HeaderAt(stream', p) => ClearOf(at, p)
    BY <1>3, <1>4, <2>3 DEF HeaderAt
  <2> QED
    BY <2>2, <2>3, <2>4 DEF ClearOf
<1> QED
  BY <1>3, <1>4

LEMMA LosslessSends ==
  ASSUME Inv, DataMessages, Lossless, NEW m \in Messages, DeviceSends(m)
  PROVE  Lossless'
<1>1. PICK at \in Seq(Nat) : Laid(at) /\ GapsQuiet(at) /\ Caught(at)
  BY DEF Lossless
<1> DEFINE n == Len(sent)
<1>2. PICK on \in Seq(Nat) :
        Laid(on)' /\ on[n + 1] = Len(stream) /\ \A i \in 1..n : on[i] = at[i]
  BY <1>1, LaidSends
<1>3. /\ Len(sent') = n + 1 /\ sent'[n + 1] = m /\ \A i \in 1..n : sent'[i] = sent[i]
      /\ Bytes(m) \in Seq(Byte) /\ Size(m) \in Nat /\ Size(m) >= 5
      /\ stream' = stream \o Bytes(m)
  BY <1>1, LaidSends
<1>4. /\ stream \in Seq(Byte) /\ Len(stream) \in Nat /\ n \in Nat /\ Done \in Nat
      /\ Done <= Len(stream) /\ Len(stream') = Len(stream) + Size(m)
      /\ delivered \in Seq(CanMessage) /\ delivered' = delivered
  <2>1. stream \in Seq(Byte) /\ sent \in Seq(Messages) /\ delivered \in Seq(CanMessage) /\ Done \in Nat
        /\ Done + Len(rx) <= Len(stream) /\ rx \in Seq(Byte) /\ delivered' = delivered
    BY DEF Inv, TypeOK, Suffix, Window, DeviceSends, Emit
  <2>2. Len(stream') = Len(stream) + Size(m)
    BY <1>3, <2>1 DEF Size
  <2> QED
    BY <2>1, <2>2
<1>5. Done' = Done
  BY DeviceInv
<1>6. \A i \in 1..Len(sent') : i = n + 1 \/ i \in 1..n
  <2> HIDE DEF n
  <2> QED
    BY <1>3, <1>4
<1>7. \A i \in 1..n : i \in 1..Len(sent')
  BY <1>3, <1>4
<1>8. n + 1 \in 1..Len(sent')
  BY <1>3, <1>4
<1>9. ASSUME NEW p \in 0..(Len(stream') - 1), Outside(on, p)', stream'[p + 1] = FRAME_START
      PROVE  Harmless(stream', p) /\ (HeaderAt(stream', p) => ClearOf(on, p)')
  <2>1. \A i \in 1..Len(sent') : p < on[i] \/ on[i] + Size(sent'[i]) <= p
    BY <1>9 DEF Outside, Size, Bytes
  <2>2. p < Len(stream) \/ Len(stream) + Size(m) <= p
    BY <1>2, <1>3, <1>8, <2>1
  <2>3. p \in 0..(Len(stream) - 1)
    BY <1>3, <1>4, <2>2, SMTT(30)
  <2>4. Outside(at, p)
    BY <1>2, <1>3, <1>7, <2>1 DEF Outside
  <2>5. stream'[p + 1] = stream[p + 1]
    BY <1>1, <1>3, <2>3, GapKept
  <2>6. Harmless(stream, p) /\ (HeaderAt(stream, p) => ClearOf(at, p))
    BY <1>1, <1>9, <2>3, <2>4, <2>5 DEF GapsQuiet
  <2>7. /\ Harmless(stream', p)
        /\ HeaderAt(stream', p) =>
             /\ p + FrameLen(stream'[p + 2]) <= Len(stream)
             /\ \A i \in 1..n : p < at[i] => p + FrameLen(stream'[p + 2]) <= at[i]
    BY <1>1, <1>3, <2>3, <2>6, GapKept
  <2>8. HeaderAt(stream', p) =>
          \A i \in 1..Len(sent') : p < on[i] => p + FrameLen(stream'[p + 2]) <= on[i]
    BY <1>2, <1>6, <2>7
  <2> QED
    BY <2>7, <2>8 DEF ClearOf
<1>10. GapsQuiet(on)'
  <2>1. \A p \in 0..(Len(stream') - 1) : Outside(on, p)' /\ stream'[p + 1] = FRAME_START =>
          Harmless(stream', p) /\ (HeaderAt(stream', p) => ClearOf(on, p)')
    BY <1>9
  <2> QED
    BY <2>1 DEF GapsQuiet, Harmless, HeaderAt, Outside, ClearOf, CompleteAt, FooterAt, MetaAt, IdValid
<1>11. Caught(on)'
  <2>1. Len(delivered) \in Nat /\ Len(delivered) <= n
    BY <1>1, <1>4 DEF Caught
  <2>2. \A i \in 1..Len(delivered) : i \in 1..n
    BY <1>4, <2>1
  <2>3. \A i \in 1..Len(delivered) : delivered[i] = sent'[i] /\ on[i] + Size(sent'[i]) <= Done
    BY <1>1, <1>2, <1>3, <2>2 DEF Caught
  <2>4. \A i \in 1..Len(sent') : i > Len(delivered) => Done <= on[i]
    BY <1>1, <1>2, <1>4, <1>6 DEF Caught
  <2>5. Len(delivered) <= Len(sent')
    BY <1>3, <1>4, <2>1
  <2> QED
    BY <1>4, <1>5, <2>3, <2>4, <2>5 DEF Caught, Size, Bytes
<1> QED
  BY <1>2, <1>10, <1>11 DEF Lossless

LEMMA LosslessNoise ==
  ASSUME Inv, DataMessages, QuietNoise, Lossless, NEW b \in Noise, DeviceNoise(b)
  PROVE  Lossless'
<1>1. PICK at \in Seq(Nat) : Laid(at) /\ GapsQuiet(at) /\ Caught(at)
  BY DEF Lossless
<1>2. /\ stream \in Seq(Byte) /\ b \in Seq(Byte) /\ Len(stream) \in Nat /\ Len(b) \in Nat
      /\ stream' = stream \o b /\ UNCHANGED <<sent, delivered>>
  BY InputAssumption DEF Inv, TypeOK, DeviceNoise, Emit
<1>3. Done' = Done
  BY DeviceInv
<1>4. /\ stream' \in Seq(Byte) /\ Len(stream') = Len(stream) + Len(b)
      /\ Window(b, stream', Len(stream))
      /\ \A i \in 1..Len(sent) : Window(Bytes(sent[i]), stream', at[i])
  BY <1>1, <1>2, LaidOn
<1>5. Laid(at)'
  BY <1>1, <1>2, <1>4 DEF Laid, Size, Bytes
<1>6. ASSUME NEW p \in 0..(Len(stream') - 1), Outside(at, p), stream'[p + 1] = FRAME_START
      PROVE  /\ Harmless(stream', p)
             /\ HeaderAt(stream', p) =>
                  \A i \in 1..Len(sent) : p < at[i] => p + FrameLen(stream'[p + 2]) <= at[i]
  <2>1. CASE p < Len(stream)
    <3>1. p \in 0..(Len(stream) - 1)
      BY <1>2, <1>4, <2>1
    <3>2. stream'[p + 1] = stream[p + 1]
      BY <1>1, <1>2, <3>1, GapKept
    <3>3. Harmless(stream, p) /\ (HeaderAt(stream, p) => ClearOf(at, p))
      BY <1>1, <1>6, <3>1, <3>2 DEF GapsQuiet
    <3> QED
      BY <1>1, <1>2, <3>1, <3>3, GapKept
  <2>2. CASE ~(p < Len(stream))
    <3>1. PICK o \in 0..(Len(b) - 1) : p = o + Len(stream)
      <4>1. p - Len(stream) \in 0..(Len(b) - 1) /\ p = (p - Len(stream)) + Len(stream)
        BY <1>2, <1>4, <2>2
      <4> QED
        BY <4>1
    <3>2. b[o + 1] = stream'[p + 1]
      <4>1. o + 1 \in 1..Len(b) /\ (o + 1) + Len(stream) = p + 1
        BY <1>2, <3>1
      <4>2. b[o + 1] = stream'[(o + 1) + Len(stream)]
        BY <1>4, <4>1 DEF Window
      <4> QED
        BY <4>1, <4>2
    <3>3. Harmless(b, o)
      BY <1>6, <3>2 DEF QuietNoise
    <3>4. Harmless(stream', p)
      <4>1. o \in Nat
        OBVIOUS
      <4>2. Harmless(stream', o + Len(stream))
        BY <1>2, <1>4, <3>3, <4>1, HarmlessKept
      <4> QED
        BY <3>1, <4>2
    <3>5. ASSUME NEW i \in 1..Len(sent) PROVE ~(p < at[i])
      <4>1. at[i] \in Nat /\ Size(sent[i]) \in Nat /\ at[i] + Size(sent[i]) <= Len(stream)
        BY <1>1, LaidFrame
      <4> QED
        BY <1>2, <2>2, <4>1, SMTT(30)
    <3> QED
      BY <3>4, <3>5
  <2> QED
    BY <2>1, <2>2
<1>7. GapsQuiet(at)'
  <2>1. \A p \in 0..(Len(stream') - 1) : Outside(at, p)' /\ stream'[p + 1] = FRAME_START =>
          Harmless(stream', p) /\ (HeaderAt(stream', p) => ClearOf(at, p)')
    BY <1>2, <1>6 DEF Outside, ClearOf, Size, Bytes
  <2> QED
    BY <2>1 DEF GapsQuiet, Harmless, HeaderAt, Outside, ClearOf, CompleteAt, FooterAt, MetaAt, IdValid
<1>8. Caught(at)'
  BY <1>1, <1>2, <1>3 DEF Caught, Size, Bytes
<1> QED
  BY <1>5, <1>7, <1>8 DEF Lossless

\* A found frame is the next one that was sent, or noise without a message.
LEMMA LosslessParse ==
  ASSUME Inv, DataMessages, Lossless, Parse
  PROVE  /\ Lossless' /\ sent' = sent
         /\ \/ delivered' = delivered
            \/ /\ Len(delivered) < Len(sent)
               /\ delivered' = Append(delivered, sent[Len(delivered) + 1])
<1>1. PICK at \in Seq(Nat) : Laid(at) /\ GapsQuiet(at) /\ Caught(at)
  BY DEF Lossless
<1> DEFINE n == Len(sent)
           d == Len(delivered)
<1>2. /\ stream \in Seq(Byte) /\ Len(stream) \in Nat /\ n \in Nat /\ Done \in Nat
      /\ delivered \in Seq(CanMessage) /\ d \in Nat /\ d <= n
  BY <1>1 DEF Inv, TypeOK, Suffix, Caught
<1>3. UNCHANGED <<stream, sent, tail>>
  BY Round
<1>4. PICK q \in Nat : /\ Done <= q /\ (\A p \in Done..(q - 1) : SkipAt(stream, p))
                       /\ Found(q) \/ Missed(q)
  BY Round
<1>5. Laid(at)' /\ GapsQuiet(at)'
  <2>1. Laid(at)'
    BY <1>1, <1>3 DEF Laid, Size, Bytes
  <2>2. GapsQuiet(at)'
    BY <1>1, <1>3 DEF GapsQuiet, Outside, ClearOf, Size, Bytes
  <2> QED
    BY <2>1, <2>2
<1>6. ASSUME NEW i \in 1..n
      PROVE  /\ at[i] \in Nat /\ Size(sent[i]) \in Nat /\ Size(sent[i]) >= 5
             /\ i <= d => at[i] + Size(sent[i]) <= Done
             /\ i > d => q <= at[i]
  <2>1. at[i] \in Nat /\ Size(sent[i]) \in Nat /\ Size(sent[i]) >= 5
    BY <1>1, LaidFrame
  <2>2. i <= d => at[i] + Size(sent[i]) <= Done
    BY <1>1, <1>2 DEF Caught
  <2>3. ASSUME i > d PROVE q <= at[i]
    <3>1. Done <= at[i]
      BY <1>1, <2>3 DEF Caught
    <3> QED
      BY <1>1, <1>4, <3>1, NotPassed
  <2> QED
    BY <2>1, <2>2, <2>3
\* Nothing comes out, and the scan stays before the frames to come.
<1>7. ASSUME delivered' = delivered, Done' \in Nat, Done' >= Done,
             \A i \in 1..n : i > d => Done' <= at[i]
      PROVE  Lossless'
  <2>1. \A i \in 1..d : i \in 1..n /\ i <= d
    BY <1>2
  <2>2. \A i \in 1..d : delivered[i] = sent[i] /\ at[i] + Size(sent[i]) <= Done'
    BY <1>1, <1>2, <1>6, <1>7, <2>1, SMTT(30) DEF Caught
  <2>3. Caught(at)'
    BY <1>2, <1>3, <1>7, <2>2 DEF Caught, Size, Bytes
  <2> QED
    BY <1>5, <2>3 DEF Lossless
<1>8. CASE Missed(q)
  BY <1>3, <1>4, <1>6, <1>7, <1>8 DEF Missed
<1>9. CASE Found(q) /\ \E i \in 1..n : q = at[i]
  <2>1. PICK i \in 1..n : q = at[i]
    BY <1>9
  <2>2. i = d + 1
    <3>1. i > d
      <4>1. ASSUME i <= d PROVE FALSE
        <5>1. /\ at[i] \in Nat /\ Size(sent[i]) \in Nat /\ Size(sent[i]) >= 5
              /\ at[i] + Size(sent[i]) <= Done
          BY <1>6, <4>1
        <5> QED
          BY <1>2, <1>4, <2>1, <5>1
      <4> QED
        BY <1>2, <4>1
    <3>2. ASSUME i > d + 1 PROVE FALSE
      <4>1. d + 1 \in 1..n /\ d + 1 < i /\ d + 1 > d
        BY <1>2, <3>2
      <4>2. at[d + 1] + Size(sent[d + 1]) <= at[i]
        BY <1>1, <4>1 DEF Laid
      <4>3. /\ at[d + 1] \in Nat /\ Size(sent[d + 1]) \in Nat /\ Size(sent[d + 1]) >= 5
            /\ q <= at[d + 1]
        BY <1>6, <4>1
      <4> QED
        BY <2>1, <4>2, <4>3
    <3> QED
      BY <1>2, <3>1, <3>2
  <2>3. Done' = at[i] + Size(sent[i]) /\ delivered' = Append(delivered, sent[i])
    BY <1>1, <1>9, <2>1, FoundSent
  <2>4. sent[i] \in CanMessage
    BY <1>1, LaidFrame, InputAssumption
  <2>5. /\ Len(delivered') = d + 1 /\ delivered'[d + 1] = sent[i]
        /\ \A j \in 1..d : delivered'[j] = delivered[j]
    BY <1>2, <2>3, <2>4
  <2>6. ASSUME NEW j \in 1..(d + 1)
        PROVE  delivered'[j] = sent[j] /\ at[j] + Size(sent[j]) <= Done'
    <3>1. CASE j = d + 1
      BY <1>2, <1>6, <2>2, <2>3, <2>5, <3>1
    <3>2. CASE j \in 1..d
      <4>1. j \in 1..n /\ j <= d
        BY <1>2, <3>2
      <4>2. delivered[j] = sent[j]
        BY <1>1, <3>2 DEF Caught
      <4>3. at[j] + Size(sent[j]) <= Done
        BY <1>6, <4>1
      <4>4. /\ at[j] \in Nat /\ Size(sent[j]) \in Nat
            /\ at[i] \in Nat /\ Size(sent[i]) \in Nat
        BY <1>6, <4>1
      <4>5. at[j] + Size(sent[j]) <= Done'
        <5> DEFINE a == at[i]
                   b == at[j] + Size(sent[j])
                   c == Size(sent[i])
        <5>1. a \in Nat /\ b \in Nat /\ c \in Nat /\ b <= Done /\ Done <= a /\ Done' = a + c
          <6>1. a \in Nat /\ c \in Nat /\ b \in Nat
            BY <4>4, SMTT(30)
          <6>2. Done <= a
            BY <1>4, <2>1
          <6>3. Done' = a + c
            BY <2>3
          <6> QED
            BY <4>3, <6>1, <6>2, <6>3
        <5> HIDE DEF a, b, c
        <5>2. b <= a + c
          BY <1>2, <5>1
        <5> QED
          BY <5>1, <5>2 DEF b
      <4>6. delivered'[j] = sent[j]
        BY <2>5, <3>2, <4>2
      <4> QED
        BY <4>5, <4>6
    <3> QED
      BY <1>2, <3>1, <3>2
  <2>7. ASSUME NEW j \in 1..n, j > d + 1 PROVE Done' <= at[j]
    BY <1>1, <1>2, <2>2, <2>3, <2>7 DEF Laid
  <2>8. Caught(at)'
    BY <1>2, <1>3, <2>2, <2>5, <2>6, <2>7 DEF Caught, Size, Bytes
  <2> QED
    BY <1>2, <1>3, <1>5, <2>2, <2>3, <2>8 DEF Lossless
<1>10. CASE Found(q) /\ ~\E i \in 1..n : q = at[i]
  <2>1. Outside(at, q)
    <3> SUFFICES ASSUME NEW i \in 1..n PROVE q < at[i] \/ at[i] + Size(sent[i]) <= q
      BY DEF Outside
    <3>1. CASE i <= d
      BY <1>2, <1>4, <1>6, <3>1
    <3>2. CASE i > d
      BY <1>6, <1>10, <3>2
    <3> QED
      BY <1>2, <3>1, <3>2
  <2>2. /\ FrameAt(stream, q) /\ stream[q + 1] = FRAME_START /\ HeaderAt(stream, q)
        /\ FooterAt(stream, q)
    BY <1>10 DEF Found, FrameAt, HeaderAt
  <2>3. /\ FrameLen(stream[q + 2]) \in Nat /\ FrameLen(stream[q + 2]) >= 5
        /\ q + FrameLen(stream[q + 2]) <= Len(stream)
        /\ Done' = q + FrameLen(stream[q + 2])
        /\ delivered' = delivered \o ParsedToMessage(MetaAt(stream, q))
    BY <1>10, SizeRange DEF Found
  <2>4. q \in 0..(Len(stream) - 1)
    BY <1>2, <2>3
  <2>5. Harmless(stream, q) /\ ClearOf(at, q)
    BY <1>1, <2>1, <2>2, <2>4 DEF GapsQuiet
  <2>6. ParsedToMessage(MetaAt(stream, q)) = <<>>
    BY <2>2, <2>5 DEF Harmless, ParsedToMessage
  <2>7. delivered' = delivered
    BY <1>2, <2>3, <2>6
  <2>8. \A i \in 1..n : i > d => Done' <= at[i]
    <3> SUFFICES ASSUME NEW i \in 1..n, i > d PROVE Done' <= at[i]
      OBVIOUS
    <3>1. q < at[i]
      BY <1>6, <1>10
    <3> QED
      BY <2>3, <2>5, <3>1 DEF ClearOf
  <2> QED
    BY <1>2, <1>3, <1>4, <1>7, <2>3, <2>7, <2>8
<1> QED
  BY <1>3, <1>4, <1>8, <1>9, <1>10 DEF Missed

\* No other step moves the scan or touches what was sent and delivered.
LEMMA LosslessRests ==
  ASSUME Lossless, UNCHANGED <<stream, sent, delivered>>, Done' = Done
  PROVE  Lossless'
<1>1. PICK at \in Seq(Nat) : Laid(at) /\ GapsQuiet(at) /\ Caught(at)
  BY DEF Lossless
<1>2. Laid(at)'
  BY <1>1 DEF Laid, Size, Bytes
<1>3. GapsQuiet(at)'
  BY <1>1 DEF GapsQuiet, Outside, ClearOf, Size, Bytes
<1>4. Caught(at)'
  BY <1>1 DEF Caught, Size, Bytes
<1> QED
  BY <1>2, <1>3, <1>4 DEF Lossless

LEMMA LosslessStep ==
  ASSUME DataMessages, QuietNoise, Inv, Lossless, [Next]_vars
  PROVE  Lossless' /\ [Fifo!Next]_(Fifo!vars)
<1>1. ASSUME NEW m \in Messages, DeviceSends(m)
      PROVE  Lossless' /\ [Fifo!Next]_(Fifo!vars)
  <2>1. Lossless'
    BY <1>1, LosslessSends
  <2>2. Fifo!Put
    BY <1>1 DEF Fifo!Put, DeviceSends, Emit
  <2> QED
    BY <2>1, <2>2 DEF Fifo!Next
<1>2. ASSUME NEW b \in Noise, DeviceNoise(b)
      PROVE  Lossless' /\ [Fifo!Next]_(Fifo!vars)
  <2>1. Lossless'
    BY <1>2, LosslessNoise
  <2>2. UNCHANGED <<sent, delivered>>
    BY <1>2 DEF DeviceNoise, Emit
  <2> QED
    BY <2>1, <2>2 DEF Fifo!vars
<1>3. CASE Parse
  <2>1. /\ Lossless' /\ sent' = sent
        /\ \/ delivered' = delivered
           \/ /\ Len(delivered) < Len(sent)
              /\ delivered' = Append(delivered, sent[Len(delivered) + 1])
    BY <1>3, LosslessParse
  <2>2. Fifo!Get \/ UNCHANGED <<sent, delivered>>
    BY <2>1, Zenon DEF Fifo!Get
  <2> QED
    BY <2>1, <2>2, Zenon DEF Fifo!Next, Fifo!vars
<1>4. CASE ReadSome
  <2>1. UNCHANGED <<stream, sent, delivered>> /\ Done' = Done
    BY <1>4, FillInv DEF ReadSome, ReadBytes
  <2>2. Lossless'
    BY <2>1, LosslessRests
  <2> QED
    BY <2>1, <2>2 DEF Fifo!vars
<1>5. CASE \/ Unplug \/ DeadlinePasses \/ Calls \/ CheckLate \/ CheckInTime
           \/ ReadTimeout \/ ReadFails \/ UNCHANGED vars
  <2>1. UNCHANGED <<line, rx, stream, sent, delivered>>
    BY <1>5 DEF Unplug, DeadlinePasses, Calls, CallRead, CallReadZero, CallTryRead, Call, Cancel,
           CheckLate, CheckInTime, ReadTimeout, ReadFails, Return, env, vars
  <2>2. Done' = Done
    BY <2>1 DEF Done
  <2>3. Lossless'
    BY <2>1, <2>2, LosslessRests
  <2> QED
    BY <2>1, <2>3 DEF Fifo!vars
<1> QED
  BY <1>1, <1>2, <1>3, <1>4, <1>5 DEF Next, Environment

LEMMA InitLossless == Init => Lossless
<1> SUFFICES ASSUME Init PROVE Lossless
  OBVIOUS
<1>1. /\ stream = <<>> /\ sent = <<>> /\ delivered = <<>>
      /\ Len(stream) = 0 /\ Len(sent) = 0 /\ Len(delivered) = 0
  BY DEF Init
<1>2. <<>> \in Seq(Nat) /\ Len(<<>>) = 0
  OBVIOUS
<1>3. Laid(<<>>) /\ GapsQuiet(<<>>) /\ Caught(<<>>)
  BY <1>1, <1>2 DEF Laid, GapsQuiet, Caught
<1> QED
  BY <1>2, <1>3 DEF Lossless

\* When no byte of the noise can begin a frame that reaches beyond it or holds a
\* message, the transport is a lossless path: each message that was sent is
\* delivered once and in its order, whatever the reads, timeouts and cancellations.
THEOREM QuietNoiseLosesNothing ==
  ASSUME DataMessages, QuietNoise
  PROVE  Spec => DeliversInOrder
<1>1. Init => Lossless /\ Fifo!Init
  BY InitLossless DEF Init, Fifo!Init
<1>2. Inv /\ Lossless /\ [Next]_vars => Lossless' /\ [Fifo!Next]_(Fifo!vars)
  BY LosslessStep
<1> QED
  BY <1>1, <1>2, Invariant, PTL DEF Spec, DeliversInOrder, Fifo!Spec

-----------------------------------------------------------------------------
(* After noise, the transport finds the frames again.                      *)

\* The place in sent of the first message of the tail.
First == Len(sent) - Len(tail) + 1

\* From the first frame of the tail on, only the frames have start bytes.
Tailed(at) ==
  /\ Len(tail) <= Len(sent)
  /\ \A i \in 1..Len(tail) : tail[i] = sent[(First - 1) + i]
  /\ \A p \in 0..(Len(stream) - 1) :
       Len(tail) > 0 /\ at[First] <= p /\ stream[p + 1] = FRAME_START =>
         \E i \in First..Len(sent) : p = at[i]

\* The scan has the frames from c on before it.  Those from f to c are the last
\* that came out; before f, noise has swallowed at most three of the tail.
Reached(at, c, f) ==
  Len(tail) > 0 =>
    /\ First <= f /\ f <= First + 3 /\ f <= c /\ c <= Len(sent) + 1
    /\ c <= Len(sent) => Done <= at[c]
    /\ c > First => at[c - 1] < Done
    /\ c - f <= Len(delivered)
    /\ \A k \in 1..(c - f) : delivered[Len(delivered) + 1 - k] = sent[c - k]

Resync == \E at \in Seq(Nat), c, f \in Nat : Laid(at) /\ Tailed(at) /\ Reached(at, c, f)

LEMMA Sizes ==
  ASSUME Inv, NEW at \in Seq(Nat), Tailed(at)
  PROVE  /\ Len(sent) \in Nat /\ Len(tail) \in Nat /\ Len(stream) \in Nat /\ Len(delivered) \in Nat
         /\ Done \in Nat /\ Done <= Len(stream)
         /\ First \in Nat /\ First >= 1 /\ First = (Len(sent) - Len(tail)) + 1
         /\ First <= Len(sent) + 1 /\ (Len(tail) > 0 => First <= Len(sent))
<1>1. /\ sent \in Seq(Messages) /\ tail \in Seq(Messages) /\ stream \in Seq(Byte)
      /\ delivered \in Seq(CanMessage) /\ rx \in Seq(Byte) /\ line \in Seq(Byte)
      /\ Done \in Nat /\ Done + Len(rx) <= Len(stream)
      /\ Len(tail) <= Len(sent)
  BY DEF Inv, TypeOK, Suffix, Window, Tailed
<1>2. Len(sent) \in Nat /\ Len(tail) \in Nat /\ Len(stream) \in Nat /\ Len(delivered) \in Nat
      /\ Len(rx) \in Nat
  BY <1>1
<1> QED
  BY <1>1, <1>2 DEF First

LEMMA ResyncRests ==
  ASSUME Resync, UNCHANGED <<stream, sent, tail, delivered>>, Done' = Done
  PROVE  Resync'
<1>1. PICK at \in Seq(Nat), c \in Nat, f \in Nat : Laid(at) /\ Tailed(at) /\ Reached(at, c, f)
  BY DEF Resync
<1>2. First' = First
  BY DEF First
<1>3. Laid(at)'
  BY <1>1 DEF Laid, Size, Bytes
<1>4. Tailed(at)'
  BY <1>1, <1>2 DEF Tailed
<1>5. Reached(at, c, f)'
  BY <1>1, <1>2 DEF Reached
<1> QED
  BY <1>3, <1>4, <1>5 DEF Resync

LEMMA ResyncNoise ==
  ASSUME Inv, Resync, NEW b \in Noise, DeviceNoise(b)
  PROVE  Resync'
<1>1. PICK at \in Seq(Nat), c \in Nat, f \in Nat : Laid(at) /\ Tailed(at) /\ Reached(at, c, f)
  BY DEF Resync
<1>2. b \in Seq(Byte) /\ stream' = stream \o b /\ sent' = sent /\ tail' = <<>>
  BY InputAssumption DEF DeviceNoise, Emit
<1>3. Laid(at)'
  <2>1. \A i \in 1..Len(sent) : Window(Bytes(sent[i]), stream', at[i])
    BY <1>1, <1>2, LaidOn
  <2> QED
    BY <1>1, <1>2, <2>1 DEF Laid, Size, Bytes
<1>4. Len(tail') = 0 /\ Len(sent') \in Nat
  BY <1>1, <1>2, Sizes
<1>5. Tailed(at)'
  BY <1>4 DEF Tailed
<1>6. Reached(at, c, f)'
  BY <1>4 DEF Reached
<1> QED
  BY <1>3, <1>5, <1>6 DEF Resync

LEMMA ResyncSends ==
  ASSUME Inv, PlainMessages, Resync, NEW m \in Messages, DeviceSends(m)
  PROVE  Resync'
<1> DEFINE n == Len(sent)
<1>1. PICK at \in Seq(Nat), c \in Nat, f \in Nat : Laid(at) /\ Tailed(at) /\ Reached(at, c, f)
  BY DEF Resync
<1>2. DataMessages
  BY DEF PlainMessages, DataMessages
<1>3. PICK on \in Seq(Nat) :
        Laid(on)' /\ on[n + 1] = Len(stream) /\ \A i \in 1..n : on[i] = at[i]
  BY <1>1, <1>2, LaidSends
<1>4. /\ Len(sent') = n + 1 /\ sent'[n + 1] = m /\ \A i \in 1..n : sent'[i] = sent[i]
      /\ Bytes(m) \in Seq(Byte) /\ Size(m) \in Nat /\ Size(m) >= 5
      /\ stream' = stream \o Bytes(m)
  BY <1>1, <1>2, LaidSends
<1>5. /\ n \in Nat /\ Len(tail) \in Nat /\ Len(stream) \in Nat /\ Len(delivered) \in Nat
      /\ Done \in Nat /\ Done <= Len(stream) /\ First \in Nat /\ First >= 1
      /\ First = (n - Len(tail)) + 1 /\ First <= n + 1 /\ (Len(tail) > 0 => First <= n)
  BY <1>1, Sizes
<1>6. /\ Len(tail') = Len(tail) + 1 /\ tail'[Len(tail) + 1] = m
      /\ \A i \in 1..Len(tail) : tail'[i] = tail[i]
  BY DEF Inv, TypeOK, DeviceSends
<1>7. First' = First /\ Len(tail') > 0 /\ First - 1 \in Nat /\ (First - 1) + (Len(tail) + 1) = n + 1
  BY <1>4, <1>5, <1>6 DEF First
<1>8. delivered' = delivered /\ Done' = Done
  BY DeviceInv DEF DeviceSends, Emit
<1>9. /\ stream' \in Seq(Byte) /\ Len(stream') = Len(stream) + Size(m)
      /\ Window(stream, stream', 0) /\ Window(Bytes(m), stream', Len(stream))
  BY <1>1, <1>4, LaidOn DEF Size
<1>10. Tailed(on)'
  <2>1. Len(tail') <= Len(sent')
    BY <1>1, <1>4, <1>5, <1>6 DEF Tailed
  <2>2. ASSUME NEW i \in 1..Len(tail') PROVE tail'[i] = sent'[(First - 1) + i]
    <3>1. CASE i = Len(tail) + 1
      BY <1>4, <1>6, <1>7, <3>1
    <3>2. CASE i \in 1..Len(tail)
      <4>1. (First - 1) + i \in 1..n
        BY <1>5, <3>2
      <4>2. tail[i] = sent[(First - 1) + i]
        BY <1>1, <3>2 DEF Tailed
      <4> QED
        BY <1>4, <1>6, <3>2, <4>1, <4>2
    <3> QED
      BY <1>5, <1>6, <3>1, <3>2, SMTT(30)
  <2>3. ASSUME NEW p \in 0..(Len(stream') - 1), on[First] <= p, stream'[p + 1] = FRAME_START
        PROVE  \E i \in First..Len(sent') : p = on[i]
    <3>1. CASE p < Len(stream)
      <4>1. p \in 0..(Len(stream) - 1) /\ p + 1 \in 1..Len(stream) /\ (p + 1) + 0 = p + 1
        BY <1>5, <3>1
      <4>2. stream[p + 1] = FRAME_START
        <5>1. stream[p + 1] = stream'[(p + 1) + 0]
          BY <1>9, <4>1 DEF Window
        <5> QED
          BY <2>3, <4>1, <5>1
      <4>3. Len(tail) > 0
        <5>1. ASSUME ~(Len(tail) > 0) PROVE FALSE
          <6>1. First = n + 1
            BY <1>5, <5>1
          <6> QED
            BY <1>3, <1>5, <2>3, <3>1, <6>1
        <5> QED
          BY <5>1
      <4>4. First \in 1..n /\ on[First] = at[First]
        BY <1>3, <1>5, <4>3
      <4>5. PICK i \in First..n : p = at[i]
        BY <1>1, <2>3, <4>1, <4>2, <4>3, <4>4 DEF Tailed
      <4>6. i \in 1..n /\ i \in First..(n + 1)
        BY <1>5, <4>5
      <4> QED
        BY <1>3, <1>4, <4>5, <4>6
    <3>2. CASE ~(p < Len(stream))
      <4>1. PICK o \in 0..(Size(m) - 1) : p = o + Len(stream)
        <5> DEFINE l == Len(stream)
        <5>2. l \in Nat /\ Size(m) \in Nat /\ p \in 0..((l + Size(m)) - 1) /\ ~(p < l)
          BY <1>4, <1>5, <1>9, <3>2
        <5> HIDE DEF l
        <5>3. p - l \in 0..(Size(m) - 1) /\ p = (p - l) + l
          BY <5>2
        <5>1. p - Len(stream) \in 0..(Size(m) - 1) /\ p = (p - Len(stream)) + Len(stream)
          BY <5>3 DEF l
        <5> QED
          BY <5>1
      <4>2. o + 1 \in 1..Len(Bytes(m)) /\ (o + 1) + Len(stream) = p + 1
        BY <1>4, <1>5, <4>1 DEF Size
      <4>3. Bytes(m)[o + 1] = FRAME_START
        <5>1. Bytes(m)[o + 1] = stream'[(o + 1) + Len(stream)]
          BY <1>9, <4>2 DEF Window
        <5> QED
          BY <2>3, <4>2, <5>1
      <4>4. ~(o + 1 \in 2..Len(Bytes(m)))
        BY <4>3 DEF PlainMessages, Bytes
      <4>5. o = 0
        BY <1>4, <4>1, <4>2, <4>4
      <4>6. p = on[n + 1] /\ n + 1 \in First..(n + 1)
        BY <1>3, <1>5, <4>1, <4>5
      <4> QED
        BY <1>4, <4>6
    <3> QED
      BY <3>1, <3>2
  <2> QED
    BY <1>7, <2>1, <2>2, <2>3 DEF Tailed
<1>11. CASE Len(tail) > 0
  <2>1. /\ First <= f /\ f <= First + 3 /\ f <= c /\ c <= n + 1
        /\ c <= n => Done <= at[c]
        /\ c > First => at[c - 1] < Done
        /\ c - f <= Len(delivered)
        /\ \A k \in 1..(c - f) : delivered[Len(delivered) + 1 - k] = sent[c - k]
    BY <1>1, <1>11 DEF Reached
  <2>2. c <= n + 1 => Done <= on[c]
    <3>1. CASE c = n + 1
      BY <1>3, <1>5, <3>1
    <3>2. CASE c <= n
      <4>1. c \in 1..n
        BY <1>5, <2>1, <3>2
      <4> QED
        BY <1>3, <2>1, <3>2, <4>1
    <3> QED
      BY <1>5, <2>1, <3>1, <3>2
  <2>3. c > First => on[c - 1] < Done
    <3>1. c > First => c - 1 \in 1..n
      BY <1>5, <2>1
    <3> QED
      BY <1>3, <2>1, <3>1
  <2>4. \A k \in 1..(c - f) : delivered[Len(delivered) + 1 - k] = sent'[c - k]
    <3>1. \A k \in 1..(c - f) : c - k \in 1..n
      <4>1. n \in Nat /\ f >= 1 /\ c <= n + 1
        BY <1>5, <2>1
      <4> HIDE DEF n
      <4> QED
        BY <4>1
    <3> QED
      BY <1>4, <2>1, <3>1
  <2>5. c <= (n + 1) + 1
    BY <1>5, <2>1
  <2>6. Reached(on, c, f)'
    BY <1>4, <1>7, <1>8, <2>1, <2>2, <2>3, <2>4, <2>5 DEF Reached
  <2> QED
    BY <1>3, <1>10, <2>6 DEF Resync
<1>12. CASE ~(Len(tail) > 0)
  <2>1. First = n + 1 /\ First - First = 0 /\ First <= First + 3 /\ First <= Len(sent') + 1
    BY <1>4, <1>5, <1>12
  <2>2. Done <= on[First]
    BY <1>3, <1>5, <2>1
  <2>3. PICK g \in Nat : g = First
    BY <1>5
  <2>4. Reached(on, g, g)'
    <3>1. /\ g <= g + 3 /\ g <= g /\ g <= (n + 1) + 1 /\ ~(g > g) /\ g - g = 0
          /\ 0 <= Len(delivered) /\ Done <= on[g]
      BY <1>5, <2>1, <2>2, <2>3
    <3>2. \A k \in 1..0 : delivered[Len(delivered) + 1 - k] = sent'[g - k]
      OBVIOUS
    <3>3. Len(sent') = n + 1 /\ First' = g /\ delivered' = delivered /\ Done' = Done
      BY <1>4, <1>7, <1>8, <2>3
    <3> HIDE DEF n
    <3> QED
      BY <3>1, <3>2, <3>3 DEF Reached
  <2> QED
    BY <1>3, <1>10, <2>3, <2>4 DEF Resync
<1> QED
  BY <1>11, <1>12

\* Frames do not overlap.
LEMMA Spread ==
  ASSUME Inv, DataMessages, NEW at \in Seq(Nat), Laid(at),
         NEW i \in 1..Len(sent), NEW j \in 1..Len(sent), i < j
  PROVE  at[i] \in Nat /\ at[j] \in Nat /\ at[i] + 5 <= at[j]
<1>1. /\ at[i] \in Nat /\ Size(sent[i]) \in Nat /\ Size(sent[i]) >= 5 /\ at[j] \in Nat
  BY LaidFrame
<1>2. at[i] + Size(sent[i]) <= at[j]
  BY DEF Laid
<1> DEFINE a == at[i]
           b == at[j]
           z == Size(sent[i])
<1>3. a \in Nat /\ b \in Nat /\ z \in Nat /\ z >= 5 /\ a + z <= b
  BY <1>1, <1>2
<1> HIDE DEF a, b, z
<1>4. a \in Nat /\ b \in Nat /\ a + 5 <= b
  BY <1>3
<1> QED
  BY <1>4 DEF a, b

\* What the scan finds in the tail is the next frame of it.
LEMMA FoundInTail ==
  ASSUME Inv, DataMessages, NEW at \in Seq(Nat), Laid(at), Tailed(at), Len(tail) > 0,
         NEW c \in Nat, First <= c, c <= Len(sent) + 1, c > First => at[c - 1] < Done,
         NEW q \in Nat, Done <= q, c <= Len(sent) => q <= at[c], Found(q), at[First] <= q
  PROVE  c <= Len(sent) /\ q = at[c]
<1>1. /\ Len(sent) \in Nat /\ Len(stream) \in Nat /\ Done \in Nat
      /\ First \in Nat /\ First >= 1 /\ First <= Len(sent)
  BY Sizes
<1>2. stream[q + 1] = FRAME_START /\ q \in 0..(Len(stream) - 1)
  <2>1. /\ FrameLen(stream[q + 2]) \in Nat /\ FrameLen(stream[q + 2]) >= 5
        /\ q + FrameLen(stream[q + 2]) <= Len(stream) /\ stream[q + 1] = FRAME_START
    BY SizeRange DEF Found, FrameAt, HeaderAt
  <2> QED
    BY <1>1, <2>1
<1>3. PICK i \in First..Len(sent) : q = at[i]
  BY <1>2 DEF Tailed
<1>4. i \in 1..Len(sent) /\ at[i] \in Nat
  BY <1>1, <1>3
<1>5. ASSUME i < c PROVE FALSE
  <2>1. c > First /\ c - 1 \in 1..Len(sent) /\ i <= c - 1
    BY <1>1, <1>3, <1>5
  <2>2. at[c - 1] < q /\ at[c - 1] \in Nat
    <3>1. at[c - 1] \in Nat
      BY <2>1, LaidFrame
    <3>2. at[c - 1] < Done
      BY <2>1
    <3> DEFINE a == at[c - 1]
    <3>3. a \in Nat /\ a < Done
      BY <3>1, <3>2
    <3> HIDE DEF a
    <3>4. a < q
      BY <1>1, <3>3
    <3> QED
      BY <3>3, <3>4 DEF a
  <2>3. i # c - 1
    BY <1>3, <2>2
  <2>4. i < c - 1
    BY <1>4, <2>1, <2>3
  <2>5. at[i] + 5 <= at[c - 1]
    BY <1>4, <2>1, <2>4, Spread
  <2> QED
    BY <1>3, <1>4, <2>2, <2>5, SMTT(30)
<1>6. ASSUME i > c PROVE FALSE
  <2>1. c \in 1..Len(sent)
    BY <1>1, <1>4, <1>6
  <2>2. at[c] \in Nat /\ at[c] + 5 <= at[i] /\ q <= at[c]
    BY <1>1, <1>4, <1>6, <2>1, Spread, SMTT(30)
  <2> QED
    BY <1>3, <2>2, SMTT(30)
<1>7. i = c
  BY <1>4, <1>5, <1>6
<1> QED
  BY <1>3, <1>4, <1>7

\* A frame that noise begins before the tail ends before its fourth frame.
LEMMA Swallowed ==
  ASSUME Inv, DataMessages, NEW at \in Seq(Nat), Laid(at), Tailed(at), Len(tail) > 0,
         NEW e \in Nat, e <= at[First] + 14
  PROVE  \E g \in Nat : /\ First <= g /\ g <= First + 3 /\ g <= Len(sent) + 1
                        /\ g <= Len(sent) => e <= at[g]
                        /\ g > First => at[g - 1] < e
<1> DEFINE n == Len(sent)
           h == First
<1>1. n \in Nat /\ h \in Nat /\ h >= 1 /\ h <= n
  BY Sizes
<1>2. \A i, j \in 1..n : i < j => at[i] \in Nat /\ at[j] \in Nat /\ at[i] + 5 <= at[j]
  BY Spread
<1>3. at[h] \in Nat
  <2>1. h \in 1..n
    BY <1>1
  <2> QED
    BY <2>1 DEF Laid
<1>4. e <= at[h] + 14
  OBVIOUS
<1> HIDE DEF n, h
<1>5. CASE e <= at[h]
  <2>1. h <= h + 3 /\ h <= n + 1 /\ ~(h > h)
    BY <1>1
  <2> QED
    BY <1>1, <1>5, <2>1 DEF n, h
<1>6. CASE ~(e <= at[h]) /\ (h + 1 <= n => e <= at[h + 1])
  <2>1. h + 1 \in Nat /\ h <= h + 1 /\ h + 1 <= h + 3 /\ h + 1 <= n + 1 /\ (h + 1) - 1 = h
    BY <1>1
  <2>2. at[(h + 1) - 1] < e
    BY <1>3, <1>6, <2>1
  <2> QED
    BY <1>6, <2>1, <2>2 DEF n, h
<1>7. CASE h + 1 <= n /\ ~(e <= at[h + 1]) /\ (h + 2 <= n => e <= at[h + 2])
  <2>1. h + 2 \in Nat /\ h <= h + 2 /\ h + 2 <= h + 3 /\ h + 2 <= n + 1 /\ (h + 2) - 1 = h + 1
    BY <1>1, <1>7
  <2>2. at[h + 1] \in Nat
    <3>1. h + 1 \in 1..n /\ h \in 1..n /\ h < h + 1
      BY <1>1, <1>7
    <3> QED
      BY <1>2, <3>1
  <2>3. at[(h + 2) - 1] < e
    BY <1>7, <2>1, <2>2
  <2> QED
    BY <1>7, <2>1, <2>3 DEF n, h
<1>8. CASE h + 2 <= n /\ ~(e <= at[h + 2])
  <2>1. h + 3 \in Nat /\ h <= h + 3 /\ h + 3 <= n + 1 /\ (h + 3) - 1 = h + 2
    BY <1>1, <1>8
  <2>2. at[h + 1] \in Nat /\ at[h + 2] \in Nat /\ at[h] + 5 <= at[h + 1] /\ at[h + 1] + 5 <= at[h + 2]
    <3>1. h \in 1..n /\ h + 1 \in 1..n /\ h + 2 \in 1..n /\ h < h + 1 /\ h + 1 < h + 2
      BY <1>1, <1>8
    <3> QED
      BY <1>2, <3>1
  <2>3. at[(h + 3) - 1] < e
    BY <1>8, <2>1, <2>2
  <2>4. h + 3 <= n => e <= at[h + 3]
    <3> SUFFICES ASSUME h + 3 <= n PROVE e <= at[h + 3]
      OBVIOUS
    <3>1. h + 2 \in 1..n /\ h + 3 \in 1..n /\ h + 2 < h + 3
      BY <1>1
    <3>2. at[h + 3] \in Nat /\ at[h + 2] + 5 <= at[h + 3]
      BY <1>2, <3>1
    <3> DEFINE w == at[h]
               x == at[h + 1]
               y == at[h + 2]
               z == at[h + 3]
    <3>3. /\ w \in Nat /\ x \in Nat /\ y \in Nat /\ z \in Nat
          /\ w + 5 <= x /\ x + 5 <= y /\ y + 5 <= z /\ e <= w + 14
      BY <1>3, <1>4, <2>2, <3>2
    <3> HIDE DEF w, x, y, z
    <3>4. e <= z
      BY <3>3
    <3> QED
      BY <3>4 DEF z
  <2> QED
    BY <2>1, <2>3, <2>4 DEF n, h
<1> QED
  BY <1>1, <1>5, <1>6, <1>7, <1>8

LEMMA ResyncParse ==
  ASSUME Inv, DataMessages, Resync, Parse
  PROVE  Resync'
<1> DEFINE n == Len(sent)
           d == Len(delivered)
<1>1. PICK at \in Seq(Nat), c \in Nat, f \in Nat : Laid(at) /\ Tailed(at) /\ Reached(at, c, f)
  BY DEF Resync
<1>2. /\ n \in Nat /\ Len(tail) \in Nat /\ Len(stream) \in Nat /\ d \in Nat
      /\ Done \in Nat /\ Done <= Len(stream) /\ First \in Nat /\ First >= 1
      /\ First <= n + 1 /\ (Len(tail) > 0 => First <= n)
  BY <1>1, Sizes
<1>3. UNCHANGED <<stream, sent, tail>>
  BY Round
<1>4. First' = First
  BY <1>3 DEF First
<1>5. Laid(at)' /\ Tailed(at)'
  <2>1. Laid(at)'
    BY <1>1, <1>3 DEF Laid, Size, Bytes
  <2>2. Tailed(at)'
    BY <1>1, <1>3, <1>4 DEF Tailed
  <2> QED
    BY <2>1, <2>2
<1>6. CASE ~(Len(tail) > 0)
  <2>1. Reached(at, c, f)'
    BY <1>3, <1>6 DEF Reached
  <2> QED
    BY <1>5, <2>1 DEF Resync
<1>7. CASE Len(tail) > 0
  <2>1. /\ First <= f /\ f <= First + 3 /\ f <= c /\ c <= n + 1
        /\ c <= n => Done <= at[c]
        /\ c > First => at[c - 1] < Done
        /\ c - f <= d
        /\ \A k \in 1..(c - f) : delivered[d + 1 - k] = sent[c - k]
    BY <1>1, <1>7 DEF Reached
  <2>2. PICK q \in Nat : /\ Done <= q /\ (\A p \in Done..(q - 1) : SkipAt(stream, p))
                         /\ Found(q) \/ Missed(q)
    BY Round
  <2>3. c <= n => q <= at[c]
    <3> SUFFICES ASSUME c <= n PROVE q <= at[c]
      OBVIOUS
    <3>1. c \in 1..n
      BY <1>2, <2>1
    <3> QED
      BY <1>1, <2>1, <2>2, <3>1, NotPassed
  <2>4. First \in 1..n /\ at[First] \in Nat
    <3>1. First \in 1..n
      BY <1>2, <1>7
    <3> QED
      BY <1>1, <3>1, LaidFrame
  <2>5. c > First => c - 1 \in 1..n /\ at[c - 1] \in Nat
    <3> SUFFICES ASSUME c > First PROVE c - 1 \in 1..n /\ at[c - 1] \in Nat
      OBVIOUS
    <3>1. c - 1 \in 1..n
      BY <1>2, <2>1, SMTT(30)
    <3> QED
      BY <1>1, <3>1, LaidFrame
  <2>6. CASE Missed(q)
    <3>1. Done' = q /\ delivered' = delivered
      BY <2>6 DEF Missed
    <3>2. c > First => at[c - 1] < Done'
      BY <1>2, <2>1, <2>2, <2>5, <3>1
    <3>3. Reached(at, c, f)'
      BY <1>3, <1>4, <2>1, <2>3, <3>1, <3>2 DEF Reached
    <3> QED
      BY <1>5, <3>3 DEF Resync
  <2>7. CASE Found(q) /\ at[First] <= q
    <3>1. c \in 1..n /\ q = at[c]
      <4>1. First <= c
        BY <1>2, <2>1
      <4>2. c <= n /\ q = at[c]
        BY <1>1, <1>7, <2>1, <2>2, <2>3, <2>7, <4>1, FoundInTail
      <4> QED
        BY <1>2, <4>1, <4>2
    <3>2. Done' = at[c] + Size(sent[c]) /\ delivered' = Append(delivered, sent[c])
      BY <1>1, <2>7, <3>1, FoundSent
    <3>3. /\ sent[c] \in CanMessage /\ at[c] \in Nat
          /\ Size(sent[c]) \in Nat /\ Size(sent[c]) >= 5
      BY <1>1, <3>1, LaidFrame, InputAssumption
    <3>4. delivered \in Seq(CanMessage)
      BY DEF Inv, TypeOK
    <3>5. /\ Len(delivered') = d + 1 /\ delivered'[d + 1] = sent[c]
          /\ \A j \in 1..d : delivered'[j] = delivered[j]
      BY <3>2, <3>3, <3>4
    <3>6. c + 1 \in Nat /\ (c + 1) - 1 = c /\ f <= c + 1 /\ c + 1 <= n + 1
          /\ (c + 1) - f = (c - f) + 1 /\ (c + 1) - f <= d + 1
      <4>1. c \in Nat /\ f \in Nat /\ f <= c /\ c - f <= d /\ c <= n
        BY <1>2, <2>1, <3>1
      <4> HIDE DEF n, d
      <4> QED
        BY <1>2, <4>1
    <3>7. c + 1 <= n => Done' <= at[c + 1]
      <4> SUFFICES ASSUME c + 1 <= n PROVE Done' <= at[c + 1]
        OBVIOUS
      <4>1. c + 1 \in 1..n /\ c < c + 1
        BY <1>2, <3>1
      <4> QED
        BY <1>1, <3>1, <3>2, <4>1 DEF Laid
    <3>8. at[c] < Done'
      BY <3>2, <3>3
    <3>9. ASSUME NEW k \in 1..((c + 1) - f)
          PROVE  delivered'[(d + 1) + 1 - k] = sent[(c + 1) - k]
      <4>1. CASE k = 1
        BY <1>2, <3>1, <3>5, <4>1
      <4>2. CASE k # 1
        <5>1. k - 1 \in 1..(c - f)
          BY <2>1, <3>6, <4>2
        <5>2. /\ d + 1 - (k - 1) \in 1..d
              /\ (d + 1) + 1 - k = d + 1 - (k - 1) /\ (c + 1) - k = c - (k - 1)
          BY <1>2, <2>1, <5>1
        <5>3. delivered[d + 1 - (k - 1)] = sent[c - (k - 1)]
          BY <2>1, <5>1
        <5> QED
          BY <3>5, <5>2, <5>3
      <4> QED
        BY <4>1, <4>2
    <3>10. Reached(at, c + 1, f)'
      BY <1>3, <1>4, <2>1, <3>5, <3>6, <3>7, <3>8, <3>9 DEF Reached
    <3> QED
      BY <1>5, <3>6, <3>10 DEF Resync
  <2>8. CASE Found(q) /\ ~(at[First] <= q)
    <3> DEFINE len == FrameLen(stream[q + 2])
               more == ParsedToMessage(MetaAt(stream, q))
    <3>1. /\ FrameAt(stream, q) /\ len \in Nat /\ len >= 5 /\ len <= 15 /\ q + len <= Len(stream)
          /\ Done' = q + len /\ delivered' = delivered \o more
      <4>1. /\ FrameAt(stream, q) /\ len \in 5..DATA_FRAME_MAX_SIZE /\ q + len <= Len(stream)
            /\ Done' = q + len /\ delivered' = delivered \o more
        BY <2>8 DEF Found
      <4> HIDE DEF len, more
      <4> QED
        BY <4>1 DEF DATA_FRAME_MAX_SIZE
    <3>2. Done' \in Nat /\ Done' <= at[First] + 14
      <4> HIDE DEF len
      <4> QED
        BY <2>4, <2>8, <3>1
    <3>3. c = First /\ f = First
      <4>1. ~(c > First)
        <5> SUFFICES ASSUME c > First PROVE FALSE
          OBVIOUS
        <5>1. c - 1 \in 1..n /\ at[c - 1] \in Nat /\ at[c - 1] < q
          BY <1>2, <2>1, <2>2, <2>5
        <5>2. First <= c - 1
          BY <1>2
        <5>3. CASE First = c - 1
          BY <2>4, <2>8, <5>1, <5>3
        <5>4. CASE First < c - 1
          <6>1. at[First] + 5 <= at[c - 1]
            BY <1>1, <2>4, <5>1, <5>4, Spread
          <6> QED
            BY <2>4, <2>8, <5>1, <6>1
        <5> QED
          BY <1>2, <5>2, <5>3, <5>4
      <4> QED
        BY <1>2, <2>1, <4>1
    <3>4. PICK g \in Nat : /\ First <= g /\ g <= First + 3 /\ g <= n + 1
                           /\ g <= n => Done' <= at[g]
                           /\ g > First => at[g - 1] < Done'
      <4>1. PICK e \in Nat : e = Done'
        BY <3>2
      <4>2. \E g \in Nat : /\ First <= g /\ g <= First + 3 /\ g <= n + 1
                           /\ g <= n => e <= at[g]
                           /\ g > First => at[g - 1] < e
        BY <1>1, <1>7, <3>2, <4>1, Swallowed
      <4> QED
        BY <4>1, <4>2
    <3>5. Len(delivered') \in Nat
      <4>1. ParsedToMessage(MetaAt(stream, q)) \in Seq(CanMessage)
        <5>1. stream \in Seq(Byte) /\ q \in 0..Len(stream)
          <6>1. stream \in Seq(Byte)
            BY DEF Inv, TypeOK
          <6> HIDE DEF len, more
          <6>2. q \in 0..Len(stream)
            BY <1>2, <3>1
          <6> QED
            BY <6>1, <6>2
        <5> QED
          BY <3>1, <5>1, ParsedType
      <4> HIDE DEF more
      <4>2. delivered \in Seq(CanMessage) /\ more \in Seq(CanMessage)
        BY <4>1 DEF Inv, TypeOK, more
      <4> QED
        BY <3>1, <4>2
    <3>6. g - g = 0 /\ g <= g /\ 0 <= Len(delivered')
      BY <3>5
    <3>7. Reached(at, g, g)'
      BY <1>3, <1>4, <3>4, <3>6 DEF Reached
    <3> QED
      BY <1>5, <3>7 DEF Resync
  <2> QED
    BY <2>2, <2>6, <2>7, <2>8
<1> QED
  BY <1>6, <1>7

LEMMA ResyncStep ==
  ASSUME PlainMessages, Inv, Resync, [Next]_vars
  PROVE  Resync'
<1>1. DataMessages
  BY DEF PlainMessages, DataMessages
<1>2. CASE \E m \in Messages : DeviceSends(m)
  BY <1>2, ResyncSends
<1>3. CASE \E b \in Noise : DeviceNoise(b)
  BY <1>3, ResyncNoise
<1>4. CASE Parse
  BY <1>1, <1>4, ResyncParse
<1>5. CASE ReadSome
  <2>1. UNCHANGED <<stream, sent, tail, delivered>> /\ Done' = Done
    BY <1>5, FillInv DEF ReadSome, ReadBytes
  <2> QED
    BY <2>1, ResyncRests
<1>6. CASE \/ Unplug \/ DeadlinePasses \/ Calls \/ CheckLate \/ CheckInTime
           \/ ReadTimeout \/ ReadFails \/ UNCHANGED vars
  <2>1. UNCHANGED <<line, rx, stream, sent, tail, delivered>>
    BY <1>6 DEF Unplug, DeadlinePasses, Calls, CallRead, CallReadZero, CallTryRead, Call, Cancel,
           CheckLate, CheckInTime, ReadTimeout, ReadFails, Return, env, vars
  <2>2. Done' = Done
    BY <2>1 DEF Done
  <2> QED
    BY <2>1, <2>2, ResyncRests
<1> QED
  BY <1>2, <1>3, <1>4, <1>5, <1>6 DEF Next, Environment

LEMMA InitResync == Init => Resync
<1> SUFFICES ASSUME Init PROVE Resync
  OBVIOUS
<1>1. /\ stream = <<>> /\ sent = <<>> /\ tail = <<>>
      /\ Len(stream) = 0 /\ Len(sent) = 0 /\ Len(tail) = 0
  BY DEF Init
<1>2. <<>> \in Seq(Nat) /\ Len(<<>>) = 0 /\ 0 \in Nat
  OBVIOUS
<1>3. Laid(<<>>) /\ Tailed(<<>>) /\ Reached(<<>>, 0, 0)
  BY <1>1, <1>2 DEF Laid, Tailed, Reached
<1> QED
  BY <1>2, <1>3 DEF Resync

\* Where a read waits with a dry line, the scan has no frame of the tail before
\* it, when four of them have come.
LEMMA NoneLeft ==
  ASSUME Inv, DataMessages, pc = "wait", line = <<>>, Len(tail) >= 4,
         NEW at \in Seq(Nat), NEW c \in Nat, NEW f \in Nat,
         Laid(at), Tailed(at), Reached(at, c, f)
  PROVE  c = Len(sent) + 1
<1> DEFINE n == Len(sent)
<1>1. /\ n \in Nat /\ Len(tail) \in Nat /\ Len(stream) \in Nat /\ Done \in Nat
      /\ First \in Nat /\ First >= 1 /\ First = (n - Len(tail)) + 1
  BY Sizes
<1>2. /\ First <= f /\ f <= c /\ c <= n + 1
      /\ c <= n => Done <= at[c]
      /\ c > First => at[c - 1] < Done
  BY <1>1 DEF Reached
<1>3. /\ rx \in Seq(Byte) /\ stream \in Seq(Byte) /\ sent \in Seq(Messages)
      /\ Done + Len(rx) = Len(stream) /\ Window(rx, stream, Done)
  <2>1. rx \in Seq(Byte) /\ stream \in Seq(Byte) /\ sent \in Seq(Messages) /\ Window(rx, stream, Done)
    BY DEF Inv, TypeOK, Suffix
  <2>2. Len(line) = 0
    OBVIOUS
  <2>3. Done = Len(stream) - Len(rx)
    BY <2>1, <2>2 DEF Done
  <2> QED
    BY <2>1, <2>3
<1>4. Len(rx) <= 14
  BY RoomForRead DEF DATA_FRAME_MAX_SIZE
<1>5. ~SkipAt(rx, 0) /\ ~FrameAt(rx, 0)
  <2>1. ParseNextFrame(rx) = [consumed |-> 0, frame |-> <<>>]
    BY DEF Inv, Scanned
  <2>2. ~FrameAt(rx, ScanEnd(rx))
    BY <1>3, <2>1, ParseConsumes
  <2>3. ScanEnd(rx) = 0
    BY <2>1, <2>2 DEF ParseNextFrame
  <2>4. ~SkipAt(rx, ScanEnd(rx))
    BY <1>3, ScanStops DEF StopsAt
  <2> QED
    BY <2>2, <2>3, <2>4
<1>6. SUFFICES ASSUME c <= n PROVE FALSE
  BY <1>1, <1>2
<1>7. c \in 1..n /\ First \in 1..n /\ First <= c
  BY <1>1, <1>2, <1>6
<1>8. /\ at[c] \in Nat /\ Size(sent[c]) \in Nat /\ Size(sent[c]) >= 5
      /\ at[c] + Size(sent[c]) <= Len(stream) /\ sent[c] \in Messages /\ Done <= at[c]
  BY <1>2, <1>6, <1>7, LaidFrame
<1>9. Len(rx) - 0 >= MIN_FRAME_SIZE /\ Done + 5 <= Len(stream)
  <2> DEFINE a == at[c]
             z == Size(sent[c])
  <2>1. a \in Nat /\ z \in Nat /\ z >= 5 /\ a + z <= Len(stream) /\ Done <= a
    BY <1>8
  <2> HIDE DEF a, z
  <2>2. Done + 5 <= Len(stream)
    BY <1>1, <2>1
  <2>3. Len(rx) \in Nat
    BY <1>3
  <2> QED
    BY <1>1, <1>3, <2>2, <2>3 DEF MIN_FRAME_SIZE
<1>10. CASE Done = at[c]
  <2> DEFINE b == Bytes(sent[c])
  <2>1. b \in Seq(Byte) /\ FrameAt(b, 0) /\ Len(b) = Size(sent[c])
    <3>1. sent[c] \in CanMessage /\ ~sent[c].rtr
      BY <1>8, InputAssumption DEF DataMessages
    <3> QED
      BY <3>1, MessageFrame DEF Size
  <2>2. Window(b, stream, Done)
    BY <1>7, <1>10 DEF Laid
  <2>3. Len(b) <= Len(rx)
    <3> DEFINE z == Size(sent[c])
    <3>1. z \in Nat /\ Done + z <= Len(stream) /\ Len(b) = z /\ Len(rx) \in Nat
      BY <1>3, <1>8, <1>10, <2>1
    <3> HIDE DEF z, b
    <3> QED
      BY <1>1, <1>3, <3>1
  <2> HIDE DEF b
  <2>4. \A i \in 1..Len(b) : b[i] = rx[i + 0]
    <3> SUFFICES ASSUME NEW i \in 1..Len(b) PROVE b[i] = rx[i + 0]
      OBVIOUS
    <3>1. i \in 1..Len(rx) /\ i + 0 = i
      BY <1>3, <2>1, <2>3
    <3>2. b[i] = stream[i + Done] /\ rx[i] = stream[i + Done]
      BY <1>3, <2>2, <3>1 DEF Window
    <3> QED
      BY <3>1, <3>2
  <2>5. Window(b, rx, 0)
    BY <1>3, <2>1, <2>3, <2>4 DEF Window
  <2>6. FrameAt(rx, 0 + 0)
    BY <1>3, <2>1, <2>5, DecisionsKept
  <2> QED
    BY <1>5, <2>6
<1>11. CASE Done < at[c]
  \* Four frames do not fit behind the scan, which is therefore in the tail.
  <2>1. at[First] < Done
    <3>1. /\ First \in 1..n /\ First + 1 \in 1..n /\ First + 2 \in 1..n /\ First + 3 \in 1..n
          /\ First < First + 1 /\ First + 1 < First + 2 /\ First + 2 < First + 3
      BY <1>1
    <3> DEFINE w == at[First]
               x == at[First + 1]
               y == at[First + 2]
               z == at[First + 3]
               k == Size(sent[First + 3])
    <3>2. w \in Nat /\ x \in Nat /\ w + 5 <= x
      BY <3>1, Spread
    <3>3. y \in Nat /\ x + 5 <= y
      BY <3>1, Spread
    <3>4. z \in Nat /\ y + 5 <= z
      BY <3>1, Spread
    <3>5. k \in Nat /\ k >= 5 /\ z + k <= Len(stream)
      BY <3>1, LaidFrame
    <3> HIDE DEF w, x, y, z, k
    <3>6. w < Done
      BY <1>1, <1>3, <1>4, <3>2, <3>3, <3>4, <3>5
    <3> QED
      BY <3>6 DEF w
  <2>2. stream[Done + 1] # FRAME_START
    <3> SUFFICES ASSUME stream[Done + 1] = FRAME_START PROVE FALSE
      OBVIOUS
    <3>1. Done \in 0..(Len(stream) - 1) /\ Len(tail) > 0
      BY <1>1, <1>9
    <3>2. at[First] <= Done
      <4> DEFINE w == at[First]
      <4>1. w \in Nat /\ w < Done
        BY <1>7, <2>1, LaidFrame
      <4> HIDE DEF w
      <4>2. w <= Done
        BY <1>1, <4>1
      <4> QED
        BY <4>2 DEF w
    <3>3. PICK i \in First..n : Done = at[i]
      BY <3>1, <3>2 DEF Tailed
    <3>4. i \in 1..n
      BY <1>1, <3>3
    <3>5. ~(c <= i)
      <4>1. i # c
        BY <1>8, <1>11, <3>3
      <4>2. ASSUME c < i PROVE FALSE
        <5>1. at[c] + 5 <= at[i]
          BY <1>7, <3>4, <4>2, Spread
        <5> DEFINE a == at[c]
        <5>2. a \in Nat /\ a + 5 <= Done /\ Done < a
          BY <1>8, <1>11, <3>3, <5>1
        <5> HIDE DEF a
        <5> QED
          BY <1>1, <5>2
      <4> HIDE DEF n
      <4>3. c \in Nat /\ i \in Nat
        BY <1>1, <3>4
      <4> QED
        BY <4>1, <4>2, <4>3
    <3>6. c > First /\ c - 1 \in 1..n /\ i <= c - 1
      <4> HIDE DEF n
      <4>1. c \in Nat /\ i \in Nat /\ i >= First /\ i < c /\ c <= n
        BY <1>1, <1>7, <3>3, <3>4, <3>5
      <4> QED
        BY <1>1, <4>1
    <3>7. at[c - 1] < Done
      BY <1>2, <3>6
    <3>8. i # c - 1
      BY <1>1, <3>3, <3>7, SMTT(30)
    <3>9. i < c - 1
      BY <3>4, <3>6, <3>8
    <3>10. at[i] + 5 <= at[c - 1] /\ at[i] \in Nat /\ at[c - 1] \in Nat
      BY <3>4, <3>6, <3>9, Spread
    <3> QED
      BY <3>3, <3>7, <3>10, SMTT(30)
  <2>3. rx[0 + 1] # FRAME_START
    <3>1. 1 \in 1..Len(rx) /\ 0 + 1 = 1 /\ 1 + Done = Done + 1
      BY <1>1, <1>3, <1>9 DEF MIN_FRAME_SIZE
    <3>2. rx[1] = stream[1 + Done]
      BY <1>3, <3>1 DEF Window
    <3> QED
      BY <2>2, <3>1, <3>2
  <2>4. SkipAt(rx, 0)
    BY <1>9, <2>3 DEF SkipAt, HeaderAt
  <2> QED
    BY <1>5, <2>4
<1> QED
  BY <1>1, <1>8, <1>10, <1>11

\* Noise of any kind and length costs at most three of the messages that follow
\* it, when their frames have no start byte but the first: a false header takes at
\* most the 15 bytes of a frame, and each frame has at least five.
THEOREM NoiseCostsThree == Spec => []Resynchronises
<1>1. CASE PlainMessages
  <2>1. Init => Resync
    BY InitResync
  <2>2. Inv /\ Resync /\ [Next]_vars => Resync'
    BY <1>1, ResyncStep
  <2>3. Inv /\ Resync => Resynchronises
    <3> SUFFICES ASSUME Inv, Resync, pc = "wait", line = <<>>, NEW k \in 1..(Len(tail) - 3)
                 PROVE  /\ Len(delivered) >= k
                        /\ delivered[Len(delivered) + 1 - k] = tail[Len(tail) + 1 - k]
      BY DEF Resynchronises
    <3>1. PICK at \in Seq(Nat), c \in Nat, f \in Nat : Laid(at) /\ Tailed(at) /\ Reached(at, c, f)
      BY DEF Resync
    <3>2. DataMessages
      BY <1>1 DEF PlainMessages, DataMessages
    <3>3. /\ Len(sent) \in Nat /\ Len(tail) \in Nat /\ Len(delivered) \in Nat
          /\ First \in Nat /\ First >= 1 /\ First = (Len(sent) - Len(tail)) + 1
      BY <3>1, Sizes
    <3>4. Len(tail) >= 4
      BY <3>3
    <3>5. c = Len(sent) + 1
      BY <3>1, <3>2, <3>4, NoneLeft
    <3>6. /\ f <= First + 3 /\ c - f <= Len(delivered)
          /\ \A j \in 1..(c - f) : delivered[Len(delivered) + 1 - j] = sent[c - j]
      BY <3>1, <3>3, <3>4 DEF Reached
    <3>7. k \in 1..(c - f) /\ c - k = (First - 1) + (Len(tail) + 1 - k)
          /\ Len(tail) + 1 - k \in 1..Len(tail)
      BY <3>3, <3>5, <3>6
    <3>8. tail[Len(tail) + 1 - k] = sent[(First - 1) + (Len(tail) + 1 - k)]
      BY <3>1, <3>7 DEF Tailed
    <3>9. delivered[Len(delivered) + 1 - k] = sent[c - k]
      BY <3>6, <3>7
    <3>10. Len(delivered) >= k
      BY <3>3, <3>6, <3>7
    <3> QED
      BY <3>7, <3>8, <3>9, <3>10, Zenon
  <2> QED
    BY <2>1, <2>2, <2>3, Invariant, PTL DEF Spec
<1>2. CASE ~PlainMessages
  <2>1. Resynchronises
    BY <1>2 DEF Resynchronises
  <2> QED
    BY <2>1, PTL
<1> QED
  BY <1>1, <1>2
=============================================================================
