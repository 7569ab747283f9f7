---------------------------- MODULE RxTransport ----------------------------
(***************************************************************************)
(* The receiving half of Transport: read_frame and try_read_frame over the *)
(* serial port, the receive buffer and the deadline of a read.  The device *)
(* and the operating system's serial buffer are the environment.           *)
(*                                                                         *)
(* A call runs alone (the methods take &mut self) and is at one of three   *)
(* places: "parse", in try_read_frame's loop, "check", about to compare    *)
(* the clock with the deadline, and "wait", suspended in the await on the  *)
(* port, where the caller may drop it.                                     *)
(***************************************************************************)
EXTENDS WaveshareWire, FiniteSets

CONSTANTS RX_BUFFER,     \* size of rx_buffer (1024)
          TEMP,          \* size of temp (256)
          Messages,      \* messages the device may send
          Noise,         \* byte sequences it may put between them
          MaxItems       \* bound: messages and noise sequences in a behaviour

ASSUME SizesAssumption ==
  /\ RX_BUFFER \in Nat
  /\ TEMP \in Nat \ {0}
  /\ (DATA_FRAME_MAX_SIZE - 1) + TEMP <= RX_BUFFER
ASSUME InputAssumption ==
  /\ Messages \subseteq CanMessage
  /\ Noise \subseteq Seq(Byte)
  /\ MaxItems \in Nat

VARIABLES line,          \* bytes the port holds for the next read
          up,            \* FALSE: the device is unplugged
          rx,            \* rx_buffer[..rx_length]
          pc,            \* "idle" or the place of the running call
          call,          \* "read", "zero" (read with a timeout of zero) or "try"
          expired,       \* the deadline of the running read has passed
          outcome,       \* how the last call ended
          delivered,     \* history: messages returned, oldest first
          stream,        \* history: bytes the device ever sent
          sent,          \* history: messages the device ever sent
          tail,          \* history: those it sent since the last noise
          items          \* number of messages and noise sequences sent

env == <<line, up, stream, sent, tail, items>>
vars == <<line, up, rx, pc, call, expired, outcome, delivered, stream, sent, tail, items>>

Init ==
  /\ line = <<>> /\ up = TRUE
  /\ rx = <<>> /\ pc = "idle" /\ call = "read" /\ expired = FALSE
  /\ outcome = "none" /\ delivered = <<>>
  /\ stream = <<>> /\ sent = <<>> /\ tail = <<>> /\ items = 0

-----------------------------------------------------------------------------
(* The environment.                                                        *)

Emit(bytes) ==
  /\ up /\ items < MaxItems
  /\ line' = line \o bytes
  /\ stream' = stream \o bytes
  /\ items' = items + 1
  /\ UNCHANGED <<up, rx, pc, call, expired, outcome, delivered>>

\* The adapter frames a message as BuildDataFrame does.
DeviceSends(m) ==
  /\ Emit(BuildDataFrame(m).bytes)
  /\ sent' = Append(sent, m)
  /\ tail' = Append(tail, m)

DeviceNoise(b) == Emit(b) /\ tail' = <<>> /\ UNCHANGED sent

Unplug ==
  /\ up /\ up' = FALSE
  /\ UNCHANGED <<line, rx, pc, call, expired, outcome, delivered, stream, sent, tail, items>>

\* Time passes while a call is suspended; the work between two awaits takes none.
DeadlinePasses ==
  /\ pc = "wait" /\ ~expired
  /\ expired' = TRUE
  /\ UNCHANGED <<env, rx, pc, call, outcome, delivered>>

-----------------------------------------------------------------------------
(* Calls.                                                                  *)

Call(method, late) ==
  /\ pc = "idle" /\ pc' = "parse"
  /\ call' = method
  /\ expired' = late
  /\ UNCHANGED <<env, rx, outcome, delivered>>

CallRead == Call("read", FALSE)

\* read with a timeout of zero: the deadline has passed before the call begins.
CallReadZero == Call("zero", TRUE)

CallTryRead == Call("try", FALSE)

Return(result) == pc' = "idle" /\ outcome' = result

\* A faulty variant the runs must tell apart: one byte too many goes.
DropOneMore(consumed) == rx' = SubSeq(rx, consumed + 2, Len(rx))

\* Faulty: the rest is not moved down to the front.
DropWithoutMove(consumed) == rx' = SubSeq(rx, 1, Len(rx) - consumed)

\* The bytes parse_next_frame consumed leave the front of the buffer.
Drop(consumed) == rx' = SubSeq(rx, consumed + 1, Len(rx))

\* One round of try_read_frame.
ParseMessage ==
  /\ pc = "parse"
  /\ LET p == ParseNextFrame(rx) IN
       /\ p.frame # <<>>
       /\ ParsedToMessage(p.frame[1]) # <<>>
       /\ Drop(p.consumed)
       /\ delivered' = delivered \o ParsedToMessage(p.frame[1])
  /\ Return("message")
  /\ UNCHANGED <<env, call, expired>>

\* Faulty: a frame with an invalid id ends the loop like an empty buffer.
ParseInvalidEnds ==
  /\ pc = "parse"
  /\ LET p == ParseNextFrame(rx) IN
       /\ p.frame # <<>>
       /\ ParsedToMessage(p.frame[1]) = <<>>
       /\ Drop(p.consumed)
  /\ IF call = "try" THEN Return("nothing") ELSE pc' = "check" /\ UNCHANGED outcome
  /\ UNCHANGED <<env, call, expired, delivered>>

ParseInvalid ==
  /\ pc = "parse"
  /\ LET p == ParseNextFrame(rx) IN
       /\ p.frame # <<>>
       /\ ParsedToMessage(p.frame[1]) = <<>>
       /\ Drop(p.consumed)
  /\ UNCHANGED <<env, pc, call, expired, outcome, delivered>>

ParseNothing ==
  /\ pc = "parse"
  /\ LET p == ParseNextFrame(rx) IN
       /\ p.frame = <<>>
       /\ Drop(p.consumed)
  /\ IF call = "try" THEN Return("nothing") ELSE pc' = "check" /\ UNCHANGED outcome
  /\ UNCHANGED <<env, call, expired, delivered>>

\* The clock against the deadline, before the port is asked.
CheckLate ==
  /\ pc = "check" /\ expired
  /\ Return("timeout")
  /\ UNCHANGED <<env, rx, call, expired, delivered>>

\* Faulty: the deadline is left to the timer of the await.
CheckAtTimer ==
  /\ pc = "check" /\ pc' = "wait"
  /\ UNCHANGED <<env, rx, call, expired, outcome, delivered>>

CheckInTime ==
  /\ pc = "check" /\ ~expired
  /\ pc' = "wait"
  /\ UNCHANGED <<env, rx, call, expired, outcome, delivered>>

\* Faulty: the fill is compared with the size of temp.
FillAtTemp(bytes) ==
  rx' = IF Len(rx) + Len(bytes) > TEMP THEN bytes ELSE rx \o bytes

\* What becomes of the buffer when bytes are read: it is emptied first if they
\* do not fit.
Fill(bytes) ==
  rx' = IF Len(rx) + Len(bytes) > RX_BUFFER THEN bytes ELSE rx \o bytes

ReadBytes(n) ==
  /\ pc = "wait" /\ n <= Len(line)
  /\ Fill(SubSeq(line, 1, n))
  /\ line' = SubSeq(line, n + 1, Len(line))
  /\ pc' = "parse"
  /\ UNCHANGED <<up, call, expired, outcome, delivered, stream, sent, tail, items>>

ReadSome == \E n \in 1..TEMP : ReadBytes(n)

\* Faulty: a timed-out read starts the next one with an empty buffer.
TimeoutClears ==
  /\ pc = "wait" /\ expired
  /\ rx' = <<>>
  /\ Return("timeout")
  /\ UNCHANGED <<env, call, expired, delivered>>

\* Faulty: a read that has part of a frame waits for the rest of it.
TimeoutWaitsForFrame ==
  /\ pc = "wait" /\ expired /\ rx = <<>>
  /\ Return("timeout")
  /\ UNCHANGED <<env, rx, call, expired, delivered>>

ReadTimeout ==
  /\ pc = "wait" /\ expired
  /\ Return("timeout")
  /\ UNCHANGED <<env, rx, call, expired, delivered>>

\* End of file, or an error of the port; bytes on the line may go unread.
ReadFails ==
  /\ pc = "wait" /\ ~up
  /\ Return("io")
  /\ UNCHANGED <<env, rx, call, expired, delivered>>

\* The caller drops the future of read at its only await.
Cancel ==
  /\ pc = "wait"
  /\ Return("cancelled")
  /\ UNCHANGED <<env, rx, call, expired, delivered>>

-----------------------------------------------------------------------------
Environment ==
  \/ \E m \in Messages : DeviceSends(m)
  \/ \E b \in Noise : DeviceNoise(b)
  \/ Unplug
  \/ DeadlinePasses

Parse == ParseMessage \/ ParseInvalid \/ ParseNothing

Calls == CallRead \/ CallReadZero \/ CallTryRead \/ Cancel

Next ==
  \/ Environment
  \/ Calls
  \/ Parse
  \/ CheckLate \/ CheckInTime
  \/ ReadSome \/ ReadTimeout \/ ReadFails

Spec == Init /\ [][Next]_vars

\* The executor runs a call that can go on, the clock goes on, and the caller
\* keeps making reads with a timeout.  Strong fairness: not every read that finds
\* bytes at the port is cancelled or timed out instead.
Fairness ==
  /\ WF_vars(Parse \/ CheckLate \/ CheckInTime \/ ReadTimeout)
  /\ WF_vars(DeadlinePasses)
  /\ SF_vars(CallRead)
  /\ SF_vars(ReadSome)

FairSpec == Spec /\ Fairness

-----------------------------------------------------------------------------
(* Properties.                                                             *)

\* Types, and the buffer within its allocation.
TypeOK ==
  /\ line \in Seq(Byte) /\ rx \in Seq(Byte) /\ stream \in Seq(Byte)
  /\ Len(rx) <= RX_BUFFER
  /\ up \in BOOLEAN /\ expired \in BOOLEAN
  /\ pc \in {"idle", "parse", "check", "wait"}
  /\ call \in {"read", "zero", "try"}
  /\ outcome \in {"none", "message", "nothing", "timeout", "io", "cancelled"}
  /\ delivered \in Seq(CanMessage) /\ sent \in Seq(Messages) /\ tail \in Seq(Messages)
  /\ items \in 0..MaxItems

\* The emptying of the buffer in read_frame never throws bytes away: when the
\* port is read, whatever it returns still fits.
NoOverflow == pc = "wait" => Len(rx) + TEMP <= RX_BUFFER

\* No byte is doubled, reordered or left behind in the buffer, whatever calls
\* time out, are cancelled or fail: the buffer and the line are always the end
\* of the stream.  Which bytes may leave the buffer, DecodesStream says.
BytesInOrder ==
  /\ Len(rx) + Len(line) <= Len(stream)
  /\ rx \o line = SubSeq(stream, Len(stream) - Len(rx) - Len(line) + 1, Len(stream))

\* A read never sleeps on a message it could return.
NothingParsableWhileWaiting == pc = "wait" => ParseNextFrame(rx).frame = <<>>

\* Data messages in whose frames no byte but the first is a start byte.
PlainMessages ==
  \A m \in Messages :
    LET bytes == BuildDataFrame(m).bytes
    IN  ~m.rtr /\ \A i \in 2..Len(bytes) : bytes[i] # FRAME_START

\* Noise costs at most three of the messages that follow it, when no byte
\* inside them is a start byte: a false header can swallow what it takes for
\* its frame and no more.  Once the port is read dry, the others are delivered.
Resynchronises ==
  PlainMessages /\ pc = "wait" /\ line = <<>> =>
    \A n \in 1..(Len(tail) - 3) :
      /\ Len(delivered) >= n
      /\ delivered[Len(delivered) + 1 - n] = tail[Len(tail) + 1 - n]

\* Neither try_read nor a read with a timeout of zero takes bytes from the port,
\* however many frames with invalid ids it drops: such a call returns what earlier
\* reads left in the buffer, and a caller that makes no other gets no message.
PollsLeavePort == [][Len(line') < Len(line) => call = "read"]_vars

\* A call that was made returns.
ReadReturns == (pc # "idle") ~> (pc = "idle")

\* Every message the device sends is delivered while the device stays plugged
\* in and the caller goes on reading: after the last of them, none is left.
EventuallyDelivered ==
  Len(delivered) < Len(sent) ~> Len(delivered) = Len(sent) \/ ~up

\* The transport implements the stream decoder: only the bytes and their order
\* decide what is delivered.
Decoder == INSTANCE StreamDecoder
             WITH pos <- Len(stream) - Len(rx) - Len(line)
DecodesStream == Decoder!Spec

\* A start byte at o that costs nothing, whatever follows buf: what comes behind
\* it is no header, or the header of a frame that buf holds whole and that has no
\* footer or an id out of range.
Harmless(buf, o) ==
  /\ o + 2 <= Len(buf)
  /\ HeaderAt(buf, o) =>
       CompleteAt(buf, o) /\ (FooterAt(buf, o) => ~IdValid(MetaAt(buf, o)))
QuietNoise ==
  \A b \in Noise : \A o \in 0..(Len(b) - 1) : b[o + 1] = FRAME_START => Harmless(b, o)
DataMessages == \A m \in Messages : ~m.rtr

\* With noise that costs nothing it is a lossless path for data messages.
Fifo == INSTANCE FrameFifo WITH Payload <- Messages
DeliversInOrder == Fifo!Spec
=============================================================================
