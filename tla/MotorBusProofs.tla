--------------------------- MODULE MotorBusProofs ---------------------------
(***************************************************************************)
(* For every set of motors and commands and every order of the steps: the  *)
(* frames of a command fit the bus, write_read returns the answer to its   *)
(* own command when it begins on a quiet line, a batch is its commands in  *)
(* order, motors take commands whole, and the answers stay in their order. *)
(***************************************************************************)
EXTENDS MotorBus, SequenceTheorems, TLAPS

-----------------------------------------------------------------------------
(* Types.  The longest command is a full batch, in 256 frames.             *)

LongestCommand == 1794
AnyCommand ==
  {c \in Seq(Byte) : Len(c) >= 3 /\ Len(c) <= LongestCommand /\ Len(c) = Expected(c)}
\* What a call is given: a command, or a slice that has no frame.
Slice == AnyCommand \cup {c \in Seq(Byte) : Len(c) <= 2}
Data == {d \in Seq(Byte) : d # <<>> /\ Len(d) <= 8}
ExtId == {id \in Nat : id <= 65535}
Frame == [ext_id : ExtId, data : Data]
Sent == [frame : Frame, call : Nat]
Part(a) == [from : {a}, of : Nat, part : {1, 2}]
Heard == [from : Motors, of : Nat, part : Nat]
Took == [call : Nat, cmd : Seq(Byte)]
Loaded == [at : Nat, cmd : Seq(Byte)]
Issue == [kind : {"send", "poll", "await"}, cmd : Slice, loads : Seq(Loaded),
          whole : BOOLEAN]
CallState == [at : {"idle", "sending", "waiting"}, sent : Nat, polls : 0..PollLimit,
              fresh : BOOLEAN]
Got == [call : Nat, from : Motors, of : Nat, part : Nat, fresh : BOOLEAN]

PackingOK ==
  /\ menu \in DOMAIN Menus
  /\ txn \in Seq(Byte) /\ Len(txn) <= MMCL_LEN
  /\ loads \in Seq(Loaded)
CallOK ==
  /\ issued \in Seq(Issue)
  /\ call \in CallState
  /\ call.at # "idle" => Len(issued) > 0
  /\ call.at = "sending" => call.sent < Len(FramesOf(Cmd))
BusOK ==
  /\ toMotors \in Seq(Sent)
  /\ partial \in [Motors -> Seq(Byte)]
  /\ taken \in [Motors -> Seq(Took)]
  /\ todo \in [Motors -> Seq(Heard)] /\ \A a \in Motors : todo[a] \in Seq(Part(a))
  /\ toCaller \in Seq(Heard)
  /\ got \in Seq(Got)
Typed == PackingOK /\ CallOK /\ BusOK

LEMMA Limits ==
  /\ MMCL_LEN \in Nat /\ MMCL_LEN >= 1 /\ MMCL_LEN <= 1789
  /\ PollLimit \in Nat
BY LimitAssumption, PollAssumption

LEMMA MenuCommands ==
  ASSUME NEW m \in DOMAIN Menus
  PROVE  /\ \A c \in Menus[m].commands : c \in Slice
         /\ \A c \in Menus[m].loads : c \in AnyCommand
         /\ \A k \in Menus[m].kinds : k \in {"send", "poll", "await"}
BY MenuAssumption DEF IsCommand, IsShort, MAX_CMD_LEN, Slice, AnyCommand, LongestCommand, Expected

LEMMA Joined ==
  ASSUME NEW s \in Seq(Byte), NEW t \in Seq(Byte)
  PROVE  s \o t \in Seq(Byte) /\ Len(s \o t) = Len(s) + Len(t)
BY ConcatProperties

LEMMA JoinedFirst ==
  ASSUME NEW s \in Seq(Byte), NEW t \in Seq(Byte), NEW i \in 1..Len(s)
  PROVE  (s \o t)[i] = s[i]
BY ConcatProperties

LEMMA TwoAndTwo ==
  ASSUME NEW s \in Seq(Byte), NEW t \in Seq(Byte), Len(s) = 2, Len(t) = 2
  PROVE  (s \o t)[2] = s[2] /\ (s \o t)[3] = t[1] /\ (s \o t)[4] = t[2]
BY ConcatProperties

LEMMA Packets ==
  ASSUME NEW n \in Nat, n >= 3, n <= 1794
  PROVE  Ceil7(n - 2) \in 1..256
BY SMT DEF Ceil7

LEMMA PacketId ==
  ASSUME NEW a \in Byte, NEW n \in 1..256
  PROVE  a * 256 + (n - 1) \in ExtId
BY SMT DEF Byte, ExtId

LEMMA TwoBytes ==
  ASSUME NEW n \in Nat, n <= 1794
  PROVE  n \div 256 \in Byte /\ n % 256 \in Byte
BY SMT DEF Byte

LEMMA Recombined ==
  ASSUME NEW n \in Nat, NEW q, q = n \div 256, NEW r, r = n % 256
  PROVE  q * 256 + r = n
BY SMT

\* The frames of a command: 256 at most, so that their number stays in its byte
\* of the id, with one to eight bytes each.
LEMMA CommandFrames ==
  ASSUME NEW cmd \in AnyCommand
  PROVE  /\ Len(FramesOf(cmd)) \in Nat /\ Len(FramesOf(cmd)) >= 1 /\ Len(FramesOf(cmd)) <= 256
         /\ \A n \in 1..Len(FramesOf(cmd)) : FramesOf(cmd)[n] \in Frame
<1> DEFINE L == Len(cmd)
           num == Ceil7(L - 2)
<1>1. L \in Nat /\ L >= 3 /\ L <= 1794 /\ cmd \in Seq(Byte)
  BY DEF AnyCommand, LongestCommand
<1>2. num \in 1..256 /\ ~(L < 2)
  <2> HIDE DEF L
  <2> QED
    BY <1>1, Packets
<1>3. /\ FramesOf(cmd) =
           [n \in 1..num |->
              [ext_id |-> cmd[1] * 256 + (n - 1),
               data   |-> <<cmd[2]>> \o SubSeq(cmd, 7 * n - 4, Least(7 * n + 2, L))]]
  BY <1>2 DEF FramesOf
<1>4. Len(FramesOf(cmd)) = num
  <2> HIDE DEF num
  <2> QED
    BY <1>2, <1>3
<1>5. ASSUME NEW n \in 1..num
      PROVE  FramesOf(cmd)[n] \in Frame
  <2> DEFINE first == 7 * n - 4
             last == Least(7 * n + 2, L)
             part == SubSeq(cmd, first, last)
             id == cmd[1] * 256 + (n - 1)
  <2>1. cmd[1] \in Byte /\ cmd[2] \in Byte
    BY <1>1
  <2>2. id \in ExtId
    <3>1. n \in 1..256
      <4> HIDE DEF num
      <4> QED
        BY <1>2
    <3> QED
      BY <2>1, <3>1, PacketId
  <2>3. first \in Int /\ last \in Int /\ first >= 3 /\ last <= L /\ first <= last + 1
        /\ last - first <= 6 /\ first <= L
    BY <1>1, <1>2 DEF Least, Ceil7
  <2>4. \A i \in first..last : cmd[i] \in Byte
    BY <1>1, <2>3
  <2>5. part \in Seq(Byte) /\ Len(part) \in Nat /\ Len(part) <= 7
    <3> HIDE DEF first, last
    <3> QED
      BY <2>3, <2>4, SubSeqProperties
  <2>6. <<cmd[2]>> \o part \in Data
    <3> HIDE DEF part
    <3>1. <<cmd[2]>> \in Seq(Byte) /\ Len(<<cmd[2]>>) = 1
      BY <2>1
    <3> QED
      BY <2>5, <3>1 DEF Data
  <2>7. FramesOf(cmd)[n] = [ext_id |-> id, data |-> <<cmd[2]>> \o part]
    BY <1>3
  <2> HIDE DEF part, id, first, last
  <2> QED
    BY <2>2, <2>6, <2>7 DEF Frame
<1>6. num \in Nat /\ num >= 1 /\ num <= 256
  <2> HIDE DEF num
  <2> QED
    BY <1>2
<1> HIDE DEF num
<1> QED
  BY <1>4, <1>5, <1>6

\* A slice that has a frame is a command.
LEMMA Framed ==
  ASSUME NEW cmd \in Slice
  PROVE  /\ Len(FramesOf(cmd)) \in Nat
         /\ FramesOf(cmd) = <<>> \/ cmd \in AnyCommand
         /\ cmd \in AnyCommand => FramesOf(cmd) # <<>>
<1>1. CASE cmd \in AnyCommand
  BY <1>1, CommandFrames
<1>2. CASE cmd \notin AnyCommand
  <2>1. cmd \in Seq(Byte) /\ Len(cmd) <= 2 /\ Len(cmd) \in Nat
    <3>1. cmd \in Seq(Byte) /\ Len(cmd) <= 2
      BY <1>2 DEF Slice
    <3> QED
      BY <3>1, LenProperties
  <2>2. (IF Len(cmd) < 2 THEN 0 ELSE Ceil7(Len(cmd) - 2)) = 0
    <3>1. Ceil7(0) = 0
      BY DEF Ceil7
    <3>2. ASSUME NEW n \in Nat, n <= 2
          PROVE  (IF n < 2 THEN 0 ELSE Ceil7(n - 2)) = 0
      <4>1. CASE n = 2
        BY <3>1, <4>1
      <4> QED
        BY <3>2, <4>1
    <3> QED
      BY <2>1, <3>2
  <2>3. 1..(IF Len(cmd) < 2 THEN 0 ELSE Ceil7(Len(cmd) - 2)) = {}
    BY <2>2
  <2>4. FramesOf(cmd) = <<>>
    BY <2>3 DEF FramesOf
  <2> QED
    BY <1>2, <2>4
<1> QED
  BY <1>1, <1>2

LEMMA LoadKeeps ==
  ASSUME NEW buf \in Seq(Byte), Len(buf) <= MMCL_LEN, NEW cmd \in AnyCommand
  PROVE  Load(buf, cmd) \in Seq(Byte) /\ Len(Load(buf, cmd)) <= MMCL_LEN
<1> DEFINE room == Least(Len(cmd), MMCL_LEN - Len(buf))
           part == SubSeq(cmd, 1, room)
<1>1. cmd \in Seq(Byte) /\ Len(cmd) \in Nat /\ Len(buf) \in Nat
  BY DEF AnyCommand
<1>2. room \in Nat /\ room <= Len(cmd) /\ room <= MMCL_LEN - Len(buf)
  BY <1>1, Limits DEF Least
<1> HIDE DEF room
<1>3. part \in Seq(Byte) /\ Len(part) = room
  BY <1>1, <1>2
<1> HIDE DEF part
<1>4. Len(buf \o part) = Len(buf) + room /\ buf \o part \in Seq(Byte)
  BY <1>1, <1>3
<1>5. Load(buf, cmd) = buf \o part
  BY DEF Load, part, room
<1> QED
  BY <1>1, <1>2, <1>4, <1>5, Limits

LEMMA BatchIsCommand ==
  ASSUME NEW buf \in Seq(Byte), buf # <<>>, Len(buf) <= MMCL_LEN
  PROVE  Batch(0, buf) \in AnyCommand
<1> DEFINE head == <<0, \hAA>>
           size == Be16(Len(buf) + 5)
           end == <<CHECK>>
<1>1. Len(buf) \in Nat /\ Len(buf) <= 1789
  BY Limits
<1>2. head \in Seq(Byte) /\ Len(head) = 2
  BY DEF Byte
<1>3. size \in Seq(Byte) /\ Len(size) = 2
  <2> DEFINE high == (Len(buf) + 5) \div 256
             low == (Len(buf) + 5) % 256
  <2>1. high \in Byte /\ low \in Byte
    BY <1>1, TwoBytes
  <2>2. size = <<high, low>>
    BY DEF Be16
  <2> HIDE DEF high, low, size
  <2> QED
    BY <2>1, <2>2
<1>4. end \in Seq(Byte) /\ Len(end) = 1
  BY DEF CHECK, Byte
<1>5. Batch(0, buf) = ((head \o size) \o buf) \o end
  BY DEF Batch
<1> HIDE DEF head, size, end
<1>6. head \o size \in Seq(Byte) /\ Len(head \o size) = Len(head) + Len(size)
  BY <1>2, <1>3, Joined
<1>7. /\ (head \o size) \o buf \in Seq(Byte)
      /\ Len((head \o size) \o buf) = Len(head \o size) + Len(buf)
  BY <1>6, Joined
<1>8. /\ Batch(0, buf) \in Seq(Byte)
      /\ Len(Batch(0, buf)) = Len((head \o size) \o buf) + Len(end)
  BY <1>4, <1>5, <1>7, Joined
<1>9. Len(Batch(0, buf)) = 5 + Len(buf)
  BY <1>1, <1>2, <1>3, <1>4, <1>6, <1>7, <1>8
<1>10. Expected(Batch(0, buf)) = Len(buf) + 5
  <2> HIDE DEF head, size, end
  <2>1. /\ (head \o size)[2] = \hAA
        /\ (head \o size)[3] = (Len(buf) + 5) \div 256
        /\ (head \o size)[4] = (Len(buf) + 5) % 256
    <3>1. head[2] = \hAA
      BY DEF head
    <3>2. size[1] = (Len(buf) + 5) \div 256 /\ size[2] = (Len(buf) + 5) % 256
      BY DEF size, Be16
    <3>3. /\ (head \o size)[2] = head[2]
          /\ (head \o size)[3] = size[1] /\ (head \o size)[4] = size[2]
      BY <1>2, <1>3, TwoAndTwo
    <3> QED
      BY <3>1, <3>2, <3>3
  <2>2. ASSUME NEW i \in 1..4
        PROVE  Batch(0, buf)[i] = (head \o size)[i]
    <3> DEFINE first == head \o size
               both == first \o buf
    <3>1. first \in Seq(Byte) /\ Len(first) = 4
      BY <1>2, <1>3, <1>6
    <3>2. both \in Seq(Byte) /\ Len(both) = 4 + Len(buf)
      BY <1>1, <1>7, <3>1
    <3>3. Batch(0, buf) = both \o end
      BY <1>5
    <3> HIDE DEF first
    <3>4. i \in 1..Len(first)
      BY <3>1
    <3>5. both[i] = first[i]
      BY <3>1, <3>4, JoinedFirst
    <3> HIDE DEF both
    <3>6. i \in 1..Len(both)
      BY <1>1, <3>2
    <3>7. (both \o end)[i] = both[i]
      BY <1>4, <3>2, <3>6, JoinedFirst
    <3> QED
      BY <3>3, <3>5, <3>7 DEF first
  <2> DEFINE start == head \o size
             batch == Batch(0, buf)
  <2>3. \A i \in 1..4 : batch[i] = start[i]
    BY <2>2
  <2> HIDE DEF start, batch
  <2>4. batch[2] = start[2] /\ batch[3] = start[3] /\ batch[4] = start[4]
    BY <2>3
  <2>5. ((Len(buf) + 5) \div 256) * 256 + ((Len(buf) + 5) % 256) = Len(buf) + 5
    BY <1>1, Recombined
  <2> QED
    BY <2>1, <2>4, <2>5 DEF Expected, start, batch
<1>11. Batch(0, buf) \in Seq(Byte) /\ Len(Batch(0, buf)) = 5 + Len(buf)
  BY <1>8, <1>9
<1> QED
  BY <1>1, <1>10, <1>11 DEF AnyCommand, LongestCommand

-----------------------------------------------------------------------------
(* Types of what the steps make.                                           *)

LEMMA Address ==
  ASSUME NEW id \in ExtId
  PROVE  id \div 256 \in Byte /\ id % 256 \in Nat
BY SMT DEF ExtId, Byte

LEMMA SixteenBits ==
  ASSUME NEW id \in ExtId
  PROVE  id < 65536
BY SMT DEF ExtId

\* What a motor has of a command begins with the address in the frame's id.
LEMMA Assembled ==
  ASSUME NEW bytes \in Seq(Byte), NEW f \in Frame
  PROVE  /\ Assemble(bytes, f) \in Seq(Byte)
         /\ Assemble(bytes, f) # <<>> => Assemble(bytes, f)[1] = f.ext_id \div 256
<1> DEFINE addr == f.ext_id \div 256
           pack == f.ext_id % 256
<1>1. f.ext_id \in ExtId /\ f.data \in Seq(Byte) /\ f.data # <<>>
  BY DEF Frame, Data
<1>2. addr \in Byte
  BY <1>1, Address
<1>3. CASE pack = 0
  <2>1. Assemble(bytes, f) = <<addr>> \o f.data
    BY <1>3 DEF Assemble
  <2> HIDE DEF addr
  <2>2. <<addr>> \in Seq(Byte) /\ Len(<<addr>>) = 1 /\ <<addr>>[1] = addr
    BY <1>2
  <2>3. (<<addr>> \o f.data)[1] = <<addr>>[1] /\ <<addr>> \o f.data \in Seq(Byte)
    BY <1>1, <2>2, ConcatProperties
  <2> QED
    BY <2>1, <2>2, <2>3 DEF addr
<1>4. CASE /\ pack # 0
           /\ bytes # <<>> /\ SubSeq(bytes, 1, 2) = <<addr, Head(f.data)>>
           /\ Len(bytes) = 7 * pack + 2
  <2>1. Assemble(bytes, f) = bytes \o Tail(f.data)
    BY <1>4 DEF Assemble
  <2>2. Tail(f.data) \in Seq(Byte)
    BY <1>1
  <2>3. pack \in Nat
    BY <1>1, Address
  <2>4. Len(bytes) >= 2
    <3> HIDE DEF pack
    <3> QED
      BY <1>4, <2>3
  <2>5. bytes[1] = addr
    <3> HIDE DEF addr, pack
    <3>1. SubSeq(bytes, 1, 2)[1] = bytes[1]
      BY <2>4
    <3>2. SubSeq(bytes, 1, 2) = <<addr, Head(f.data)>>
      BY <1>4
    <3>3. <<addr, Head(f.data)>>[1] = addr
      OBVIOUS
    <3> QED
      BY <3>1, <3>2, <3>3
  <2>6. (bytes \o Tail(f.data))[1] = bytes[1] /\ bytes \o Tail(f.data) \in Seq(Byte)
    BY <2>2, <2>4, ConcatProperties
  <2> QED
    BY <2>1, <2>5, <2>6
<1>5. CASE /\ pack # 0
           /\ ~(/\ bytes # <<>> /\ SubSeq(bytes, 1, 2) = <<addr, Head(f.data)>>
                /\ Len(bytes) = 7 * pack + 2)
  BY <1>5 DEF Assemble
<1> QED
  BY <1>3, <1>4, <1>5

LEMMA AnswersTyped ==
  ASSUME NEW a, NEW bytes, NEW k \in Nat
  PROVE  /\ Answers(a, bytes, k) \in Seq(Part(a))
         /\ \A n \in DOMAIN Answers(a, bytes, k) :
              /\ Answers(a, bytes, k)[n].of = k /\ Answers(a, bytes, k)[n].part = n
              /\ Answers(a, bytes, k)[n].from = a
         /\ DOMAIN Answers(a, bytes, k) \subseteq {1, 2}
         /\ bytes[1] # a => Answers(a, bytes, k) = <<>>
<1> DEFINE num == IF bytes[2] = \h43 THEN 2 ELSE 1
           parts == [n \in 1..num |-> [from |-> a, of |-> k, part |-> n]]
<1>1. num \in {1, 2}
  OBVIOUS
<1> HIDE DEF num
<1>2. 1..num \subseteq {1, 2}
  BY <1>1
<1>3. \A n \in 1..num :
        parts[n] \in Part(a) /\ parts[n].of = k /\ parts[n].part = n /\ parts[n].from = a
  BY <1>2 DEF Part
<1>4. parts \in Seq(Part(a)) /\ DOMAIN parts = 1..num
  BY <1>1, <1>3
<1>5. Answers(a, bytes, k) = IF bytes[1] # a THEN <<>> ELSE parts
  BY DEF Answers, num
<1> HIDE DEF parts
<1> QED
  BY <1>2, <1>3, <1>4, <1>5

-----------------------------------------------------------------------------
(* Typed is inductive: a lemma for each group of steps.                    *)

LEMMA InitTyped == Init => Typed
BY Limits DEF Init, Idle, Typed, PackingOK, CallOK, BusOK, CallState

LEMMA LoadTyped ==
  ASSUME Typed, \E c \in Menus[menu].loads : LoadCommand(c)
  PROVE  Typed'
<1>1. PICK c \in Menus[menu].loads : LoadCommand(c)
  OBVIOUS
<1>2. c \in AnyCommand
  BY MenuCommands DEF Typed, PackingOK
<1>3. txn' \in Seq(Byte) /\ Len(txn') <= MMCL_LEN
  BY <1>1, <1>2, LoadKeeps DEF LoadCommand, Typed, PackingOK
<1>4. loads' \in Seq(Loaded)
  <2> DEFINE new == [at |-> Len(txn), cmd |-> c]
  <2>1. new \in Loaded
    BY <1>2 DEF AnyCommand, Loaded, Typed, PackingOK
  <2>2. loads' = Append(loads, new) /\ loads \in Seq(Loaded)
    BY <1>1 DEF LoadCommand, Typed, PackingOK
  <2> HIDE DEF new
  <2> QED
    BY <2>1, <2>2
<1>5. PackingOK'
  BY <1>1, <1>3, <1>4 DEF LoadCommand, Typed, PackingOK
<1>6. CallOK'
  BY <1>1 DEF LoadCommand, Typed, CallOK, Cmd, This
<1>7. BusOK'
  BY <1>1 DEF LoadCommand, motors, Typed, BusOK
<1> QED
  BY <1>5, <1>6, <1>7 DEF Typed

LEMMA StartTyped ==
  ASSUME Typed, NEW kind \in {"send", "poll", "await"}, NEW cmd \in Slice,
         NEW loaded \in Seq(Loaded), Start(kind, cmd, loaded)
  PROVE  CallOK' /\ BusOK' /\ Cmd' = cmd
<1> DEFINE new == [kind |-> kind, cmd |-> cmd, loads |-> loaded, whole |-> FALSE]
<1>1. new \in Issue
  BY DEF Issue
<1>2. issued \in Seq(Issue) /\ issued' = Append(issued, new)
  BY DEF Typed, CallOK, Start
<1> HIDE DEF new
<1>3. /\ issued' \in Seq(Issue) /\ Len(issued') = Len(issued) + 1 /\ Len(issued) \in Nat
      /\ issued'[Len(issued')] = new
  BY <1>1, <1>2
<1>4. Cmd' = cmd
  BY <1>3 DEF Cmd, This, new
<1>5. call' \in CallState /\ call'.sent = 0
  <2>1. AfterSend(kind, cmd) \in {"idle", "waiting"}
    BY DEF AfterSend
  <2> QED
    BY <2>1, Limits DEF Start, CallState
<1>6. call'.at = "sending" => FramesOf(cmd) # <<>>
  BY DEF Start, AfterSend
<1>7. CallOK'
  <2>1. call'.at = "sending" => call'.sent < Len(FramesOf(cmd))
    BY <1>5, <1>6, Framed, CommandFrames
  <2> QED
    BY <1>3, <1>4, <1>5, <2>1 DEF CallOK
<1>8. BusOK'
  BY DEF Start, motors, Typed, BusOK
<1> QED
  BY <1>4, <1>7, <1>8

LEMMA CallTyped ==
  ASSUME Typed, \E c \in Menus[menu].commands, kind \in Menus[menu].kinds : Call(kind, c)
  PROVE  Typed'
<1>1. PICK c \in Menus[menu].commands, kind \in Menus[menu].kinds : Call(kind, c)
  OBVIOUS
<1>2. c \in Slice /\ kind \in {"send", "poll", "await"}
  BY MenuCommands DEF Typed, PackingOK
<1>3. CallOK' /\ BusOK'
  <2>1. Start(kind, c, <<>>)
    BY <1>1 DEF Call
  <2>2. <<>> \in Seq(Loaded)
    OBVIOUS
  <2> QED
    BY <1>2, <2>1, <2>2, StartTyped
<1>4. PackingOK'
  BY <1>1 DEF Call, Start, Typed, PackingOK
<1> QED
  BY <1>3, <1>4 DEF Typed

LEMMA CommitTyped ==
  ASSUME Typed, CommitAndSend
  PROVE  Typed'
<1>1. Batch(0, txn) \in AnyCommand /\ loads \in Seq(Loaded)
  BY BatchIsCommand DEF CommitAndSend, Typed, PackingOK
<1>2. CallOK' /\ BusOK'
  BY <1>1, StartTyped DEF CommitAndSend, Slice
<1>3. PackingOK'
  BY Limits DEF CommitAndSend, Start, Typed, PackingOK
<1> QED
  BY <1>2, <1>3 DEF Typed

LEMMA SendFrameTyped ==
  ASSUME Typed, SendFrame
  PROVE  /\ Typed'
         /\ Cmd' = Cmd /\ This' = This /\ This \in Nat
         /\ \E f \in Frame : toMotors' = Append(toMotors, [frame |-> f, call |-> This])
<1> DEFINE n == call.sent + 1
           last == n = Len(FramesOf(Cmd))
           f == FramesOf(Cmd)[n]
<1>1. /\ issued \in Seq(Issue) /\ This \in Nat /\ This >= 1
      /\ call \in CallState /\ call.sent < Len(FramesOf(Cmd))
  BY DEF SendFrame, Typed, CallOK, This
<1>2. issued[This] \in Issue /\ Cmd \in AnyCommand
  <2>1. issued[This] \in Issue
    BY <1>1 DEF This
  <2>2. Cmd \in Slice
    BY <2>1 DEF Cmd, Issue
  <2>3. FramesOf(Cmd) # <<>>
    BY <1>1, <2>2, Framed DEF CallState
  <2> QED
    BY <2>1, <2>2, <2>3, Framed
<1>3. /\ issued' = [issued EXCEPT ![This].whole = last]
      /\ toMotors' = Append(toMotors, [frame |-> f, call |-> This])
      /\ call' = [call EXCEPT !.sent = n,
                     !.at = IF last THEN AfterSend(Kind, Cmd) ELSE "sending"]
  BY DEF SendFrame
<1>4. call.sent \in Nat /\ n \in 1..Len(FramesOf(Cmd))
  BY <1>1, <1>2, CommandFrames DEF CallState
<1>5. f \in Frame
  BY <1>2, <1>4, CommandFrames
<1> HIDE DEF f
<1>6. /\ issued' \in Seq(Issue) /\ Len(issued') = Len(issued)
      /\ issued'[This].cmd = issued[This].cmd
  <2> DEFINE new == [issued[This] EXCEPT !.whole = last]
  <2>1. new \in Issue /\ new.cmd = issued[This].cmd
    BY <1>2 DEF Issue
  <2>2. issued' = [issued EXCEPT ![This] = new]
    BY <1>3
  <2>3. This \in 1..Len(issued)
    BY <1>1 DEF This
  <2> HIDE DEF new
  <2>4. issued' \in Seq(Issue) /\ Len(issued') = Len(issued)
    BY <1>1, <2>1, <2>2, <2>3, ExceptSeq
  <2>5. issued'[This] = new
    BY <1>1, <2>2, <2>3
  <2> QED
    BY <2>1, <2>4, <2>5
<1>7. Cmd' = Cmd /\ This' = This
  BY <1>6 DEF Cmd, This
<1>8. CallOK'
  <2>1. call' \in CallState
    <3> DEFINE next == IF last THEN AfterSend(Kind, Cmd) ELSE "sending"
    <3>1. next \in {"idle", "sending", "waiting"}
      BY DEF AfterSend
    <3>2. call' = [call EXCEPT !.sent = n, !.at = next]
      BY <1>3
    <3>3. n \in Nat
      BY <1>4
    <3> HIDE DEF next, n
    <3> QED
      BY <1>1, <3>1, <3>2, <3>3 DEF CallState
  <2>2. Len(issued') > 0
    BY <1>1, <1>6 DEF This
  <2>3. call'.at = "sending" => call'.sent < Len(FramesOf(Cmd))
    <3>1. call'.sent = n
      BY <1>1, <1>3 DEF CallState
    <3>2. call'.at = "sending" => ~last
      BY <1>1, <1>3 DEF CallState, AfterSend
    <3> QED
      BY <1>2, <1>4, <3>1, <3>2, CommandFrames
  <2> QED
    BY <1>6, <1>7, <2>1, <2>2, <2>3 DEF CallOK
<1>9. BusOK'
  <2>1. [frame |-> f, call |-> This] \in Sent
    BY <1>1, <1>5 DEF Sent
  <2>2. toMotors' \in Seq(Sent)
    BY <1>3, <2>1 DEF Typed, BusOK
  <2> QED
    BY <2>2 DEF SendFrame, motors, Typed, BusOK
<1>10. PackingOK'
  BY DEF SendFrame, packing, Typed, PackingOK
<1> QED
  BY <1>1, <1>3, <1>5, <1>7, <1>8, <1>9, <1>10 DEF Typed

\* The steps of a call that leave the frames to the motors alone.
LEMMA WaitTyped ==
  ASSUME Typed, TakeFrame \/ PollNothing \/ PollsUsedUp \/ Abandon
  PROVE  Typed' /\ issued' = issued
<1>1. call \in CallState /\ PollLimit \in Nat
  BY Limits DEF Typed, CallOK
<1>2. Idle \in CallState /\ Idle.at = "idle"
  BY <1>1 DEF Idle, CallState
<1>3. ASSUME TakeFrame
      PROVE  Typed' /\ issued' = issued
  <2>1. Head(toCaller) \in Heard /\ Tail(toCaller) \in Seq(Heard)
    BY <1>3 DEF TakeFrame, Typed, BusOK
  <2>2. This \in Nat
    BY DEF Typed, CallOK, This
  <2>3. got' \in Seq(Got)
    <3> DEFINE new == [call |-> This, from |-> Head(toCaller).from, of |-> Head(toCaller).of,
                       part |-> Head(toCaller).part, fresh |-> call.fresh]
    <3>1. new \in Got
      BY <1>1, <2>1, <2>2 DEF Got, Heard, CallState
    <3>2. got' = Append(got, new) \/ got' = got
      BY <1>3 DEF TakeFrame
    <3>3. got \in Seq(Got)
      BY DEF Typed, BusOK
    <3> HIDE DEF new
    <3>4. Append(got, new) \in Seq(Got)
      BY <3>1, <3>3
    <3> QED
      BY <3>2, <3>3, <3>4
  <2>4. call' \in CallState /\ (call'.at = "idle" \/ call'.at = "waiting")
    <3>1. CASE call' = Idle
      BY <1>2, <3>1
    <3>2. CASE call' = [call EXCEPT !.polls = @ - 1] /\ call.polls > 0
      BY <1>1, <1>3, <3>2 DEF TakeFrame, CallState
    <3>3. CASE call' = [call EXCEPT !.polls = @]
      BY <1>1, <1>3, <3>3 DEF TakeFrame, CallState
    <3> QED
      BY <1>3, <3>1, <3>2, <3>3 DEF TakeFrame
  <2>5. issued' = issued /\ call.at = "waiting"
    BY <1>3 DEF TakeFrame
  <2>6. CallOK'
    BY <2>4, <2>5 DEF Typed, CallOK
  <2>7. BusOK'
    BY <1>3, <2>1, <2>3 DEF TakeFrame, ReceiveFrame, motors, Typed, BusOK
  <2>8. PackingOK'
    BY <1>3 DEF TakeFrame, packing, Typed, PackingOK
  <2> QED
    BY <2>5, <2>6, <2>7, <2>8 DEF Typed
<1>4. ASSUME PollNothing \/ PollsUsedUp \/ Abandon
      PROVE  Typed' /\ issued' = issued
  <2>1. UNCHANGED <<packing, issued, toMotors, motors, toCaller, got>> /\ call.at # "idle"
    BY <1>4 DEF PollNothing, PollsUsedUp, Abandon
  <2>2. call' \in CallState /\ (call'.at = "idle" \/ call'.at = "waiting")
    <3>1. CASE PollNothing
      BY <1>1, <3>1 DEF PollNothing, CallState
    <3>2. CASE PollsUsedUp \/ Abandon
      BY <1>2, <3>2 DEF PollsUsedUp, Abandon
    <3> QED
      BY <1>4, <3>1, <3>2
  <2>3. CallOK'
    BY <2>1, <2>2 DEF Typed, CallOK
  <2> QED
    BY <2>1, <2>3 DEF packing, motors, Typed, PackingOK, BusOK
<1> QED
  BY <1>3, <1>4

LEMMA ReadOnTyped ==
  ASSUME Typed, ReadOn
  PROVE  Typed'
<1>1. Tail(toCaller) \in Seq(Heard)
  BY DEF ReadOn, Typed, BusOK
<1>2. BusOK'
  BY <1>1 DEF ReadOn, ReceiveFrame, motors, Typed, BusOK
<1>3. CallOK' /\ PackingOK'
  BY DEF ReadOn, packing, Typed, CallOK, PackingOK, Cmd, This
<1> QED
  BY <1>2, <1>3 DEF Typed

LEMMA PartsHeard ==
  ASSUME NEW a \in Motors
  PROVE  Part(a) \subseteq Heard /\ Seq(Part(a)) \subseteq Seq(Heard)
<1>1. Part(a) \subseteq Heard
  BY DEF Part, Heard
<1> QED
  BY <1>1

LEMMA DeliverTyped ==
  ASSUME Typed, DeliverFrame
  PROVE  Typed'
<1> DEFINE m == Head(toMotors)
           hears(a) == m.frame.ext_id \div 256 \in {0, a}
           now(a) == Assemble(partial[a], m.frame)
<1>1. m \in Sent /\ Tail(toMotors) \in Seq(Sent)
  BY DEF DeliverFrame, Typed, BusOK
<1>2. m.frame \in Frame /\ m.call \in Nat
  BY <1>1 DEF Sent
<1>3. \A a \in Motors : partial[a] \in Seq(Byte) /\ now(a) \in Seq(Byte)
  BY <1>2, Assembled DEF Typed, BusOK
<1>4. /\ partial' = [a \in Motors |-> IF ~hears(a) THEN partial[a]
                                      ELSE IF Complete(now(a)) THEN <<>> ELSE now(a)]
      /\ taken' = [a \in Motors |->
           IF hears(a) /\ Complete(now(a))
           THEN Append(taken[a], [call |-> m.call, cmd |-> now(a)]) ELSE taken[a]]
      /\ todo' = [a \in Motors |-> IF hears(a) /\ Complete(now(a))
                                   THEN todo[a] \o Answers(a, now(a), m.call) ELSE todo[a]]
      /\ toMotors' = Tail(toMotors)
      /\ UNCHANGED <<packing, issued, call, toCaller, got, reports>>
  BY DEF DeliverFrame
<1> HIDE DEF now, hears, m
<1>5. partial' \in [Motors -> Seq(Byte)]
  BY <1>3, <1>4
<1>6. \A a \in Motors : todo[a] \o Answers(a, now(a), m.call) \in Seq(Part(a))
  BY <1>2, AnswersTyped, ConcatProperties DEF Typed, BusOK
<1>7. todo' \in [Motors -> Seq(Heard)] /\ \A a \in Motors : todo'[a] \in Seq(Part(a))
  <2>1. DOMAIN todo' = Motors /\ \A a \in Motors : todo'[a] \in Seq(Part(a))
    BY <1>4, <1>6 DEF Typed, BusOK
  <2>2. todo' = [a \in Motors |-> todo'[a]]
    BY <1>4
  <2> QED
    BY <2>1, <2>2, PartsHeard
<1>8. taken' \in [Motors -> Seq(Took)]
  <2>1. \A a \in Motors : [call |-> m.call, cmd |-> now(a)] \in Took
    BY <1>2, <1>3 DEF Took
  <2> QED
    BY <1>4, <2>1 DEF Typed, BusOK
<1>9. BusOK'
  BY <1>1, <1>4, <1>5, <1>7, <1>8 DEF Typed, BusOK
<1>10. PackingOK' /\ CallOK'
  BY <1>4 DEF packing, Typed, CallOK, PackingOK, Cmd, This
<1> QED
  BY <1>9, <1>10 DEF Typed

LEMMA AnswerTyped ==
  ASSUME Typed, \E a \in Motors : Reply(a) \/ Report(a)
  PROVE  Typed'
<1>1. PICK a \in Motors : Reply(a) \/ Report(a)
  OBVIOUS
<1>2. /\ UNCHANGED <<packing, issued, call, toMotors, partial, taken, got>>
  BY <1>1 DEF Reply, Report, motors
<1>3. todo' \in [Motors -> Seq(Heard)] /\ \A b \in Motors : todo'[b] \in Seq(Part(b))
  <2>1. CASE Reply(a)
    <3>1. todo[a] \in Seq(Part(a)) /\ todo[a] # <<>>
      BY <2>1 DEF Reply, Typed, BusOK
    <3>2. Tail(todo[a]) \in Seq(Part(a))
      BY <3>1
    <3>3. Tail(todo[a]) \in Seq(Heard)
      BY <3>2, PartsHeard
    <3> QED
      BY <2>1, <3>2, <3>3 DEF Reply, Typed, BusOK
  <2>2. CASE Report(a)
    BY <2>2 DEF Report, motors, Typed, BusOK
  <2> QED
    BY <1>1, <2>1, <2>2
<1>4. toCaller' \in Seq(Heard)
  <2>1. CASE Reply(a)
    <3>1. todo[a] \in Seq(Heard) /\ todo[a] # <<>>
      BY <2>1 DEF Reply, Typed, BusOK
    <3>2. Head(todo[a]) \in Heard
      BY <3>1
    <3> QED
      BY <2>1, <3>2 DEF Reply, Typed, BusOK
  <2>2. CASE Report(a)
    <3>1. [from |-> a, of |-> 0, part |-> 0] \in Heard
      BY DEF Heard
    <3> QED
      BY <2>2, <3>1 DEF Report, Typed, BusOK
  <2> QED
    BY <1>1, <2>1, <2>2
<1>5. BusOK'
  BY <1>2, <1>3, <1>4 DEF Typed, BusOK
<1>6. PackingOK' /\ CallOK'
  BY <1>2 DEF packing, Typed, CallOK, PackingOK, Cmd, This
<1> QED
  BY <1>5, <1>6 DEF Typed

LEMMA NextTyped ==
  ASSUME Typed, [Next]_vars
  PROVE  Typed'
<1>1. CASE UNCHANGED vars
  BY <1>1 DEF vars, packing, motors, Typed, PackingOK, CallOK, BusOK, Cmd, This
<1>2. CASE Caller
  BY <1>2, CallTyped, LoadTyped, CommitTyped, WaitTyped, ReadOnTyped DEF Caller
<1>3. CASE CallStep
  BY <1>3, SendFrameTyped, WaitTyped DEF CallStep
<1>4. CASE DeliverFrame
  BY <1>4, DeliverTyped
<1>5. CASE \E a \in Motors : Reply(a) \/ Report(a)
  BY <1>5, AnswerTyped
<1> QED
  BY <1>1, <1>2, <1>3, <1>4, <1>5 DEF Next

LEMMA AlwaysTyped == Spec => []Typed
<1>1. Init => Typed
  BY InitTyped
<1>2. Typed /\ [Next]_vars => Typed'
  BY NextTyped
<1> QED
  BY <1>1, <1>2, PTL DEF Spec

\* What is on the bus fits it: frames of one to eight bytes with ids of 16 bits,
\* the number of the packet in its byte, for every command there can be; and no
\* transaction outgrows its buffer (send_cmd and Transaction::load).
THEOREM TypeCorrect == Spec => []TypeOK
<1>1. Typed => TypeOK
  <2> SUFFICES ASSUME Typed
               PROVE  TypeOK
    OBVIOUS
  <2>1. \A i \in DOMAIN issued : issued[i].cmd \in Seq(Byte)
    <3>1. \A i \in DOMAIN issued : issued[i] \in Issue
      BY DEF Typed, CallOK
    <3> QED
      BY <3>1 DEF Issue, Slice, AnyCommand
  <2>2. ASSUME NEW i \in DOMAIN toMotors
        PROVE  /\ toMotors[i].frame.ext_id < 65536
               /\ toMotors[i].frame.data # <<>> /\ Len(toMotors[i].frame.data) <= 8
    <3>1. toMotors[i] \in Sent
      BY DEF Typed, BusOK
    <3>2. toMotors[i].frame \in Frame
      BY <3>1 DEF Sent
    <3>3. toMotors[i].frame.ext_id \in ExtId /\ toMotors[i].frame.data \in Data
      BY <3>2 DEF Frame
    <3>4. toMotors[i].frame.ext_id < 65536
      BY <3>3, SixteenBits
    <3>5. toMotors[i].frame.data # <<>> /\ Len(toMotors[i].frame.data) <= 8
      BY <3>3 DEF Data
    <3> QED
      BY <3>4, <3>5
  <2>3. \A a \in Motors : partial[a] \in Seq(Byte)
    BY DEF Typed, BusOK
  <2>4. /\ menu \in DOMAIN Menus /\ txn \in Seq(Byte) /\ Len(txn) <= MMCL_LEN
        /\ call.at \in {"idle", "sending", "waiting"} /\ call.sent \in Nat
        /\ call.polls \in 0..PollLimit
    BY DEF Typed, PackingOK, CallOK, CallState
  <2> QED
    BY <2>1, <2>2, <2>3, <2>4 DEF TypeOK
<1> QED
  BY <1>1, AlwaysTyped, PTL

-----------------------------------------------------------------------------
(* Whose answers there are.  FreshAnswerIsOwn alone is not inductive: while *)
(* a call that began on a quiet line goes on, all that is under way to or   *)
(* from its motor belongs to it.                                            *)

OwnAnswers(a) ==
  /\ \A i \in DOMAIN toCaller :
       toCaller[i].from = a /\ toCaller[i].of # 0 => toCaller[i].of = This
  /\ \A i \in DOMAIN todo[a] : todo[a][i].of = This
OwnFrames(a) ==
  \A i \in DOMAIN toMotors :
    toMotors[i].frame.ext_id \div 256 = a => toMotors[i].call = This
Quiet ==
  call.at # "idle" /\ call.fresh =>
    Cmd[1] \in Motors /\ OwnAnswers(Cmd[1]) /\ OwnFrames(Cmd[1])
Matched ==
  \A i \in DOMAIN got :
    /\ got[i].call \in DOMAIN issued
    /\ got[i].from = issued[got[i].call].cmd[1]
    /\ got[i].of # 0 /\ got[i].fresh => got[i].of = got[i].call
Fresh == Quiet /\ Matched

LEMMA StartFresh ==
  ASSUME Typed, Fresh, NEW kind \in {"send", "poll", "await"}, NEW cmd \in Slice,
         NEW loaded \in Seq(Loaded), Start(kind, cmd, loaded)
  PROVE  Fresh'
<1> DEFINE new == [kind |-> kind, cmd |-> cmd, loads |-> loaded, whole |-> FALSE]
<1>1. Cmd' = cmd
  BY StartTyped
<1>2. call'.fresh => cmd[1] \in Motors /\ ~Outstanding(cmd[1])
  BY DEF Start
<1>3. UNCHANGED <<toMotors, todo, toCaller, got>>
  BY DEF Start, motors
<1>4. /\ issued \in Seq(Issue) /\ issued' = Append(issued, new) /\ todo \in [Motors -> Seq(Heard)]
      /\ toCaller \in Seq(Heard) /\ toMotors \in Seq(Sent)
  BY DEF Typed, CallOK, BusOK, Start
<1>5. Quiet'
  <2> SUFFICES ASSUME call'.fresh
               PROVE  (Cmd[1] \in Motors /\ OwnAnswers(Cmd[1]) /\ OwnFrames(Cmd[1]))'
    BY DEF Quiet
  <2>1. cmd[1] \in Motors /\ ~Outstanding(cmd[1])
    BY <1>2
  <2>2. \A i \in DOMAIN toCaller : ~(toCaller[i].from = cmd[1] /\ toCaller[i].of # 0)
    BY <2>1 DEF Outstanding
  <2>3. todo[cmd[1]] = <<>>
    BY <2>1 DEF Outstanding
  <2>4. \A i \in DOMAIN toMotors : ~(toMotors[i].frame.ext_id \div 256 = cmd[1])
    BY <2>1 DEF Outstanding
  <2>5. OwnAnswers(Cmd[1])'
    BY <1>1, <1>3, <2>2, <2>3 DEF OwnAnswers
  <2>6. OwnFrames(Cmd[1])'
    BY <1>1, <1>3, <2>4 DEF OwnFrames
  <2> QED
    BY <1>1, <2>1, <2>5, <2>6
<1>6. \A k \in DOMAIN issued : k \in DOMAIN issued' /\ issued'[k] = issued[k]
  <2> HIDE DEF new
  <2>1. Len(issued') = Len(issued) + 1 /\ Len(issued) \in Nat
    BY <1>4
  <2> QED
    BY <1>4, <2>1
<1>7. Matched'
  BY <1>3, <1>6 DEF Fresh, Matched
<1> QED
  BY <1>5, <1>7 DEF Fresh

\* SendFrame keeps what was sent; the call is whole with its last frame.
LEMMA SendFrameIssued ==
  ASSUME Typed, SendFrame
  PROVE  /\ DOMAIN issued' = DOMAIN issued
         /\ \A k \in DOMAIN issued : /\ issued'[k].cmd = issued[k].cmd
                                     /\ issued'[k].loads = issued[k].loads
         /\ \A k \in DOMAIN issued : k # This => issued'[k] = issued[k]
         /\ issued'[This].whole = (call.sent + 1 = Len(FramesOf(Cmd)))
<1> DEFINE last == call.sent + 1 = Len(FramesOf(Cmd))
           new == [issued[This] EXCEPT !.whole = last]
<1>1. issued' = [issued EXCEPT ![This].whole = last]
  BY DEF SendFrame
<1>2. issued \in Seq(Issue) /\ This \in DOMAIN issued /\ issued[This] \in Issue
  BY DEF SendFrame, Typed, CallOK, This
<1> HIDE DEF last
<1>3. new.cmd = issued[This].cmd /\ new.loads = issued[This].loads /\ new.whole = last
  BY <1>2 DEF Issue
<1>4. /\ DOMAIN issued' = DOMAIN issued /\ issued'[This] = new
      /\ \A k \in DOMAIN issued : k # This => issued'[k] = issued[k]
  BY <1>1, <1>2
<1> HIDE DEF new
<1> QED
  BY <1>3, <1>4 DEF last

LEMMA SendFrameFresh ==
  ASSUME Typed, Fresh, SendFrame
  PROVE  Fresh'
<1>1. Cmd' = Cmd /\ This' = This /\ This \in Nat
  BY SendFrameTyped
<1>2. PICK f \in Frame : toMotors' = Append(toMotors, [frame |-> f, call |-> This])
  BY SendFrameTyped
<1>3. UNCHANGED <<todo, toCaller, got>> /\ call.at = "sending"
  BY DEF SendFrame, motors
<1>4. /\ issued \in Seq(Issue) /\ toMotors \in Seq(Sent) /\ call \in CallState
  BY DEF Typed, CallOK, BusOK
<1>5. call'.fresh = call.fresh
  BY <1>4 DEF SendFrame, CallState
<1>6. Quiet'
  <2> SUFFICES ASSUME call.fresh
               PROVE  (Cmd[1] \in Motors /\ OwnAnswers(Cmd[1]) /\ OwnFrames(Cmd[1]))'
    BY <1>5 DEF Quiet
  <2>1. Cmd[1] \in Motors /\ OwnAnswers(Cmd[1]) /\ OwnFrames(Cmd[1])
    BY <1>3 DEF Fresh, Quiet
  <2>2. OwnAnswers(Cmd[1])'
    BY <1>1, <1>3, <2>1 DEF OwnAnswers
  <2>3. OwnFrames(Cmd[1])'
    <3> DEFINE new == [frame |-> f, call |-> This]
    <3>1. new \in Sent /\ new.call = This
      BY <1>1 DEF Sent
    <3> HIDE DEF new
    <3>2. toMotors' = Append(toMotors, new)
      BY <1>2 DEF new
    <3>3. \A i \in DOMAIN toMotors' :
            (i \in DOMAIN toMotors /\ toMotors'[i] = toMotors[i]) \/ toMotors'[i] = new
      BY <1>4, <3>1, <3>2
    <3> QED
      BY <1>1, <2>1, <3>1, <3>3 DEF OwnFrames
  <2> QED
    BY <1>1, <2>1, <2>2, <2>3
<1>7. \A k \in DOMAIN issued : k \in DOMAIN issued' /\ issued'[k].cmd = issued[k].cmd
  BY SendFrameIssued
<1>8. Matched'
  BY <1>3, <1>7 DEF Fresh, Matched
<1> QED
  BY <1>6, <1>8 DEF Fresh

\* Taking the oldest frame leaves the others.
LEMMA Taken ==
  ASSUME Typed, toCaller # <<>>, ReceiveFrame, NEW i \in DOMAIN toCaller'
  PROVE  i + 1 \in DOMAIN toCaller /\ toCaller'[i] = toCaller[i + 1]
BY DEF Typed, BusOK, ReceiveFrame

LEMMA TakeFrameFresh ==
  ASSUME Typed, Fresh, TakeFrame
  PROVE  Fresh'
<1>1. UNCHANGED <<issued, toMotors, todo>> /\ ReceiveFrame /\ toCaller # <<>>
      /\ call.at = "waiting"
  BY DEF TakeFrame, motors
<1>2. call \in CallState /\ got \in Seq(Got) /\ toCaller \in Seq(Heard) /\ issued \in Seq(Issue)
      /\ Len(issued) > 0
  BY <1>1 DEF Typed, CallOK, BusOK
<1>3. call'.at # "idle" => call'.fresh = call.fresh
  <2>1. Idle.at = "idle"
    BY DEF Idle
  <2>2. call' = Idle \/ \E n : call' = [call EXCEPT !.polls = n]
    BY DEF TakeFrame
  <2> QED
    BY <1>2, <2>1, <2>2 DEF CallState
<1>4. Quiet'
  <2> SUFFICES ASSUME call.fresh
               PROVE  (Cmd[1] \in Motors /\ OwnAnswers(Cmd[1]) /\ OwnFrames(Cmd[1]))'
    BY <1>3 DEF Quiet
  <2>1. Cmd[1] \in Motors /\ OwnAnswers(Cmd[1]) /\ OwnFrames(Cmd[1])
    BY <1>1 DEF Fresh, Quiet
  <2>2. Cmd' = Cmd /\ This' = This
    BY <1>1 DEF Cmd, This
  <2>3. OwnAnswers(Cmd[1])'
    BY <1>1, <2>1, <2>2, Taken DEF OwnAnswers
  <2> QED
    BY <1>1, <2>1, <2>2, <2>3 DEF OwnFrames
<1>5. Matched'
  <2> DEFINE frame == Head(toCaller)
             new == [call |-> This, from |-> frame.from, of |-> frame.of, part |-> frame.part,
                     fresh |-> call.fresh]
  <2>1. CASE got' = got
    BY <1>1, <2>1 DEF Fresh, Matched
  <2>2. CASE FromMotor(frame) /\ got' = Append(got, new)
    <3>1. frame = toCaller[1] /\ 1 \in DOMAIN toCaller /\ frame \in Heard
      BY <1>1, <1>2
    <3>2. This \in DOMAIN issued /\ This \in Nat
      BY <1>2 DEF This
    <3>3. frame.from = issued[This].cmd[1]
      BY <2>2 DEF FromMotor, Cmd
    <3>4. frame.of # 0 /\ call.fresh => frame.of = This
      BY <1>1, <3>1, <3>3 DEF Fresh, Quiet, OwnAnswers, Cmd
    <3>5. new \in Got
      BY <1>2, <3>1, <3>2 DEF Got, Heard, CallState
    <3>6. /\ new.call = This /\ new.from = frame.from /\ new.of = frame.of
          /\ new.fresh = call.fresh
      OBVIOUS
    <3> HIDE DEF new, frame
    <3>7. \A i \in DOMAIN got' : (i \in DOMAIN got /\ got'[i] = got[i]) \/ got'[i] = new
      BY <1>2, <2>2, <3>5
    <3> QED
      BY <1>1, <3>2, <3>3, <3>4, <3>6, <3>7 DEF Fresh, Matched
  <2>3. got' = got \/ (FromMotor(frame) /\ got' = Append(got, new))
    <3>1. FromMotor(frame) => got' = Append(got, new)
      BY DEF TakeFrame
    <3>2. ~FromMotor(frame) => got' = got
      BY DEF TakeFrame
    <3> QED
      BY <3>1, <3>2 DEF FromMotor
  <2> QED
    BY <2>1, <2>2, <2>3
<1> QED
  BY <1>4, <1>5 DEF Fresh

\* The other ends of a call, and frames that are not for one.
LEMMA NoCallFresh ==
  ASSUME Typed, Fresh, PollNothing \/ PollsUsedUp \/ Abandon \/ ReadOn
                         \/ (\E c \in Menus[menu].loads : LoadCommand(c)) \/ UNCHANGED vars
  PROVE  Fresh'
<1>1. UNCHANGED <<issued, toMotors, todo, got>>
  BY DEF PollNothing, PollsUsedUp, Abandon, ReadOn, LoadCommand, motors, vars
<1>2. Matched'
  BY <1>1 DEF Fresh, Matched
<1>3. call \in CallState
  BY DEF Typed, CallOK
<1>4. Cmd' = Cmd /\ This' = This
  BY <1>1 DEF Cmd, This
<1>5. \/ call'.at = "idle"
      \/ UNCHANGED toCaller /\ call'.fresh = call.fresh /\ call'.at = call.at
  <2>1. CASE PollNothing
    BY <1>3, <2>1 DEF PollNothing, CallState
  <2>2. CASE PollsUsedUp \/ Abandon
    <3>1. Idle.at = "idle" /\ call' = Idle
      BY <2>2 DEF PollsUsedUp, Abandon, Idle
    <3> QED
      BY <3>1
  <2>3. CASE ReadOn \/ (\E c \in Menus[menu].loads : LoadCommand(c)) \/ UNCHANGED vars
    BY <2>3 DEF ReadOn, LoadCommand, vars
  <2> QED
    BY <2>1, <2>2, <2>3
<1>6. Quiet'
  BY <1>1, <1>4, <1>5 DEF Fresh, Quiet, OwnAnswers, OwnFrames
<1> QED
  BY <1>2, <1>6 DEF Fresh

\* A motor that answers has taken a command with its own address, whose last
\* frame is a frame to it: a broadcast begins with another address.
LEMMA DeliverFresh ==
  ASSUME Typed, Fresh, DeliverFrame
  PROVE  Fresh'
<1> DEFINE m == Head(toMotors)
           hears(a) == m.frame.ext_id \div 256 \in {0, a}
           now(a) == Assemble(partial[a], m.frame)
<1>1. toMotors \in Seq(Sent) /\ toMotors # <<>>
  BY DEF DeliverFrame, Typed, BusOK
<1>2. m = toMotors[1] /\ 1 \in DOMAIN toMotors /\ m.frame \in Frame /\ m.call \in Nat
  <2>1. m = toMotors[1] /\ 1 \in DOMAIN toMotors /\ m \in Sent
    BY <1>1
  <2> HIDE DEF m
  <2> QED
    BY <2>1 DEF Sent
<1>3. UNCHANGED <<issued, call, toCaller, got>> /\ toMotors' = Tail(toMotors)
  BY DEF DeliverFrame
<1>4. todo' = [a \in Motors |-> IF hears(a) /\ Complete(now(a))
                               THEN todo[a] \o Answers(a, now(a), m.call) ELSE todo[a]]
  BY DEF DeliverFrame
<1>5. todo \in [Motors -> Seq(Heard)] /\ partial \in [Motors -> Seq(Byte)]
  BY DEF Typed, BusOK
<1> HIDE DEF m, hears
<1>6. Cmd' = Cmd /\ This' = This
  BY <1>3 DEF Cmd, This
<1>7. Matched'
  BY <1>3 DEF Fresh, Matched
<1>8. Quiet'
  <2> DEFINE a == Cmd[1]
  <2> SUFFICES ASSUME call.at # "idle", call.fresh
               PROVE  (Cmd[1] \in Motors /\ OwnAnswers(Cmd[1]) /\ OwnFrames(Cmd[1]))'
    BY <1>3 DEF Quiet
  <2>1. a \in Motors /\ OwnAnswers(a) /\ OwnFrames(a)
    BY DEF Fresh, Quiet
  <2> HIDE DEF a
  <2>2. OwnFrames(a)'
    <3>1. \A i \in DOMAIN toMotors' : i + 1 \in DOMAIN toMotors /\ toMotors'[i] = toMotors[i + 1]
      BY <1>1, <1>3
    <3> QED
      BY <1>6, <2>1, <3>1 DEF OwnFrames, a
  <2>3. ASSUME NEW i \in DOMAIN todo'[a]
        PROVE  todo'[a][i].of = This
    <3> DEFINE more == Answers(a, now(a), m.call)
    <3>1. CASE todo'[a] = todo[a]
      BY <2>1, <2>3, <3>1 DEF OwnAnswers
    <3>2. CASE todo'[a] = todo[a] \o more /\ Complete(now(a))
      <4>1. now(a) # <<>> /\ now(a)[1] = m.frame.ext_id \div 256
        BY <1>2, <1>5, <2>1, <3>2, Assembled DEF Complete
      <4>2. \A j \in DOMAIN more : more[j].of = This
        <5>1. CASE now(a)[1] = a
          <6>1. m.call = This
            BY <1>2, <2>1, <4>1, <5>1 DEF OwnFrames
          <6> HIDE DEF now
          <6> QED
            BY <1>2, <6>1, AnswersTyped
        <5>2. CASE now(a)[1] # a
          <6> HIDE DEF now
          <6> QED
            BY <1>2, <5>2, AnswersTyped
        <5> QED
          BY <5>1, <5>2
      <4>3. more \in Seq(Part(a)) /\ todo[a] \in Seq(Part(a))
        BY <1>2, <2>1, AnswersTyped DEF Typed, BusOK
      <4> HIDE DEF more, now
      <4>4. /\ Len(todo[a] \o more) = Len(todo[a]) + Len(more)
            /\ \A j \in 1..Len(todo[a]) : (todo[a] \o more)[j] = todo[a][j]
            /\ \A j \in 1..Len(more) : (todo[a] \o more)[Len(todo[a]) + j] = more[j]
        BY <4>3
      <4>5. CASE i \in 1..Len(todo[a])
        BY <2>1, <3>2, <4>3, <4>4, <4>5 DEF OwnAnswers
      <4>6. CASE i \notin 1..Len(todo[a])
        <5>1. PICK j \in 1..Len(more) : i = Len(todo[a]) + j
          <6>1. i \in 1..Len(todo[a]) + Len(more)
            BY <2>3, <3>2, <4>3, <4>4
          <6>2. Len(todo[a]) \in Nat /\ Len(more) \in Nat
            BY <4>3
          <6>3. i - Len(todo[a]) \in 1..Len(more)
            BY <4>6, <6>1, <6>2
          <6> QED
            BY <6>1, <6>2, <6>3
        <5> QED
          BY <3>2, <4>2, <4>3, <4>4, <5>1
      <4> QED
        BY <4>5, <4>6
    <3> QED
      BY <1>4, <2>1, <3>1, <3>2
  <2>4. OwnAnswers(a)'
    BY <1>3, <1>6, <2>1, <2>3 DEF OwnAnswers, a
  <2> QED
    BY <1>6, <2>1, <2>2, <2>4 DEF a
<1> QED
  BY <1>7, <1>8 DEF Fresh

LEMMA AnswerFresh ==
  ASSUME Typed, Fresh, \E b \in Motors : Reply(b) \/ Report(b)
  PROVE  Fresh'
<1>1. PICK b \in Motors : Reply(b) \/ Report(b)
  OBVIOUS
<1>2. UNCHANGED <<issued, call, toMotors, got>>
  BY <1>1 DEF Reply, Report
<1>3. /\ todo \in [Motors -> Seq(Heard)] /\ toCaller \in Seq(Heard)
      /\ \A a \in Motors : todo[a] \in Seq(Part(a))
  BY DEF Typed, BusOK
<1>4. Cmd' = Cmd /\ This' = This
  BY <1>2 DEF Cmd, This
<1>5. Matched'
  BY <1>2 DEF Fresh, Matched
<1>6. Quiet'
  <2> SUFFICES ASSUME call.at # "idle", call.fresh
               PROVE  (Cmd[1] \in Motors /\ OwnAnswers(Cmd[1]) /\ OwnFrames(Cmd[1]))'
    BY <1>2 DEF Quiet
  <2>1. Cmd[1] \in Motors /\ OwnAnswers(Cmd[1]) /\ OwnFrames(Cmd[1])
    BY DEF Fresh, Quiet
  <2>2. OwnAnswers(Cmd[1])'
    <3>1. CASE Reply(b)
      <4> DEFINE new == Head(todo[b])
      <4>1. todo[b] \in Seq(Part(b)) /\ todo[b] # <<>>
        BY <1>3, <3>1 DEF Reply
      <4>2. Head(todo[b]) = todo[b][1] /\ 1 \in DOMAIN todo[b] /\ Head(todo[b]) \in Part(b)
        BY <4>1
      <4>3. new \in Heard /\ new.from = b /\ new.of = todo[b][1].of
        BY <4>2 DEF Heard, Part
      <4> HIDE DEF new
      <4>4. toCaller' = Append(toCaller, new) /\ todo' = [todo EXCEPT ![b] = Tail(todo[b])]
        BY <3>1 DEF Reply, new
      <4>5. \A i \in DOMAIN toCaller' :
              (i \in DOMAIN toCaller /\ toCaller'[i] = toCaller[i]) \/ toCaller'[i] = new
        BY <1>3, <4>3, <4>4
      <4>6. new.from = Cmd[1] => new.of = This
        BY <2>1, <4>2, <4>3 DEF OwnAnswers
      <4>7. \A i \in DOMAIN todo'[Cmd[1]] : todo'[Cmd[1]][i].of = This
        <5>1. CASE b # Cmd[1]
          BY <1>3, <2>1, <4>4, <5>1 DEF OwnAnswers
        <5>2. CASE b = Cmd[1]
          <6>1. todo'[b] = Tail(todo[b])
            BY <1>3, <4>4
          <6>2. \A i \in DOMAIN Tail(todo[b]) :
                  i + 1 \in DOMAIN todo[b] /\ Tail(todo[b])[i] = todo[b][i + 1]
            BY <4>1
          <6> QED
            BY <2>1, <5>2, <6>1, <6>2 DEF OwnAnswers
        <5> QED
          BY <5>1, <5>2
      <4>8. \A i \in DOMAIN toCaller' :
              toCaller'[i].from = Cmd[1] /\ toCaller'[i].of # 0 => toCaller'[i].of = This
        BY <2>1, <4>5, <4>6 DEF OwnAnswers
      <4> QED
        BY <1>4, <4>7, <4>8 DEF OwnAnswers
    <3>2. CASE Report(b)
      <4> DEFINE new == [from |-> b, of |-> 0, part |-> 0]
      <4>1. new \in Heard /\ new.of = 0
        BY DEF Heard
      <4> HIDE DEF new
      <4>2. toCaller' = Append(toCaller, new) /\ todo' = todo
        BY <3>2 DEF Report, motors, new
      <4>3. \A i \in DOMAIN toCaller' :
              (i \in DOMAIN toCaller /\ toCaller'[i] = toCaller[i]) \/ toCaller'[i] = new
        BY <1>3, <4>1, <4>2
      <4> QED
        BY <1>4, <2>1, <4>1, <4>2, <4>3 DEF OwnAnswers
    <3> QED
      BY <1>1, <3>1, <3>2
  <2> QED
    BY <1>2, <1>4, <2>1, <2>2 DEF OwnFrames
<1> QED
  BY <1>5, <1>6 DEF Fresh

LEMMA NextFresh ==
  ASSUME Typed, Fresh, [Next]_vars
  PROVE  Fresh'
<1>1. CASE \E c \in Menus[menu].commands, kind \in Menus[menu].kinds : Call(kind, c)
  <2>1. PICK c \in Menus[menu].commands, kind \in Menus[menu].kinds : Call(kind, c)
    BY <1>1
  <2>2. c \in Slice /\ kind \in {"send", "poll", "await"}
    BY MenuCommands DEF Typed, PackingOK
  <2>3. Start(kind, c, <<>>)
    BY <2>1 DEF Call
  <2>4. <<>> \in Seq(Loaded)
    OBVIOUS
  <2> QED
    BY <2>2, <2>3, <2>4, StartFresh
<1>2. CASE CommitAndSend
  <2>1. Batch(0, txn) \in AnyCommand /\ loads \in Seq(Loaded)
    BY <1>2, BatchIsCommand DEF CommitAndSend, Typed, PackingOK
  <2> QED
    BY <1>2, <2>1, StartFresh DEF CommitAndSend, Slice
<1>3. CASE (\E c \in Menus[menu].loads : LoadCommand(c)) \/ Abandon \/ ReadOn
             \/ PollNothing \/ PollsUsedUp \/ UNCHANGED vars
  BY <1>3, NoCallFresh
<1>4. CASE SendFrame
  BY <1>4, SendFrameFresh
<1>5. CASE TakeFrame
  BY <1>5, TakeFrameFresh
<1>6. CASE DeliverFrame
  BY <1>6, DeliverFresh
<1>7. CASE \E a \in Motors : Reply(a) \/ Report(a)
  BY <1>7, AnswerFresh
<1> QED
  BY <1>1, <1>2, <1>3, <1>4, <1>5, <1>6, <1>7 DEF Next, Caller, CallStep

\* write_read, polling or async, returns the answer to its own command if no
\* frame to its motor and no answer from it was under way when it was called,
\* however many calls were abandoned or ran out of polls before.
THEOREM FreshAnswers == Spec => []FreshAnswerIsOwn
<1>1. Init => Fresh
  BY DEF Init, Idle, Fresh, Quiet, Matched
<1>2. Typed /\ Fresh /\ [Next]_vars => Fresh'
  BY NextFresh
<1>3. Fresh => FreshAnswerIsOwn
  BY DEF Fresh, Matched, FreshAnswerIsOwn
<1> QED
  BY <1>1, <1>2, <1>3, AlwaysTyped, PTL DEF Spec

-----------------------------------------------------------------------------
(* What the frames of a command put together: its first bytes, and the     *)
(* whole of it after the last one only.                                    *)

Prefix(cmd, n) == SubSeq(cmd, 1, Least(7 * n + 2, Len(cmd)))

LEMMA SplitAt ==
  ASSUME NEW s \in Seq(Byte), NEW m \in Nat, NEW e \in Nat, m <= e, e <= Len(s)
  PROVE  SubSeq(s, 1, m) \o SubSeq(s, m + 1, e) = SubSeq(s, 1, e)
<1> DEFINE first == SubSeq(s, 1, m)
           second == SubSeq(s, m + 1, e)
           all == SubSeq(s, 1, e)
<1>1. Len(s) \in Nat /\ \A i \in 1..Len(s) : s[i] \in Byte
  OBVIOUS
<1>2. first \in Seq(Byte) /\ Len(first) = m /\ \A i \in 1..m : first[i] = s[i]
  BY <1>1, SubSeqProperties
<1>3. second \in Seq(Byte) /\ Len(second) = e - m /\ \A i \in 1..(e - m) : second[i] = s[m + i]
  BY <1>1, SubSeqProperties
<1>4. all \in Seq(Byte) /\ Len(all) = e /\ \A i \in 1..e : all[i] = s[i]
  BY <1>1, SubSeqProperties
<1> HIDE DEF first, second, all
<1> DEFINE both == first \o second
<1>5. /\ both \in Seq(Byte) /\ Len(both) = e
      /\ \A i \in 1..e : both[i] = IF i <= m THEN first[i] ELSE second[i - m]
  <2>1. first \in Seq(Byte) /\ second \in Seq(Byte)
    BY <1>2, <1>3
  <2>2. /\ both \in Seq(Byte) /\ Len(both) = Len(first) + Len(second)
        /\ \A i \in 1..Len(first) + Len(second) :
             both[i] = IF i <= Len(first) THEN first[i] ELSE second[i - Len(first)]
    BY <2>1, ConcatProperties
  <2>3. Len(first) + Len(second) = e
    BY <1>2, <1>3
  <2> QED
    BY <1>2, <2>2, <2>3
<1> HIDE DEF both
<1>6. ASSUME NEW i \in 1..e
      PROVE  both[i] = all[i]
  <2>1. CASE i <= m
    BY <1>2, <1>4, <1>5, <2>1
  <2>2. CASE i > m
    <3>1. i - m \in 1..(e - m) /\ m + (i - m) = i
      BY <2>2
    <3>2. both[i] = second[i - m]
      BY <1>5, <2>2
    <3>3. second[i - m] = s[m + (i - m)]
      BY <1>3, <3>1
    <3> QED
      BY <1>4, <3>1, <3>2, <3>3
  <2> QED
    BY <2>1, <2>2
<1>7. both = all
  BY <1>4, <1>5, <1>6, SeqEqual
<1> QED
  BY <1>7 DEF first, second, all, both

LEMMA TailOfJoined ==
  ASSUME NEW x \in Byte, NEW s \in Seq(Byte)
  PROVE  Tail(<<x>> \o s) = s /\ Head(<<x>> \o s) = x
<1> DEFINE j == <<x>> \o s
<1>1. j \in Seq(Byte) /\ Len(j) = Len(s) + 1 /\ j[1] = x /\ \A i \in 1..Len(s) : j[i + 1] = s[i]
  BY ConcatProperties
<1> HIDE DEF j
<1> DEFINE r == Tail(j)
<1>2. r \in Seq(Byte) /\ Len(r) = Len(s) /\ (\A i \in 1..Len(s) : r[i] = s[i]) /\ Head(j) = x
  BY <1>1
<1> HIDE DEF r
<1>3. r = s
  BY <1>2, SeqEqual
<1> QED
  BY <1>2, <1>3 DEF r, j

\* The number of a frame is in its id, and what is in it are the bytes after
\* those of the frames before.
LEMMA FrameParts ==
  ASSUME NEW cmd \in AnyCommand, NEW n \in 1..Len(FramesOf(cmd))
  PROVE  /\ FramesOf(cmd)[n].ext_id \div 256 = cmd[1] /\ FramesOf(cmd)[n].ext_id % 256 = n - 1
         /\ FramesOf(cmd)[n].data =
              <<cmd[2]>> \o SubSeq(cmd, 7 * n - 4, Least(7 * n + 2, Len(cmd)))
         /\ cmd[1] \in Byte /\ cmd[2] \in Byte
<1> DEFINE f == FramesOf(cmd)[n]
           L == Len(cmd)
           num == Ceil7(L - 2)
<1>1. L \in Nat /\ L >= 3 /\ L <= 1794 /\ cmd \in Seq(Byte)
  BY DEF AnyCommand, LongestCommand
<1>2. num \in 1..256 /\ ~(L < 2)
  <2> HIDE DEF L
  <2> QED
    BY <1>1, Packets
<1>3. FramesOf(cmd) =
         [k \in 1..num |->
            [ext_id |-> cmd[1] * 256 + (k - 1),
             data   |-> <<cmd[2]>> \o SubSeq(cmd, 7 * k - 4, Least(7 * k + 2, L))]]
  BY <1>2 DEF FramesOf
<1>4. Len(FramesOf(cmd)) = num
  <2> HIDE DEF num
  <2> QED
    BY <1>2, <1>3
<1>5. cmd[1] \in Byte /\ cmd[2] \in Byte
  BY <1>1
<1>6. n \in 1..num /\ n \in 1..256 /\ n <= 256
  <2> HIDE DEF num
  <2> QED
    BY <1>2, <1>4
<1>7. /\ f.ext_id = cmd[1] * 256 + (n - 1)
      /\ f.data = <<cmd[2]>> \o SubSeq(cmd, 7 * n - 4, Least(7 * n + 2, L))
  <2> DEFINE id == cmd[1] * 256 + (n - 1)
             data == <<cmd[2]>> \o SubSeq(cmd, 7 * n - 4, Least(7 * n + 2, L))
  <2>1. f = [ext_id |-> id, data |-> data]
    <3> HIDE DEF num, L
    <3> QED
      BY <1>3, <1>6
  <2> HIDE DEF id, data
  <2>2. f.ext_id = id /\ f.data = data
    BY <2>1
  <2> QED
    BY <2>2 DEF id, data
<1>8. f.ext_id \div 256 = cmd[1] /\ f.ext_id % 256 = n - 1
  <2> DEFINE id == f.ext_id
             a == cmd[1]
  <2>1. id = a * 256 + (n - 1) /\ a \in Byte /\ n \in 1..256
    BY <1>5, <1>6, <1>7
  <2> HIDE DEF id, a
  <2>2. id \div 256 = a /\ id % 256 = n - 1
    BY <2>1, SMT DEF Byte
  <2> QED
    BY <2>2 DEF id, a
<1> QED
  BY <1>5, <1>7, <1>8

LEMMA FrameSizes ==
  ASSUME NEW cmd \in AnyCommand, NEW n \in 1..Len(FramesOf(cmd))
  PROVE  /\ n < Len(FramesOf(cmd)) => 7 * n + 2 < Len(cmd)
         /\ n = Len(FramesOf(cmd)) => 7 * n + 2 >= Len(cmd)
         /\ 7 * n - 5 < Len(cmd)
<1> DEFINE L == Len(cmd)
           num == Ceil7(L - 2)
<1>1. L \in Nat /\ L >= 3 /\ L <= 1794
  BY DEF AnyCommand, LongestCommand
<1>2. num \in 1..256 /\ ~(L < 2)
  <2> HIDE DEF L
  <2> QED
    BY <1>1, Packets
<1>3. Len(FramesOf(cmd)) = num
  <2>1. FramesOf(cmd) =
          [k \in 1..num |->
             [ext_id |-> cmd[1] * 256 + (k - 1),
              data   |-> <<cmd[2]>> \o SubSeq(cmd, 7 * k - 4, Least(7 * k + 2, L))]]
    BY <1>2 DEF FramesOf
  <2> HIDE DEF num
  <2> QED
    BY <1>2, <2>1
<1>4. n \in 1..num
  BY <1>3
<1>5. /\ n < num => 7 * n + 2 < L
      /\ n = num => 7 * n + 2 >= L
      /\ 7 * n - 5 < L
  <2> HIDE DEF L
  <2> QED
    BY <1>1, <1>4, SMT DEF Ceil7
<1> HIDE DEF num
<1> QED
  BY <1>3, <1>5

\* A motor that has the frames before has the bytes of one more.
LEMMA Assembles ==
  ASSUME NEW cmd \in AnyCommand, NEW n \in 1..Len(FramesOf(cmd)), NEW bytes,
         n > 1 => bytes = Prefix(cmd, n - 1)
  PROVE  Assemble(bytes, FramesOf(cmd)[n]) = Prefix(cmd, n)
<1> DEFINE f == FramesOf(cmd)[n]
           L == Len(cmd)
           e == Least(7 * n + 2, L)
           part == SubSeq(cmd, 7 * n - 4, e)
<1>1. L \in Nat /\ L >= 3 /\ cmd \in Seq(Byte) /\ n \in Nat /\ n >= 1
  BY CommandFrames DEF AnyCommand
<1>2. /\ f.ext_id \div 256 = cmd[1] /\ f.ext_id % 256 = n - 1 /\ cmd[1] \in Byte
      /\ f.data = <<cmd[2]>> \o part /\ cmd[2] \in Byte
  <2>1. /\ FramesOf(cmd)[n].ext_id \div 256 = cmd[1] /\ FramesOf(cmd)[n].ext_id % 256 = n - 1
        /\ FramesOf(cmd)[n].data =
             <<cmd[2]>> \o SubSeq(cmd, 7 * n - 4, Least(7 * n + 2, Len(cmd)))
        /\ cmd[1] \in Byte /\ cmd[2] \in Byte
    BY FrameParts, Zenon
  <2> QED
    BY <2>1, Zenon
<1>3. 7 * n - 5 < L
  BY FrameSizes
<1>4. e \in Nat /\ e <= L /\ e >= 7 * n - 4 /\ e >= 3
  <2> HIDE DEF L
  <2> QED
    BY <1>1, <1>3 DEF Least
<1> HIDE DEF f, e
<1>5. part \in Seq(Byte)
  <2>1. \A i \in (7 * n - 4)..e : cmd[i] \in Byte
    BY <1>1, <1>4
  <2> QED
    BY <1>1, <1>4, <2>1, SubSeqProperties
<1>6. CASE n = 1
  <2>1. Assemble(bytes, f) = <<cmd[1]>> \o f.data
    <3>1. f.ext_id % 256 = 0
      BY <1>2, <1>6
    <3> QED
      BY <1>2, <3>1 DEF Assemble
  <2>2. part = SubSeq(cmd, 3, e)
    BY <1>6
  <2>3. <<cmd[1]>> \o (<<cmd[2]>> \o part) = (<<cmd[1]>> \o <<cmd[2]>>) \o part
    <3>1. <<cmd[1]>> \in Seq(Byte) /\ <<cmd[2]>> \in Seq(Byte)
      BY <1>2
    <3> HIDE DEF part
    <3> QED
      BY <1>5, <3>1, ConcatAssociative
  <2>4. <<cmd[1]>> \o <<cmd[2]>> = SubSeq(cmd, 1, 2)
    BY <1>1
  <2>5. SubSeq(cmd, 1, 2) \o SubSeq(cmd, 2 + 1, e) = SubSeq(cmd, 1, e)
    BY <1>1, <1>4, SplitAt
  <2>6. SubSeq(cmd, 1, 2) \o SubSeq(cmd, 3, e) = SubSeq(cmd, 1, e)
    <3>1. 2 + 1 = 3
      OBVIOUS
    <3> QED
      BY <2>5, <3>1
  <2> HIDE DEF part
  <2> QED
    BY <1>2, <2>1, <2>2, <2>3, <2>4, <2>6 DEF Prefix, e, f
<1>7. CASE n > 1
  <2>1. Prefix(cmd, n - 1) = SubSeq(cmd, 1, 7 * n - 5)
    <3>1. Least(7 * (n - 1) + 2, L) = 7 * n - 5
      BY <1>1, <1>3 DEF Least
    <3> QED
      BY <3>1 DEF Prefix
  <2>2. bytes = SubSeq(cmd, 1, 7 * n - 5)
    BY <1>7, <2>1
  <2>3. /\ bytes \in Seq(Byte) /\ Len(bytes) = 7 * n - 5
        /\ \A i \in 1..(7 * n - 5) : bytes[i] = cmd[i]
    BY <1>1, <1>3, <1>7, <2>2, SubSeqProperties
  <2>4. SubSeq(bytes, 1, 2) = <<cmd[1], cmd[2]>> /\ bytes # <<>>
    <3>1. Len(bytes) >= 9 /\ bytes[1] = cmd[1] /\ bytes[2] = cmd[2] /\ bytes \in Seq(Byte)
      BY <1>1, <1>7, <2>3
    <3> DEFINE two == SubSeq(bytes, 1, 2)
    <3>2. two \in Seq(Byte) /\ Len(two) = 2 /\ two[1] = bytes[1] /\ two[2] = bytes[2]
      BY <3>1
    <3> HIDE DEF two
    <3>3. two = <<two[1], two[2]>>
      BY <3>2
    <3> QED
      BY <3>1, <3>2, <3>3 DEF two
  <2>5. Tail(f.data) = part /\ Head(f.data) = cmd[2]
    <3> HIDE DEF part
    <3> QED
      BY <1>2, <1>5, TailOfJoined, SMTT(30)
  <2>6. Len(bytes) = 7 * (n - 1) + 2 /\ n - 1 # 0
    BY <1>1, <1>7, <2>3
  <2>7. Assemble(bytes, f) = bytes \o part
    <3> DEFINE addr == f.ext_id \div 256
               pack == f.ext_id % 256
    <3>1. addr = cmd[1] /\ pack = n - 1
      BY <1>2
    <3>2. Assemble(bytes, f) =
            IF pack = 0 THEN <<addr>> \o f.data
            ELSE IF bytes # <<>> /\ SubSeq(bytes, 1, 2) = <<addr, Head(f.data)>>
                                 /\ Len(bytes) = 7 * pack + 2
                 THEN bytes \o Tail(f.data)
                 ELSE <<>>
      BY DEF Assemble
    <3> HIDE DEF addr, pack, part
    <3> QED
      BY <2>4, <2>5, <2>6, <3>1, <3>2
  <2>8. SubSeq(cmd, 1, 7 * n - 5) \o SubSeq(cmd, (7 * n - 5) + 1, e) = SubSeq(cmd, 1, e)
    BY <1>1, <1>3, <1>4, <1>7, SplitAt
  <2>9. part = SubSeq(cmd, (7 * n - 5) + 1, e)
    <3>1. (7 * n - 5) + 1 = 7 * n - 4
      BY <1>1
    <3> QED
      BY <3>1
  <2> HIDE DEF part
  <2> QED
    BY <2>2, <2>7, <2>8, <2>9 DEF Prefix, e, f
<1> QED
  BY <1>1, <1>6, <1>7

\* A motor takes a command after its last frame, and not before.
LEMMA TakenWhole ==
  ASSUME NEW cmd \in AnyCommand, NEW n \in 1..Len(FramesOf(cmd))
  PROVE  /\ n = Len(FramesOf(cmd)) => Complete(Prefix(cmd, n)) /\ Prefix(cmd, n) = cmd
         /\ n < Len(FramesOf(cmd)) => ~Complete(Prefix(cmd, n))
<1>1. Len(cmd) \in Nat /\ Len(cmd) >= 3 /\ cmd \in Seq(Byte) /\ Len(cmd) = Expected(cmd)
  BY DEF AnyCommand
<1>2. n \in Nat /\ n >= 1
  BY CommandFrames
<1>3. CASE n = Len(FramesOf(cmd))
  <2>1. 7 * n + 2 >= Len(cmd)
    BY <1>3, FrameSizes
  <2>2. Least(7 * n + 2, Len(cmd)) = Len(cmd)
    BY <1>1, <1>2, <2>1 DEF Least
  <2>3. Prefix(cmd, n) = cmd
    <3>1. SubSeq(cmd, 1, Len(cmd)) = cmd
      BY <1>1
    <3> QED
      BY <2>2, <3>1 DEF Prefix
  <2> QED
    BY <1>1, <1>3, <2>3 DEF Complete
<1>4. CASE n < Len(FramesOf(cmd))
  <2> DEFINE bytes == Prefix(cmd, n)
  <2>1. 7 * n + 2 < Len(cmd)
    BY <1>4, FrameSizes
  <2>2. Least(7 * n + 2, Len(cmd)) = 7 * n + 2
    BY <1>1, <1>2, <2>1 DEF Least
  <2>3. /\ bytes \in Seq(Byte) /\ Len(bytes) = 7 * n + 2
        /\ \A i \in 1..(7 * n + 2) : bytes[i] = cmd[i]
    BY <1>1, <1>2, <2>1, <2>2, SubSeqProperties DEF Prefix
  <2> HIDE DEF bytes
  <2>4. bytes[2] = cmd[2] /\ bytes[3] = cmd[3] /\ bytes[4] = cmd[4]
    BY <1>2, <2>3
  <2>5. Expected(bytes) = Expected(cmd)
    BY <2>4 DEF Expected
  <2>6. Len(bytes) # Expected(bytes)
    BY <1>1, <1>2, <2>1, <2>3, <2>5
  <2> QED
    BY <1>4, <2>6 DEF Complete, bytes
<1> QED
  BY <1>3, <1>4, CommandFrames

-----------------------------------------------------------------------------
(* A batch is what was loaded.                                             *)

LEMMA LoadedCommand ==
  ASSUME NEW m \in DOMAIN Menus, NEW c \in Menus[m].loads
  PROVE  c \in Seq(Byte) /\ Len(c) \in Nat /\ Len(c) >= 3 /\ LengthOf(c[2]) = Len(c)
BY MenuAssumption DEF IsCommand

\* Where a loaded command begins, and the end of the bytes after the last; what
\* a motor cuts out there.
At(bytes, cmds, i) == IF i <= Len(cmds) THEN cmds[i].at ELSE Len(bytes)
CutAt(bytes, at, next, cmd) ==
  IF CanCut(bytes, at)
  THEN SubSeq(bytes, at + 1, at + LengthOf(bytes[at + 2])) = cmd
       /\ next = at + LengthOf(bytes[at + 2])
  ELSE Len(bytes) = MMCL_LEN /\ next = Len(bytes)

LEMMA CutParts ==
  ASSUME NEW bytes, NEW cmds
  PROVE  IsCutInto(bytes, cmds) <=>
           /\ At(bytes, cmds, 1) = 0
           /\ \A i \in 1..Len(cmds) :
                CutAt(bytes, At(bytes, cmds, i), At(bytes, cmds, i + 1), cmds[i].cmd)
BY DEF IsCutInto, At, CutAt

LEMMA SameBetween ==
  ASSUME NEW s \in Seq(Byte), NEW t \in Seq(Byte), NEW m \in Nat, NEW n \in Nat,
         n <= Len(s), n <= Len(t), \A i \in 1..n : s[i] = t[i]
  PROVE  SubSeq(s, m + 1, n) = SubSeq(t, m + 1, n)
<1> DEFINE x == SubSeq(s, m + 1, n)
           y == SubSeq(t, m + 1, n)
<1>1. CASE n < m + 1
  <2>1. x = <<>> /\ y = <<>>
    BY <1>1
  <2> QED
    BY <2>1
<1>2. CASE m + 1 <= n
  <2>1. (\A i \in (m + 1)..n : s[i] \in Byte) /\ (\A i \in (m + 1)..n : t[i] \in Byte)
    OBVIOUS
  <2>2. x \in Seq(Byte) /\ Len(x) = n - m /\ \A i \in 1..(n - m) : x[i] = s[m + i]
    BY <1>2, <2>1, SubSeqProperties
  <2>3. y \in Seq(Byte) /\ Len(y) = n - m /\ \A i \in 1..(n - m) : y[i] = t[m + i]
    BY <1>2, <2>1, SubSeqProperties
  <2> HIDE DEF x, y
  <2>4. \A i \in 1..(n - m) : m + i \in 1..n
    BY <1>2
  <2>5. x = y
    BY <2>2, <2>3, <2>4, SeqEqual
  <2> QED
    BY <2>5 DEF x, y
<1> QED
  BY <1>1, <1>2

\* What can be cut out of bytes is cut out of more that begin with them.
LEMMA StaysCut ==
  ASSUME NEW s \in Seq(Byte), NEW t \in Seq(Byte), Len(s) <= Len(t),
         \A i \in 1..Len(s) : t[i] = s[i],
         NEW at \in Nat, NEW next \in Nat, NEW cmd, CanCut(s, at), CutAt(s, at, next, cmd)
  PROVE  CutAt(t, at, next, cmd)
<1> DEFINE size == LengthOf(s[at + 2])
<1>1. at + 2 <= Len(s) /\ at + size <= Len(s)
  BY DEF CanCut
<1>2. SubSeq(s, at + 1, at + size) = cmd /\ next = at + size
  BY DEF CutAt
<1>3. at + 2 \in 1..Len(s)
  BY <1>1
<1>4. t[at + 2] = s[at + 2]
  BY <1>3
<1>5. size = LengthOf(t[at + 2])
  BY <1>4
<1> HIDE DEF size
<1>6. next <= Len(s) /\ next <= Len(t)
  BY <1>1, <1>2
<1>7. \A i \in 1..next : t[i] = s[i]
  BY <1>6
<1>8. SubSeq(t, at + 1, next) = cmd
  BY <1>2, <1>6, <1>7, SameBetween
<1>9. at + 2 <= Len(t) /\ at + size <= Len(t)
  BY <1>1, <1>2, <1>6
<1> QED
  BY <1>2, <1>5, <1>8, <1>9 DEF CutAt, CanCut

LEMMA JoinedParts ==
  ASSUME NEW s \in Seq(Byte), NEW t \in Seq(Byte)
  PROVE  /\ s \o t \in Seq(Byte) /\ Len(s \o t) = Len(s) + Len(t)
         /\ \A i \in 1..Len(s) : (s \o t)[i] = s[i]
         /\ \A i \in 1..Len(t) : (s \o t)[Len(s) + i] = t[i]
BY ConcatProperties

\* A command comes whole behind what was loaded, or what there is room for.
LEMMA LoadAppends ==
  ASSUME NEW buf \in Seq(Byte), Len(buf) <= MMCL_LEN, NEW cmd \in Seq(Byte), Len(cmd) >= 3,
         NEW new, new = Load(buf, cmd)
  PROVE  /\ new \in Seq(Byte) /\ Len(new) >= Len(buf) /\ Len(new) <= MMCL_LEN
         /\ \A i \in 1..Len(buf) : new[i] = buf[i]
         /\ Len(buf) + 2 <= Len(new) => new[Len(buf) + 2] = cmd[2]
         /\ \/ /\ Len(new) = Len(buf) + Len(cmd)
               /\ SubSeq(new, Len(buf) + 1, Len(buf) + Len(cmd)) = cmd
            \/ Len(new) = MMCL_LEN /\ Len(new) < Len(buf) + Len(cmd)
<1> DEFINE L == Len(buf)
           room == Least(Len(cmd), MMCL_LEN - L)
           part == SubSeq(cmd, 1, room)
<1>1. Len(cmd) \in Nat /\ L \in Nat /\ MMCL_LEN \in Nat
  BY Limits
<1>2. /\ room \in Nat /\ room <= Len(cmd) /\ room <= MMCL_LEN - L
      /\ room = Len(cmd) \/ (room = MMCL_LEN - L /\ room < Len(cmd))
  BY <1>1 DEF Least
<1>3. new = buf \o part
  BY DEF Load
<1> HIDE DEF room, L
<1>4. part \in Seq(Byte) /\ Len(part) = room /\ \A i \in 1..room : part[i] = cmd[i]
  BY <1>1, <1>2, SubSeqProperties
<1> HIDE DEF part
<1>5. /\ new \in Seq(Byte) /\ Len(new) = L + room
      /\ \A i \in 1..L : new[i] = buf[i]
      /\ \A i \in 1..room : new[L + i] = part[i]
  <2>1. /\ new \in Seq(Byte) /\ Len(new) = Len(buf) + Len(part)
        /\ \A i \in 1..Len(buf) : new[i] = buf[i]
        /\ \A i \in 1..Len(part) : new[Len(buf) + i] = part[i]
    <3> DEFINE both == buf \o part
    <3>1. /\ both \in Seq(Byte) /\ Len(both) = Len(buf) + Len(part)
          /\ \A i \in 1..Len(buf) : both[i] = buf[i]
          /\ \A i \in 1..Len(part) : both[Len(buf) + i] = part[i]
      BY <1>4, JoinedParts, Zenon
    <3>2. new = both
      BY <1>3
    <3> HIDE DEF both
    <3> QED
      BY <3>1, <3>2
  <2> QED
    BY <1>4, <2>1 DEF L
<1>6. L + 2 <= Len(new) => new[L + 2] = cmd[2]
  <2>1. L + 2 <= Len(new) => 2 \in 1..room
    BY <1>1, <1>2, <1>5
  <2> QED
    BY <1>4, <1>5, <2>1
<1>7. ASSUME room = Len(cmd)
      PROVE  SubSeq(new, L + 1, L + Len(cmd)) = cmd
  <2> DEFINE x == SubSeq(new, L + 1, L + Len(cmd))
  <2>1. \A i \in (L + 1)..(L + Len(cmd)) : new[i] \in Byte
    BY <1>1, <1>5, <1>7
  <2>2. x \in Seq(Byte) /\ Len(x) = Len(cmd) /\ \A i \in 1..Len(cmd) : x[i] = new[L + i]
    BY <1>1, <2>1, SubSeqProperties
  <2> HIDE DEF x
  <2>3. x = cmd
    BY <1>4, <1>5, <1>7, <2>2, SeqEqual
  <2> QED
    BY <2>3 DEF x
<1>8. /\ Len(new) >= L /\ Len(new) <= MMCL_LEN
      /\ room = Len(cmd) => Len(new) = L + Len(cmd)
      /\ room # Len(cmd) => Len(new) = MMCL_LEN /\ Len(new) < L + Len(cmd)
  <2> DEFINE size == Len(cmd)
             len == Len(new)
  <2>1. size \in Nat /\ len = L + room
    BY <1>1, <1>5
  <2>2. /\ room \in Nat /\ room <= size /\ room <= MMCL_LEN - L
        /\ room = size \/ (room = MMCL_LEN - L /\ room < size)
    BY <1>2
  <2> HIDE DEF size, len
  <2>3. len >= L /\ len <= MMCL_LEN
    BY <1>1, <2>1, <2>2
  <2>4. room = size => len = L + size
    BY <2>1
  <2>5. room # size => len = MMCL_LEN /\ len < L + size
    BY <1>1, <2>1, <2>2
  <2> QED
    BY <2>3, <2>4, <2>5 DEF size, len
<1> QED
  BY <1>5, <1>6, <1>7, <1>8 DEF L

\* Loading keeps what a motor cuts out, and adds the command behind it.
LEMMA LoadIsCut ==
  ASSUME NEW buf \in Seq(Byte), Len(buf) <= MMCL_LEN, NEW cmds \in Seq(Loaded),
         IsCutInto(buf, cmds), NEW cmd \in Seq(Byte), Len(cmd) >= 3, LengthOf(cmd[2]) = Len(cmd)
  PROVE  IsCutInto(Load(buf, cmd), Append(cmds, [at |-> Len(buf), cmd |-> cmd]))
<1> DEFINE new == Load(buf, cmd)
           load == [at |-> Len(buf), cmd |-> cmd]
           more == Append(cmds, load)
           n == Len(cmds)
           L == Len(buf)
<1>1. /\ load \in Loaded /\ load.at = L /\ load.cmd = cmd /\ L \in Nat /\ Len(cmd) \in Nat
      /\ MMCL_LEN \in Nat
  BY Limits DEF Loaded
<1>2. /\ new \in Seq(Byte) /\ Len(new) >= L /\ Len(new) <= MMCL_LEN /\ Len(new) \in Nat
      /\ \A i \in 1..L : new[i] = buf[i]
      /\ L + 2 <= Len(new) => new[L + 2] = cmd[2]
      /\ \/ Len(new) = L + Len(cmd) /\ SubSeq(new, L + 1, L + Len(cmd)) = cmd
         \/ Len(new) = MMCL_LEN /\ Len(new) < L + Len(cmd)
  BY LoadAppends
<1> HIDE DEF load, new
<1>3. /\ Len(more) = n + 1 /\ more[n + 1] = load /\ n \in Nat
      /\ \A i \in 1..n : more[i] = cmds[i]
  BY <1>1
<1>4. \A i \in 1..n : cmds[i].at \in Nat
  <2>1. \A i \in 1..n : cmds[i] \in Loaded
    OBVIOUS
  <2> QED
    BY <2>1 DEF Loaded
<1> HIDE DEF more, n, L
<1>5. /\ \A i \in 1..(n + 1) : At(new, more, i) = At(buf, cmds, i) /\ At(buf, cmds, i) \in Nat
      /\ At(buf, cmds, n + 1) = L /\ At(new, more, (n + 1) + 1) = Len(new)
  BY <1>1, <1>3, <1>4 DEF At, n, L
<1>6. /\ At(buf, cmds, 1) = 0
      /\ \A i \in 1..n : CutAt(buf, At(buf, cmds, i), At(buf, cmds, i + 1), cmds[i].cmd)
  BY CutParts DEF n
<1>7. At(new, more, 1) = 0
  BY <1>3, <1>5, <1>6
<1>8. ASSUME NEW i \in 1..n
      PROVE  CutAt(new, At(new, more, i), At(new, more, i + 1), more[i].cmd)
  <2> DEFINE at == At(buf, cmds, i)
             next == At(buf, cmds, i + 1)
  <2>1. /\ at \in Nat /\ next \in Nat /\ at = At(new, more, i) /\ next = At(new, more, i + 1)
        /\ more[i].cmd = cmds[i].cmd
    BY <1>3, <1>5
  <2>2. CutAt(buf, at, next, cmds[i].cmd)
    BY <1>6
  <2> HIDE DEF at, next
  <2>3. CASE CanCut(buf, at)
    <3>1. CutAt(new, at, next, cmds[i].cmd)
      BY <1>2, <2>1, <2>2, <2>3, StaysCut DEF L
    <3> QED
      BY <2>1, <3>1
  <2>4. CASE ~CanCut(buf, at)
    <3>1. L = MMCL_LEN /\ next = L
      BY <2>2, <2>4 DEF CutAt, L
    <3>2. new = buf
      <4>1. Len(new) = Len(buf)
        BY <1>1, <1>2, <3>1 DEF L
      <4> QED
        BY <1>2, <4>1, SeqEqual DEF L
    <3> QED
      BY <2>1, <2>2, <3>2
  <2> QED
    BY <2>3, <2>4
<1>9. CutAt(new, L, Len(new), cmd)
  <2>1. CASE Len(new) = L + Len(cmd) /\ SubSeq(new, L + 1, L + Len(cmd)) = cmd
    <3>1. new[L + 2] = cmd[2]
      BY <1>1, <1>2, <2>1
    <3> QED
      BY <1>1, <1>2, <2>1, <3>1 DEF CutAt, CanCut
  <2>2. CASE Len(new) = MMCL_LEN /\ Len(new) < L + Len(cmd)
    <3>1. ~CanCut(new, L)
      BY <1>1, <1>2, <2>2 DEF CanCut
    <3> QED
      BY <2>2, <3>1 DEF CutAt
  <2> QED
    BY <1>2, <2>1, <2>2
<1>10. \A i \in 1..Len(more) :
          CutAt(new, At(new, more, i), At(new, more, i + 1), more[i].cmd)
  <2>1. CutAt(new, At(new, more, n + 1), At(new, more, (n + 1) + 1), more[n + 1].cmd)
    BY <1>1, <1>3, <1>5, <1>9
  <2> QED
    BY <1>3, <1>8, <2>1
<1>11. IsCutInto(new, more)
  BY <1>7, <1>10, CutParts
<1> QED
  BY <1>11 DEF new, more, load

\* Between its head and its check byte, a batch is what was loaded.
LEMMA BatchPayload ==
  ASSUME NEW buf \in Seq(Byte), Len(buf) <= MMCL_LEN
  PROVE  SubSeq(Batch(0, buf), 5, Len(Batch(0, buf)) - 1) = buf
<1> DEFINE head == <<0, \hAA>> \o Be16(Len(buf) + 5)
           end == <<CHECK>>
           front == head \o buf
           all == front \o end
           x == SubSeq(all, 5, Len(all) - 1)
<1>1. Len(buf) \in Nat /\ Len(buf) <= 1789
  BY Limits
<1>2. head \in Seq(Byte) /\ Len(head) = 4
  <2>1. (Len(buf) + 5) \div 256 \in Byte /\ (Len(buf) + 5) % 256 \in Byte
    BY <1>1, TwoBytes
  <2>2. Be16(Len(buf) + 5) \in Seq(Byte) /\ Len(Be16(Len(buf) + 5)) = 2
    BY <2>1 DEF Be16
  <2>3. <<0, \hAA>> \in Seq(Byte) /\ Len(<<0, \hAA>>) = 2
    BY DEF Byte
  <2> DEFINE start == <<0, \hAA>>
             size == Be16(Len(buf) + 5)
  <2>4. /\ start \in Seq(Byte) /\ Len(start) = 2 /\ size \in Seq(Byte) /\ Len(size) = 2
        /\ head = start \o size
    BY <2>2, <2>3
  <2> HIDE DEF start, size, head
  <2>5. start \o size \in Seq(Byte) /\ Len(start \o size) = Len(start) + Len(size)
    BY <2>4, Joined
  <2> QED
    BY <2>4, <2>5
<1>3. end \in Seq(Byte) /\ Len(end) = 1
  BY DEF CHECK, Byte
<1> HIDE DEF head, end
<1>4. /\ front \in Seq(Byte) /\ Len(front) = Len(head) + Len(buf)
      /\ \A i \in 1..Len(buf) : front[Len(head) + i] = buf[i]
  BY <1>2, JoinedParts, Zenon
<1> HIDE DEF front
<1>5. /\ all \in Seq(Byte) /\ Len(all) = Len(front) + Len(end)
      /\ \A i \in 1..Len(front) : all[i] = front[i]
  BY <1>3, <1>4, JoinedParts, Zenon
<1> HIDE DEF all
<1>6. /\ Len(all) = Len(buf) + 5
      /\ \A i \in 1..Len(buf) : 4 + i \in 1..Len(front)
      /\ \A i \in 5..(Len(buf) + 4) : i \in 1..Len(all)
  BY <1>1, <1>2, <1>3, <1>4, <1>5
<1>7. x \in Seq(Byte) /\ Len(x) = Len(buf) /\ \A i \in 1..Len(buf) : x[i] = all[4 + i]
  <2>1. Len(all) - 1 = Len(buf) + 4
    BY <1>1, <1>6
  <2>2. \A i \in 5..(Len(buf) + 4) : all[i] \in Byte
    BY <1>5, <1>6
  <2> QED
    BY <1>1, <2>1, <2>2, SubSeqProperties
<1> HIDE DEF x
<1>8. \A i \in 1..Len(buf) : x[i] = buf[i]
  BY <1>2, <1>4, <1>5, <1>6, <1>7
<1>9. x = buf
  BY <1>7, <1>8, SeqEqual
<1> QED
  BY <1>9 DEF Batch, x, all, front, head, end

\* The transaction is cut into what was loaded, and so are the batches sent.
LEMMA NextBatch ==
  ASSUME Typed, IsCutInto(txn, loads), BatchIsPrefix, [Next]_vars
  PROVE  IsCutInto(txn, loads)' /\ BatchIsPrefix'
<1> DEFINE IsBatch(cmd, cmds) == cmds # <<>> => IsCutInto(SubSeq(cmd, 5, Len(cmd) - 1), cmds)
<1>1. /\ txn \in Seq(Byte) /\ Len(txn) <= MMCL_LEN /\ loads \in Seq(Loaded)
      /\ menu \in DOMAIN Menus /\ issued \in Seq(Issue)
  BY DEF Typed, PackingOK, CallOK
<1>2. \A k \in DOMAIN issued : IsBatch(issued[k].cmd, issued[k].loads)
  BY DEF BatchIsPrefix
<1>3. ASSUME NEW kind, NEW cmd, NEW loaded, Start(kind, cmd, loaded), IsBatch(cmd, loaded)
      PROVE  BatchIsPrefix'
  <2> DEFINE new == [kind |-> kind, cmd |-> cmd, loads |-> loaded, whole |-> FALSE]
  <2>1. issued' = Append(issued, new) /\ new.cmd = cmd /\ new.loads = loaded
    BY <1>3 DEF Start
  <2> HIDE DEF new
  <2>2. \A k \in DOMAIN issued' : (k \in DOMAIN issued /\ issued'[k] = issued[k]) \/ issued'[k] = new
    BY <1>1, <2>1
  <2>3. \A k \in DOMAIN issued' : IsBatch(issued'[k].cmd, issued'[k].loads)
    BY <1>2, <1>3, <2>1, <2>2
  <2> QED
    BY <2>3 DEF BatchIsPrefix
<1>4. CASE \E c \in Menus[menu].commands, kind \in Menus[menu].kinds : Call(kind, c)
  <2>1. PICK c, kind : Start(kind, c, <<>>) /\ UNCHANGED <<txn, loads>>
    BY <1>4 DEF Call
  <2> QED
    BY <1>3, <2>1
<1>5. CASE CommitAndSend
  <2>1. Start("send", Batch(0, txn), loads) /\ txn' = <<>> /\ loads' = <<>>
    BY <1>5 DEF CommitAndSend
  <2>2. IsBatch(Batch(0, txn), loads)
    BY <1>1, BatchPayload
  <2>3. IsCutInto(<<>>, <<>>)
    BY CutParts DEF At
  <2> QED
    BY <1>3, <2>1, <2>2, <2>3
<1>6. CASE \E c \in Menus[menu].loads : LoadCommand(c)
  <2>1. PICK c \in Menus[menu].loads : LoadCommand(c)
    BY <1>6
  <2>2. /\ txn' = Load(txn, c) /\ loads' = Append(loads, [at |-> Len(txn), cmd |-> c])
        /\ UNCHANGED issued
    BY <2>1 DEF LoadCommand
  <2>3. IsCutInto(txn', loads')
    BY <1>1, <2>2, LoadedCommand, LoadIsCut
  <2> QED
    BY <2>2, <2>3 DEF BatchIsPrefix
<1>7. CASE SendFrame
  <2>1. /\ DOMAIN issued' = DOMAIN issued
        /\ \A k \in DOMAIN issued : /\ issued'[k].cmd = issued[k].cmd
                                    /\ issued'[k].loads = issued[k].loads
    BY <1>7, SendFrameIssued
  <2>2. \A k \in DOMAIN issued' : IsBatch(issued'[k].cmd, issued'[k].loads)
    BY <1>2, <2>1
  <2> QED
    BY <1>7, <2>2 DEF BatchIsPrefix, SendFrame, packing
<1>8. CASE \/ TakeFrame \/ PollNothing \/ PollsUsedUp \/ Abandon \/ ReadOn \/ DeliverFrame
           \/ (\E a \in Motors : Reply(a) \/ Report(a)) \/ UNCHANGED vars
  <2>1. UNCHANGED <<issued, txn, loads>>
    BY <1>8 DEF TakeFrame, PollNothing, PollsUsedUp, Abandon, ReadOn, DeliverFrame, Reply, Report,
               packing, vars
  <2> QED
    BY <2>1 DEF BatchIsPrefix
<1> QED
  BY <1>4, <1>5, <1>6, <1>7, <1>8 DEF Next, Caller, CallStep

\* What a motor cuts out of a batch are the commands that were loaded, in order
\* from the first and for as long as there was room, whatever their lengths and
\* the capacity: load cuts one command off, never one that comes after it.
THEOREM BatchesArePrefixes == Spec => []BatchIsPrefix
<1>1. Init => IsCutInto(txn, loads) /\ BatchIsPrefix
  <2>1. IsCutInto(<<>>, <<>>)
    BY CutParts DEF At
  <2> QED
    BY <2>1 DEF Init, BatchIsPrefix
<1>2. Typed /\ (IsCutInto(txn, loads) /\ BatchIsPrefix) /\ [Next]_vars
        => (IsCutInto(txn, loads) /\ BatchIsPrefix)'
  BY NextBatch
<1> QED
  BY <1>1, <1>2, AlwaysTyped, PTL DEF Spec

-----------------------------------------------------------------------------
(* Motors take whole commands.  The frames on their way, and the one that  *)
(* send_cmd comes to next, are a line: each goes on with the command of    *)
(* the one before or begins a later command, and a motor that is to go on  *)
(* with a command has the bytes before.                                    *)

To(x) == x.frame.ext_id \div 256
Num(x) == (x.frame.ext_id % 256) + 1
CmdOf(x) == issued[x.call].cmd
Total(x) == Len(FramesOf(CmdOf(x)))
Upcoming == [frame |-> FramesOf(Cmd)[call.sent + 1], call |-> This]
Line == IF call.at = "sending" THEN Append(toMotors, Upcoming) ELSE toMotors

Piece(x) ==
  /\ x.call \in DOMAIN issued /\ Num(x) \in 1..Total(x)
  /\ x.frame = FramesOf(CmdOf(x))[Num(x)]
Ahead(x, y) == x.call < y.call \/ (x.call = y.call /\ Num(x) < Num(y))
GoesOn(x, y) == IF y.call = x.call THEN Num(y) = Num(x) + 1 ELSE Num(y) = 1

Pieces == \A i \in 1..Len(Line) : Piece(Line[i])
Ordered == \A i, j \in 1..Len(Line) : i < j => Ahead(Line[i], Line[j])
Gapless == \A i \in 1..Len(Line) : i < Len(Line) => GoesOn(Line[i], Line[i + 1])
Ready ==
  Line # <<>> /\ Num(Line[1]) > 1 =>
    \A a \in Motors : To(Line[1]) \in {0, a} =>
      partial[a] = Prefix(CmdOf(Line[1]), Num(Line[1]) - 1)
\* A call is whole when its last frame is on its way.
Sealed == \A i \in 1..Len(toMotors) : Num(toMotors[i]) = Total(toMotors[i]) =>
                                       issued[toMotors[i].call].whole
TookOne(a, t) ==
  /\ t.call \in DOMAIN issued /\ issued[t.call].whole
  /\ t.cmd = issued[t.call].cmd /\ issued[t.call].cmd[1] \in {0, a}
TookInOrder ==
  \A a \in Motors :
    /\ \A i, j \in 1..Len(taken[a]) : i < j => taken[a][i].call < taken[a][j].call
    /\ \A i \in 1..Len(taken[a]) :
         /\ TookOne(a, taken[a][i])
         /\ \A j \in 1..Len(Line) : taken[a][i].call < Line[j].call
Coming(k) == \E i \in 1..Len(toMotors) :
               toMotors[i].call = k /\ Num(toMotors[i]) = Total(toMotors[i])
TookAll ==
  \A a \in Motors, k \in DOMAIN issued :
    issued[k].whole /\ issued[k].cmd[1] \in {0, a} =>
      (\E i \in 1..Len(taken[a]) : taken[a][i].call = k) \/ Coming(k)
Whole == Pieces /\ Ordered /\ Gapless /\ Ready /\ Sealed /\ TookInOrder /\ TookAll

\* The n-th frame of a command of a call.
LEMMA PieceParts ==
  ASSUME NEW cmd \in AnyCommand, NEW n \in 1..Len(FramesOf(cmd)), NEW x,
         x.frame = FramesOf(cmd)[n]
  PROVE  Num(x) = n /\ To(x) = cmd[1]
<1>1. FramesOf(cmd)[n].ext_id \div 256 = cmd[1] /\ FramesOf(cmd)[n].ext_id % 256 = n - 1
  BY FrameParts, ZenonT(30)
<1>2. n \in Nat
  BY CommandFrames
<1>3. To(x) = cmd[1]
  BY <1>1 DEF To
<1>4. Num(x) = (n - 1) + 1
  BY <1>1 DEF Num
<1> QED
  BY <1>2, <1>3, <1>4

LEMMA CommandsTyped ==
  ASSUME Typed
  PROVE  /\ issued \in Seq(Issue) /\ DOMAIN issued = 1..Len(issued) /\ Len(issued) \in Nat
         /\ \A k \in DOMAIN issued : issued[k].cmd \in Slice /\ issued[k].whole \in BOOLEAN
         /\ call.at # "idle" => This \in DOMAIN issued
         /\ call.at = "sending" => Cmd \in AnyCommand
<1>1. issued \in Seq(Issue) /\ (call.at # "idle" => Len(issued) > 0)
  BY DEF Typed, CallOK
<1>2. \A k \in DOMAIN issued : issued[k] \in Issue
  BY <1>1
<1>3. \A k \in DOMAIN issued : issued[k].cmd \in Slice /\ issued[k].whole \in BOOLEAN
  BY <1>2 DEF Issue
<1>4. call.at # "idle" => This \in DOMAIN issued
  BY <1>1 DEF This
<1>5. ASSUME call.at = "sending"
      PROVE  Cmd \in AnyCommand
  <2>1. Cmd \in Slice
    BY <1>3, <1>4, <1>5 DEF Cmd
  <2>2. call.sent \in Nat /\ call.sent < Len(FramesOf(Cmd))
    BY <1>5 DEF Typed, CallOK, CallState
  <2>3. FramesOf(Cmd) # <<>>
    BY <2>2
  <2> QED
    BY <2>1, <2>3, Framed
<1> QED
  BY <1>1, <1>3, <1>4, <1>5

LineFacts ==
  /\ Line \in Seq(Sent) /\ toMotors \in Seq(Sent)
  /\ call.at = "sending" =>
       /\ Line = Append(toMotors, Upcoming)
       /\ Upcoming \in Sent /\ Upcoming.call = This /\ Piece(Upcoming)
       /\ Num(Upcoming) = call.sent + 1 /\ call.sent \in Nat
       /\ Len(Line) = Len(toMotors) + 1 /\ Line[Len(Line)] = Upcoming
       /\ \A i \in 1..Len(toMotors) : Line[i] = toMotors[i]
  /\ call.at # "sending" => Line = toMotors

LEMMA LineTyped ==
  ASSUME Typed
  PROVE  LineFacts
<1>1. toMotors \in Seq(Sent) /\ call \in CallState
  BY DEF Typed, BusOK, CallOK
<1>2. ASSUME call.at = "sending"
      PROVE  /\ Upcoming \in Sent /\ Upcoming.call = This /\ Piece(Upcoming)
             /\ Num(Upcoming) = call.sent + 1 /\ call.sent \in Nat
  <2> DEFINE n == call.sent + 1
             f == FramesOf(Cmd)[n]
  <2>1. This \in DOMAIN issued /\ Cmd \in AnyCommand /\ This \in Nat
    BY <1>2, CommandsTyped DEF This
  <2>2. call.sent \in Nat /\ call.sent < Len(FramesOf(Cmd))
    BY <1>1, <1>2 DEF Typed, CallOK, CallState
  <2>3. n \in 1..Len(FramesOf(Cmd))
    BY <2>1, <2>2, CommandFrames
  <2>4. f \in Frame
    BY <2>1, <2>3, CommandFrames
  <2>5. Upcoming.frame = f /\ Upcoming.call = This
    BY DEF Upcoming
  <2>6. Num(Upcoming) = n
    BY <2>1, <2>3, <2>5, PieceParts
  <2>7. Upcoming \in Sent
    <3> HIDE DEF f
    <3>1. Upcoming = [frame |-> f, call |-> This]
      BY DEF Upcoming, f
    <3> QED
      BY <2>1, <2>4, <3>1 DEF Sent
  <2>8. CmdOf(Upcoming) = Cmd
    BY <2>5 DEF CmdOf, Cmd
  <2>9. Piece(Upcoming)
    BY <2>1, <2>3, <2>5, <2>6, <2>8 DEF Piece, Total
  <2> QED
    BY <2>2, <2>5, <2>6, <2>7, <2>9
<1>3. ASSUME call.at = "sending"
      PROVE  /\ Line = Append(toMotors, Upcoming) /\ Line \in Seq(Sent)
             /\ Len(Line) = Len(toMotors) + 1 /\ Line[Len(Line)] = Upcoming
             /\ \A i \in 1..Len(toMotors) : Line[i] = toMotors[i]
  <2>1. Line = Append(toMotors, Upcoming)
    BY <1>3 DEF Line
  <2>2. Upcoming \in Sent
    BY <1>2, <1>3
  <2> QED
    BY <1>1, <2>1, <2>2
<1>4. call.at # "sending" => Line = toMotors
  BY DEF Line
<1> QED
  BY <1>1, <1>2, <1>3, <1>4 DEF LineFacts

LEMMA LineTypedNext == (Typed => LineFacts)'
<1>1. Typed => LineFacts
  BY LineTyped
<1> QED
  BY <1>1, PTL

\* A piece is one of a command: its number, its address and how many there are.
LEMMA PieceTyped ==
  ASSUME Typed, NEW x, Piece(x)
  PROVE  /\ x.call \in Nat /\ Num(x) \in Nat /\ Num(x) >= 1 /\ Total(x) \in Nat
         /\ Num(x) <= Total(x) /\ To(x) = CmdOf(x)[1] /\ CmdOf(x) \in AnyCommand
<1>1. x.call \in Nat /\ CmdOf(x) \in AnyCommand
  <2>1. x.call \in Nat /\ CmdOf(x) \in Slice
    BY CommandsTyped DEF Piece, CmdOf
  <2>2. FramesOf(CmdOf(x)) # <<>>
    BY DEF Piece, Total
  <2> QED
    BY <2>1, <2>2, Framed
<1>2. Total(x) \in Nat
  BY <1>1, CommandFrames DEF Total
<1>3. Num(x) \in 1..Len(FramesOf(CmdOf(x))) /\ x.frame = FramesOf(CmdOf(x))[Num(x)]
  BY DEF Piece, Total
<1>4. To(x) = CmdOf(x)[1]
  BY <1>1, <1>3, PieceParts
<1> QED
  BY <1>1, <1>2, <1>3, <1>4 DEF Total

\* What was sent of earlier calls stays.
IssuedKept ==
  \A k \in DOMAIN issued : k \in DOMAIN issued' /\ issued'[k].cmd = issued[k].cmd

LEMMA PieceKept ==
  ASSUME IssuedKept, NEW x, Piece(x)
  PROVE  /\ x.call \in DOMAIN issued'
         /\ issued'[x.call].cmd = CmdOf(x)
         /\ Num(x) \in 1..Len(FramesOf(issued'[x.call].cmd))
         /\ x.frame = FramesOf(issued'[x.call].cmd)[Num(x)]
BY DEF IssuedKept, Piece, CmdOf, Total

\* Steps that take nothing from the line but, when a send is dropped, the frame
\* it comes to next.
LEMMA ShorterWhole ==
  ASSUME Typed, Typed', Whole, UNCHANGED <<issued, toMotors, partial, taken>>,
         Line' = Line \/ Line' = toMotors
  PROVE  Whole'
<1>1. /\ Len(Line') <= Len(Line) /\ Len(Line) \in Nat /\ Len(Line') \in Nat
      /\ \A i \in 1..Len(Line') : Line'[i] = Line[i]
  BY LineTyped DEF LineFacts
<1>2. \A x : (Piece(x) <=> Piece(x)') /\ CmdOf(x)' = CmdOf(x) /\ Total(x)' = Total(x)
  BY DEF Piece, CmdOf, Total
<1>3. Pieces'
  BY <1>1, <1>2 DEF Whole, Pieces, Piece, CmdOf, Total
<1>4. Ordered'
  BY <1>1 DEF Whole, Ordered, Ahead, Num
<1>5. Gapless'
  BY <1>1 DEF Whole, Gapless, GoesOn, Num
<1>6. Ready'
  <2> SUFFICES ASSUME Line' # <<>>, Num(Line'[1]) > 1, NEW a \in Motors, To(Line'[1]) \in {0, a}
               PROVE  partial[a] = Prefix(CmdOf(Line[1]), Num(Line[1]) - 1)
    <3>1. Line' # <<>> => Line'[1] = Line[1]
      BY <1>1, LineTyped DEF LineFacts
    <3> QED
      BY <3>1 DEF Ready, CmdOf, Num, To
  <2>1. Line # <<>> /\ Line'[1] = Line[1]
    BY <1>1, LineTyped DEF LineFacts
  <2> QED
    BY <2>1 DEF Whole, Ready
<1>7. Sealed'
  BY DEF Whole, Sealed, Num, Total, CmdOf
<1>8. TookInOrder'
  BY <1>1, SMTT(30) DEF Whole, TookInOrder, TookOne
<1>9. TookAll'
  BY DEF Whole, TookAll, Coming, Num, Total, CmdOf
<1> QED
  BY <1>3, <1>4, <1>5, <1>6, <1>7, <1>8, <1>9 DEF Whole

\* The line gets a frame at its end, which goes on with the last command in it
\* or begins another.
LEMMA GrownLine ==
  ASSUME Typed, Typed', Whole, IssuedKept, partial' = partial,
         NEW y \in Sent, Line' = Append(Line, y), Piece(y)',
         \A i \in 1..Len(Line) : Ahead(Line[i], y),
         Line # <<>> => GoesOn(Line[Len(Line)], y),
         Line = <<>> => Num(y) = 1
  PROVE  Pieces' /\ Ordered' /\ Gapless' /\ Ready'
<1> DEFINE n == Len(Line)
<1>1. /\ n \in Nat /\ Len(Line') = n + 1 /\ Line'[n + 1] = y /\ Line \in Seq(Sent)
      /\ \A i \in 1..n : Line'[i] = Line[i]
  BY LineTyped DEF LineFacts
<1> HIDE DEF n
<1>2. \A i \in 1..n : Piece(Line[i])
  BY DEF Whole, Pieces, n
<1>3. \A i \in 1..Len(Line') : i \in 1..n \/ i = n + 1
  BY <1>1
<1>4. Pieces'
  <2> SUFFICES ASSUME NEW i \in 1..Len(Line')
               PROVE  Piece(Line[i])'
    BY DEF Pieces
  <2>1. CASE i \in 1..n
    <3>1. Piece(Line[i]) /\ Line'[i] = Line[i]
      BY <1>1, <1>2, <2>1
    <3> QED
      BY <3>1, PieceKept DEF Piece, CmdOf, Total
  <2>2. CASE i = n + 1
    BY <1>1, <2>2 DEF Piece, CmdOf, Total
  <2> QED
    BY <1>3, <2>1, <2>2
<1>5. Ordered'
  <2> SUFFICES ASSUME NEW i \in 1..Len(Line'), NEW j \in 1..Len(Line'), i < j
               PROVE  Ahead(Line'[i], Line'[j])
    BY DEF Ordered, Ahead, Num
  <2>1. i \in 1..n /\ Line'[i] = Line[i]
    BY <1>1
  <2>2. CASE j \in 1..n
    BY <1>1, <2>1, <2>2 DEF Whole, Ordered, n
  <2>3. CASE j = n + 1
    BY <1>1, <2>1, <2>3 DEF n
  <2> QED
    BY <1>3, <2>2, <2>3
<1>6. Gapless'
  <2> SUFFICES ASSUME NEW i \in 1..Len(Line'), i < Len(Line')
               PROVE  GoesOn(Line'[i], Line'[i + 1])
    BY DEF Gapless, GoesOn, Num
  <2>1. i \in 1..n /\ Line'[i] = Line[i]
    BY <1>1
  <2>2. CASE i < n
    <3>1. i + 1 \in 1..n
      BY <1>1, <2>1, <2>2
    <3> QED
      BY <1>1, <2>1, <2>2, <3>1 DEF Whole, Gapless, n
  <2>3. CASE i = n
    <3>1. Line # <<>>
      BY <1>1, <2>1 DEF n
    <3> QED
      BY <1>1, <2>1, <2>3, <3>1 DEF n
  <2> QED
    BY <1>1, <2>1, <2>2, <2>3
<1>7. Ready'
  <2> SUFFICES ASSUME Num(Line'[1]) > 1, NEW a \in Motors, To(Line'[1]) \in {0, a}
               PROVE  partial'[a] = Prefix(CmdOf(Line[1])', Num(Line'[1]) - 1)
    BY DEF Ready, CmdOf, Num, To
  <2>1. Line # <<>> /\ 1 \in 1..n
    <3>1. CASE Line = <<>>
      <4>1. n = 0
        BY <3>1 DEF n
      <4>2. Line'[1] = y
        BY <1>1, <4>1
      <4> QED
        BY <3>1, <4>2
    <3>2. CASE Line # <<>>
      BY <1>1, <3>2 DEF n
    <3> QED
      BY <3>1, <3>2
  <2>2. Line'[1] = Line[1] /\ Piece(Line[1])
    BY <1>1, <1>2, <2>1
  <2>3. partial[a] = Prefix(CmdOf(Line[1]), Num(Line[1]) - 1)
    BY <2>1, <2>2 DEF Whole, Ready
  <2>4. CmdOf(Line[1])' = CmdOf(Line[1])
    BY <2>2, PieceKept DEF CmdOf
  <2> QED
    BY <2>2, <2>3, <2>4
<1> QED
  BY <1>4, <1>5, <1>6, <1>7

\* The line stays as it is.
LEMMA SameLine ==
  ASSUME Typed, Whole, IssuedKept, partial' = partial, Line' = Line
  PROVE  Pieces' /\ Ordered' /\ Gapless' /\ Ready'
<1>1. \A x : Piece(x) => CmdOf(x)' = CmdOf(x) /\ Total(x)' = Total(x) /\ Piece(x)'
  BY PieceKept DEF CmdOf, Total, Piece
<1>2. \A i \in 1..Len(Line) : Piece(Line[i])
  BY DEF Whole, Pieces
<1>3. Pieces'
  BY <1>1, <1>2 DEF Pieces
<1>4. Ordered'
  BY DEF Whole, Ordered, Ahead, Num
<1>5. Gapless'
  BY DEF Whole, Gapless, GoesOn, Num
<1>6. Ready'
  <2> SUFFICES ASSUME Line # <<>>, Num(Line[1]) > 1, NEW a \in Motors, To(Line[1]) \in {0, a}
               PROVE  partial[a] = Prefix(CmdOf(Line[1])', Num(Line[1]) - 1)
    BY DEF Ready, CmdOf, Num, To
  <2>1. 1 \in 1..Len(Line)
    BY LineTyped DEF LineFacts
  <2>2. CmdOf(Line[1])' = CmdOf(Line[1])
    BY <1>1, <1>2, <2>1 DEF CmdOf
  <2> QED
    BY <2>2 DEF Whole, Ready
<1> QED
  BY <1>3, <1>4, <1>5, <1>6

\* A call's command comes after all that are on their way, and a slice without a
\* frame changes nothing of the line.
LEMMA StartWhole ==
  ASSUME Typed, Typed', Whole, NEW kind \in {"send", "poll", "await"}, NEW cmd \in Slice,
         NEW loaded \in Seq(Loaded), Start(kind, cmd, loaded)
  PROVE  Whole'
<1> DEFINE new == [kind |-> kind, cmd |-> cmd, loads |-> loaded, whole |-> FALSE]
<1>1. /\ issued \in Seq(Issue) /\ issued' = Append(issued, new) /\ new \in Issue
      /\ call.at = "idle" /\ call'.sent = 0
      /\ UNCHANGED <<toMotors, partial, taken>>
  BY DEF Start, motors, Typed, CallOK, Issue
<1>2. new.whole = FALSE
  OBVIOUS
<1> HIDE DEF new
<1>3. /\ Len(issued) \in Nat /\ This' = Len(issued) + 1 /\ issued'[Len(issued) + 1] = new
      /\ DOMAIN issued = 1..Len(issued) /\ DOMAIN issued' = 1..(Len(issued) + 1)
      /\ \A k \in DOMAIN issued : k \in DOMAIN issued' /\ issued'[k] = issued[k]
  BY <1>1 DEF This
<1>4. IssuedKept
  BY <1>3 DEF IssuedKept
<1>5. Line = toMotors /\ Line \in Seq(Sent)
  BY <1>1, LineTyped DEF LineFacts
<1>6. \A i \in 1..Len(Line) : Line[i].call \in DOMAIN issued
  BY DEF Whole, Pieces, Piece
<1>7. \A i \in 1..Len(Line) : Line[i].call \in Nat /\ Line[i].call < This'
  BY <1>3, <1>6
<1> DEFINE Moved == /\ Pieces' /\ Ordered' /\ Gapless' /\ Ready'
                    /\ \A j \in 1..Len(Line') :
                         (j \in 1..Len(Line) /\ Line'[j] = Line[j]) \/ Line'[j].call = This'
<1>8. ASSUME call'.at # "sending"
      PROVE  Moved
  <2>1. Line' = Line
    BY <1>1, <1>5, <1>8 DEF Line
  <2> QED
    BY <1>1, <1>4, <2>1, SameLine
<1>9. ASSUME call'.at = "sending"
      PROVE  Moved
  <2>1. PICK y \in Sent : /\ Line' = Append(Line, y)
                          /\ y.call = This' /\ Piece(y)' /\ Num(y) = 1
    <3>1. /\ Line' = Append(toMotors', Upcoming') /\ Upcoming' \in Sent
          /\ Upcoming'.call = This' /\ Piece(Upcoming)' /\ Num(Upcoming)' = call'.sent + 1
      BY <1>9, LineTypedNext DEF LineFacts
    <3>2. PICK y \in Sent : y = Upcoming'
      BY <3>1
    <3>3. Num(y) = 1
      BY <1>1, <3>1, <3>2 DEF Num
    <3>4. Piece(y)'
      BY <3>1, <3>2 DEF Piece, Total, CmdOf, Num
    <3> QED
      BY <1>1, <1>5, <3>1, <3>2, <3>3, <3>4
  <2>2. \A i \in 1..Len(Line) : Ahead(Line[i], y)
    BY <1>7, <2>1 DEF Ahead
  <2>3. Line # <<>> => GoesOn(Line[Len(Line)], y)
    <3> SUFFICES ASSUME Line # <<>>
                 PROVE  GoesOn(Line[Len(Line)], y)
      OBVIOUS
    <3>1. Len(Line) \in 1..Len(Line)
      BY <1>5
    <3> QED
      BY <1>7, <2>1, <3>1 DEF GoesOn
  <2>4. Pieces' /\ Ordered' /\ Gapless' /\ Ready'
    BY <1>1, <1>4, <2>1, <2>2, <2>3, GrownLine
  <2>5. \A j \in 1..Len(Line') : (j \in 1..Len(Line) /\ Line'[j] = Line[j]) \/ Line'[j] = y
    BY <1>5, <2>1
  <2> QED
    BY <2>1, <2>4, <2>5
<1>10. \A x : Piece(x) => CmdOf(x)' = CmdOf(x) /\ Total(x)' = Total(x)
  BY <1>4, PieceKept DEF CmdOf, Total
<1>11. \A i \in 1..Len(toMotors) : Piece(toMotors[i])
  BY <1>5 DEF Whole, Pieces
<1>12. Sealed'
  <2> SUFFICES ASSUME NEW i \in 1..Len(toMotors), Num(toMotors[i]) = Total(toMotors[i])'
               PROVE  issued'[toMotors[i].call].whole
    BY <1>1 DEF Sealed, Num, Total, CmdOf
  <2>1. Piece(toMotors[i]) /\ Total(toMotors[i])' = Total(toMotors[i])
    BY <1>1, <1>10, <1>11 DEF Total, CmdOf
  <2>2. issued[toMotors[i].call].whole /\ toMotors[i].call \in DOMAIN issued
    BY <2>1 DEF Whole, Sealed, Piece
  <2> QED
    BY <1>3, <2>2
<1>13. TookInOrder'
  <2> SUFFICES ASSUME NEW a \in Motors
               PROVE  /\ \A i, j \in 1..Len(taken[a]) : i < j => taken[a][i].call < taken[a][j].call
                      /\ \A i \in 1..Len(taken[a]) :
                           /\ TookOne(a, taken[a][i])'
                           /\ \A j \in 1..Len(Line') : taken[a][i].call < Line'[j].call
    BY <1>1, SMTT(30) DEF TookInOrder, TookOne
  <2>1. \A i, j \in 1..Len(taken[a]) : i < j => taken[a][i].call < taken[a][j].call
    BY DEF Whole, TookInOrder
  <2>2. ASSUME NEW i \in 1..Len(taken[a])
        PROVE  /\ TookOne(a, taken[a][i])'
               /\ \A j \in 1..Len(Line') : taken[a][i].call < Line'[j].call
    <3>1. TookOne(a, taken[a][i]) /\ \A j \in 1..Len(Line) : taken[a][i].call < Line[j].call
      BY DEF Whole, TookInOrder
    <3>2. TookOne(a, taken[a][i])'
      BY <1>1, <1>3, <3>1 DEF TookOne
    <3>3. taken[a][i].call < This'
      BY <1>3, <3>1 DEF TookOne
    <3>4. Moved
      BY <1>8, <1>9
    <3> QED
      BY <3>1, <3>2, <3>3, <3>4
  <2> QED
    BY <2>1, <2>2
<1>14. TookAll'
  <2> SUFFICES ASSUME NEW a \in Motors, NEW k \in DOMAIN issued', issued'[k].whole,
                      issued'[k].cmd[1] \in {0, a}
               PROVE  (\E i \in 1..Len(taken[a]) : taken[a][i].call = k) \/ Coming(k)'
    BY <1>1 DEF TookAll
  <2>1. k \in DOMAIN issued
    BY <1>2, <1>3
  <2>2. issued'[k] = issued[k]
    BY <1>3, <2>1
  <2>3. (\E i \in 1..Len(taken[a]) : taken[a][i].call = k) \/ Coming(k)
    BY <2>1, <2>2 DEF Whole, TookAll
  <2>4. Coming(k) => Coming(k)'
    <3>1. \A i \in 1..Len(toMotors) : Total(toMotors[i])' = Total(toMotors[i])
      BY <1>1, <1>10, <1>11 DEF Total, CmdOf
    <3> QED
      BY <1>1, <3>1 DEF Coming, Num
  <2> QED
    BY <2>3, <2>4
<1> QED
  BY <1>8, <1>9, <1>12, <1>13, <1>14 DEF Whole

\* SendFrame puts the frame it had come to on the bus, and comes to the next one
\* unless it was the last.
LEMMA SendFrameWhole ==
  ASSUME Typed, Typed', Whole, SendFrame
  PROVE  Whole'
<1> DEFINE last == call.sent + 1 = Len(FramesOf(Cmd))
<1>1. /\ DOMAIN issued' = DOMAIN issued
      /\ \A k \in DOMAIN issued : issued'[k].cmd = issued[k].cmd
      /\ \A k \in DOMAIN issued : k # This => issued'[k] = issued[k]
      /\ issued'[This].whole = last
  BY SendFrameIssued
<1>2. IssuedKept
  BY <1>1 DEF IssuedKept
<1>3. call.at = "sending" /\ Cmd' = Cmd /\ This' = This /\ UNCHANGED <<partial, taken>>
  BY SendFrameTyped DEF SendFrame, motors
<1>4. /\ This \in DOMAIN issued /\ This \in Nat /\ Cmd \in AnyCommand
      /\ Len(FramesOf(Cmd)) \in Nat
  BY <1>3, CommandsTyped, CommandFrames DEF This
<1> DEFINE up == Upcoming
<1>5. /\ Line = Append(toMotors, up) /\ up \in Sent /\ up.call = This /\ Piece(up)
      /\ Num(up) = call.sent + 1 /\ call.sent \in Nat /\ Len(Line) = Len(toMotors) + 1
      /\ Line[Len(Line)] = up /\ \A i \in 1..Len(toMotors) : Line[i] = toMotors[i]
      /\ toMotors \in Seq(Sent) /\ Line \in Seq(Sent)
  BY <1>3, LineTyped DEF LineFacts
<1>6. toMotors' = Line
  BY <1>5 DEF SendFrame, Upcoming
<1>7. CmdOf(up) = Cmd /\ Total(up) = Len(FramesOf(Cmd))
  BY <1>5 DEF CmdOf, Total, Cmd
<1> HIDE DEF up
<1>8. /\ Len(Line) \in Nat /\ Len(Line) >= 1 /\ Len(Line) \in 1..Len(Line)
      /\ \A i \in 1..Len(Line) : i \in 1..Len(toMotors) \/ Line[i] = up
  BY <1>5
<1>9. \A x : Piece(x) => CmdOf(x)' = CmdOf(x) /\ Total(x)' = Total(x) /\ Piece(x)'
  BY <1>2, PieceKept DEF CmdOf, Total, Piece
<1>10. \A i \in 1..Len(Line) : Piece(Line[i])
  BY DEF Whole, Pieces
<1>11. \A i \in 1..Len(toMotors) : Piece(toMotors[i]) /\ Ahead(toMotors[i], up)
  <2> SUFFICES ASSUME NEW i \in 1..Len(toMotors)
               PROVE  Piece(toMotors[i]) /\ Ahead(toMotors[i], up)
    OBVIOUS
  <2>1. i \in 1..Len(Line) /\ i < Len(Line) /\ Line[i] = toMotors[i]
    BY <1>5
  <2> QED
    BY <1>5, <1>8, <1>10, <2>1 DEF Whole, Ordered
<1> DEFINE Moved == /\ Pieces' /\ Ordered' /\ Gapless' /\ Ready'
                    /\ \A j \in 1..Len(Line') :
                         (j \in 1..Len(Line) /\ Line'[j] = Line[j]) \/ Line'[j].call = This
<1>12. ASSUME last
       PROVE  Moved
  <2>1. call'.at # "sending"
    BY <1>12 DEF SendFrame, AfterSend, Typed, CallOK, CallState
  <2>2. Line' = Line
    BY <1>6, <2>1 DEF Line
  <2> QED
    BY <1>2, <1>3, <2>2, SameLine
<1>13. ASSUME ~last
       PROVE  Moved
  <2>1. call'.at = "sending" /\ call'.sent = call.sent + 1
    BY <1>13 DEF SendFrame, Typed, CallOK, CallState
  <2>2. PICK y \in Sent : /\ Line' = Append(Line, y)
                          /\ y.call = This /\ Piece(y)' /\ Num(y) = (call.sent + 1) + 1
    <3>1. /\ Line' = Append(toMotors', Upcoming') /\ Upcoming' \in Sent
          /\ Upcoming'.call = This' /\ Piece(Upcoming)' /\ Num(Upcoming)' = call'.sent + 1
      BY <2>1, LineTypedNext DEF LineFacts
    <3>2. PICK y \in Sent : y = Upcoming'
      BY <3>1
    <3>3. Num(y) = (call.sent + 1) + 1
      BY <2>1, <3>1, <3>2 DEF Num
    <3>4. Piece(y)'
      BY <3>1, <3>2 DEF Piece, Total, CmdOf, Num
    <3> QED
      BY <1>3, <1>6, <3>1, <3>2, <3>3, <3>4
  <2>3. \A i \in 1..Len(Line) : Ahead(Line[i], y)
    <3>1. Ahead(up, y)
      BY <1>5, <2>2 DEF Ahead
    <3>2. ASSUME NEW i \in 1..Len(toMotors)
          PROVE  Ahead(Line[i], y)
      <4>1. Line[i] = toMotors[i] /\ Ahead(toMotors[i], up) /\ Piece(toMotors[i])
        BY <1>5, <1>11
      <4>2. Num(toMotors[i]) \in Nat
        BY <4>1, PieceTyped
      <4> QED
        BY <1>5, <2>2, <4>1, <4>2 DEF Ahead
    <3> QED
      BY <1>8, <3>1, <3>2
  <2>4. GoesOn(Line[Len(Line)], y)
    BY <1>5, <2>2 DEF GoesOn
  <2>5. Line # <<>>
    BY <1>5, <1>8
  <2>6. Pieces' /\ Ordered' /\ Gapless' /\ Ready'
    BY <1>2, <1>3, <2>2, <2>3, <2>4, <2>5, GrownLine
  <2>7. \A j \in 1..Len(Line') : (j \in 1..Len(Line) /\ Line'[j] = Line[j]) \/ Line'[j] = y
    BY <1>5, <2>2
  <2> QED
    BY <2>2, <2>6, <2>7
<1>14. Moved
  BY <1>12, <1>13
<1>15. Sealed'
  <2> SUFFICES ASSUME NEW i \in 1..Len(Line), NEW x, x = Line[i], Num(x) = Total(x)'
               PROVE  issued'[x.call].whole
    BY <1>6 DEF Sealed, Num, Total, CmdOf
  <2>1. Piece(x) /\ Total(x)' = Total(x)
    BY <1>9, <1>10
  <2>2. CASE x = up
    <3>1. last
      BY <1>5, <1>7, <2>1, <2>2
    <3> QED
      BY <1>1, <1>5, <2>2, <3>1
  <2>3. CASE i \in 1..Len(toMotors)
    <3>1. x = toMotors[i] /\ Ahead(x, up) /\ Piece(x) /\ Num(x) = Total(x)
      BY <1>5, <1>11, <2>1, <2>3
    <3>2. issued[x.call].whole
      BY <2>3, <3>1 DEF Whole, Sealed
    <3>3. x.call # This
      <4> SUFFICES ASSUME x.call = This
                   PROVE  FALSE
        OBVIOUS
      <4>1. Num(x) = Len(FramesOf(Cmd))
        BY <3>1 DEF Total, CmdOf, Cmd
      <4>2. Num(x) < Num(up)
        BY <1>4, <1>5, <3>1 DEF Ahead
      <4>3. Num(up) <= Len(FramesOf(Cmd))
        BY <1>4, <1>5, <1>7 DEF Piece
      <4> QED
        BY <1>4, <1>5, <4>1, <4>2, <4>3
    <3>4. x.call \in DOMAIN issued
      BY <3>1 DEF Piece
    <3> QED
      BY <1>1, <3>2, <3>3, <3>4
  <2> QED
    BY <1>8, <2>2, <2>3
<1>16. TookInOrder'
  <2> SUFFICES ASSUME NEW a \in Motors
               PROVE  /\ \A i, j \in 1..Len(taken[a]) : i < j => taken[a][i].call < taken[a][j].call
                      /\ \A i \in 1..Len(taken[a]) :
                           /\ TookOne(a, taken[a][i])'
                           /\ \A j \in 1..Len(Line') : taken[a][i].call < Line'[j].call
    BY <1>3 DEF TookInOrder, TookOne
  <2>1. \A i, j \in 1..Len(taken[a]) : i < j => taken[a][i].call < taken[a][j].call
    BY DEF Whole, TookInOrder
  <2>2. ASSUME NEW i \in 1..Len(taken[a])
        PROVE  /\ TookOne(a, taken[a][i])'
               /\ \A j \in 1..Len(Line') : taken[a][i].call < Line'[j].call
    <3>1. TookOne(a, taken[a][i]) /\ \A j \in 1..Len(Line) : taken[a][i].call < Line[j].call
      BY DEF Whole, TookInOrder
    <3>2. taken[a][i].call < This
      BY <1>5, <1>8, <3>1
    <3>3. taken[a][i].call \in DOMAIN issued /\ taken[a][i].call # This
      BY <1>4, <3>1, <3>2, CommandsTyped DEF TookOne
    <3>4. TookOne(a, taken[a][i])'
      BY <1>1, <1>3, <3>1, <3>3 DEF TookOne
    <3> QED
      BY <1>14, <3>1, <3>2, <3>4
  <2> QED
    BY <2>1, <2>2
<1>17. TookAll'
  <2> SUFFICES ASSUME NEW a \in Motors, NEW k \in DOMAIN issued, issued'[k].whole,
                      issued[k].cmd[1] \in {0, a}
               PROVE  (\E i \in 1..Len(taken[a]) : taken[a][i].call = k) \/ Coming(k)'
    BY <1>1, <1>3 DEF TookAll
  <2>1. \A i \in 1..Len(Line) : Line[i].call = k /\ Num(Line[i]) = Total(Line[i]) => Coming(k)'
    BY <1>6, <1>9, <1>10 DEF Coming, Num, Total, CmdOf
  <2>2. CASE k = This
    <3>1. last
      BY <1>1, <2>2
    <3>2. up.call = k /\ Num(up) = Total(up)
      BY <1>5, <1>7, <2>2, <3>1
    <3> QED
      BY <1>5, <1>8, <2>1, <3>2
  <2>3. CASE k # This
    <3>1. (\E i \in 1..Len(taken[a]) : taken[a][i].call = k) \/ Coming(k)
      BY <1>1, <2>3 DEF Whole, TookAll
    <3>2. Coming(k) => Coming(k)'
      BY <1>5, <1>8, <2>1 DEF Coming
    <3> QED
      BY <3>1, <3>2
  <2> QED
    BY <2>2, <2>3
<1> QED
  BY <1>14, <1>15, <1>16, <1>17 DEF Whole

\* What a motor has after the frame at the head of the line that it hears.
LEMMA HeardFirst ==
  ASSUME Typed, Whole, Line # <<>>, NEW a \in Motors, To(Line[1]) \in {0, a}
  PROVE  LET x == Line[1]
             now == Assemble(partial[a], x.frame)
         IN  /\ Piece(x) /\ now = Prefix(CmdOf(x), Num(x))
             /\ Num(x) = Total(x) => Complete(now) /\ now = CmdOf(x)
             /\ Num(x) # Total(x) => ~Complete(now)
<1> DEFINE x == Line[1]
           cmd == CmdOf(x)
           n == Num(x)
<1>1. Line \in Seq(Sent) /\ 1 \in 1..Len(Line)
  BY LineTyped DEF LineFacts
<1>2. Piece(x)
  BY <1>1 DEF Whole, Pieces
<1>3. /\ cmd \in AnyCommand /\ n \in 1..Len(FramesOf(cmd)) /\ x.frame = FramesOf(cmd)[n]
      /\ Total(x) = Len(FramesOf(cmd)) /\ n \in Nat /\ Total(x) \in Nat /\ n <= Total(x)
  BY <1>2, PieceTyped DEF Piece, Total
<1>4. n > 1 => partial[a] = Prefix(cmd, n - 1)
  BY DEF Whole, Ready
<1> HIDE DEF x, cmd, n
<1>5. Assemble(partial[a], x.frame) = Prefix(cmd, n)
  BY <1>3, <1>4, Assembles
<1>6. n = Total(x) => Complete(Prefix(cmd, n)) /\ Prefix(cmd, n) = cmd
  BY <1>3, TakenWhole
<1>7. n # Total(x) => ~Complete(Prefix(cmd, n))
  BY <1>3, TakenWhole
<1> QED
  BY <1>2, <1>5, <1>6, <1>7 DEF x, cmd, n

\* A motor takes the command with the last of its frames, after all that it took
\* before, and has its bytes so far until then.
LEMMA DeliverTakes ==
  ASSUME Typed, Whole, DeliverFrame, NEW m, m = Line[1], NEW a \in Motors
  PROVE  /\ Piece(m)
         /\ IF To(m) \in {0, a} /\ Num(m) = Total(m)
            THEN /\ taken'[a] = Append(taken[a], [call |-> m.call, cmd |-> CmdOf(m)])
                 /\ todo'[a] = todo[a] \o Answers(a, CmdOf(m), m.call)
                 /\ issued[m.call].whole
                 /\ \A i \in 1..Len(taken[a]) : taken[a][i].call < m.call
            ELSE UNCHANGED <<taken[a], todo[a]>>
         /\ To(m) \in {0, a} /\ Num(m) # Total(m) => partial'[a] = Prefix(CmdOf(m), Num(m))
<1> DEFINE now == Assemble(partial[a], m.frame)
           hears == To(m) \in {0, a}
<1>1. /\ toMotors # <<>> /\ toMotors \in Seq(Sent) /\ Line # <<>> /\ Line \in Seq(Sent)
      /\ 1 \in 1..Len(toMotors) /\ 1 \in 1..Len(Line) /\ Line[1] = toMotors[1]
  BY LineTyped DEF DeliverFrame, LineFacts
<1>2. m = Head(toMotors)
  BY <1>1
<1>3. Piece(m)
  BY <1>1 DEF Whole, Pieces
<1>4. /\ partial'[a] = IF ~hears THEN partial[a] ELSE IF Complete(now) THEN <<>> ELSE now
      /\ taken'[a] = IF hears /\ Complete(now)
                     THEN Append(taken[a], [call |-> m.call, cmd |-> now]) ELSE taken[a]
      /\ todo'[a] = IF hears /\ Complete(now)
                    THEN todo[a] \o Answers(a, now, m.call) ELSE todo[a]
  BY <1>2 DEF DeliverFrame, To
<1>5. hears => /\ now = Prefix(CmdOf(m), Num(m))
               /\ Num(m) = Total(m) => Complete(now) /\ now = CmdOf(m)
               /\ Num(m) # Total(m) => ~Complete(now)
  BY <1>1, HeardFirst
<1>6. Num(m) = Total(m) => issued[m.call].whole
  BY <1>1 DEF Whole, Sealed
<1>7. \A i \in 1..Len(taken[a]) : taken[a][i].call < m.call
  BY <1>1 DEF Whole, TookInOrder
<1> HIDE DEF now, hears
<1>8. CASE hears /\ Num(m) = Total(m)
  BY <1>3, <1>4, <1>5, <1>6, <1>7, <1>8 DEF hears
<1>9. CASE hears /\ Num(m) # Total(m)
  BY <1>3, <1>4, <1>5, <1>9 DEF hears
<1>10. CASE ~hears
  BY <1>3, <1>4, <1>10 DEF hears
<1> QED
  BY <1>8, <1>9, <1>10

\* A frame leaves the line, and the motors that hear it have the bytes for the
\* next.
LEMMA DeliverWhole ==
  ASSUME Typed, Typed', Whole, DeliverFrame
  PROVE  Whole'
<1> DEFINE m == Line[1]
           n == Len(Line)
<1>1. toMotors # <<>> /\ toMotors' = Tail(toMotors) /\ UNCHANGED <<issued, call>>
  BY DEF DeliverFrame
<1>2. /\ toMotors \in Seq(Sent) /\ Line \in Seq(Sent) /\ n \in Nat /\ n >= 1
      /\ Len(toMotors) \in Nat /\ Len(toMotors) >= 1
      /\ m = toMotors[1] /\ \A i \in 1..Len(toMotors) : i \in 1..n /\ Line[i] = toMotors[i]
  BY <1>1, LineTyped DEF LineFacts
<1>3. Len(Line') = n - 1 /\ \A i \in 1..(n - 1) : i + 1 \in 1..n /\ Line'[i] = Line[i + 1]
  <2> DEFINE rest == Tail(toMotors)
  <2>1. /\ rest \in Seq(Sent) /\ Len(rest) = Len(toMotors) - 1
        /\ \A i \in 1..(Len(toMotors) - 1) : rest[i] = toMotors[i + 1]
    BY <1>1, <1>2
  <2> HIDE DEF rest
  <2>2. CASE call.at # "sending"
    <3>1. Line = toMotors /\ Line' = rest
      BY <1>1, <2>2 DEF Line, rest
    <3> QED
      BY <1>2, <2>1, <3>1
  <2>3. CASE call.at = "sending"
    <3> DEFINE u == Upcoming
    <3>1. Line = Append(toMotors, u) /\ u \in Sent
      BY <2>3, LineTyped DEF LineFacts
    <3>2. Line' = Append(rest, u)
      BY <1>1, <2>3 DEF Line, rest, Upcoming, Cmd, This
    <3> HIDE DEF u
    <3>3. n = Len(toMotors) + 1 /\ Line[Len(toMotors) + 1] = u
      BY <1>2, <3>1
    <3>4. /\ Len(Line') = Len(rest) + 1 /\ Line'[Len(rest) + 1] = u
          /\ \A i \in 1..Len(rest) : Line'[i] = rest[i]
      BY <2>1, <3>1, <3>2
    <3> HIDE DEF n
    <3>5. ASSUME NEW i \in 1..(n - 1)
          PROVE  i + 1 \in 1..n /\ Line'[i] = Line[i + 1]
      <4>1. CASE i \in 1..(Len(toMotors) - 1)
        BY <1>2, <2>1, <3>3, <3>4, <4>1
      <4>2. CASE i = Len(toMotors)
        BY <1>2, <2>1, <3>3, <3>4, <4>2
      <4> QED
        BY <1>2, <3>3, <4>1, <4>2
    <3> QED
      BY <1>2, <2>1, <3>3, <3>4, <3>5
  <2> QED
    BY <2>2, <2>3
<1>4. \A i \in 1..n : Piece(Line[i])
  BY DEF Whole, Pieces
<1>5. /\ Piece(m) /\ m.call \in Nat /\ Num(m) \in Nat /\ Total(m) \in Nat /\ Num(m) <= Total(m)
      /\ To(m) = CmdOf(m)[1] /\ m.call \in DOMAIN issued
  BY <1>2, <1>4, PieceTyped DEF Piece
<1> HIDE DEF m, n
<1>6. ASSUME NEW i \in 1..(n - 1)
      PROVE  /\ Piece(Line'[i]) /\ Ahead(m, Line'[i])
             /\ Num(m) = Total(m) => m.call < Line'[i].call
  <2>1. i + 1 \in 1..n /\ Line'[i] = Line[i + 1] /\ 1 \in 1..n /\ 1 < i + 1
    BY <1>2, <1>3
  <2>2. Piece(Line[i + 1])
    BY <1>4, <2>1
  <2>3. Ahead(m, Line[i + 1])
    BY <2>1 DEF Whole, Ordered, n, m
  <2>4. Num(m) = Total(m) => m.call < Line[i + 1].call
    <3> DEFINE y == Line[i + 1]
    <3>1. /\ y.call \in Nat /\ Num(y) \in Nat /\ Num(y) <= Total(y)
          /\ y.call = m.call => Total(y) = Total(m)
      BY <2>2, PieceTyped DEF Total, CmdOf
    <3> QED
      BY <1>5, <2>3, <3>1 DEF Ahead
  <2> QED
    BY <2>1, <2>2, <2>3, <2>4
<1>7. \A x : /\ Piece(x)' <=> Piece(x)
             /\ CmdOf(x)' = CmdOf(x) /\ Total(x)' = Total(x)
  BY <1>1 DEF Piece, CmdOf, Total
<1>8. Pieces'
  <2>1. \A i \in 1..Len(Line') : Piece(Line'[i])
    BY <1>3, <1>6
  <2> QED
    BY <1>1, <2>1 DEF Pieces, Piece, CmdOf, Total, Num
<1>9. Ordered'
  <2> SUFFICES ASSUME NEW i \in 1..(n - 1), NEW j \in 1..(n - 1), i < j
               PROVE  Ahead(Line'[i], Line'[j])
    BY <1>3 DEF Ordered, Ahead, Num
  <2>1. i + 1 \in 1..n /\ j + 1 \in 1..n /\ i + 1 < j + 1
    BY <1>2
  <2> QED
    BY <1>3, <2>1 DEF Whole, Ordered, n
<1>10. Gapless'
  <2> SUFFICES ASSUME NEW i \in 1..(n - 1), i < n - 1
               PROVE  GoesOn(Line'[i], Line'[i + 1])
    BY <1>3 DEF Gapless, GoesOn, Num
  <2>1. i + 1 \in 1..n /\ i + 1 < n /\ i + 1 \in 1..(n - 1)
    BY <1>2
  <2>2. GoesOn(Line[i + 1], Line[(i + 1) + 1])
    BY <2>1 DEF Whole, Gapless, n
  <2> QED
    BY <1>3, <2>1, <2>2
<1>11. Ready'
  <2> SUFFICES ASSUME Line' # <<>>, Num(Line'[1]) > 1, NEW a \in Motors, To(Line'[1]) \in {0, a}
               PROVE  partial'[a] = Prefix(CmdOf(Line'[1]), Num(Line'[1]) - 1)
    BY <1>1 DEF Ready, CmdOf, Num, To
  <2> DEFINE y == Line'[1]
  <2>1. 1 \in 1..(n - 1) /\ y = Line[2] /\ 1 < n
    <3>1. Line' \in Seq(Sent)
      BY LineTypedNext DEF LineFacts
    <3>2. Len(Line') # 0
      BY <3>1
    <3> QED
      BY <1>2, <1>3, <3>2
  <2>2. GoesOn(m, y)
    BY <1>2, <2>1 DEF Whole, Gapless, n, m
  <2>3. Piece(y)
    BY <1>6, <2>1
  <2> HIDE DEF y
  <2>4. y.call = m.call /\ Num(y) = Num(m) + 1
    BY <2>2 DEF GoesOn, y
  <2>5. /\ CmdOf(y) = CmdOf(m) /\ To(y) = To(m) /\ Total(y) = Total(m)
        /\ Num(y) - 1 = Num(m) /\ Num(m) # Total(m)
    <3>1. CmdOf(y) = CmdOf(m) /\ Total(y) = Total(m)
      BY <2>4 DEF CmdOf, Total
    <3>2. To(y) = CmdOf(y)[1] /\ Num(y) <= Total(y)
      BY <2>3, PieceTyped
    <3> QED
      BY <1>5, <2>4, <3>1, <3>2
  <2>6. partial'[a] = Prefix(CmdOf(m), Num(m))
    <3>1. To(m) \in {0, a}
      BY <2>5 DEF y
    <3> QED
      BY <2>5, <3>1, DeliverTakes DEF m
  <2> QED
    BY <2>5, <2>6 DEF y
<1>12. /\ Len(toMotors') = Len(toMotors) - 1
       /\ \A i \in 1..(Len(toMotors) - 1) :
            i + 1 \in 1..Len(toMotors) /\ toMotors'[i] = toMotors[i + 1]
  BY <1>1, <1>2
<1>13. Sealed'
  <2> SUFFICES ASSUME NEW i \in 1..(Len(toMotors) - 1),
                      Num(toMotors'[i]) = Total(toMotors'[i])
               PROVE  issued[toMotors'[i].call].whole
    BY <1>1, <1>12 DEF Sealed, Num, Total, CmdOf
  <2> QED
    BY <1>12 DEF Whole, Sealed
<1>14. TookInOrder'
  <2> SUFFICES ASSUME NEW a \in Motors
               PROVE  /\ \A i, j \in 1..Len(taken'[a]) : i < j => taken'[a][i].call < taken'[a][j].call
                      /\ \A i \in 1..Len(taken'[a]) :
                           /\ TookOne(a, taken'[a][i])
                           /\ \A j \in 1..Len(Line') : taken'[a][i].call < Line'[j].call
    BY <1>1 DEF TookInOrder, TookOne
  <2> DEFINE tk == taken[a]
  <2>1. /\ \A i, j \in 1..Len(tk) : i < j => tk[i].call < tk[j].call
        /\ \A i \in 1..Len(tk) : TookOne(a, tk[i]) /\ \A j \in 1..n : tk[i].call < Line[j].call
    BY DEF Whole, TookInOrder, n
  <2>2. \A i \in 1..Len(tk), j \in 1..Len(Line') : tk[i].call < Line'[j].call
    BY <1>3, <2>1
  <2>3. CASE taken'[a] = tk
    BY <2>1, <2>2, <2>3
  <2>4. CASE To(m) \in {0, a} /\ Num(m) = Total(m)
    <3> DEFINE t == [call |-> m.call, cmd |-> CmdOf(m)]
    <3>1. /\ taken'[a] = Append(tk, t) /\ issued[m.call].whole
          /\ \A i \in 1..Len(tk) : tk[i].call < m.call
      BY <2>4, DeliverTakes DEF m
    <3>2. t \in Took /\ t.call = m.call /\ t.cmd = CmdOf(m) /\ tk \in Seq(Took)
      BY <1>5, PieceTyped DEF Took, AnyCommand, Typed, BusOK
    <3> HIDE DEF t, tk
    <3>3. /\ Len(taken'[a]) = Len(tk) + 1 /\ taken'[a][Len(tk) + 1] = t /\ Len(tk) \in Nat
          /\ \A i \in 1..Len(tk) : taken'[a][i] = tk[i]
      BY <3>1, <3>2
    <3>4. TookOne(a, t)
      BY <1>5, <2>4, <3>1, <3>2 DEF TookOne, CmdOf
    <3>5. \A j \in 1..Len(Line') : t.call < Line'[j].call
      BY <1>3, <1>6, <2>4, <3>2
    <3>6. \A i \in 1..Len(taken'[a]) : (i \in 1..Len(tk) /\ taken'[a][i] = tk[i])
                                       \/ (i = Len(tk) + 1 /\ taken'[a][i] = t)
      BY <3>3
    <3>7. \A i \in 1..Len(taken'[a]) :
             TookOne(a, taken'[a][i]) /\ \A j \in 1..Len(Line') : taken'[a][i].call < Line'[j].call
      BY <2>1, <2>2, <3>4, <3>5, <3>6
    <3>8. ASSUME NEW i \in 1..Len(taken'[a]), NEW j \in 1..Len(taken'[a]), i < j
          PROVE  taken'[a][i].call < taken'[a][j].call
      <4>1. i \in 1..Len(tk) /\ taken'[a][i] = tk[i]
        BY <3>3, <3>8
      <4>2. CASE j \in 1..Len(tk)
        BY <2>1, <3>3, <3>8, <4>1, <4>2
      <4>3. CASE j = Len(tk) + 1
        BY <3>1, <3>2, <3>3, <4>1, <4>3
      <4> QED
        BY <3>6, <4>2, <4>3
    <3> QED
      BY <3>7, <3>8
  <2> QED
    BY <2>3, <2>4, DeliverTakes, ZenonT(30) DEF m
<1>15. TookAll'
  <2> SUFFICES ASSUME NEW a \in Motors, NEW k \in DOMAIN issued, issued[k].whole,
                      issued[k].cmd[1] \in {0, a}
               PROVE  (\E i \in 1..Len(taken'[a]) : taken'[a][i].call = k) \/ Coming(k)'
    BY <1>1 DEF TookAll
  <2> DEFINE tk == taken[a]
             t == [call |-> m.call, cmd |-> CmdOf(m)]
  <2>1. tk \in Seq(Took) /\ t \in Took /\ t.call = m.call
    BY <1>5, PieceTyped DEF Took, AnyCommand, Typed, BusOK
  <2>2. taken'[a] = tk \/ taken'[a] = Append(tk, t)
    BY DeliverTakes DEF m
  <2>3. \A i \in 1..Len(tk) : i \in 1..Len(taken'[a]) /\ taken'[a][i] = tk[i]
    <3> HIDE DEF tk, t
    <3> QED
      BY <2>1, <2>2
  <2>4. CASE \E i \in 1..Len(tk) : tk[i].call = k
    BY <2>3, <2>4
  <2>5. CASE Coming(k)
    <3>1. PICK i \in 1..Len(toMotors) :
            toMotors[i].call = k /\ Num(toMotors[i]) = Total(toMotors[i])
      BY <2>5 DEF Coming
    <3>2. CASE i = 1
      <4>1. m.call = k /\ Num(m) = Total(m) /\ To(m) \in {0, a}
        BY <1>2, <1>5, <3>1, <3>2 DEF CmdOf
      <4>2. taken'[a] = Append(tk, t)
        BY <4>1, DeliverTakes DEF m
      <4> HIDE DEF tk, t
      <4>3. Len(tk) + 1 \in 1..Len(taken'[a]) /\ taken'[a][Len(tk) + 1] = t
        BY <2>1, <4>2
      <4> QED
        BY <2>1, <4>1, <4>3
    <3>3. CASE i # 1
      <4>1. i - 1 \in 1..(Len(toMotors) - 1) /\ (i - 1) + 1 = i
        BY <1>2, <3>3
      <4>2. i - 1 \in 1..Len(toMotors') /\ toMotors'[i - 1] = toMotors[i]
        BY <1>12, <4>1
      <4>3. Total(toMotors[i]) = Len(FramesOf(issued'[toMotors'[i - 1].call].cmd))
        BY <1>1, <4>2 DEF Total, CmdOf
      <4>4. Coming(k)'
        BY <3>1, <4>2, <4>3 DEF Coming, Total, CmdOf, Num
      <4> QED
        BY <4>4
    <3> QED
      BY <3>2, <3>3
  <2> QED
    BY <2>4, <2>5 DEF Whole, TookAll
<1> QED
  BY <1>8, <1>9, <1>10, <1>11, <1>13, <1>14, <1>15 DEF Whole

\* The other steps leave the line as it is, or drop the frame a send comes to.
LEMMA QuietWhole ==
  ASSUME Typed, Typed', Whole,
         \/ TakeFrame \/ PollNothing \/ PollsUsedUp \/ Abandon \/ ReadOn
         \/ (\E c \in Menus[menu].loads : LoadCommand(c))
         \/ (\E a \in Motors : Reply(a) \/ Report(a)) \/ UNCHANGED vars
  PROVE  Whole'
<1>1. UNCHANGED <<issued, toMotors, partial, taken>>
  BY DEF TakeFrame, PollNothing, PollsUsedUp, Abandon, ReadOn, LoadCommand, Reply, Report,
         motors, vars
<1>2. call' = call \/ call'.at # "sending"
  <2>1. CASE TakeFrame \/ PollNothing
    <3>1. call \in CallState /\ call.at = "waiting"
      BY <2>1 DEF TakeFrame, PollNothing, Typed, CallOK
    <3>2. Idle.at = "idle"
      BY DEF Idle
    <3>3. call' = Idle \/ \E n : call' = [call EXCEPT !.polls = n]
      BY <2>1 DEF TakeFrame, PollNothing
    <3> QED
      BY <3>1, <3>2, <3>3 DEF CallState
  <2>2. CASE PollsUsedUp \/ Abandon
    BY <2>2 DEF PollsUsedUp, Abandon, Idle
  <2>3. CASE \/ ReadOn \/ (\E c \in Menus[menu].loads : LoadCommand(c))
             \/ (\E a \in Motors : Reply(a) \/ Report(a)) \/ UNCHANGED vars
    BY <2>3 DEF ReadOn, LoadCommand, Reply, Report, vars
  <2> QED
    BY <2>1, <2>2, <2>3
<1>3. Line' = Line \/ Line' = toMotors
  <2>1. CASE call' = call
    BY <1>1, <2>1 DEF Line, Upcoming, Cmd, This
  <2>2. CASE call'.at # "sending"
    BY <1>1, <2>2 DEF Line
  <2> QED
    BY <1>2, <2>1, <2>2
<1> QED
  BY <1>1, <1>3, ShorterWhole

LEMMA NextWhole ==
  ASSUME Typed, Typed', Whole, [Next]_vars
  PROVE  Whole'
<1>1. CASE \E c \in Menus[menu].commands, kind \in Menus[menu].kinds : Call(kind, c)
  <2>1. PICK c \in Menus[menu].commands, kind \in Menus[menu].kinds : Call(kind, c)
    BY <1>1
  <2>2. c \in Slice /\ kind \in {"send", "poll", "await"}
    BY MenuCommands DEF Typed, PackingOK
  <2>3. Start(kind, c, <<>>)
    BY <2>1 DEF Call
  <2>4. <<>> \in Seq(Loaded)
    OBVIOUS
  <2> QED
    BY <2>2, <2>3, <2>4, StartWhole
<1>2. CASE CommitAndSend
  <2>1. Batch(0, txn) \in AnyCommand /\ loads \in Seq(Loaded)
    BY <1>2, BatchIsCommand DEF CommitAndSend, Typed, PackingOK
  <2> QED
    BY <1>2, <2>1, StartWhole DEF CommitAndSend, Slice
<1>3. CASE SendFrame
  BY <1>3, SendFrameWhole
<1>4. CASE DeliverFrame
  BY <1>4, DeliverWhole
<1>5. CASE \/ TakeFrame \/ PollNothing \/ PollsUsedUp \/ Abandon \/ ReadOn
           \/ (\E c \in Menus[menu].loads : LoadCommand(c))
           \/ (\E a \in Motors : Reply(a) \/ Report(a)) \/ UNCHANGED vars
  BY <1>5, QuietWhole
<1> QED
  BY <1>1, <1>2, <1>3, <1>4, <1>5 DEF Next, Caller, CallStep

LEMMA AlwaysWhole == Spec => []Whole
<1>1. Init => Whole
  <2> SUFFICES ASSUME Init
               PROVE  Whole
    OBVIOUS
  <2>1. Line = <<>> /\ toMotors = <<>> /\ issued = <<>> /\ \A a \in Motors : taken[a] = <<>>
    BY DEF Init, Idle, Line
  <2> QED
    BY <2>1 DEF Whole, Pieces, Ordered, Gapless, Ready, Sealed, TookInOrder, TookAll
<1>2. Typed /\ Typed' /\ Whole /\ [Next]_vars => Whole'
  BY NextWhole
<1> QED
  BY <1>1, <1>2, AlwaysTyped, PTL DEF Spec

\* A motor takes whole commands only, those addressed to it and the broadcasts,
\* in the order they were sent and each once, and it has taken them all when no
\* frame is on its way: sends that were dropped between two frames leave nothing
\* that another command could be put together with.
THEOREM WholeCommands == Spec => []MotorsTakeWholeCommands
<1>1. Typed /\ Whole => MotorsTakeWholeCommands
  <2> SUFFICES ASSUME Typed, Whole, NEW a \in Motors
               PROVE  /\ \A i, j \in DOMAIN taken[a] : i < j => taken[a][i].call < taken[a][j].call
                      /\ \A i \in DOMAIN taken[a] : TookOne(a, taken[a][i])
                      /\ toMotors = <<>> =>
                           \A k \in DOMAIN issued : issued[k].whole /\ issued[k].cmd[1] \in {0, a} =>
                             \E i \in DOMAIN taken[a] : taken[a][i].call = k
    BY DEF MotorsTakeWholeCommands, TookOne
  <2>1. DOMAIN taken[a] = 1..Len(taken[a])
    BY DEF Typed, BusOK
  <2>2. toMotors = <<>> => ~ \E k : Coming(k)
    BY DEF Coming
  <2> QED
    BY <2>1, <2>2 DEF Whole, TookInOrder, TookAll
<1> QED
  BY <1>1, AlwaysTyped, AlwaysWhole, PTL

-----------------------------------------------------------------------------
(* Answers come in order.  What write_read has returned, what is on its    *)
(* way and what a motor has yet to send are, motor by motor, one row of    *)
(* answers to the commands it took.                                        *)

Before(x, y) == x.from = y.from /\ x.of # 0 /\ y.of # 0 => Earlier(x, y)
Sorted(s) == \A i, j \in 1..Len(s) : i < j => Before(s[i], s[j])
AllBefore(s, t) == \A i \in 1..Len(s), j \in 1..Len(t) : Before(s[i], t[j])
Known(x) == x.of # 0 => /\ \E i \in 1..Len(taken[x.from]) : taken[x.from][i].call = x.of
                        /\ x.part \in DOMAIN Answers(x.from, issued[x.of].cmd, x.of)
AllKnown(s) == \A i \in 1..Len(s) : Known(s[i])

InRow ==
  /\ Sorted(got) /\ Sorted(toCaller) /\ AllBefore(got, toCaller)
  /\ \A a \in Motors : /\ Sorted(todo[a])
                       /\ AllBefore(got, todo[a]) /\ AllBefore(toCaller, todo[a])
AnswersKnown ==
  /\ AllKnown(got) /\ AllKnown(toCaller) /\ \A a \in Motors : AllKnown(todo[a])
AnsweredLater == \A i \in 1..Len(got) : got[i].of <= got[i].call
InOrder == InRow /\ AnswersKnown /\ AnsweredLater

\* Taking the first of a row.
LEMMA FirstGone ==
  ASSUME NEW S, NEW t \in Seq(S), t # <<>>
  PROVE  /\ Tail(t) \in Seq(S) /\ t[1] \in S
         /\ \A i \in 1..Len(Tail(t)) : i + 1 \in 1..Len(t) /\ Tail(t)[i] = t[i + 1]
         /\ Sorted(t) => Sorted(Tail(t)) /\ \A i \in 1..Len(Tail(t)) : Before(t[1], Tail(t)[i])
         /\ \A s : AllBefore(s, t) => /\ AllBefore(s, Tail(t))
                                      /\ \A i \in 1..Len(s) : Before(s[i], t[1])
         /\ \A u : AllBefore(t, u) => /\ AllBefore(Tail(t), u)
                                      /\ \A j \in 1..Len(u) : Before(t[1], u[j])
<1> DEFINE r == Tail(t)
<1>1. /\ r \in Seq(S) /\ Len(r) = Len(t) - 1 /\ Len(t) \in Nat /\ 1 \in 1..Len(t) /\ t[1] \in S
      /\ \A i \in 1..Len(r) : r[i] = t[i + 1]
  OBVIOUS
<1> HIDE DEF r
<1>2. \A i \in 1..Len(r) : i + 1 \in 1..Len(t) /\ i + 1 > 1 /\ r[i] = t[i + 1]
  BY <1>1
<1>3. ASSUME Sorted(t)
      PROVE  Sorted(r) /\ \A i \in 1..Len(r) : Before(t[1], r[i])
  <2>1. \A i, j \in 1..Len(r) : i < j => i + 1 < j + 1
    BY <1>1
  <2> QED
    BY <1>1, <1>2, <1>3, <2>1 DEF Sorted
<1>4. ASSUME NEW s, AllBefore(s, t)
      PROVE  AllBefore(s, r) /\ \A i \in 1..Len(s) : Before(s[i], t[1])
  BY <1>1, <1>2, <1>4 DEF AllBefore
<1>5. ASSUME NEW u, AllBefore(t, u)
      PROVE  AllBefore(r, u) /\ \A j \in 1..Len(u) : Before(t[1], u[j])
  BY <1>1, <1>2, <1>5 DEF AllBefore
<1> QED
  BY <1>1, <1>2, <1>3, <1>4, <1>5 DEF r

\* One more at the end of a row.
LEMMA OneMore ==
  ASSUME NEW S, NEW s \in Seq(S), NEW y \in S
  PROVE  /\ Append(s, y) \in Seq(S)
         /\ \A i \in 1..Len(Append(s, y)) :
              (i \in 1..Len(s) /\ Append(s, y)[i] = s[i]) \/ Append(s, y)[i] = y
         /\ Sorted(s) /\ (\A i \in 1..Len(s) : Before(s[i], y)) => Sorted(Append(s, y))
         /\ \A u : AllBefore(s, u) /\ (\A j \in 1..Len(u) : Before(y, u[j]))
                     => AllBefore(Append(s, y), u)
         /\ \A u : AllBefore(u, s) /\ (\A j \in 1..Len(u) : Before(u[j], y))
                     => AllBefore(u, Append(s, y))
<1> DEFINE r == Append(s, y)
<1>1. /\ r \in Seq(S) /\ Len(r) = Len(s) + 1 /\ Len(s) \in Nat /\ r[Len(s) + 1] = y
      /\ \A i \in 1..Len(s) : r[i] = s[i]
  OBVIOUS
<1> HIDE DEF r
<1>2. \A i \in 1..Len(r) : (i \in 1..Len(s) /\ r[i] = s[i]) \/ (i = Len(s) + 1 /\ r[i] = y)
  BY <1>1
<1>3. ASSUME Sorted(s), \A i \in 1..Len(s) : Before(s[i], y)
      PROVE  Sorted(r)
  <2> SUFFICES ASSUME NEW i \in 1..Len(r), NEW j \in 1..Len(r), i < j
               PROVE  Before(r[i], r[j])
    BY DEF Sorted
  <2>1. i \in 1..Len(s) /\ r[i] = s[i]
    BY <1>1
  <2> QED
    BY <1>2, <1>3, <2>1 DEF Sorted
<1>4. ASSUME NEW u, AllBefore(s, u), \A j \in 1..Len(u) : Before(y, u[j])
      PROVE  AllBefore(r, u)
  BY <1>2, <1>4 DEF AllBefore
<1>5. ASSUME NEW u, AllBefore(u, s), \A j \in 1..Len(u) : Before(u[j], y)
      PROVE  AllBefore(u, r)
  BY <1>2, <1>5 DEF AllBefore
<1> QED
  BY <1>1, <1>2, <1>3, <1>4, <1>5 DEF r

\* The order of two answers is in these fields.
LEMMA SameAnswer ==
  ASSUME NEW x, NEW y, x.from = y.from, x.of = y.of, x.part = y.part
  PROVE  /\ \A z : (Before(z, x) <=> Before(z, y)) /\ (Before(x, z) <=> Before(y, z))
         /\ Known(x) <=> Known(y)
BY DEF Before, Earlier, Known

\* An answer to a command that a motor took stays one.
LEMMA KnownKept ==
  ASSUME Typed, Whole, IssuedKept,
         \A a \in Motors : \A i \in 1..Len(taken[a]) :
           i \in 1..Len(taken'[a]) /\ taken'[a][i] = taken[a][i]
  PROVE  \A x : x.from \in Motors /\ Known(x) => Known(x)'
<1> SUFFICES ASSUME NEW x, x.from \in Motors, Known(x), x.of # 0
             PROVE  /\ \E i \in 1..Len(taken'[x.from]) : taken'[x.from][i].call = x.of
                    /\ x.part \in DOMAIN Answers(x.from, issued'[x.of].cmd, x.of)
  BY DEF Known
<1>1. PICK i \in 1..Len(taken[x.from]) : taken[x.from][i].call = x.of
  BY DEF Known
<1>2. x.of \in DOMAIN issued
  BY <1>1 DEF Whole, TookInOrder, TookOne
<1>3. issued'[x.of].cmd = issued[x.of].cmd
  BY <1>2 DEF IssuedKept
<1> QED
  BY <1>1, <1>3 DEF Known

\* Who the answers are from.
LEMMA FromMotors ==
  ASSUME Typed
  PROVE  /\ \A i \in 1..Len(got) : got[i].from \in Motors
         /\ \A i \in 1..Len(toCaller) : toCaller[i].from \in Motors
         /\ \A a \in Motors : \A i \in 1..Len(todo[a]) : todo[a][i].from = a
<1>1. got \in Seq(Got) /\ toCaller \in Seq(Heard) /\ \A a \in Motors : todo[a] \in Seq(Part(a))
  BY DEF Typed, BusOK
<1>2. \A i \in 1..Len(got) : got[i] \in Got
  BY <1>1
<1>3. \A i \in 1..Len(toCaller) : toCaller[i] \in Heard
  BY <1>1
<1>4. \A a \in Motors : \A i \in 1..Len(todo[a]) : todo[a][i] \in Part(a)
  BY <1>1
<1> QED
  BY <1>2, <1>3, <1>4 DEF Got, Heard, Part

\* Steps that only send.
LEMMA SendOrder ==
  ASSUME Typed, Whole, InOrder, IssuedKept, UNCHANGED <<taken, todo, toCaller, got>>
  PROVE  InOrder'
<1>1. InRow' /\ AnsweredLater'
  BY DEF InOrder, InRow, AnsweredLater, Sorted, AllBefore
<1>2. \A x : x.from \in Motors /\ Known(x) => Known(x)'
  BY KnownKept
<1>3. AnswersKnown'
  <2>1. \A i \in 1..Len(got) : Known(got[i]) /\ got[i].from \in Motors
    BY FromMotors DEF InOrder, AnswersKnown, AllKnown
  <2>2. \A i \in 1..Len(toCaller) : Known(toCaller[i]) /\ toCaller[i].from \in Motors
    BY FromMotors DEF InOrder, AnswersKnown, AllKnown
  <2>3. \A a \in Motors : \A i \in 1..Len(todo[a]) : Known(todo[a][i]) /\ todo[a][i].from \in Motors
    BY FromMotors DEF InOrder, AnswersKnown, AllKnown
  <2>4. AllKnown(got)'
    BY <1>2, <2>1 DEF AllKnown
  <2>5. AllKnown(toCaller)'
    BY <1>2, <2>2 DEF AllKnown
  <2>6. \A a \in Motors : AllKnown(todo[a])'
    BY <1>2, <2>3 DEF AllKnown
  <2> QED
    BY <2>4, <2>5, <2>6 DEF AnswersKnown
<1> QED
  BY <1>1, <1>3 DEF InOrder

\* A frame is taken and dropped.
LEMMA DropOrder ==
  ASSUME Typed, InOrder, toCaller # <<>>, toCaller' = Tail(toCaller),
         UNCHANGED <<issued, taken, todo, got>>
  PROVE  InOrder'
<1>1. toCaller \in Seq(Heard)
  BY DEF Typed, BusOK
<1>2. InRow'
  <2>1. Sorted(toCaller)' /\ AllBefore(got, toCaller)'
    BY <1>1, FirstGone DEF InOrder, InRow, Sorted, AllBefore
  <2>2. \A a \in Motors : AllBefore(toCaller', todo[a])
    BY <1>1, FirstGone DEF InOrder, InRow
  <2> QED
    BY <2>1, <2>2 DEF InOrder, InRow, Sorted, AllBefore
<1>3. AnswersKnown'
  <2>1. \A x : Known(x)' <=> Known(x)
    BY DEF Known
  <2>2. \A i \in 1..Len(toCaller') : Known(toCaller'[i])
    BY <1>1, FirstGone DEF InOrder, AnswersKnown, AllKnown
  <2> QED
    BY <2>1, <2>2 DEF InOrder, AnswersKnown, AllKnown, Known
<1> QED
  BY <1>2, <1>3 DEF InOrder, AnsweredLater

\* write_read returns the next answer of the row, to a call that is not a later
\* one.
LEMMA TakeOrder ==
  ASSUME Typed, Whole, InOrder, TakeFrame
  PROVE  InOrder'
<1> DEFINE x == Head(toCaller)
           y == [call |-> This, from |-> x.from, of |-> x.of, part |-> x.part,
                 fresh |-> call.fresh]
<1>1. /\ toCaller # <<>> /\ toCaller' = Tail(toCaller) /\ UNCHANGED <<issued, taken, todo>>
      /\ toCaller \in Seq(Heard) /\ got \in Seq(Got) /\ call \in CallState /\ This \in Nat
  BY DEF TakeFrame, ReceiveFrame, motors, Typed, BusOK, CallOK, This
<1>2. x = toCaller[1] /\ x \in Heard /\ 1 \in 1..Len(toCaller)
  BY <1>1
<1>3. y \in Got /\ y.from = x.from /\ y.of = x.of /\ y.part = x.part /\ y.call = This
  BY <1>1, <1>2 DEF Got, Heard, CallState
<1>4. got' = got \/ got' = Append(got, y)
  BY DEF TakeFrame
<1>5. CASE got' = got
  BY <1>1, <1>5, DropOrder
<1>6. CASE got' = Append(got, y)
  <2> HIDE DEF x, y
  <2>1. \A z : (Before(z, x) <=> Before(z, y)) /\ (Before(x, z) <=> Before(y, z))
    BY <1>3, SameAnswer
  <2>2. Known(x) <=> Known(y)
    BY <1>3, SameAnswer
  <2>3. InRow'
    <3>1. /\ Sorted(toCaller') /\ AllBefore(got, toCaller')
          /\ \A i \in 1..Len(toCaller') : Before(x, toCaller'[i])
          /\ \A i \in 1..Len(got) : Before(got[i], x)
      BY <1>1, <1>2, FirstGone DEF InOrder, InRow
    <3>2. \A a \in Motors : /\ AllBefore(toCaller', todo[a])
                            /\ \A j \in 1..Len(todo[a]) : Before(x, todo[a][j])
      BY <1>1, <1>2, FirstGone DEF InOrder, InRow
    <3>3. /\ Sorted(got) /\ (\A i \in 1..Len(got) : Before(got[i], y)) => Sorted(got')
          /\ \A u : AllBefore(got, u) /\ (\A j \in 1..Len(u) : Before(y, u[j]))
                     => AllBefore(got', u)
      BY <1>1, <1>3, <1>6, OneMore
    <3>4. Sorted(got') /\ AllBefore(got', toCaller')
      BY <2>1, <3>1, <3>3 DEF InOrder, InRow
    <3>5. \A a \in Motors : AllBefore(got', todo[a]) /\ Sorted(todo[a])
      BY <2>1, <3>2, <3>3 DEF InOrder, InRow
    <3> QED
      BY <1>1, <3>1, <3>2, <3>3, <3>4, <3>5 DEF InRow, Sorted, AllBefore
  <2>4. \A i \in 1..Len(got') : (i \in 1..Len(got) /\ got'[i] = got[i]) \/ got'[i] = y
    BY <1>1, <1>3, <1>6, OneMore
  <2>5. Known(x)
    BY <1>2 DEF InOrder, AnswersKnown, AllKnown
  <2>6. AnswersKnown'
    <3>1. \A z : Known(z)' <=> Known(z)
      BY <1>1 DEF Known
    <3>2. \A i \in 1..Len(got') : Known(got'[i])
      BY <2>2, <2>4, <2>5 DEF InOrder, AnswersKnown, AllKnown
    <3>3. \A i \in 1..Len(toCaller') : Known(toCaller'[i])
      BY <1>1, FirstGone DEF InOrder, AnswersKnown, AllKnown
    <3> QED
      BY <1>1, <3>1, <3>2, <3>3 DEF InOrder, AnswersKnown, AllKnown, Known
  <2>7. y.of <= y.call
    <3>1. CASE x.of = 0
      BY <1>1, <1>3, <3>1
    <3>2. CASE x.of # 0
      <4>1. PICK i \in 1..Len(taken[x.from]) : taken[x.from][i].call = x.of
        BY <2>5, <3>2 DEF Known
      <4>2. x.from \in Motors
        BY <1>2 DEF Heard
      <4>3. x.of \in DOMAIN issued
        BY <4>1, <4>2 DEF Whole, TookInOrder, TookOne
      <4> QED
        BY <1>3, <4>3, CommandsTyped DEF This
    <3> QED
      BY <3>1, <3>2
  <2>8. AnsweredLater'
    BY <2>4, <2>7 DEF InOrder, AnsweredLater
  <2> QED
    BY <2>3, <2>6, <2>8 DEF InOrder
<1> QED
  BY <1>4, <1>5, <1>6

\* A motor sends the next answer of its row.
LEMMA ReplyOrder ==
  ASSUME Typed, InOrder, NEW a \in Motors, Reply(a)
  PROVE  InOrder'
<1> DEFINE x == Head(todo[a])
<1>1. /\ todo[a] \in Seq(Heard) /\ todo[a] # <<>> /\ todo[a] \in Seq(Part(a))
      /\ toCaller \in Seq(Heard) /\ toCaller' = Append(toCaller, x)
      /\ todo' = [todo EXCEPT ![a] = Tail(todo[a])] /\ todo \in [Motors -> Seq(Heard)]
      /\ UNCHANGED <<issued, taken, got>>
  BY DEF Reply, Typed, BusOK
<1>2. x = todo[a][1] /\ x \in Heard /\ 1 \in 1..Len(todo[a]) /\ x.from = a
  <2>1. x = todo[a][1] /\ x \in Heard /\ 1 \in 1..Len(todo[a])
    BY <1>1
  <2> QED
    BY <2>1, FromMotors
<1>3. /\ todo'[a] = Tail(todo[a]) /\ todo'[a] \in Seq(Heard)
      /\ \A b \in Motors : b # a => todo'[b] = todo[b]
  BY <1>1
<1> HIDE DEF x
<1>4. InRow'
  <2>1. /\ Sorted(toCaller') /\ AllBefore(got, toCaller')
    <3>1. \A i \in 1..Len(toCaller) : Before(toCaller[i], x)
      BY <1>1, <1>2, FirstGone DEF InOrder, InRow
    <3>2. \A i \in 1..Len(got) : Before(got[i], x)
      BY <1>1, <1>2, FirstGone DEF InOrder, InRow
    <3> QED
      BY <1>1, <1>2, <3>1, <3>2, OneMore DEF InOrder, InRow
  <2>2. ASSUME NEW b \in Motors
        PROVE  Sorted(todo'[b]) /\ AllBefore(got, todo'[b]) /\ AllBefore(toCaller', todo'[b])
    <3>1. CASE b = a
      <4>1. /\ Sorted(todo'[a]) /\ AllBefore(got, todo'[a]) /\ AllBefore(toCaller, todo'[a])
            /\ \A i \in 1..Len(todo'[a]) : Before(x, todo'[a][i])
        BY <1>1, <1>2, <1>3, FirstGone DEF InOrder, InRow
      <4>2. AllBefore(toCaller', todo'[a])
        <5>1. \A u : AllBefore(toCaller, u) /\ (\A j \in 1..Len(u) : Before(x, u[j]))
                     => AllBefore(toCaller', u)
          BY <1>1, <1>2, OneMore
        <5> QED
          BY <4>1, <5>1
      <4> QED
        BY <3>1, <4>1, <4>2
    <3>2. CASE b # a
      <4>1. \A j \in 1..Len(todo[b]) : Before(x, todo[b][j])
        BY <1>2, <3>2, FromMotors DEF Before
      <4>2. AllBefore(toCaller', todo[b])
        BY <1>1, <1>2, <4>1, OneMore DEF InOrder, InRow
      <4> QED
        BY <1>3, <3>2, <4>2 DEF InOrder, InRow
    <3> QED
      BY <3>1, <3>2
  <2>3. Sorted(got)
    BY DEF InOrder, InRow
  <2> QED
    BY <1>1, <2>1, <2>2, <2>3 DEF InRow, Sorted, AllBefore
<1>5. AnswersKnown'
  <2>1. \A z : Known(z)' <=> Known(z)
    BY <1>1 DEF Known
  <2>2. \A i \in 1..Len(toCaller') : Known(toCaller'[i])
    <3>1. \A i \in 1..Len(toCaller') :
            (i \in 1..Len(toCaller) /\ toCaller'[i] = toCaller[i]) \/ toCaller'[i] = x
      BY <1>1, <1>2, OneMore
    <3> QED
      BY <1>2, <3>1 DEF InOrder, AnswersKnown, AllKnown
  <2>3. \A b \in Motors : \A i \in 1..Len(todo'[b]) : Known(todo'[b][i])
    <3>1. \A i \in 1..Len(todo'[a]) : Known(todo'[a][i])
      BY <1>1, <1>3, FirstGone DEF InOrder, AnswersKnown, AllKnown
    <3> QED
      BY <1>3, <3>1 DEF InOrder, AnswersKnown, AllKnown
  <2>4. AllKnown(got')
    BY <1>1 DEF InOrder, AnswersKnown
  <2> QED
    BY <1>1, <2>1, <2>2, <2>3, <2>4 DEF AnswersKnown, AllKnown
<1>6. AnsweredLater'
  BY <1>1 DEF InOrder, AnsweredLater
<1> QED
  BY <1>4, <1>5, <1>6 DEF InOrder

\* A report is in no order with the answers.
LEMMA ReportOrder ==
  ASSUME Typed, InOrder, NEW a \in Motors, Report(a)
  PROVE  InOrder'
<1> DEFINE x == [from |-> a, of |-> 0, part |-> 0]
<1>1. /\ toCaller \in Seq(Heard) /\ toCaller' = Append(toCaller, x)
      /\ UNCHANGED <<issued, taken, todo, got>>
  BY DEF Report, motors, Typed, BusOK
<1>2. x \in Heard /\ x.of = 0
  BY DEF Heard
<1> HIDE DEF x
<1>3. \A z : Before(x, z) /\ Before(z, x)
  BY <1>2 DEF Before
<1>4. InRow'
  <2>1. /\ Sorted(toCaller') /\ AllBefore(got, toCaller')
        /\ \A b \in Motors : AllBefore(toCaller', todo[b])
    BY <1>1, <1>2, <1>3, OneMore DEF InOrder, InRow
  <2> QED
    BY <1>1, <2>1 DEF InOrder, InRow, Sorted, AllBefore
<1>5. AnswersKnown'
  <2>1. \A z : Known(z)' <=> Known(z)
    BY <1>1 DEF Known
  <2>2. \A i \in 1..Len(toCaller') :
          (i \in 1..Len(toCaller) /\ toCaller'[i] = toCaller[i]) \/ toCaller'[i] = x
    BY <1>1, <1>2, OneMore
  <2>3. \A i \in 1..Len(toCaller') : Known(toCaller'[i])
    BY <1>2, <2>2 DEF InOrder, AnswersKnown, AllKnown, Known
  <2> QED
    BY <1>1, <2>1, <2>3 DEF InOrder, AnswersKnown, AllKnown, Known
<1>6. AnsweredLater'
  BY <1>1 DEF InOrder, AnsweredLater
<1> QED
  BY <1>4, <1>5, <1>6 DEF InOrder

\* What a motor answers with a command it takes comes after all it answered or is
\* to answer.
LEMMA AnswerRow ==
  ASSUME Typed, Whole, InOrder, DeliverFrame, NEW m, m = Line[1], NEW a \in Motors,
         To(m) \in {0, a}, Num(m) = Total(m), NEW more, more = Answers(a, CmdOf(m), m.call)
  PROVE  /\ more \in Seq(Part(a)) /\ Sorted(more)
         /\ \A j \in 1..Len(more) : Known(more[j])' /\ more[j].from = a
         /\ \A x : x.from = a /\ Known(x) => \A j \in 1..Len(more) : Before(x, more[j])
<1>1. /\ m.call \in Nat /\ m.call \in DOMAIN issued /\ CmdOf(m) \in AnyCommand
  BY DeliverTakes, PieceTyped DEF Piece
<1>2. /\ more \in Seq(Part(a)) /\ DOMAIN more = 1..Len(more) /\ Len(more) \in Nat
      /\ \A j \in 1..Len(more) : more[j].of = m.call /\ more[j].part = j /\ more[j].from = a
  <2>1. more \in Seq(Part(a)) /\ \A j \in DOMAIN more :
          more[j].of = m.call /\ more[j].part = j /\ more[j].from = a
    BY <1>1, AnswersTyped
  <2> QED
    BY <2>1
<1>3. Sorted(more)
  BY <1>2 DEF Sorted, Before, Earlier
<1>4. /\ taken'[a] = Append(taken[a], [call |-> m.call, cmd |-> CmdOf(m)])
      /\ \A i \in 1..Len(taken[a]) : taken[a][i].call < m.call
  BY DeliverTakes
<1>5. \A j \in 1..Len(more) : Known(more[j])'
  <2> SUFFICES ASSUME NEW y, y.of = m.call, y.from = a, y.part \in DOMAIN more
               PROVE  /\ \E i \in 1..Len(taken'[a]) : taken'[a][i].call = m.call
                      /\ y.part \in DOMAIN Answers(a, issued'[m.call].cmd, m.call)
    BY <1>2 DEF Known
  <2> DEFINE t == [call |-> m.call, cmd |-> CmdOf(m)]
  <2>1. taken[a] \in Seq(Took) /\ t \in Took /\ t.call = m.call
    BY <1>1 DEF Took, AnyCommand, Typed, BusOK
  <2> HIDE DEF t
  <2>2. Len(taken[a]) + 1 \in 1..Len(taken'[a]) /\ taken'[a][Len(taken[a]) + 1] = t
    BY <1>4, <2>1 DEF t
  <2>3. issued'[m.call].cmd = CmdOf(m)
    BY DEF DeliverFrame, CmdOf
  <2> QED
    BY <2>1, <2>2, <2>3
<1>6. ASSUME NEW x, x.from = a, Known(x), NEW j \in 1..Len(more)
      PROVE  Before(x, more[j])
  <2>1. x.of # 0 => x.of < m.call
    BY <1>4, <1>6 DEF Known
  <2> QED
    BY <1>2, <2>1 DEF Before, Earlier
<1> QED
  BY <1>2, <1>3, <1>5, <1>6

LEMMA JoinedRow ==
  ASSUME NEW S, NEW s \in Seq(S), NEW t \in Seq(S)
  PROVE  /\ \A i \in 1..Len(s \o t) :
              \/ i \in 1..Len(s) /\ (s \o t)[i] = s[i]
              \/ \E j \in 1..Len(t) : i = Len(s) + j /\ (s \o t)[i] = t[j]
         /\ Sorted(s) /\ Sorted(t) /\ AllBefore(s, t) => Sorted(s \o t)
         /\ \A u : AllBefore(u, s) /\ AllBefore(u, t) => AllBefore(u, s \o t)
<1> DEFINE r == s \o t
<1>1. /\ Len(r) = Len(s) + Len(t) /\ Len(s) \in Nat /\ Len(t) \in Nat
      /\ \A i \in 1..Len(s) : r[i] = s[i]
      /\ \A j \in 1..Len(t) : r[Len(s) + j] = t[j]
  BY ConcatProperties
<1> HIDE DEF r
<1>2. ASSUME NEW i \in 1..Len(r)
      PROVE  \/ i \in 1..Len(s) /\ r[i] = s[i]
             \/ \E j \in 1..Len(t) : i = Len(s) + j /\ r[i] = t[j]
  <2>1. CASE i \in 1..Len(s)
    BY <1>1, <2>1
  <2>2. CASE i \notin 1..Len(s)
    <3>1. i - Len(s) \in 1..Len(t) /\ Len(s) + (i - Len(s)) = i
      BY <1>1, <2>2
    <3> QED
      BY <1>1, <3>1
  <2> QED
    BY <2>1, <2>2
<1>3. ASSUME Sorted(s), Sorted(t), AllBefore(s, t)
      PROVE  Sorted(r)
  <2> SUFFICES ASSUME NEW i \in 1..Len(r), NEW j \in 1..Len(r), i < j
               PROVE  Before(r[i], r[j])
    BY DEF Sorted
  <2>1. CASE j \in 1..Len(s) /\ r[j] = s[j]
    <3>1. i \in 1..Len(s) /\ r[i] = s[i]
      BY <1>1, <2>1
    <3> QED
      BY <1>3, <2>1, <3>1 DEF Sorted
  <2>2. CASE \E l \in 1..Len(t) : j = Len(s) + l /\ r[j] = t[l]
    <3>1. PICK l \in 1..Len(t) : j = Len(s) + l /\ r[j] = t[l]
      BY <2>2
    <3>2. CASE i \in 1..Len(s) /\ r[i] = s[i]
      BY <1>3, <3>1, <3>2 DEF AllBefore
    <3>3. CASE \E k \in 1..Len(t) : i = Len(s) + k /\ r[i] = t[k]
      <4>1. PICK k \in 1..Len(t) : i = Len(s) + k /\ r[i] = t[k]
        BY <3>3
      <4>2. k < l
        BY <1>1, <3>1, <4>1
      <4> QED
        BY <1>3, <3>1, <4>1, <4>2 DEF Sorted
    <3> QED
      BY <1>2, <3>2, <3>3
  <2> QED
    BY <1>2, <2>1, <2>2
<1>4. ASSUME NEW u, AllBefore(u, s), AllBefore(u, t)
      PROVE  AllBefore(u, r)
  <2> SUFFICES ASSUME NEW i \in 1..Len(u), NEW j \in 1..Len(r)
               PROVE  Before(u[i], r[j])
    BY DEF AllBefore
  <2> QED
    BY <1>2, <1>4 DEF AllBefore
<1> QED
  BY <1>2, <1>3, <1>4 DEF r

LEMMA DeliverOrder ==
  ASSUME Typed, Whole, InOrder, DeliverFrame
  PROVE  InOrder'
<1>1. UNCHANGED <<issued, toCaller, got>>
  BY DEF DeliverFrame
<1>2. IssuedKept
  BY <1>1 DEF IssuedKept
<1>3. PICK m : m = Line[1]
  OBVIOUS
<1>4. \A a \in Motors : taken[a] \in Seq(Took)
  BY DEF Typed, BusOK
<1>5. \A a \in Motors : \A i \in 1..Len(taken[a]) :
         i \in 1..Len(taken'[a]) /\ taken'[a][i] = taken[a][i]
  <2> SUFFICES ASSUME NEW a \in Motors
               PROVE  \A i \in 1..Len(taken[a]) :
                        i \in 1..Len(taken'[a]) /\ taken'[a][i] = taken[a][i]
    OBVIOUS
  <2> DEFINE t == [call |-> m.call, cmd |-> CmdOf(m)]
  <2>1. taken'[a] = taken[a] \/ taken'[a] = Append(taken[a], t)
    BY <1>3, DeliverTakes
  <2> HIDE DEF t
  <2> QED
    BY <1>4, <2>1
<1>6. \A x : x.from \in Motors /\ Known(x) => Known(x)'
  BY <1>2, <1>5, KnownKept
<1>7. /\ \A i \in 1..Len(got) : Known(got[i]) /\ got[i].from \in Motors
      /\ \A i \in 1..Len(toCaller) : Known(toCaller[i]) /\ toCaller[i].from \in Motors
      /\ \A a \in Motors : \A i \in 1..Len(todo[a]) : Known(todo[a][i]) /\ todo[a][i].from = a
  BY FromMotors DEF InOrder, AnswersKnown, AllKnown
<1>8. ASSUME NEW a \in Motors
      PROVE  /\ Sorted(todo'[a]) /\ AllBefore(got, todo'[a]) /\ AllBefore(toCaller, todo'[a])
             /\ AllKnown(todo[a])'
  <2>1. CASE UNCHANGED todo[a]
    <3>1. todo'[a] = todo[a]
      BY <2>1
    <3>2. AllKnown(todo[a])'
      BY <1>6, <1>7, <3>1 DEF AllKnown
    <3> QED
      BY <3>1, <3>2 DEF InOrder, InRow
  <2>2. CASE To(m) \in {0, a} /\ Num(m) = Total(m)
    <3>1. PICK more : more = Answers(a, CmdOf(m), m.call)
      OBVIOUS
    <3>2. todo'[a] = todo[a] \o more
      BY <1>3, <2>2, <3>1, DeliverTakes
    <3>3. /\ more \in Seq(Part(a)) /\ Sorted(more)
          /\ \A j \in 1..Len(more) : Known(more[j])'
          /\ \A x : x.from = a /\ Known(x) => \A j \in 1..Len(more) : Before(x, more[j])
      BY <1>3, <2>2, <3>1, AnswerRow
    <3>4. todo[a] \in Seq(Part(a))
      BY DEF Typed, BusOK
    <3>5. AllBefore(todo[a], more)
      BY <1>7, <3>3 DEF AllBefore
    <3>6. AllBefore(got, more) /\ AllBefore(toCaller, more)
      <4>1. \A j \in 1..Len(more) : more[j].from = a
        BY <1>3, <2>2, <3>1, AnswerRow
      <4> QED
        BY <1>7, <3>3, <4>1 DEF AllBefore, Before
    <3>7. Sorted(todo'[a]) /\ AllBefore(got, todo'[a]) /\ AllBefore(toCaller, todo'[a])
      BY <3>2, <3>3, <3>4, <3>5, <3>6, JoinedRow DEF InOrder, InRow
    <3>8. ASSUME NEW i \in 1..Len(todo'[a]), NEW x, x = todo'[a][i]
          PROVE  Known(x)'
      <4>1. \/ i \in 1..Len(todo[a]) /\ x = todo[a][i]
            \/ \E j \in 1..Len(more) : x = more[j]
        BY <3>2, <3>3, <3>4, <3>8, JoinedRow
      <4> QED
        BY <1>6, <1>7, <3>3, <4>1
    <3>9. AllKnown(todo[a])'
      BY <3>8 DEF AllKnown
    <3> QED
      BY <3>7, <3>9
  <2> QED
    BY <1>3, <2>1, <2>2, DeliverTakes
<1>9. InRow'
  BY <1>1, <1>8 DEF InOrder, InRow, Sorted, AllBefore
<1>10. AnswersKnown'
  <2>1. AllKnown(got)'
    BY <1>1, <1>6, <1>7 DEF AllKnown
  <2>2. AllKnown(toCaller)'
    BY <1>1, <1>6, <1>7 DEF AllKnown
  <2> QED
    BY <1>8, <2>1, <2>2 DEF AnswersKnown
<1>11. AnsweredLater'
  BY <1>1 DEF InOrder, AnsweredLater
<1> QED
  BY <1>9, <1>10, <1>11 DEF InOrder

LEMMA NextOrder ==
  ASSUME Typed, Whole, InOrder, [Next]_vars
  PROVE  InOrder'
<1>1. CASE \/ \E c \in Menus[menu].commands, kind \in Menus[menu].kinds : Call(kind, c)
           \/ CommitAndSend
  <2>1. PICK kind, cmd, loaded : Start(kind, cmd, loaded)
    BY <1>1 DEF Call, CommitAndSend
  <2>2. UNCHANGED <<taken, todo, toCaller, got>>
    BY <2>1 DEF Start, motors
  <2>3. IssuedKept
    <3> DEFINE new == [kind |-> kind, cmd |-> cmd, loads |-> loaded, whole |-> FALSE]
    <3>1. issued' = Append(issued, new)
      BY <2>1 DEF Start
    <3> HIDE DEF new
    <3>2. issued \in Seq(Issue)
      BY DEF Typed, CallOK
    <3> QED
      BY <3>1, <3>2 DEF IssuedKept
  <2> QED
    BY <2>2, <2>3, SendOrder
<1>2. CASE SendFrame
  <2>1. IssuedKept
    BY <1>2, SendFrameIssued DEF IssuedKept
  <2> QED
    BY <1>2, <2>1, SendOrder DEF SendFrame, motors
<1>3. CASE \/ PollNothing \/ PollsUsedUp \/ Abandon
           \/ (\E c \in Menus[menu].loads : LoadCommand(c)) \/ UNCHANGED vars
  <2>1. UNCHANGED <<issued, taken, todo, toCaller, got>>
    BY <1>3 DEF PollNothing, PollsUsedUp, Abandon, LoadCommand, motors, vars
  <2>2. IssuedKept
    BY <2>1 DEF IssuedKept
  <2> QED
    BY <2>1, <2>2, SendOrder
<1>4. CASE TakeFrame
  BY <1>4, TakeOrder
<1>5. CASE ReadOn
  BY <1>5, DropOrder DEF ReadOn, ReceiveFrame, motors
<1>6. CASE DeliverFrame
  BY <1>6, DeliverOrder
<1>7. CASE \E a \in Motors : Reply(a) \/ Report(a)
  BY <1>7, ReplyOrder, ReportOrder
<1> QED
  BY <1>1, <1>2, <1>3, <1>4, <1>5, <1>6, <1>7 DEF Next, Caller, CallStep

\* The answers of a motor that write_read returns, polling or async, come in the
\* order of the commands and of the parts of an answer, each once, and belong to
\* commands that reached the motor whole: calls that were abandoned or ran out of
\* polls leave answers behind that are late, never out of order.
THEOREM AnswersStayInOrder == Spec => []AnswersInOrder
<1>1. Init => InOrder
  <2> SUFFICES ASSUME Init
               PROVE  InOrder
    OBVIOUS
  <2>1. got = <<>> /\ toCaller = <<>> /\ \A a \in Motors : todo[a] = <<>>
    BY DEF Init
  <2> QED
    BY <2>1 DEF InOrder, InRow, AnswersKnown, AnsweredLater, Sorted, AllBefore, AllKnown
<1>2. Typed /\ Whole /\ InOrder /\ [Next]_vars => InOrder'
  BY NextOrder
<1>3. Typed /\ Whole /\ InOrder => AnswersInOrder
  <2> SUFFICES ASSUME Typed, Whole, InOrder
               PROVE  AnswersInOrder
    OBVIOUS
  <2>1. DOMAIN got = 1..Len(got)
    BY DEF Typed, BusOK
  <2>2. \A i, j \in DOMAIN got :
          i < j /\ got[i].from = got[j].from /\ got[i].of # 0 /\ got[j].of # 0
            => Earlier(got[i], got[j])
    BY <2>1 DEF InOrder, InRow, Sorted, Before
  <2>3. ASSUME NEW i \in DOMAIN got, got[i].of # 0
        PROVE  /\ got[i].of <= got[i].call /\ issued[got[i].of].whole
               /\ got[i].part \in
                    DOMAIN Answers(got[i].from, issued[got[i].of].cmd, got[i].of)
    <3>1. Known(got[i]) /\ got[i].of <= got[i].call
      BY <2>1 DEF InOrder, AnswersKnown, AllKnown, AnsweredLater
    <3>2. got[i].from \in Motors
      BY <2>1, FromMotors
    <3>3. issued[got[i].of].whole
      BY <2>3, <3>1, <3>2 DEF Known, Whole, TookInOrder, TookOne
    <3> QED
      BY <2>3, <3>1, <3>3 DEF Known
  <2> QED
    BY <2>2, <2>3 DEF AnswersInOrder
<1> QED
  BY <1>1, <1>2, <1>3, AlwaysTyped, AlwaysWhole, PTL DEF Spec
=============================================================================
