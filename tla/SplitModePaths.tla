--------------------------- MODULE SplitModePaths ---------------------------
(***************************************************************************)
(* Each direction of split mode is a lossless FIFO path, and closing       *)
(* drains the outbound one: for every capacity, timeout and number of      *)
(* producers, through serial errors, cancelled sends and either half       *)
(* ending.                                                                 *)
(***************************************************************************)
EXTENDS SplitModeProofs

-----------------------------------------------------------------------------
(* Sequences that pass on what they hold.                                  *)

LEMMA HeadAndTail ==
  ASSUME NEW S, NEW b \in Seq(S), b # <<>>
  PROVE  Head(b) \in S /\ Tail(b) \in Seq(S) /\ <<Head(b)>> \o Tail(b) = b
<1> DEFINE h == <<Head(b)>>
           t == Tail(b)
<1>1. /\ Head(b) \in S /\ t \in Seq(S) /\ Len(t) = Len(b) - 1 /\ Len(b) \in Nat /\ Len(b) >= 1
      /\ \A i \in 1..Len(t) : t[i] = b[i + 1]
  BY HeadTailProperties
<1>2. h \in Seq(S) /\ Len(h) = 1 /\ h[1] = b[1]
  BY <1>1
<1> HIDE DEF h, t
<1>3. /\ h \o t \in Seq(S) /\ Len(h \o t) = Len(b)
      /\ \A i \in 1..Len(b) : (h \o t)[i] = IF i <= 1 THEN h[i] ELSE t[i - 1]
  <2>1. /\ h \o t \in Seq(S) /\ Len(h \o t) = Len(h) + Len(t)
        /\ \A i \in 1..Len(h) + Len(t) : (h \o t)[i] = IF i <= Len(h) THEN h[i] ELSE t[i - Len(h)]
    <3>1. h \in Seq(S) /\ t \in Seq(S)
      BY <1>1, <1>2
    <3> QED
      BY <3>1, ConcatProperties
  <2>2. Len(h) + Len(t) = Len(b)
    BY <1>1, <1>2
  <2> QED
    BY <1>2, <2>1, <2>2
<1>4. ASSUME NEW i \in 1..Len(b) PROVE (h \o t)[i] = b[i]
  <2>1. CASE i = 1
    BY <1>2, <1>3, <2>1
  <2>2. CASE i # 1
    <3>1. i - 1 \in 1..Len(t) /\ (i - 1) + 1 = i /\ ~(i <= 1)
      BY <1>1, <2>2
    <3> QED
      BY <1>1, <1>3, <3>1
  <2> QED
    BY <2>1, <2>2
<1>5. h \o t = b
  BY <1>1, <1>3, <1>4, SeqEqual
<1> QED
  BY <1>1, <1>5 DEF h, t

LEMMA MoveFirst ==
  ASSUME NEW S, NEW a \in Seq(S), NEW b \in Seq(S), b # <<>>
  PROVE  Append(a, Head(b)) \o Tail(b) = a \o b
<1>1. Head(b) \in S /\ Tail(b) \in Seq(S) /\ <<Head(b)>> \o Tail(b) = b
  BY HeadAndTail
<1>2. Append(a, Head(b)) = a \o <<Head(b)>> /\ <<Head(b)>> \in Seq(S)
  BY <1>1, AppendIsConcat
<1> QED
  BY <1>1, <1>2, ConcatAssociative

LEMMA AddLast ==
  ASSUME NEW S, NEW a \in Seq(S), NEW b \in Seq(S), NEW x \in S
  PROVE  a \o Append(b, x) = Append(a \o b, x)
<1>1. <<x>> \in Seq(S) /\ a \o b \in Seq(S)
  BY ConcatProperties
<1>2. Append(b, x) = b \o <<x>> /\ Append(a \o b, x) = (a \o b) \o <<x>>
  BY <1>1, AppendIsConcat
<1> QED
  BY <1>1, <1>2, ConcatAssociative

\* What comes next on a path is the first that it holds.
LEMMA NextOnPath ==
  ASSUME NEW S, NEW a \in Seq(S), NEW b \in Seq(S), NEW c \in Seq(S), b # <<>>
  PROVE  /\ Len(a) < Len(a \o (b \o c))
         /\ (a \o (b \o c))[Len(a) + 1] = Head(b)
<1>1. /\ b \o c \in Seq(S) /\ Len(b \o c) = Len(b) + Len(c) /\ (b \o c)[1] = b[1]
      /\ Len(b) \in Nat /\ Len(b) >= 1 /\ Len(c) \in Nat /\ Len(a) \in Nat
  BY ConcatProperties
<1>2. Head(b) = b[1]
  OBVIOUS
<1> DEFINE d == b \o c
<1>3. d \in Seq(S) /\ Len(d) >= 1 /\ d[1] = Head(b)
  BY <1>1, <1>2
<1> HIDE DEF d
<1>4. /\ Len(a \o d) = Len(a) + Len(d) /\ Len(d) \in Nat
      /\ (a \o d)[Len(a) + 1] = d[(Len(a) + 1) - Len(a)]
  BY <1>1, <1>3, ConcatProperties
<1>5. (Len(a) + 1) - Len(a) = 1
  BY <1>1
<1> QED
  BY <1>1, <1>3, <1>4, <1>5 DEF d

-----------------------------------------------------------------------------
(* Where the tasks go.                                                     *)

\* When a task drops its guard the other one stays where it is, or is given the
\* lock it waits for.
LEMMA OtherStays ==
  ASSUME Inv, NEW t \in Tasks, NEW u \in Tasks, u # t, NEW place, pc[t] = "port", Release(t, place)
  PROVE  /\ pc'[t] = place
         /\ pc'[u] = pc[u] \/ (pc[u] = "queued" /\ pc'[u] = "granted")
<1>1. pc \in [Tasks -> {"recv", "lock", "queued", "granted", "port", "deliver", "exited"}]
      /\ queue \in Seq(Tasks) /\ LockDiscipline
  BY DEF Inv, Typed, PlacesOK
<1>2. CASE queue = <<>>
  BY <1>1, <1>2 DEF Release, Goto
<1>3. CASE queue # <<>>
  <2>1. PICK v \in Tasks : pc[v] = "queued" /\ queue = <<v>>
    BY <1>1, <1>3 DEF LockDiscipline
  <2>2. v # t /\ Head(queue) = v
    BY <2>1
  <2>3. v = u
    BY <2>2, TwoTasks
  <2>4. pc' = [pc EXCEPT ![t] = place, ![u] = "granted"]
    BY <1>3, <2>2, <2>3 DEF Release
  <2> QED
    BY <1>1, <2>1, <2>3, <2>4
<1> QED
  BY <1>2, <1>3

-----------------------------------------------------------------------------
(* Inbound.                                                                *)

Numbers == 1..MaxInbound    \* what the device sends
Ahead == msgs \o (rmsg \o inbound)    \* what the consumer has yet to get
InboundWay ==
  /\ receiver => devsent = received \o Ahead
  /\ pc["reader"] # "deliver" => rmsg = <<>>

\* Steps that move no inbound message.
LEMMA InboundRests ==
  ASSUME InboundWay, UNCHANGED <<receiver, devsent, received, msgs, rmsg, inbound>>,
         pc["reader"] = "deliver" => pc'["reader"] = "deliver"
  PROVE  InboundWay'
BY DEF InboundWay, Ahead

LEMMA InboundTypes ==
  ASSUME Inv
  PROVE  /\ msgs \in Seq(Numbers) /\ rmsg \in Seq(Numbers)
         /\ inbound \in Seq(Numbers) /\ received \in Seq(Numbers)
         /\ devsent \in Seq(Numbers)
         /\ rmsg \o inbound \in Seq(Numbers)
<1>1. /\ msgs \in Seq(Numbers) /\ rmsg \in Seq(Numbers)
      /\ inbound \in Seq(Numbers) /\ received \in Seq(Numbers)
      /\ devsent \in Seq(Numbers)
  BY DEF Inv, Typed, InsideOK, HandsOK, PortOK, Numbers
<1> QED
  BY <1>1, ConcatProperties

LEMMA NumbersRegroup ==
  ASSUME NEW a \in Seq(Numbers), NEW b \in Seq(Numbers),
         NEW c \in Seq(Numbers)
  PROVE  (a \o b) \o c = a \o (b \o c)
BY ConcatAssociative

LEMMA NumbersAddLast ==
  ASSUME NEW a \in Seq(Numbers), NEW b \in Seq(Numbers),
         NEW x \in Numbers
  PROVE  a \o Append(b, x) = Append(a \o b, x)
BY AddLast

LEMMA ReadMessageInbound ==
  ASSUME Inv, InboundWay, ReadMessage
  PROVE  InboundWay'
<1>1. /\ rmsg = <<>> /\ inbound # <<>> /\ rmsg' = <<Head(inbound)>> /\ inbound' = Tail(inbound)
      /\ UNCHANGED <<receiver, devsent, received, msgs>>
  BY DEF ReadMessage, InboundWay, inside
<1>2. rmsg' \o inbound' = inbound /\ rmsg \o inbound = inbound
  BY <1>1, InboundTypes, HeadAndTail, ConcatEmptySeq
<1>3. pc'["reader"] = "deliver"
  BY OtherStays, TwoTasks DEF ReadMessage
<1> QED
  BY <1>1, <1>2, <1>3 DEF InboundWay, Ahead

LEMMA DeliverInbound ==
  ASSUME Inv, InboundWay, Deliver
  PROVE  InboundWay'
<1>1. /\ msgs' = msgs \o rmsg /\ rmsg' = <<>>
      /\ UNCHANGED <<receiver, devsent, received, inbound>>
  BY DEF Deliver, port
<1>2. rmsg' \o inbound = inbound
  BY <1>1, InboundTypes, ConcatEmptySeq
<1>3. (msgs \o rmsg) \o inbound = msgs \o (rmsg \o inbound)
  <2>1. /\ msgs \in Seq(Numbers) /\ rmsg \in Seq(Numbers)
        /\ inbound \in Seq(Numbers)
    BY InboundTypes
  <2> QED
    BY <2>1, NumbersRegroup
<1> QED
  BY <1>1, <1>2, <1>3 DEF InboundWay, Ahead

LEMMA ReceiveInbound ==
  ASSUME Inv, InboundWay, Receive
  PROVE  /\ InboundWay'
         /\ Len(received) < Len(devsent)
         /\ received' = Append(received, devsent[Len(received) + 1])
<1> DEFINE later == rmsg \o inbound
<1>1. /\ receiver /\ msgs # <<>> /\ received' = Append(received, Head(msgs))
      /\ msgs' = Tail(msgs) /\ UNCHANGED <<receiver, devsent, rmsg, inbound, pc>>
  BY DEF Receive, tasks, port
<1>2. devsent = received \o (msgs \o later)
  BY <1>1 DEF InboundWay, Ahead
<1>3. later \in Seq(Numbers) /\ msgs \in Seq(Numbers) /\ received \in Seq(Numbers)
  BY InboundTypes
<1> HIDE DEF later
<1>4. Len(received) < Len(devsent) /\ devsent[Len(received) + 1] = Head(msgs)
  BY <1>1, <1>2, <1>3, NextOnPath
<1>5. received' \o (msgs' \o later) = received \o (msgs \o later)
  <2>1. /\ Head(msgs) \in Numbers /\ Tail(msgs) \in Seq(Numbers)
        /\ <<Head(msgs)>> \o Tail(msgs) = msgs
    BY <1>1, <1>3, HeadAndTail
  <2>2. Tail(msgs) \o later \in Seq(Numbers) /\ <<Head(msgs)>> \in Seq(Numbers)
    BY <1>3, <2>1, ConcatProperties
  <2>3. Append(received, Head(msgs)) = received \o <<Head(msgs)>>
    BY <1>3, <2>1, AppendIsConcat
  <2>4. (received \o <<Head(msgs)>>) \o (Tail(msgs) \o later)
          = received \o (<<Head(msgs)>> \o (Tail(msgs) \o later))
    <3>1. received \in Seq(Numbers)
      BY <1>3
    <3> QED
      BY <2>1, <2>2, <3>1, NumbersRegroup
  <2>5. <<Head(msgs)>> \o (Tail(msgs) \o later) = (<<Head(msgs)>> \o Tail(msgs)) \o later
    BY <1>3, <2>1, <2>2, ConcatAssociative
  <2> QED
    BY <1>1, <2>1, <2>3, <2>4, <2>5
<1>6. later' = later
  BY <1>1 DEF later
<1> QED
  BY <1>1, <1>2, <1>4, <1>5, <1>6 DEF InboundWay, Ahead, later

LEMMA DeviceSendsInbound ==
  ASSUME Inv, InboundWay, DeviceSends
  PROVE  /\ InboundWay'
         /\ \E m \in Numbers : devsent' = Append(devsent, m)
         /\ received' = received
<1> DEFINE m == Len(devsent) + 1
<1>1. /\ devsent' = Append(devsent, m) /\ inbound' = Append(inbound, m)
      /\ UNCHANGED <<receiver, received, msgs, rmsg, pc>> /\ Len(devsent) < MaxInbound
  BY DEF DeviceSends, inside, tasks
<1>2. m \in Numbers
  BY <1>1, Bounds, InboundTypes DEF Numbers
<1> HIDE DEF m
<1>3. rmsg \o Append(inbound, m) = Append(rmsg \o inbound, m)
  BY <1>2, InboundTypes, AddLast
<1>4. msgs \o Append(rmsg \o inbound, m) = Append(msgs \o (rmsg \o inbound), m)
  BY <1>2, InboundTypes, AddLast
<1>5. msgs \o (rmsg \o inbound) \in Seq(Numbers)
  BY InboundTypes, ConcatProperties
<1>6. received \o Append(msgs \o (rmsg \o inbound), m)
        = Append(received \o (msgs \o (rmsg \o inbound)), m)
  <2>1. received \in Seq(Numbers)
    BY InboundTypes
  <2> QED
    BY <1>2, <1>5, <2>1, NumbersAddLast
<1> QED
  BY <1>1, <1>2, <1>3, <1>4, <1>6 DEF InboundWay, Ahead

\* The message in the read task's hand is lost only when nobody receives.
LEMMA NoReceiverInbound ==
  ASSUME Inv, InboundWay, DeliverFails \/ DropReceiver
  PROVE  InboundWay'
<1>1. CASE DeliverFails
  BY <1>1, TwoTasks DEF DeliverFails, inside, Goto, InboundWay, Inv, Typed, PlacesOK
<1>2. CASE DropReceiver
  BY <1>2 DEF DropReceiver, tasks, InboundWay
<1> QED
  BY <1>1, <1>2

\* The other steps.
RestsInbound ==
  \/ Producer \/ ResumeSend \/ CancelSend \/ WriterStep
  \/ Lock("reader") \/ Wake("reader") \/ ReaderLockTimeout \/ ReadTimesOut \/ ReadFails
  \/ BackgroundEnds \/ DeviceTakes \/ ReadBreaks \/ WriteBreaks \/ Tick
  \/ UNCHANGED vars

LEMMA OthersInbound ==
  ASSUME Inv, InboundWay, RestsInbound
  PROVE  InboundWay' /\ UNCHANGED <<devsent, received>>
<1>1. UNCHANGED <<receiver, devsent, received, msgs, rmsg, inbound>>
  BY DEF RestsInbound, Producer, Send, TrySend, DropSender, ResumeSend, CancelSend, WriterStep,
         WriterRecv, WriterFinishes, WriterLockTimeout, WriteFrame, WriteFails, Lock, Wake,
         ReaderLockTimeout, ReadTimesOut, ReadFails, BackgroundEnds, DeviceTakes, ReadBreaks,
         WriteBreaks, Tick, vars, inside, tasks, port
<1>2. pc["reader"] = "deliver" => pc'["reader"] = "deliver"
  <2> SUFFICES ASSUME pc["reader"] = "deliver"
               PROVE  pc'["reader"] = "deliver"
    OBVIOUS
  <2>1. CASE WriteFrame \/ WriteFails
    <3>1. \E place : pc["writer"] = "port" /\ Release("writer", place)
      BY <2>1 DEF WriteFrame, WriteFails
    <3> QED
      BY <3>1, OtherStays, TwoTasks
  <2>2. CASE WriterRecv \/ WriterFinishes \/ Lock("writer") \/ Wake("writer") \/ WriterLockTimeout
    BY <2>2, TwoTasks DEF WriterRecv, WriterFinishes, Lock, Wake, WriterLockTimeout, Goto, Inv,
                          Typed, PlacesOK
  <2>3. CASE Lock("reader") \/ Wake("reader") \/ ReaderLockTimeout \/ ReadTimesOut \/ ReadFails
    BY <2>3 DEF Lock, Wake, ReaderLockTimeout, LockTimesOut, ReadTimesOut, ReadFails
  <2>4. CASE UNCHANGED pc
    BY <2>4
  <2>5. CASE Producer \/ ResumeSend \/ CancelSend \/ BackgroundEnds \/ DeviceTakes
               \/ ReadBreaks \/ WriteBreaks \/ Tick \/ UNCHANGED vars
    BY <2>5 DEF Producer, Send, TrySend, DropSender, ResumeSend, CancelSend, BackgroundEnds,
                DeviceTakes, ReadBreaks, WriteBreaks, Tick, vars, tasks
  <2> QED
    BY <2>1, <2>2, <2>3, <2>5 DEF RestsInbound, WriterStep
<1> QED
  BY <1>1, <1>2, InboundRests

LEMMA InboundSteps ==
  ASSUME Inv, InboundWay, [Next]_vars
  PROVE  InboundWay' /\ [Inbound!Next]_<<devsent, received>>
<1>1. CASE Receive
  BY <1>1, ReceiveInbound DEF Inbound!Next, Inbound!Get, Receive, port
<1>2. CASE DeviceSends
  BY <1>2, DeviceSendsInbound DEF Inbound!Next, Inbound!Put, Numbers
<1>3. CASE ReadMessage
  BY <1>3, ReadMessageInbound DEF ReadMessage, inside
<1>4. CASE Deliver
  BY <1>4, DeliverInbound DEF Deliver, port
<1>5. CASE DeliverFails \/ DropReceiver
  BY <1>5, NoReceiverInbound DEF DeliverFails, DropReceiver, inside, port
<1>6. CASE RestsInbound
  BY <1>6, OthersInbound
<1> QED
  BY <1>1, <1>2, <1>3, <1>4, <1>5, <1>6 DEF Next, ReaderStep, RestsInbound

\* What the consumer gets is what the device sent, in order, nothing lost in
\* between or doubled (the read task, its channel and its lock timeouts).
THEOREM InboundFifo == Spec => InboundInOrder
<1>1. Init => InboundWay /\ Inbound!Init
  <2> SUFFICES ASSUME Init PROVE InboundWay /\ Inbound!Init
    OBVIOUS
  <2>1. <<>> \o (<<>> \o (<<>> \o <<>>)) = <<>>
    OBVIOUS
  <2> QED
    BY <2>1 DEF Init, InboundWay, Ahead, Inbound!Init
<1>2. Inv /\ InboundWay /\ [Next]_vars => InboundWay' /\ [Inbound!Next]_<<devsent, received>>
  BY InboundSteps
<1> QED
  BY <1>1, <1>2, Invariant, PTL DEF Spec, InboundInOrder, Inbound!Spec, Inbound!vars

-----------------------------------------------------------------------------
(* Outbound, on a punctual executor.                                       *)

Behind == outbuf \o (wmsg \o frames)    \* what the device has yet to take
OutboundWay ==
  /\ canWrite => accepted = bus \o Behind
  /\ pc["writer"] \in {"recv", "exited"} => wmsg = <<>>
  /\ IsClosed => frames = <<>> /\ waiters = <<>>
  /\ waiters \in Seq({m \in Message : m[1] \in handles})

LEMMA OutboundTypes ==
  ASSUME Inv
  PROVE  /\ frames \in Seq(Message) /\ wmsg \in Seq(Message) /\ outbuf \in Seq(Message)
         /\ bus \in Seq(Message) /\ accepted \in Seq(Message)
         /\ wmsg \o frames \in Seq(Message)
         /\ outbuf \o (wmsg \o frames) \in Seq(Message)
<1>1. /\ frames \in Seq(Message) /\ wmsg \in Seq(Message) /\ outbuf \in Seq(Message)
      /\ bus \in Seq(Message) /\ accepted \in Seq(Message)
  BY DEF Inv, Typed, ChannelsOK, HandsOK, PortOK
<1>2. wmsg \o frames \in Seq(Message)
  BY <1>1, ConcatProperties
<1> QED
  BY <1>1, <1>2, ConcatProperties

LEMMA MessagesRegroup ==
  ASSUME NEW a \in Seq(Message), NEW b \in Seq(Message), NEW c \in Seq(Message)
  PROVE  (a \o b) \o c = a \o (b \o c)
BY ConcatAssociative

LEMMA MessagesAddLast ==
  ASSUME NEW a \in Seq(Message), NEW b \in Seq(Message), NEW x \in Message
  PROVE  a \o Append(b, x) = Append(a \o b, x)
BY AddLast

\* A message goes from one place of the path to the next.
LEMMA WriterRecvMoves ==
  ASSUME Inv, wmsg = <<>>, WriterRecv
  PROVE  Behind' = Behind
<1>1. /\ frames # <<>> /\ wmsg' = <<Head(frames)>> /\ frames' = Tail(frames) /\ outbuf' = outbuf
  BY DEF WriterRecv, port
<1>2. wmsg' \o frames' = frames /\ wmsg \o frames = frames
  BY <1>1, OutboundTypes, HeadAndTail, ConcatEmptySeq
<1> QED
  BY <1>1, <1>2 DEF Behind

LEMMA WriteFrameMoves ==
  ASSUME Inv, WriteFrame
  PROVE  Behind' = Behind
<1>1. /\ outbuf' = outbuf \o wmsg /\ wmsg' = <<>> /\ frames' = frames
  BY DEF WriteFrame, channels
<1>2. wmsg' \o frames' = frames
  BY <1>1, OutboundTypes, ConcatEmptySeq
<1>3. (outbuf \o wmsg) \o frames = outbuf \o (wmsg \o frames)
  <2>1. frames \in Seq(Message) /\ wmsg \in Seq(Message) /\ outbuf \in Seq(Message)
    BY OutboundTypes
  <2> QED
    BY <2>1, MessagesRegroup
<1> QED
  BY <1>1, <1>2, <1>3 DEF Behind

LEMMA DeviceTakesMoves ==
  ASSUME Inv, DeviceTakes
  PROVE  bus' \o Behind' = bus \o Behind
<1> DEFINE later == wmsg \o frames
<1>1. /\ outbuf # <<>> /\ bus' = Append(bus, Head(outbuf)) /\ outbuf' = Tail(outbuf)
      /\ UNCHANGED <<wmsg, frames>>
  BY DEF DeviceTakes, tasks, channels
<1>2. later \in Seq(Message) /\ outbuf \in Seq(Message) /\ bus \in Seq(Message)
  BY OutboundTypes
<1> HIDE DEF later
<1>3. /\ Head(outbuf) \in Message /\ Tail(outbuf) \in Seq(Message)
      /\ Append(bus, Head(outbuf)) \o Tail(outbuf) = bus \o outbuf
  BY <1>1, <1>2, HeadAndTail, MoveFirst
<1>4. Append(bus, Head(outbuf)) \in Seq(Message)
  BY <1>2, <1>3
<1>5. bus' \in Seq(Message) /\ outbuf' \in Seq(Message) /\ bus' \o outbuf' = bus \o outbuf
  BY <1>1, <1>3, <1>4
<1>6. (bus' \o outbuf') \o later = bus' \o (outbuf' \o later)
  <2>1. bus' \in Seq(Message) /\ outbuf' \in Seq(Message) /\ later \in Seq(Message)
    BY <1>2, <1>5
  <2> QED
    BY <2>1, MessagesRegroup
<1>7. (bus \o outbuf) \o later = bus \o (outbuf \o later)
  BY <1>2, MessagesRegroup
<1>8. later' = later
  BY <1>1 DEF later
<1> QED
  BY <1>5, <1>6, <1>7, <1>8 DEF Behind, later

LEMMA PushMoves ==
  ASSUME Inv, NEW m \in Message, Push(m), UNCHANGED <<bus, outbuf, wmsg>>
  PROVE  bus' \o Behind' = Append(bus \o Behind, m) /\ bus \o Behind \in Seq(Message)
<1>1. frames' = Append(frames, m)
  BY DEF Push
<1>2. /\ frames \in Seq(Message) /\ wmsg \in Seq(Message) /\ outbuf \in Seq(Message)
      /\ bus \in Seq(Message) /\ wmsg \o frames \in Seq(Message)
      /\ outbuf \o (wmsg \o frames) \in Seq(Message)
  BY OutboundTypes
<1>3. wmsg \o Append(frames, m) = Append(wmsg \o frames, m)
  BY <1>2, MessagesAddLast
<1>4. outbuf \o Append(wmsg \o frames, m) = Append(outbuf \o (wmsg \o frames), m)
  BY <1>2, MessagesAddLast
<1>5. bus \o Append(outbuf \o (wmsg \o frames), m)
        = Append(bus \o (outbuf \o (wmsg \o frames)), m)
  BY <1>2, MessagesAddLast
<1>6. bus \o (outbuf \o (wmsg \o frames)) \in Seq(Message)
  BY <1>2, ConcatProperties
<1> QED
  BY <1>1, <1>3, <1>4, <1>5, <1>6 DEF Behind

LEMMA WriterRecvOutbound ==
  ASSUME Inv, OutboundWay, WriterRecv
  PROVE  OutboundWay'
<1>1. wmsg = <<>> /\ UNCHANGED <<canWrite, accepted, bus, waiters, handles>>
  BY DEF WriterRecv, OutboundWay, port
<1>2. pc'["writer"] = "lock"
  BY TwoTasks DEF WriterRecv, Goto, Inv, Typed, PlacesOK
<1> QED
  BY <1>1, <1>2, WriterRecvMoves DEF OutboundWay, IsClosed

LEMMA WriteFrameOutbound ==
  ASSUME Inv, OutboundWay, WriteFrame
  PROVE  OutboundWay'
<1>1. wmsg' = <<>> /\ UNCHANGED <<canWrite, accepted, bus, waiters, handles>>
  BY DEF WriteFrame, channels
<1>2. pc'["writer"] = "recv"
  BY OtherStays, TwoTasks DEF WriteFrame
<1> QED
  BY <1>1, <1>2, WriteFrameMoves DEF OutboundWay, IsClosed

LEMMA DeviceTakesOutbound ==
  ASSUME Inv, OutboundWay, DeviceTakes
  PROVE  /\ OutboundWay'
         /\ Len(bus) < Len(accepted)
         /\ bus' = Append(bus, accepted[Len(bus) + 1])
         /\ accepted' = accepted
<1> DEFINE later == wmsg \o frames
<1>1. /\ canWrite /\ outbuf # <<>> /\ bus' = Append(bus, Head(outbuf))
      /\ UNCHANGED <<canWrite, accepted, wmsg, frames, waiters, handles, pc>>
  BY DEF DeviceTakes, tasks, channels
<1>2. accepted = bus \o (outbuf \o later)
  BY <1>1 DEF OutboundWay, Behind
<1>3. later \in Seq(Message) /\ outbuf \in Seq(Message) /\ bus \in Seq(Message)
  BY OutboundTypes
<1> HIDE DEF later
<1>4. Len(bus) < Len(accepted) /\ accepted[Len(bus) + 1] = Head(outbuf)
  BY <1>1, <1>2, <1>3, NextOnPath
<1> QED
  BY <1>1, <1>4, DeviceTakesMoves DEF OutboundWay, IsClosed

\* A message enters the channel.
LEMMA PushOutbound ==
  ASSUME Inv, OutboundWay, NEW m \in Message, Push(m), ~IsClosed,
         waiters' \in Seq({w \in Message : w[1] \in handles}),
         UNCHANGED <<canWrite, bus, outbuf, wmsg, handles, pc>>
  PROVE  OutboundWay' /\ accepted' = Append(accepted, m) /\ bus' = bus
<1>1. accepted' = Append(accepted, m)
  BY DEF Push
<1>2. bus' \o Behind' = Append(bus \o Behind, m)
  BY PushMoves
<1> QED
  BY <1>1, <1>2 DEF OutboundWay, IsClosed

\* Steps that move no outbound message.
LEMMA OutboundRests ==
  ASSUME OutboundWay, UNCHANGED <<bus, outbuf, wmsg, frames, accepted>>,
         canWrite' => canWrite,
         pc'["writer"] \in {"recv", "exited"} => pc["writer"] \in {"recv", "exited"},
         IsClosed' => IsClosed \/ (frames = <<>> /\ waiters = <<>>),
         waiters = <<>> => waiters' = <<>>,
         waiters' \in Seq({w \in Message : w[1] \in handles'})
  PROVE  OutboundWay'
BY DEF OutboundWay, Behind, IsClosed

\* A suspended send belongs to a producer that holds its sender.
LEMMA WaitersHold ==
  ASSUME Inv, OutboundWay
  PROVE  /\ \A i \in 1..Len(waiters) :
              /\ waiters[i] \in Message
              /\ Without(waiters, i) \in Seq({w \in Message : w[1] \in handles})
              /\ waiters # <<>> /\ ~IsClosed
         /\ handles = {} => waiters = <<>>
<1>1. waiters \in Seq({w \in Message : w[1] \in handles})
  BY DEF OutboundWay
<1>2. ASSUME NEW i \in 1..Len(waiters)
      PROVE  /\ waiters[i] \in {w \in Message : w[1] \in handles}
             /\ Without(waiters, i) \in Seq({w \in Message : w[1] \in handles})
             /\ waiters # <<>>
  BY <1>1, <1>2, WithoutType
<1>3. ASSUME waiters # <<>> PROVE 1 \in 1..Len(waiters)
  BY <1>1, <1>3
<1> QED
  BY <1>2, <1>3 DEF OutboundWay

LEMMA SendersOutbound ==
  ASSUME Inv, OutboundWay, Producer \/ ResumeSend \/ CancelSend
  PROVE  /\ OutboundWay'
         /\ bus' = bus
         /\ \/ \E m \in Message : accepted' = Append(accepted, m)
            \/ accepted' = accepted
<1>1. waiters \in Seq({w \in Message : w[1] \in handles})
  BY DEF OutboundWay
<1>2. ASSUME NEW p \in Producers, Offer(p), UNCHANGED handles
      PROVE  /\ <<p, offered'[p]>> \in {w \in Message : w[1] \in handles'}
             /\ <<p, offered'[p]>> \in Message
  BY <1>2, OfferType DEF Offer, Inv, Typed
<1>3. ASSUME NEW p \in Producers, Send(p) \/ TrySend(p),
             UNCHANGED <<frames, accepted>>
      PROVE  OutboundWay' /\ bus' = bus /\ accepted' = accepted
  <2>1. CASE UNCHANGED waiters
    BY <1>1, <1>3, <2>1, OutboundRests DEF Send, TrySend, port, tasks, IsClosed
  <2>2. CASE ~IsClosed /\ waiters' = Append(waiters, <<p, offered'[p]>>) /\ Send(p)
    <3>1. <<p, offered'[p]>> \in {w \in Message : w[1] \in handles} /\ UNCHANGED handles
      BY <1>2, <2>2 DEF Send
    <3>2. waiters' \in Seq({w \in Message : w[1] \in handles})
      BY <1>1, <2>2, <3>1
    <3>3. UNCHANGED <<bus, outbuf, wmsg, frames, accepted, canWrite, handles, pc>>
      BY <1>3, <2>2 DEF Send, port, tasks
    <3> QED
      BY <2>2, <3>2, <3>3 DEF IsClosed, OutboundWay, Behind
  <2> QED
    BY <1>3, <2>1, <2>2 DEF Send, TrySend
<1>4. ASSUME NEW p \in Producers, Send(p) \/ TrySend(p), ~IsClosed,
             Push(<<p, offered'[p]>>), UNCHANGED waiters
      PROVE  OutboundWay' /\ bus' = bus /\ \E m \in Message : accepted' = Append(accepted, m)
  <2>1. /\ Offer(p)
        /\ UNCHANGED <<handles, canWrite, bus, outbuf, wmsg, pc>>
    BY <1>4 DEF Send, TrySend, port, tasks
  <2>2. <<p, offered'[p]>> \in Message
    BY <1>2, <2>1
  <2> QED
    BY <1>1, <1>4, <2>1, <2>2, PushOutbound
<1>5. ASSUME NEW p \in Producers, DropSender(p)
      PROVE  OutboundWay' /\ bus' = bus /\ accepted' = accepted
  <2>1. /\ \A i \in 1..Len(waiters) : waiters[i][1] # p
        /\ handles' = handles \ {p}
        /\ UNCHANGED <<waiters, bus, outbuf, wmsg, frames, accepted, canWrite, pc>>
    BY <1>1, <1>5 DEF DropSender, Waiting, port, tasks
  <2>2. waiters \in Seq({w \in Message : w[1] \in handles \ {p}})
    BY <1>1, <2>1
  <2> QED
    BY <2>1, <2>2, OutboundRests DEF IsClosed
<1>6. CASE ResumeSend
  <2>1. PICK i \in 1..(FrameCap - Len(frames)) :
          i <= Len(waiters) /\ Push(waiters[i]) /\ waiters' = Without(waiters, i)
    BY <1>6 DEF ResumeSend
  <2>2. i \in 1..Len(waiters)
    BY <1>1, <2>1
  <2>3. /\ waiters[i] \in Message /\ ~IsClosed
        /\ waiters' \in Seq({w \in Message : w[1] \in handles})
    BY <2>1, <2>2, WaitersHold
  <2>4. UNCHANGED <<canWrite, bus, outbuf, wmsg, handles, pc>>
    BY <1>6 DEF ResumeSend, port, tasks
  <2> QED
    BY <2>1, <2>3, <2>4, PushOutbound
<1>7. CASE CancelSend
  <2>1. PICK i \in 1..Len(waiters) : waiters' = Without(waiters, i)
    BY <1>1, <1>7 DEF CancelSend
  <2>2. /\ waiters # <<>>
        /\ waiters' \in Seq({w \in Message : w[1] \in handles})
    BY <2>1, WaitersHold
  <2>3. UNCHANGED <<frames, accepted, canWrite, bus, outbuf, wmsg, handles, pc>>
    BY <1>7 DEF CancelSend, port, tasks
  <2> QED
    BY <2>2, <2>3, OutboundRests DEF IsClosed
<1>8. ASSUME NEW p \in Producers, Send(p) \/ TrySend(p)
      PROVE  \/ UNCHANGED <<frames, accepted>>
             \/ ~IsClosed /\ Push(<<p, offered'[p]>>) /\ UNCHANGED waiters
  BY <1>8 DEF Send, TrySend
<1> QED
  BY <1>3, <1>4, <1>5, <1>6, <1>7, <1>8 DEF Producer

\* The write task ends, with the last sender or on an error.
LEMMA EndOutbound ==
  ASSUME Inv, OutboundWay, WriterFinishes \/ WriteFails
  PROVE  OutboundWay'
<1>1. CASE WriterFinishes
  <2>1. /\ frames = <<>> /\ waiters = <<>> /\ pc["writer"] = "recv"
        /\ UNCHANGED <<bus, outbuf, wmsg, frames, accepted, canWrite, waiters, handles>>
    BY <1>1, WaitersHold DEF WriterFinishes, channels, port
  <2> QED
    BY <2>1, OutboundRests DEF OutboundWay
<1>2. CASE WriteFails
  <2>1. /\ frames' = <<>> /\ waiters' = <<>> /\ wmsg' = <<>> /\ ~canWrite'
    BY <1>2 DEF WriteFails, port
  <2> QED
    BY <2>1 DEF OutboundWay
<1> QED
  BY <1>1, <1>2

\* The other steps.
RestsOutbound ==
  \/ Lock("writer") \/ Wake("writer")
  \/ ReaderStep \/ BackgroundEnds \/ Receive \/ DropReceiver \/ DeviceSends
  \/ ReadBreaks \/ WriteBreaks \/ Tick
  \/ UNCHANGED vars

\* They move the write task to the lock and no further.
LEMMA WriterStays ==
  ASSUME Inv, RestsOutbound
  PROVE  /\ pc'["writer"] = pc["writer"] \/ pc'["writer"] \notin {"recv", "exited"}
         /\ pc["writer"] = "exited" => pc'["writer"] = "exited"
<1>1. CASE ReadMessage \/ ReadTimesOut \/ ReadFails
  <2>1. \E place : pc["reader"] = "port" /\ Release("reader", place)
    BY <1>1 DEF ReadMessage, ReadTimesOut, ReadFails
  <2> QED
    BY <2>1, OtherStays, TwoTasks
<1>2. CASE Lock("writer") \/ Wake("writer") \/ Lock("reader") \/ Wake("reader")
             \/ ReaderLockTimeout \/ Deliver \/ DeliverFails
  BY <1>2, TwoTasks DEF Lock, Wake, ReaderLockTimeout, Deliver, DeliverFails, Goto, Inv, Typed,
                        PlacesOK
<1>3. CASE BackgroundEnds \/ Receive \/ DropReceiver \/ DeviceSends
             \/ ReadBreaks \/ WriteBreaks \/ Tick \/ UNCHANGED vars
  BY <1>3 DEF BackgroundEnds, Receive, DropReceiver, DeviceSends, ReadBreaks, WriteBreaks, Tick,
              vars, tasks
<1> QED
  BY <1>1, <1>2, <1>3 DEF RestsOutbound, ReaderStep

LEMMA OthersOutbound ==
  ASSUME Inv, OutboundWay, RestsOutbound
  PROVE  OutboundWay' /\ UNCHANGED <<bus, accepted>>
<1>1. /\ UNCHANGED <<bus, outbuf, wmsg, frames, accepted, waiters, handles>>
      /\ canWrite' => canWrite
  BY DEF RestsOutbound, ReaderStep, ReaderLockTimeout, ReadMessage, ReadTimesOut, ReadFails,
         Deliver, DeliverFails, Lock, Wake, BackgroundEnds, Receive, DropReceiver, DeviceSends,
         ReadBreaks, WriteBreaks, Tick, vars, channels, tasks, port
<1>2. pc'["writer"] = pc["writer"] \/ pc'["writer"] \notin {"recv", "exited"}
  BY WriterStays
<1>3. waiters' \in Seq({w \in Message : w[1] \in handles'})
  BY <1>1 DEF OutboundWay
<1> QED
  BY <1>1, <1>2, <1>3, OutboundRests DEF IsClosed

LEMMA OutboundSteps ==
  ASSUME Punctual, Inv, OutboundWay, [Next]_vars
  PROVE  OutboundWay' /\ [Outbound!Next]_<<accepted, bus>>
<1>1. CASE Producer \/ ResumeSend \/ CancelSend
  BY <1>1, SendersOutbound DEF Outbound!Next, Outbound!Put
<1>2. CASE DeviceTakes
  BY <1>2, DeviceTakesOutbound DEF Outbound!Next, Outbound!Get
<1>3. CASE WriterRecv
  BY <1>3, WriterRecvOutbound DEF WriterRecv, port
<1>4. CASE WriteFrame
  BY <1>4, WriteFrameOutbound DEF WriteFrame, channels
<1>5. CASE WriterFinishes \/ WriteFails
  BY <1>5, EndOutbound DEF WriterFinishes, WriteFails, channels, port
<1>6. ~WriterLockTimeout
  BY PatientEnough DEF Inv, WriterLockTimeout
<1>7. CASE RestsOutbound
  BY <1>7, OthersOutbound
<1> QED
  BY <1>1, <1>2, <1>3, <1>4, <1>5, <1>6, <1>7 DEF Next, WriterStep, RestsOutbound

LEMMA OutboundInit == Init => OutboundWay /\ Outbound!Init
<1> SUFFICES ASSUME Init PROVE OutboundWay /\ Outbound!Init
  OBVIOUS
<1>1. <<>> \o (<<>> \o (<<>> \o <<>>)) = <<>>
  OBVIOUS
<1> QED
  BY <1>1 DEF Init, OutboundWay, Behind, IsClosed, Outbound!Init

\* What the device takes is what the frame channel accepted, in order, on an
\* executor punctual enough for the write task's patience (NothingDropped).
THEOREM OutboundFifo ==
  ASSUME Punctual
  PROVE  Spec => OutboundInOrder
<1>1. Inv /\ OutboundWay /\ [Next]_vars => OutboundWay' /\ [Outbound!Next]_<<accepted, bus>>
  BY OutboundSteps
<1> QED
  BY <1>1, OutboundInit, Invariant, PTL
     DEF Spec, OutboundInOrder, Outbound!Spec, Outbound!vars

\* Closing is graceful: a write task that has ended on a port that takes writes
\* has written every message the channel accepted (Client::close, write_task).
THEOREM Drains == Spec => []DrainOnClose
<1>1. CASE Punctual
  <2>1. Inv /\ OutboundWay /\ [Next]_vars => OutboundWay'
    BY <1>1, OutboundSteps
  <2>2. Inv /\ OutboundWay => DrainOnClose
    <3> SUFFICES ASSUME Inv, OutboundWay, IsClosed, canWrite PROVE bus \o outbuf = accepted
      BY DEF DrainOnClose
    <3>1. accepted = bus \o (outbuf \o (wmsg \o frames)) /\ wmsg = <<>> /\ frames = <<>>
      BY DEF OutboundWay, Behind, IsClosed
    <3>2. outbuf \o (wmsg \o frames) = outbuf
      BY <3>1, OutboundTypes, ConcatEmptySeq
    <3> QED
      BY <3>1, <3>2
  <2> QED
    BY <2>1, <2>2, OutboundInit, Invariant, PTL DEF Spec
<1>2. CASE ~Punctual
  <2>1. DrainOnClose
    BY <1>2 DEF DrainOnClose
  <2> QED
    BY <2>1, PTL
<1> QED
  BY <1>1, <1>2

-----------------------------------------------------------------------------
(* Outbound, on any executor: what is left when messages are given up.     *)

\* A sequence and what is left of it without one element.
LEMMA TakeOut ==
  ASSUME NEW S, NEW a \in Seq(S), NEW b \in Seq(S), NEW x \in S
  PROVE  /\ Len(a \o (<<x>> \o b)) = Len(a \o b) + 1
         /\ Len(a) + 1 \in 1..Len(a \o (<<x>> \o b))
         /\ (a \o (<<x>> \o b))[Len(a) + 1] = x
         /\ \A i \in 1..Len(a \o b) :
              (a \o b)[i] = (a \o (<<x>> \o b))[IF i <= Len(a) THEN i ELSE i + 1]
<1> DEFINE h == <<x>>
           n == Len(a)
           r == h \o b
           s == a \o (<<x>> \o b)
           t == a \o b
<1>1. h \in Seq(S) /\ Len(h) = 1 /\ h[1] = x /\ n \in Nat /\ Len(b) \in Nat
  OBVIOUS
<1> HIDE DEF h
<1>2. /\ r \in Seq(S) /\ Len(r) = 1 + Len(b)
      /\ \A i \in 1..1 + Len(b) : r[i] = IF i <= 1 THEN h[i] ELSE b[i - 1]
  <2>1. /\ h \o b \in Seq(S) /\ Len(h \o b) = Len(h) + Len(b)
        /\ \A i \in 1..Len(h) + Len(b) : (h \o b)[i] = IF i <= Len(h) THEN h[i] ELSE b[i - Len(h)]
    BY <1>1, ConcatProperties
  <2> QED
    BY <1>1, <2>1
<1> HIDE DEF r
<1>3. /\ s \in Seq(S) /\ Len(s) = n + Len(r)
      /\ \A i \in 1..n + Len(r) : s[i] = IF i <= n THEN a[i] ELSE r[i - n]
  <2>1. s = a \o r
    BY DEF r, h
  <2> QED
    <3> HIDE DEF s
    <3> QED
      BY <1>2, <2>1, ConcatProperties
<1>4. /\ t \in Seq(S) /\ Len(t) = n + Len(b)
      /\ \A i \in 1..n + Len(b) : t[i] = IF i <= n THEN a[i] ELSE b[i - n]
  BY ConcatProperties
<1> HIDE DEF n, s, t
<1>5. Len(s) = Len(t) + 1 /\ n + 1 \in 1..Len(s)
  BY <1>1, <1>2, <1>3, <1>4
<1>6. s[n + 1] = x
  <2>1. n + 1 \in 1..n + Len(r) /\ ~(n + 1 <= n) /\ (n + 1) - n = 1 /\ 1 \in 1..1 + Len(b)
    BY <1>1, <1>2
  <2>2. s[n + 1] = r[(n + 1) - n] /\ r[1] = h[1]
    BY <1>2, <1>3, <2>1
  <2> QED
    BY <1>1, <2>1, <2>2
<1>7. ASSUME NEW i \in 1..Len(t)
      PROVE  t[i] = s[IF i <= n THEN i ELSE i + 1]
  <2>1. CASE i <= n
    <3>1. i \in 1..n + Len(b) /\ i \in 1..n + Len(r)
      BY <1>1, <1>2, <1>4, <2>1
    <3> QED
      BY <1>3, <1>4, <2>1, <3>1
  <2>2. CASE ~(i <= n)
    <3>1. /\ i \in 1..n + Len(b) /\ i + 1 \in 1..n + Len(r) /\ ~(i + 1 <= n)
          /\ (i + 1) - n \in 1..1 + Len(b) /\ ~((i + 1) - n <= 1) /\ ((i + 1) - n) - 1 = i - n
      BY <1>1, <1>2, <1>4, <2>2
    <3>2. t[i] = b[i - n]
      BY <1>4, <2>2, <3>1
    <3>3. s[i + 1] = r[(i + 1) - n]
      BY <1>3, <3>1
    <3>4. r[(i + 1) - n] = b[i - n]
      BY <1>2, <3>1
    <3> QED
      BY <2>2, <3>2, <3>3, <3>4
  <2> QED
    BY <2>1, <2>2
<1> QED
  BY <1>1, <1>4, <1>5, <1>6, <1>7 DEF n, s, t

LEMMA ElementsAddLast ==
  ASSUME NEW S, NEW s \in Seq(S), NEW x \in S
  PROVE  {Append(s, x)[i] : i \in 1..Len(Append(s, x))} = {s[i] : i \in 1..Len(s)} \cup {x}
<1> DEFINE s1 == Append(s, x)
           n == Len(s)
           n1 == Len(s1)
<1>1. n \in Nat /\ n1 = n + 1 /\ s1[n1] = x /\ \A i \in 1..n : s1[i] = s[i]
  BY AppendProperties
<1> HIDE DEF s1, n, n1
<1>2. \A i \in 1..n1 : s1[i] \in {s[j] : j \in 1..n} \cup {x}
  BY <1>1
<1>3. x \in {s1[i] : i \in 1..n1}
  BY <1>1
<1>4. \A j \in 1..n : s[j] \in {s1[i] : i \in 1..n1}
  BY <1>1
<1>5. {s1[i] : i \in 1..n1} = {s[i] : i \in 1..n} \cup {x}
  BY <1>2, <1>3, <1>4
<1> QED
  BY <1>5 DEF s1, n, n1

\* The next message enters: it is in the rest, and last.
LEMMA RestAddLast ==
  ASSUME NEW S, NEW rest \in Seq(S), NEW all \in Seq(S), NEW lost \in Seq(S), NEW x \in S,
         IsRest(rest, all, lost), \A i \in 1..Len(all) : all[i] # x
  PROVE  IsRest(Append(rest, x), Append(all, x), lost)
<1> DEFINE rest1 == Append(rest, x)
           all1 == Append(all, x)
           n == Len(rest)
           m == Len(all)
           n1 == Len(rest1)
           m1 == Len(all1)
<1>1. /\ rest1 \in Seq(S) /\ n1 = n + 1 /\ rest1[n1] = x
      /\ \A i \in 1..n : rest1[i] = rest[i]
      /\ all1 \in Seq(S) /\ m1 = m + 1 /\ all1[m1] = x
      /\ \A i \in 1..m : all1[i] = all[i]
      /\ n \in Nat /\ m \in Nat /\ Len(lost) \in Nat
  BY AppendProperties
<1>2. \A i \in 1..m : all[i] # x
  OBVIOUS
<1> HIDE DEF rest1, all1
<1>3. /\ m = n + Len(lost)
      /\ {all[i] : i \in 1..m} = {rest[i] : i \in 1..n} \cup {lost[i] : i \in 1..Len(lost)}
      /\ \A i, j \in 1..m : all[i] = all[j] => i = j
      /\ \A i, j \in 1..n :
           i < j => \E k, l \in 1..m : k < l /\ all[k] = rest[i] /\ all[l] = rest[j]
  BY DEF IsRest
<1> HIDE DEF n, m, n1, m1
<1>4. m1 = n1 + Len(lost)
  BY <1>1, <1>3
<1>5. /\ \A i \in 1..n1 : i \in 1..n \/ i = n1
      /\ \A i \in 1..m1 : i \in 1..m \/ i = m1
      /\ 1..n \subseteq 1..n1 /\ 1..m \subseteq 1..m1
      /\ n1 \in 1..n1 /\ m1 \in 1..m1
      /\ \A i \in 1..m : i < m1
      /\ \A i \in 1..n : ~(n1 < i)
      /\ ~(n1 < n1)
  BY <1>1
<1>6. {all1[i] : i \in 1..m1} = {all[i] : i \in 1..m} \cup {x}
  BY ElementsAddLast DEF all1, m, m1
<1>7. {rest1[i] : i \in 1..n1} = {rest[i] : i \in 1..n} \cup {x}
  BY ElementsAddLast DEF rest1, n, n1
<1>8. \A i, j \in 1..m1 : all1[i] = all1[j] => i = j
  <2> SUFFICES ASSUME NEW i \in 1..m1, NEW j \in 1..m1, all1[i] = all1[j]
               PROVE  i = j
    OBVIOUS
  <2>1. CASE i = m1 \/ j = m1
    BY <1>1, <1>5, <1>2, <2>1
  <2>2. CASE i \in 1..m /\ j \in 1..m
    BY <1>1, <1>3, <2>2
  <2> QED
    BY <1>5, <2>1, <2>2
<1>9. ASSUME NEW i \in 1..n1, NEW j \in 1..n1, i < j
      PROVE  \E k, l \in 1..m1 : k < l /\ all1[k] = rest1[i] /\ all1[l] = rest1[j]
  <2>1. i \in 1..n /\ rest1[i] = rest[i]
    BY <1>1, <1>5, <1>9
  <2>2. CASE j \in 1..n
    <3>1. PICK k \in 1..m, l \in 1..m : k < l /\ all[k] = rest[i] /\ all[l] = rest[j]
      BY <1>3, <1>9, <2>1, <2>2
    <3> QED
      BY <1>1, <1>5, <2>1, <2>2, <3>1
  <2>3. CASE j = n1
    <3>1. rest[i] \in {all[k] : k \in 1..m}
      BY <1>3, <2>1
    <3>2. PICK k \in 1..m : all[k] = rest[i]
      BY <3>1
    <3>3. k < m1 /\ all1[k] = rest1[i] /\ all1[m1] = rest1[j]
      BY <1>1, <1>5, <2>1, <2>3, <3>2
    <3> QED
      BY <1>5, <3>3
  <2> QED
    BY <1>5, <2>2, <2>3
<1>10. {all1[i] : i \in 1..m1}
         = {rest1[i] : i \in 1..n1} \cup {lost[i] : i \in 1..Len(lost)}
  BY <1>3, <1>6, <1>7
<1>11. IsRest(rest1, all1, lost)
  <2>1. /\ m1 = n1 + Len(lost)
        /\ {all1[i] : i \in 1..m1} = {rest1[i] : i \in 1..n1} \cup {lost[i] : i \in 1..Len(lost)}
        /\ \A i, j \in 1..m1 : all1[i] = all1[j] => i = j
        /\ \A i, j \in 1..n1 :
             i < j => \E k, l \in 1..m1 : k < l /\ all1[k] = rest1[i] /\ all1[l] = rest1[j]
    BY <1>4, <1>8, <1>9, <1>10
  <2> QED
    BY <2>1 DEF IsRest, n1, m1
<1> QED
  BY <1>11 DEF rest1, all1

\* t is s but for the element behind the first p.
Skips(t, s, p) == \A i \in 1..Len(t) : t[i] = s[IF i <= p THEN i ELSE i + 1]

\* One message is given up: the rest keeps its order.
LEMMA RestShrinks ==
  ASSUME NEW S, NEW rest \in Seq(S), NEW rest1 \in Seq(S), NEW all \in Seq(S), NEW lost \in Seq(S),
         NEW x \in S, NEW p \in Nat, IsRest(rest, all, lost), NEW lost1, Len(lost1) = Len(lost) + 1,
         {lost1[i] : i \in 1..Len(lost1)} = {lost[i] : i \in 1..Len(lost)} \cup {x},
         Len(rest) = Len(rest1) + 1, p + 1 \in 1..Len(rest), rest[p + 1] = x,
         Skips(rest1, rest, p)
  PROVE  IsRest(rest1, all, lost1)
<1> DEFINE n == Len(rest)
           n1 == Len(rest1)
           m == Len(all)
           h == Len(lost)
           h1 == Len(lost1)
<1>1. /\ n = n1 + 1 /\ p + 1 \in 1..n /\ rest[p + 1] = x
      /\ \A i \in 1..n1 : rest1[i] = rest[IF i <= p THEN i ELSE i + 1]
      /\ n1 \in Nat /\ p \in Nat /\ m \in Nat /\ h \in Nat
  BY DEF Skips
<1>2. h1 = h + 1 /\ {lost1[i] : i \in 1..h1} = {lost[i] : i \in 1..h} \cup {x}
  OBVIOUS
<1>3. /\ m = n + h
      /\ {all[i] : i \in 1..m} = {rest[i] : i \in 1..n} \cup {lost[i] : i \in 1..h}
      /\ \A i, j \in 1..m : all[i] = all[j] => i = j
      /\ \A i, j \in 1..n :
           i < j => \E k, l \in 1..m : k < l /\ all[k] = rest[i] /\ all[l] = rest[j]
  BY DEF IsRest
<1> HIDE DEF n, n1, m, h, h1
<1>4. m = n1 + h1
  BY <1>1, <1>2, <1>3
<1> DEFINE at == [i \in 1..n1 |-> IF i <= p THEN i ELSE i + 1]
<1>5. /\ \A i \in 1..n1 : at[i] \in 1..n /\ rest1[i] = rest[at[i]]
      /\ \A i, j \in 1..n1 : i < j => at[i] < at[j]
      /\ \A k \in 1..n : k = p + 1 \/ \E i \in 1..n1 : k = at[i]
  <2>1. ASSUME NEW i \in 1..n1
        PROVE  at[i] \in 1..n /\ rest1[i] = rest[at[i]]
    <3>1. at[i] = IF i <= p THEN i ELSE i + 1
      OBVIOUS
    <3>2. (IF i <= p THEN i ELSE i + 1) \in 1..n
      BY <1>1
    <3> HIDE DEF at
    <3> QED
      BY <1>1, <3>1, <3>2
  <2>2. ASSUME NEW i \in 1..n1, NEW j \in 1..n1, i < j
        PROVE  at[i] < at[j]
    BY <1>1, <2>2
  <2>3. ASSUME NEW k \in 1..n, k # p + 1
        PROVE  \E i \in 1..n1 : k = at[i]
    <3>1. CASE k <= p
      <4>1. k \in 1..n1 /\ at[k] = k
        BY <1>1, <3>1
      <4> QED
        BY <4>1
    <3>2. CASE ~(k <= p)
      <4>1. k - 1 \in 1..n1 /\ at[k - 1] = k
        BY <1>1, <2>3, <3>2
      <4> QED
        BY <4>1
    <3> QED
      BY <3>1, <3>2
  <2> HIDE DEF at
  <2> QED
    BY <2>1, <2>2, <2>3
<1> HIDE DEF at
<1>6. {rest[i] : i \in 1..n} = {rest1[i] : i \in 1..n1} \cup {x}
  <2>1. ASSUME NEW k \in 1..n PROVE rest[k] \in {rest1[i] : i \in 1..n1} \cup {x}
    <3>1. CASE k = p + 1
      BY <1>1, <3>1
    <3>2. CASE \E i \in 1..n1 : k = at[i]
      <4>1. PICK i \in 1..n1 : k = at[i]
        BY <3>2
      <4>2. rest[k] = rest1[i]
        BY <1>5, <4>1
      <4> QED
        BY <4>2
    <3> QED
      BY <1>5, <3>1, <3>2
  <2>2. \A i \in 1..n1 : rest1[i] \in {rest[k] : k \in 1..n}
    BY <1>5
  <2>3. x \in {rest[k] : k \in 1..n}
    BY <1>1
  <2>4. {rest[k] : k \in 1..n} \subseteq {rest1[i] : i \in 1..n1} \cup {x}
    BY <2>1
  <2>5. {rest1[i] : i \in 1..n1} \subseteq {rest[k] : k \in 1..n}
    BY <2>2
  <2> QED
    BY <2>3, <2>4, <2>5, Zenon
<1>7. {all[i] : i \in 1..m} = {rest1[i] : i \in 1..n1} \cup {lost1[i] : i \in 1..h1}
  BY <1>2, <1>3, <1>6
<1>8. ASSUME NEW i \in 1..n1, NEW j \in 1..n1, i < j
      PROVE  \E k, l \in 1..m : k < l /\ all[k] = rest1[i] /\ all[l] = rest1[j]
  <2>1. /\ at[i] \in 1..n /\ at[j] \in 1..n /\ at[i] < at[j]
        /\ rest1[i] = rest[at[i]] /\ rest1[j] = rest[at[j]]
    BY <1>5, <1>8
  <2> DEFINE u == at[i]
             v == at[j]
  <2>2. u \in 1..n /\ v \in 1..n /\ u < v /\ rest1[i] = rest[u] /\ rest1[j] = rest[v]
    BY <2>1
  <2> HIDE DEF u, v
  <2>3. PICK k \in 1..m, l \in 1..m : k < l /\ all[k] = rest[u] /\ all[l] = rest[v]
    BY <1>3, <2>2
  <2> QED
    BY <2>2, <2>3
<1>9. IsRest(rest1, all, lost1)
  BY <1>3, <1>4, <1>7, <1>8 DEF IsRest, n1, m, h1
<1> QED
  BY <1>9

LEMMA RestGiveUp ==
  ASSUME NEW S, NEW a \in Seq(S), NEW b \in Seq(S), NEW x \in S, NEW all \in Seq(S),
         NEW lost \in Seq(S)
  PROVE  IsRest(a \o (<<x>> \o b), all, lost) => IsRest(a \o b, all, Append(lost, x))
<1> DEFINE rest == a \o (<<x>> \o b)
           rest1 == a \o b
           lost1 == Append(lost, x)
<1>1. Len(lost1) = Len(lost) + 1
  BY AppendProperties
<1>2. {lost1[i] : i \in 1..Len(lost1)} = {lost[i] : i \in 1..Len(lost)} \cup {x}
  BY ElementsAddLast
<1>3. rest \in Seq(S) /\ rest1 \in Seq(S) /\ Len(a) \in Nat
  BY ConcatProperties
<1>4. /\ Len(rest) = Len(rest1) + 1 /\ Len(a) + 1 \in 1..Len(rest) /\ rest[Len(a) + 1] = x
      /\ Skips(rest1, rest, Len(a))
  BY TakeOut DEF Skips
<1> HIDE DEF rest, rest1, lost1
<1>5. ASSUME IsRest(rest, all, lost) PROVE IsRest(rest1, all, lost1)
  BY <1>1, <1>2, <1>3, <1>4, <1>5, RestShrinks
<1> QED
  BY <1>5 DEF rest, rest1, lost1

\* A sequence of different elements without one of them.
LEMMA WithoutElements ==
  ASSUME NEW S, NEW s \in Seq(S), NEW i \in 1..Len(s),
         \A j, k \in 1..Len(s) : s[j] = s[k] => j = k
  PROVE  /\ \A j \in 1..Len(Without(s, i)) :
              /\ Without(s, i)[j] # s[i]
              /\ \E k \in 1..Len(s) : Without(s, i)[j] = s[k]
         /\ \A j, k \in 1..Len(Without(s, i)) : Without(s, i)[j] = Without(s, i)[k] => j = k
<1> DEFINE before == SubSeq(s, 1, i - 1)
           after == SubSeq(s, i + 1, Len(s))
           w == Without(s, i)
           n == Len(s)
<1>1. /\ before \in Seq(S) /\ Len(before) = i - 1 /\ \A j \in 1..(i - 1) : before[j] = s[j]
      /\ after \in Seq(S) /\ Len(after) = n - i /\ \A j \in 1..(n - i) : after[j] = s[i + j]
      /\ n \in Nat /\ i \in Nat /\ i <= n /\ i >= 1
  BY SubSeqProperties
<1>2. w = before \o after
  BY DEF Without
<1> HIDE DEF before, after, w, n
<1>3. /\ Len(w) = Len(before) + Len(after)
      /\ \A j \in 1..Len(before) + Len(after) :
           w[j] = IF j <= Len(before) THEN before[j] ELSE after[j - Len(before)]
  <2>1. before \in Seq(S) /\ after \in Seq(S)
    BY <1>1
  <2>2. /\ Len(before \o after) = Len(before) + Len(after)
        /\ \A j \in 1..Len(before) + Len(after) :
             (before \o after)[j] =
               IF j <= Len(before) THEN before[j] ELSE after[j - Len(before)]
    BY <2>1, ConcatProperties
  <2> QED
    BY <1>2, <2>2, Zenon
<1>4. Len(w) = n - 1
  BY <1>1, <1>3
<1>5. ASSUME NEW j \in 1..Len(w), j < i PROVE w[j] = s[j] /\ j \in 1..n
  <2>1. j \in 1..Len(before) + Len(after) /\ j <= Len(before) /\ j \in 1..(i - 1) /\ j \in 1..n
    BY <1>1, <1>4, <1>5
  <2>2. w[j] = before[j]
    BY <1>3, <2>1
  <2> QED
    BY <1>1, <2>1, <2>2
<1>6. ASSUME NEW j \in 1..Len(w), ~(j < i) PROVE w[j] = s[j + 1] /\ j + 1 \in 1..n
  <2>1. /\ j \in 1..Len(before) + Len(after) /\ ~(j <= Len(before))
        /\ j - Len(before) \in 1..(n - i) /\ i + (j - Len(before)) = j + 1 /\ j + 1 \in 1..n
    BY <1>1, <1>4, <1>6
  <2>2. w[j] = after[j - Len(before)]
    BY <1>3, <2>1
  <2>3. after[j - Len(before)] = s[i + (j - Len(before))]
    BY <1>1, <2>1
  <2> QED
    BY <2>1, <2>2, <2>3
<1>7. \A j, k \in 1..n : s[j] = s[k] => j = k
  BY DEF n
<1>8. ASSUME NEW j \in 1..Len(w)
      PROVE  w[j] # s[i] /\ \E k \in 1..n : w[j] = s[k]
  <2>1. CASE j < i
    <3>1. w[j] = s[j] /\ j \in 1..n /\ j # i /\ i \in 1..n
      BY <1>1, <1>5, <2>1
    <3> QED
      BY <1>7, <3>1
  <2>2. CASE ~(j < i)
    <3>1. w[j] = s[j + 1] /\ j + 1 \in 1..n /\ j + 1 # i /\ i \in 1..n
      BY <1>1, <1>6, <2>2
    <3> QED
      BY <1>7, <3>1
  <2> QED
    BY <2>1, <2>2
<1>9. ASSUME NEW j \in 1..Len(w), NEW k \in 1..Len(w), w[j] = w[k]
      PROVE  j = k
  <2>1. CASE j < i /\ k < i
    BY <1>5, <1>7, <1>9, <2>1
  <2>2. CASE ~(j < i) /\ ~(k < i)
    <3>1. j + 1 = k + 1
      BY <1>6, <1>7, <1>9, <2>2
    <3> QED
      BY <3>1
  <2>3. CASE j < i /\ ~(k < i)
    <3>1. j = k + 1
      BY <1>5, <1>6, <1>7, <1>9, <2>3
    <3> QED
      BY <1>1, <2>3, <3>1
  <2>4. CASE ~(j < i) /\ k < i
    <3>1. j + 1 = k
      BY <1>5, <1>6, <1>7, <1>9, <2>4
    <3> QED
      BY <1>1, <2>4, <3>1
  <2> QED
    BY <2>1, <2>2, <2>3, <2>4
<1> QED
  BY <1>8, <1>9 DEF w, n

\* Each message is accepted or suspended once: a producer numbers its sends.
Once ==
  /\ \A i \in 1..Len(accepted) : accepted[i][2] <= offered[accepted[i][1]]
  /\ \A i \in 1..Len(waiters) : waiters[i][2] <= offered[waiters[i][1]]
  /\ \A i, j \in 1..Len(waiters) : waiters[i] = waiters[j] => i = j
  /\ \A i \in 1..Len(accepted), j \in 1..Len(waiters) : accepted[i] # waiters[j]

LEMMA OfferedFresh ==
  ASSUME Inv, Once, NEW p \in Producers, Offer(p)
  PROVE  /\ <<p, offered'[p]>> \in Message
         /\ \A i \in 1..Len(accepted) : /\ accepted[i] # <<p, offered'[p]>>
                                        /\ accepted[i][2] <= offered'[accepted[i][1]]
         /\ \A i \in 1..Len(waiters) : /\ waiters[i] # <<p, offered'[p]>>
                                       /\ waiters[i][2] <= offered'[waiters[i][1]]
<1>1. /\ offered \in [Producers -> 0..MaxSends] /\ offered' = [offered EXCEPT ![p] = @ + 1]
      /\ waiters \in Seq(Message) /\ accepted \in Seq(Message) /\ MaxSends \in Nat
  BY Bounds DEF Offer, Inv, Typed, ChannelsOK
<1>2. \A q \in Producers : offered[q] \in Nat /\ offered'[q] \in Nat /\ offered[q] <= offered'[q]
  BY <1>1
<1>3. offered'[p] = offered[p] + 1
  BY <1>1
<1>4. ASSUME NEW m \in Message, m[2] <= offered[m[1]]
      PROVE  m # <<p, offered'[p]>> /\ m[2] <= offered'[m[1]]
  <2>1. m[1] \in Producers /\ m[2] \in Nat
    BY <1>1 DEF Message
  <2>2. m[2] <= offered'[m[1]]
    BY <1>2, <1>4, <2>1
  <2>3. ASSUME m = <<p, offered'[p]>> PROVE FALSE
    <3>1. m[1] = p /\ m[2] = offered'[p]
      BY <2>3
    <3> QED
      BY <1>2, <1>3, <1>4, <3>1
  <2> QED
    BY <2>2, <2>3
<1>5. <<p, offered'[p]>> \in Message
  BY OfferType DEF Inv, Typed
<1>6. /\ \A i \in 1..Len(accepted) : accepted[i] \in Message /\ accepted[i][2] <= offered[accepted[i][1]]
      /\ \A i \in 1..Len(waiters) : waiters[i] \in Message /\ waiters[i][2] <= offered[waiters[i][1]]
  BY <1>1 DEF Once
<1> QED
  BY <1>4, <1>5, <1>6

\* A new message enters the channel, or its send is suspended.
LEMMA OfferOnce ==
  ASSUME Inv, Once, NEW p \in Producers, Offer(p), NEW m, m = <<p, offered'[p]>>,
         \/ UNCHANGED <<accepted, waiters>>
         \/ accepted' = Append(accepted, m) /\ UNCHANGED waiters
         \/ waiters' = Append(waiters, m) /\ UNCHANGED accepted
  PROVE  Once' /\ m \in Message /\ \A i \in 1..Len(accepted) : accepted[i] # m
<1>1. /\ m \in Message
      /\ \A i \in 1..Len(accepted) : accepted[i] # m /\ accepted[i][2] <= offered'[accepted[i][1]]
      /\ \A i \in 1..Len(waiters) : waiters[i] # m /\ waiters[i][2] <= offered'[waiters[i][1]]
  BY OfferedFresh
<1>2. waiters \in Seq(Message) /\ accepted \in Seq(Message) /\ m[2] <= offered'[m[1]]
  <2>1. waiters \in Seq(Message) /\ accepted \in Seq(Message)
    BY DEF Inv, Typed, ChannelsOK
  <2>2. m[1] = p /\ m[2] = offered'[p] /\ offered'[p] \in Nat
    <3>1. m[2] \in Nat
      BY <1>1, Bounds DEF Message
    <3> QED
      BY <3>1
  <2> QED
    BY <2>1, <2>2
<1>3. CASE UNCHANGED <<accepted, waiters>>
  BY <1>1, <1>3 DEF Once
<1>4. CASE accepted' = Append(accepted, m) /\ UNCHANGED waiters
  <2>1. /\ Len(accepted') = Len(accepted) + 1 /\ accepted'[Len(accepted) + 1] = m
        /\ \A i \in 1..Len(accepted) : accepted'[i] = accepted[i]
        /\ Len(accepted) \in Nat
    BY <1>1, <1>2, <1>4, AppendProperties
  <2>2. \A i \in 1..Len(accepted') : i \in 1..Len(accepted) \/ i = Len(accepted) + 1
    BY <2>1
  <2>3. \A i \in 1..Len(accepted') : accepted'[i][2] <= offered'[accepted'[i][1]]
    BY <1>1, <1>2, <2>1, <2>2
  <2>4. \A i \in 1..Len(accepted'), j \in 1..Len(waiters) : accepted'[i] # waiters[j]
    BY <1>1, <2>1, <2>2 DEF Once
  <2> QED
    BY <1>1, <1>4, <2>3, <2>4 DEF Once
<1>5. CASE waiters' = Append(waiters, m) /\ UNCHANGED accepted
  <2>1. /\ Len(waiters') = Len(waiters) + 1 /\ waiters'[Len(waiters) + 1] = m
        /\ \A i \in 1..Len(waiters) : waiters'[i] = waiters[i]
        /\ Len(waiters) \in Nat
    BY <1>1, <1>2, <1>5, AppendProperties
  <2>2. \A i \in 1..Len(waiters') : i \in 1..Len(waiters) \/ i = Len(waiters) + 1
    BY <2>1
  <2>3. \A i \in 1..Len(waiters') : waiters'[i][2] <= offered'[waiters'[i][1]]
    BY <1>1, <1>2, <2>1, <2>2
  <2>4. \A i \in 1..Len(accepted), j \in 1..Len(waiters') : accepted[i] # waiters'[j]
    BY <1>1, <2>1, <2>2 DEF Once
  <2>5. ASSUME NEW i \in 1..Len(waiters'), NEW j \in 1..Len(waiters'), waiters'[i] = waiters'[j]
        PROVE  i = j
    <3>1. CASE i \in 1..Len(waiters) /\ j \in 1..Len(waiters)
      BY <2>1, <2>5, <3>1 DEF Once
    <3>2. CASE i = Len(waiters) + 1 \/ j = Len(waiters) + 1
      BY <1>1, <2>1, <2>2, <2>5, <3>2
    <3> QED
      BY <2>2, <3>1, <3>2
  <2> QED
    BY <1>1, <1>5, <2>3, <2>4, <2>5 DEF Once
<1> QED
  BY <1>1, <1>3, <1>4, <1>5

\* The suspended send gets its slot, or its future is dropped.
LEMMA WaiterOnce ==
  ASSUME Inv, Once, NEW i \in 1..Len(waiters), waiters' = Without(waiters, i), offered' = offered,
         \/ accepted' = accepted
         \/ accepted' = Append(accepted, waiters[i])
  PROVE  /\ Once' /\ waiters[i] \in Message
         /\ \A k \in 1..Len(accepted) : accepted[k] # waiters[i]
<1>1. waiters \in Seq(Message) /\ accepted \in Seq(Message) /\ waiters[i] \in Message
  BY DEF Inv, Typed, ChannelsOK
<1>2. \A k \in 1..Len(accepted) : accepted[k] # waiters[i]
  BY DEF Once
<1>3. /\ \A j \in 1..Len(waiters') : /\ waiters'[j] # waiters[i]
                                     /\ \E k \in 1..Len(waiters) : waiters'[j] = waiters[k]
      /\ \A j, k \in 1..Len(waiters') : waiters'[j] = waiters'[k] => j = k
  BY <1>1, WithoutElements DEF Once
<1>4. \A j \in 1..Len(waiters') : waiters'[j][2] <= offered'[waiters'[j][1]]
  <2> SUFFICES ASSUME NEW j \in 1..Len(waiters') PROVE waiters'[j][2] <= offered'[waiters'[j][1]]
    OBVIOUS
  <2>1. PICK k \in 1..Len(waiters) : waiters'[j] = waiters[k]
    BY <1>3
  <2> QED
    BY <2>1 DEF Once
<1>5. \A a \in 1..Len(accepted), j \in 1..Len(waiters') : accepted[a] # waiters'[j]
  <2> SUFFICES ASSUME NEW a \in 1..Len(accepted), NEW j \in 1..Len(waiters')
               PROVE  accepted[a] # waiters'[j]
    OBVIOUS
  <2>1. PICK k \in 1..Len(waiters) : waiters'[j] = waiters[k]
    BY <1>3
  <2> QED
    BY <2>1 DEF Once
<1>6. CASE accepted' = accepted
  BY <1>1, <1>2, <1>3, <1>4, <1>5, <1>6 DEF Once
<1>7. CASE accepted' = Append(accepted, waiters[i])
  <2>1. /\ Len(accepted') = Len(accepted) + 1 /\ accepted'[Len(accepted) + 1] = waiters[i]
        /\ \A k \in 1..Len(accepted) : accepted'[k] = accepted[k]
        /\ Len(accepted) \in Nat
    BY <1>1, <1>7, AppendProperties
  <2>2. \A k \in 1..Len(accepted') : k \in 1..Len(accepted) \/ k = Len(accepted) + 1
    BY <2>1
  <2>3. \A k \in 1..Len(accepted') : accepted'[k][2] <= offered'[accepted'[k][1]]
    BY <2>1, <2>2 DEF Once
  <2>4. \A k \in 1..Len(accepted'), j \in 1..Len(waiters') : accepted'[k] # waiters'[j]
    BY <1>3, <1>5, <2>1, <2>2
  <2> QED
    BY <1>1, <1>2, <1>3, <1>4, <2>3, <2>4 DEF Once
<1> QED
  BY <1>6, <1>7

KeptOK ==
  /\ pc["writer"] \in {"recv", "exited"} => wmsg = <<>>
  /\ ~IsClosed => IsRest(bus \o Behind, accepted, dropped)

LEMMA DroppedType == ASSUME Inv PROVE dropped \in Seq(Message) /\ accepted \in Seq(Message)
BY DEF Inv, Typed, RestOK, ChannelsOK

LEMMA PushKept ==
  ASSUME Inv, KeptOK, NEW m \in Message, Push(m), \A i \in 1..Len(accepted) : accepted[i] # m,
         UNCHANGED <<bus, outbuf, wmsg, pc, dropped>>
  PROVE  KeptOK'
<1>1. bus' \o Behind' = Append(bus \o Behind, m) /\ bus \o Behind \in Seq(Message)
  BY PushMoves
<1>2. accepted' = Append(accepted, m)
  BY DEF Push
<1>3. CASE ~IsClosed
  <2>1. IsRest(bus \o Behind, accepted, dropped)
    BY <1>3 DEF KeptOK
  <2> DEFINE way == bus \o Behind
  <2>2. way \in Seq(Message) /\ IsRest(way, accepted, dropped)
    BY <1>1, <2>1
  <2> HIDE DEF way
  <2>3. IsRest(Append(way, m), Append(accepted, m), dropped)
    BY <2>2, DroppedType, RestAddLast
  <2> QED
    BY <1>1, <1>2, <2>3 DEF KeptOK, IsClosed, way
<1>4. CASE IsClosed
  BY <1>4 DEF KeptOK, IsClosed
<1> QED
  BY <1>3, <1>4

LEMMA NoneOrOne ==
  ASSUME NEW S, NEW s \in Seq(S), Len(s) <= 1
  PROVE  s = <<>> \/ \E x \in S : s = <<x>>
<1> DEFINE n == Len(s)
<1>1. n \in Nat /\ n <= 1
  OBVIOUS
<1>2. n = 0 => s = <<>>
  OBVIOUS
<1>3. ASSUME n = 1 PROVE s = <<s[1]>> /\ s[1] \in S
  <2>1. Len(s) = 1
    BY <1>3
  <2>2. s[1] \in S
    BY <2>1
  <2>3. s = <<s[1]>>
    BY <2>1, <2>2
  <2> QED
    BY <2>2, <2>3
<1> HIDE DEF n
<1>4. n = 0 \/ n = 1
  BY <1>1
<1> QED
  BY <1>2, <1>3, <1>4

\* The message in the write task's hand is given up.
LEMMA GiveUpKept ==
  ASSUME Inv, KeptOK, WriterLockTimeout
  PROVE  KeptOK'
<1>1. /\ wmsg' = <<>> /\ dropped' = dropped \o wmsg /\ pc["writer"] = "queued"
      /\ UNCHANGED <<bus, outbuf, frames, accepted>>
  BY DEF WriterLockTimeout, LockTimesOut, channels, port
<1>2. IsRest(bus \o (outbuf \o (wmsg \o frames)), accepted, dropped)
  BY <1>1 DEF KeptOK, IsClosed, Behind
<1>3. /\ frames \in Seq(Message) /\ wmsg \in Seq(Message) /\ outbuf \in Seq(Message)
      /\ bus \in Seq(Message) /\ wmsg \o frames \in Seq(Message)
  BY OutboundTypes
<1>4. <<>> \o frames = frames
  BY <1>3, ConcatEmptySeq
<1>5. CASE wmsg = <<>>
  <2>1. dropped' = dropped
    BY <1>1, <1>5, DroppedType, ConcatEmptySeq
  <2> QED
    BY <1>1, <1>2, <1>5, <2>1 DEF KeptOK, Behind
<1>6. CASE wmsg # <<>>
  <2>1. PICK x \in Message : wmsg = <<x>>
    <3>1. Len(wmsg) <= 1 /\ wmsg \in Seq(Message)
      BY DEF Inv, Typed, HandsOK
    <3> QED
      BY <1>6, <3>1, NoneOrOne
  <2>2. dropped' = Append(dropped, x)
    BY <1>1, <2>1, DroppedType, AppendIsConcat
  <2> DEFINE a == bus \o outbuf
  <2>3. a \in Seq(Message)
    BY <1>3, ConcatProperties
  <2>4. bus \o (outbuf \o (wmsg \o frames)) = a \o (<<x>> \o frames)
    <3>1. (bus \o outbuf) \o (wmsg \o frames) = bus \o (outbuf \o (wmsg \o frames))
      BY <1>3, MessagesRegroup
    <3> QED
      BY <2>1, <3>1
  <2>5. bus \o (outbuf \o frames) = a \o frames
    BY <1>3, MessagesRegroup
  <2> HIDE DEF a
  <2>6. IsRest(a \o (<<x>> \o frames), accepted, dropped)
    BY <1>2, <2>4
  <2>7. IsRest(a \o frames, accepted, Append(dropped, x))
    <3>1. dropped \in Seq(Message) /\ accepted \in Seq(Message) /\ frames \in Seq(Message)
      BY <1>3, DroppedType
    <3> QED
      BY <2>3, <2>6, <3>1, RestGiveUp
  <2>8. Behind' = outbuf \o frames
    BY <1>1, <1>4 DEF Behind
  <2> QED
    BY <1>1, <2>2, <2>5, <2>7, <2>8 DEF KeptOK
<1> QED
  BY <1>5, <1>6

\* Steps that give up or accept no message, while the write task goes on.
LEMMA PathKept ==
  ASSUME KeptOK, UNCHANGED <<accepted, dropped>>, bus' \o Behind' = bus \o Behind, IsClosed => IsClosed',
         pc'["writer"] \in {"recv", "exited"} => wmsg' = <<>>
  PROVE  KeptOK'
BY DEF KeptOK

LEMMA MovesKept ==
  ASSUME Inv, KeptOK, WriterRecv \/ WriteFrame \/ DeviceTakes
  PROVE  KeptOK'
<1>1. CASE WriterRecv
  <2>1. /\ wmsg = <<>> /\ ~IsClosed /\ UNCHANGED <<accepted, dropped, bus>>
        /\ pc'["writer"] = "lock"
    BY <1>1, TwoTasks DEF WriterRecv, KeptOK, IsClosed, Goto, Inv, Typed, PlacesOK, port
  <2> QED
    BY <1>1, <2>1, WriterRecvMoves, PathKept
<1>2. CASE WriteFrame
  <2>1. wmsg' = <<>> /\ ~IsClosed /\ UNCHANGED <<accepted, dropped, bus>>
    BY <1>2 DEF WriteFrame, IsClosed, channels
  <2> QED
    BY <1>2, <2>1, WriteFrameMoves, PathKept
<1>3. CASE DeviceTakes
  <2>1. UNCHANGED <<accepted, dropped, pc, wmsg>>
    BY <1>3 DEF DeviceTakes, channels, tasks
  <2> QED
    BY <1>3, <2>1, DeviceTakesMoves, PathKept DEF KeptOK, IsClosed
<1> QED
  BY <1>1, <1>2, <1>3

LEMMA EndKept ==
  ASSUME Inv, KeptOK, WriterFinishes \/ WriteFails
  PROVE  KeptOK'
<1>1. CASE WriterFinishes
  <2>1. pc'["writer"] = "exited" /\ wmsg' = <<>>
    BY <1>1, TwoTasks DEF WriterFinishes, Goto, KeptOK, Inv, Typed, PlacesOK
  <2> QED
    BY <2>1 DEF KeptOK, IsClosed
<1>2. CASE WriteFails
  <2>1. pc'["writer"] = "exited" /\ wmsg' = <<>>
    BY <1>2, OtherStays, TwoTasks DEF WriteFails
  <2> QED
    BY <2>1 DEF KeptOK, IsClosed
<1> QED
  BY <1>1, <1>2

LEMMA SendersKept ==
  ASSUME Inv, Once, KeptOK, Producer \/ ResumeSend \/ CancelSend
  PROVE  Once' /\ KeptOK'
<1>1. UNCHANGED <<bus, outbuf, wmsg, pc, dropped>>
  BY DEF Producer, Send, TrySend, DropSender, ResumeSend, CancelSend, port, tasks
<1>2. ASSUME UNCHANGED <<frames, accepted>> PROVE KeptOK'
  BY <1>1, <1>2, PathKept DEF KeptOK, IsClosed, Behind
<1>3. ASSUME NEW p \in Producers, Send(p) \/ TrySend(p)
      PROVE  Once' /\ KeptOK'
  <2> DEFINE m == <<p, offered'[p]>>
  <2>1. /\ Offer(p)
        /\ \/ UNCHANGED <<frames, accepted, waiters>>
           \/ Push(m) /\ UNCHANGED waiters
           \/ waiters' = Append(waiters, m) /\ UNCHANGED <<frames, accepted>>
    BY <1>3 DEF Send, TrySend
  <2> HIDE DEF m
  <2>2. \/ UNCHANGED <<accepted, waiters>>
        \/ accepted' = Append(accepted, m) /\ UNCHANGED waiters
        \/ waiters' = Append(waiters, m) /\ UNCHANGED accepted
    BY <2>1 DEF Push
  <2>3. m = <<p, offered'[p]>>
    BY DEF m
  <2>4. Once' /\ m \in Message /\ \A i \in 1..Len(accepted) : accepted[i] # m
    BY <2>1, <2>2, <2>3, OfferOnce
  <2>5. CASE Push(m)
    BY <1>1, <2>4, <2>5, PushKept
  <2>6. CASE UNCHANGED <<frames, accepted>>
    BY <1>2, <2>4, <2>6
  <2> QED
    BY <2>1, <2>5, <2>6
<1>4. ASSUME NEW p \in Producers, DropSender(p)
      PROVE  Once' /\ KeptOK'
  <2>1. UNCHANGED <<frames, waiters, offered, accepted>>
    BY <1>4 DEF DropSender
  <2> QED
    BY <1>2, <2>1 DEF Once
<1>5. CASE ResumeSend
  <2>1. PICK i \in 1..(FrameCap - Len(frames)) :
          i <= Len(waiters) /\ Push(waiters[i]) /\ waiters' = Without(waiters, i)
    BY <1>5 DEF ResumeSend
  <2>2. i \in 1..Len(waiters)
    BY <2>1 DEF Inv, Typed, ChannelsOK
  <2>3. offered' = offered /\ accepted' = Append(accepted, waiters[i])
    BY <1>5, <2>1 DEF ResumeSend, Push
  <2>4. /\ Once' /\ waiters[i] \in Message
        /\ \A k \in 1..Len(accepted) : accepted[k] # waiters[i]
    BY <2>1, <2>2, <2>3, WaiterOnce
  <2> QED
    BY <1>1, <2>1, <2>4, PushKept
<1>6. CASE CancelSend
  <2>1. PICK i \in 1..Len(waiters) : waiters' = Without(waiters, i)
    BY <1>6 DEF CancelSend, Inv, Typed, ChannelsOK
  <2>2. UNCHANGED <<frames, accepted, offered>>
    BY <1>6 DEF CancelSend
  <2>3. Once'
    BY <2>1, <2>2, WaiterOnce
  <2> QED
    BY <1>2, <2>2, <2>3
<1> QED
  BY <1>3, <1>4, <1>5, <1>6 DEF Producer

\* The other steps.
LEMMA OthersKept ==
  ASSUME Inv, KeptOK, RestsOutbound
  PROVE  KeptOK'
<1>1. UNCHANGED <<bus, outbuf, wmsg, frames, accepted, dropped>>
  BY DEF RestsOutbound, ReaderStep, ReaderLockTimeout, ReadMessage, ReadTimesOut, ReadFails,
         Deliver, DeliverFails, Lock, Wake, BackgroundEnds, Receive, DropReceiver, DeviceSends,
         ReadBreaks, WriteBreaks, Tick, vars, channels, tasks, port
<1>2. /\ pc'["writer"] \in {"recv", "exited"} => pc["writer"] \in {"recv", "exited"}
      /\ IsClosed => IsClosed'
  BY WriterStays DEF IsClosed
<1> QED
  BY <1>1, <1>2, PathKept DEF KeptOK, Behind

LEMMA OnceRests ==
  ASSUME Once, [Next]_vars, ~Producer, ~ResumeSend, ~CancelSend
  PROVE  Once'
<1>1. UNCHANGED <<accepted, offered>> /\ (waiters' = waiters \/ waiters' = <<>>)
  BY DEF Next, WriterStep, WriterRecv, WriterFinishes, WriterLockTimeout, WriteFrame, WriteFails,
         ReaderStep, ReaderLockTimeout, ReadMessage, ReadTimesOut, ReadFails, Deliver, DeliverFails,
         Lock, Wake, BackgroundEnds, Receive, DropReceiver, DeviceTakes, DeviceSends, ReadBreaks,
         WriteBreaks, Tick, vars, channels
<1> QED
  BY <1>1 DEF Once

\* On an executor that is late at will, only messages are lost that the write
\* task gave up for want of the lock: the others stay in order, each once
\* (write_task's timeout on the port's mutex).
THEOREM OthersStayInOrder == Spec => []OnlyGivenUpLost
<1>1. Init => Once /\ KeptOK
  <2> SUFFICES ASSUME Init PROVE Once /\ KeptOK
    OBVIOUS
  <2>1. /\ accepted = <<>> /\ waiters = <<>> /\ wmsg = <<>> /\ dropped = <<>> /\ Len(<<>>) = 0
        /\ bus = <<>> /\ outbuf = <<>> /\ frames = <<>>
    BY DEF Init
  <2>2. <<>> \o (<<>> \o (<<>> \o <<>>)) = <<>>
    OBVIOUS
  <2>3. IsRest(bus \o Behind, accepted, dropped)
    BY <2>1, <2>2 DEF IsRest, Behind
  <2> QED
    BY <2>1, <2>3 DEF Once, KeptOK
<1>2. ASSUME Inv, Once, KeptOK, [Next]_vars PROVE Once' /\ KeptOK'
  <2>1. CASE Producer \/ ResumeSend \/ CancelSend
    BY <1>2, <2>1, SendersKept
  <2>2. CASE ~(Producer \/ ResumeSend \/ CancelSend)
    <3>1. Once'
      BY <1>2, <2>2, OnceRests
    <3>2. CASE WriterRecv \/ WriteFrame \/ DeviceTakes
      BY <1>2, <3>1, <3>2, MovesKept
    <3>3. CASE WriterLockTimeout
      BY <1>2, <3>1, <3>3, GiveUpKept
    <3>4. CASE WriterFinishes \/ WriteFails
      BY <1>2, <3>1, <3>4, EndKept
    <3>5. CASE RestsOutbound
      BY <1>2, <3>1, <3>5, OthersKept
    <3>6. \/ WriterRecv \/ WriteFrame \/ DeviceTakes \/ WriterLockTimeout
          \/ WriterFinishes \/ WriteFails \/ RestsOutbound
      BY <1>2, <2>2, Zenon DEF Next, WriterStep, RestsOutbound
    <3> QED
      BY <3>2, <3>3, <3>4, <3>5, <3>6
  <2> QED
    BY <2>1, <2>2
<1>3. Inv /\ KeptOK => OnlyGivenUpLost
  <2> SUFFICES ASSUME Inv, KeptOK PROVE OnlyGivenUpLost
    OBVIOUS
  <2>1. ((bus \o outbuf) \o wmsg) \o frames = bus \o Behind
    <3>1. /\ bus \in Seq(Message) /\ outbuf \in Seq(Message)
          /\ wmsg \in Seq(Message) /\ frames \in Seq(Message)
      BY OutboundTypes
    <3>2. bus \o outbuf \in Seq(Message) /\ wmsg \o frames \in Seq(Message)
      BY <3>1
    <3>3. \A x \in Seq(Message) : (x \o wmsg) \o frames = x \o (wmsg \o frames)
      BY <3>1, MessagesRegroup, ZenonT(40)
    <3>4. \A y \in Seq(Message) : (bus \o outbuf) \o y = bus \o (outbuf \o y)
      BY <3>1, MessagesRegroup, ZenonT(40)
    <3>5. ((bus \o outbuf) \o wmsg) \o frames = bus \o (outbuf \o (wmsg \o frames))
      BY <3>2, <3>3, <3>4, Zenon
    <3> QED
      BY <3>5, Zenon DEF Behind
  <2> QED
    BY <2>1 DEF KeptOK, OnlyGivenUpLost
<1> QED
  BY <1>1, <1>2, <1>3, Invariant, PTL DEF Spec
=============================================================================
