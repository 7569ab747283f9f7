---------------------------- MODULE ZenCanProofs ----------------------------
(***************************************************************************)
(* The zencan interface is split mode seen through two conversions: what   *)
(* it returns, flushes, reports and hands back, for every capacity,        *)
(* timeout and set of messages.                                            *)
(***************************************************************************)
EXTENDS ZenCan, SplitModePaths, FiniteSetTheorems

-----------------------------------------------------------------------------
(* Every step of the interface is a step of split mode, or none of its.    *)

LEMMA InterfaceSteps ==
  ASSUME [ZNext]_zvars
  PROVE  [Next]_vars
<1>1. ASSUME NEW z \in Requests, SendInvalid(z) PROVE UNCHANGED vars
  BY <1>1 DEF SendInvalid
<1>2. ASSUME NEW p \in Producers, NEW z \in Requests, SendConverted(p, z) PROVE Producer
  BY <1>2 DEF SendConverted, Producer
<1>3. CASE WriteFailsForSender
  BY <1>3 DEF WriteFailsForSender, Next, WriterStep
<1>4. CASE DropSend
  BY <1>4 DEF DropSend, Next
<1>5. CASE Recv \/ FlushTakes
  BY <1>5 DEF Recv, FlushTakes, Next
<1>6. CASE RecvFails \/ FlushEnds \/ FlushBegins \/ UNCHANGED zvars
  BY <1>6 DEF RecvFails, FlushEnds, FlushBegins, zvars
<1>7. CASE Below
  BY <1>7 DEF Below, Next, Producer, WriterStep
<1> QED
  BY <1>1, <1>2, <1>3, <1>4, <1>5, <1>6, <1>7 DEF ZNext, ReceiverStep, Next

\* The interface adds nothing to what split mode's tasks, channels and lock do:
\* whatever holds of split mode holds below it (ZenCanSender and ZenCanReceiver
\* only call their inner halves).
THEOREM InterfaceImplementsSplitMode == ZSpec => Spec
<1>1. ZInit => Init
  BY DEF ZInit
<1> QED
  BY <1>1, InterfaceSteps, PTL DEF ZSpec, Spec

LEMMA BelowInvariant == ZSpec => [](Inv /\ InboundWay)
<1>1. Init => InboundWay
  BY DEF Init, InboundWay, Ahead
<1>2. Inv /\ InboundWay /\ [Next]_vars => InboundWay'
  BY InboundSteps
<1> QED
  BY <1>1, <1>2, InterfaceImplementsSplitMode, Invariant, PTL DEF Spec

-----------------------------------------------------------------------------
(* "Channel closed".                                                       *)

\* An error of recv is the last that it returns: the read task has ended, its
\* channel is empty, and the rest is still in the port.
Drained ==
  failed => pc["reader"] = "exited" /\ msgs = <<>> /\ received \o inbound = devsent

\* What a read task that has ended leaves alone.
LEMMA ReaderGone ==
  ASSUME Inv, [Next]_vars, pc["reader"] = "exited", msgs = <<>>
  PROVE  /\ pc'["reader"] = "exited" /\ msgs' = <<>> /\ received' = received
         /\ DeviceSends \/ UNCHANGED <<inbound, devsent>>
<1>1. CASE WriteFrame \/ WriteFails
  <2>1. \E place : pc["writer"] = "port" /\ Release("writer", place)
    BY <1>1 DEF WriteFrame, WriteFails
  <2>2. pc'["reader"] = "exited"
    BY <2>1, OtherStays, TwoTasks
  <2> QED
    BY <1>1, <2>2 DEF WriteFrame, WriteFails, inside, port
<1>2. CASE WriterRecv \/ WriterFinishes \/ Lock("writer") \/ Wake("writer") \/ WriterLockTimeout
  BY <1>2, TwoTasks DEF WriterRecv, WriterFinishes, Lock, Wake, WriterLockTimeout, Goto, Inv,
                        Typed, PlacesOK, inside, port
<1>3. CASE ReaderStep
  BY <1>3 DEF ReaderStep, Lock, Wake, ReaderLockTimeout, LockTimesOut, ReadMessage, ReadTimesOut,
              ReadFails, Deliver, DeliverFails
<1>4. CASE Producer \/ ResumeSend \/ CancelSend \/ BackgroundEnds \/ Receive \/ DropReceiver
             \/ DeviceTakes \/ DeviceSends \/ ReadBreaks \/ WriteBreaks \/ Tick \/ UNCHANGED vars
  BY <1>4 DEF Producer, Send, TrySend, DropSender, ResumeSend, CancelSend, BackgroundEnds, Receive,
              DropReceiver, DeviceTakes, DeviceSends, ReadBreaks, WriteBreaks, Tick, vars, inside,
              tasks, port
<1> QED
  BY <1>1, <1>2, <1>3, <1>4 DEF Next, WriterStep

LEMMA DrainedKept ==
  ASSUME Inv, InboundWay, Drained, [ZNext]_zvars
  PROVE  Drained'
<1>1. CASE RecvFails
  <2>1. /\ receiver /\ msgs = <<>> /\ pc["reader"] = "exited"
        /\ UNCHANGED <<pc, msgs, received, inbound, devsent>>
    BY <1>1 DEF RecvFails, vars, tasks, inside, port
  <2>2. rmsg = <<>> /\ devsent = received \o (msgs \o (rmsg \o inbound))
    BY <2>1 DEF InboundWay, Ahead
  <2>3. msgs \o (rmsg \o inbound) = inbound
    BY <2>1, <2>2, InboundTypes, ConcatEmptySeq
  <2> QED
    BY <2>1, <2>2, <2>3 DEF Drained
<1>2. CASE failed /\ ~RecvFails
  <2>1. [Next]_vars
    BY InterfaceSteps
  <2>2. pc["reader"] = "exited" /\ msgs = <<>> /\ received \o inbound = devsent
    BY <1>2 DEF Drained
  <2>3. /\ pc'["reader"] = "exited" /\ msgs' = <<>> /\ received' = received
        /\ DeviceSends \/ UNCHANGED <<inbound, devsent>>
    BY <2>1, <2>2, ReaderGone
  <2>4. CASE DeviceSends
    <3> DEFINE m == Len(devsent) + 1
    <3>1. devsent' = Append(devsent, m) /\ inbound' = Append(inbound, m) /\ Len(devsent) < MaxInbound
      BY <2>4 DEF DeviceSends
    <3>2. m \in Numbers /\ inbound \in Seq(Numbers) /\ received \in Seq(Numbers)
      BY <3>1, Bounds, InboundTypes DEF Numbers
    <3> HIDE DEF m
    <3>3. received \o Append(inbound, m) = Append(received \o inbound, m)
      BY <3>2, NumbersAddLast
    <3> QED
      BY <2>2, <2>3, <3>1, <3>3 DEF Drained
  <2> QED
    BY <2>2, <2>3, <2>4 DEF Drained
<1>3. CASE ~failed /\ ~RecvFails
  <2>1. failed' = failed
    BY <1>3 DEF ZNext, SendInvalid, SendConverted, WriteFailsForSender, DropSend, ReceiverStep, Recv,
                FlushTakes, FlushEnds, FlushBegins, Below, zvars, recvr
  <2> QED
    BY <1>3, <2>1 DEF Drained
<1> QED
  BY <1>1, <1>2, <1>3

\* recv reports an error when every message that was read from the port has
\* been returned or flushed (ZenCanReceiver::recv, flush).
THEOREM ErrorMeansDrained == ZSpec => []ClosedMeansDrained
<1>1. ZInit => Drained
  BY DEF ZInit, Drained
<1>2. Inv /\ InboundWay /\ Drained /\ [ZNext]_zvars => Drained'
  BY DrainedKept
<1>3. Drained => ClosedMeansDrained
  BY DEF Drained, ClosedMeansDrained
<1> QED
  BY <1>1, <1>2, <1>3, BelowInvariant, PTL DEF ZSpec

-----------------------------------------------------------------------------
(* What recv returns and what flush takes away.                            *)

Numbered == \A i \in 1..Len(devsent) : devsent[i] = i

\* What the channel held when the last flush began is behind the receiver once
\* that flush has ended.
Marked ==
  /\ mark \in Nat /\ flushing \in BOOLEAN
  /\ flushing => receiver /\ mark <= Len(received) + Len(msgs)
  /\ ~flushing => mark <= Len(received)

Result == [n : Numbers, after : Nat, msg : {ToZencan(Incoming[k]) : k \in Numbers}]
ReturnedOK ==
  /\ returned \in Seq(Result)
  /\ \A i \in 1..Len(returned) :
       /\ returned[i].after < returned[i].n /\ returned[i].n <= Len(received)
       /\ returned[i].msg = ToZencan(Incoming[returned[i].n])
  /\ \A i, j \in 1..Len(returned) : i < j => returned[i].n < returned[j].n

\* The consumer's messages never become less, nor does what was delivered
\* while there is a receiver.
LEMMA DeliveredGrows ==
  ASSUME Inv, [Next]_vars
  PROVE  /\ Len(received) <= Len(received')
         /\ ~DropReceiver => /\ receiver' = receiver
                             /\ Len(received) + Len(msgs) <= Len(received') + Len(msgs')
<1>1. /\ Len(received) \in Nat /\ Len(msgs) \in Nat
      /\ msgs \in Seq(Numbers) /\ rmsg \in Seq(Numbers) /\ received \in Seq(Numbers)
  BY InboundTypes
<1>2. CASE Receive
  BY <1>1, <1>2, HeadTailProperties DEF Receive
<1>3. CASE Deliver
  <2>1. Len(msgs \o rmsg) = Len(msgs) + Len(rmsg) /\ Len(rmsg) \in Nat
    BY <1>1, ConcatProperties
  <2> QED
    BY <1>1, <1>3, <2>1 DEF Deliver
<1>4. CASE DropReceiver
  <2>1. received' = received
    BY <1>4 DEF DropReceiver
  <2> QED
    BY <1>1, <1>4, <2>1
<1>5. CASE ~Receive /\ ~Deliver /\ ~DropReceiver
  <2>1. UNCHANGED <<receiver, received, msgs>>
    BY <1>5 DEF Next, Producer, Send, TrySend, DropSender, ResumeSend, CancelSend, WriterStep,
                WriterRecv, WriterFinishes, WriterLockTimeout, WriteFrame, WriteFails, Lock, Wake,
                ReaderStep, ReaderLockTimeout, ReadMessage, ReadTimesOut, ReadFails, DeliverFails,
                BackgroundEnds, DeviceTakes, DeviceSends, ReadBreaks, WriteBreaks, Tick, vars,
                inside
  <2> QED
    BY <1>1, <2>1
<1> QED
  BY <1>2, <1>3, <1>4, <1>5

LEMMA NumberedKept ==
  ASSUME Inv, Numbered, [Next]_vars
  PROVE  Numbered'
<1>1. devsent \in Seq(Numbers)
  BY InboundTypes
<1>2. CASE DeviceSends
  <2> DEFINE m == Len(devsent) + 1
  <2>1. devsent' = Append(devsent, m) /\ Len(devsent) < MaxInbound
    BY <1>2 DEF DeviceSends
  <2>2. m \in Numbers
    BY <1>1, <2>1, Bounds DEF Numbers
  <2>3. /\ Len(devsent') = Len(devsent) + 1 /\ devsent'[Len(devsent) + 1] = Len(devsent) + 1
        /\ \A i \in 1..Len(devsent) : devsent'[i] = devsent[i]
    BY <1>1, <2>1, <2>2, AppendProperties
  <2> QED
    BY <1>1, <2>3 DEF Numbered
<1>3. CASE ~DeviceSends
  <2>1. devsent' = devsent
    BY <1>3 DEF Next, Producer, Send, TrySend, DropSender, ResumeSend, CancelSend, WriterStep,
                WriterRecv, WriterFinishes, WriterLockTimeout, WriteFrame, WriteFails, Lock, Wake,
                ReaderStep, ReaderLockTimeout, ReadMessage, ReadTimesOut, ReadFails, Deliver,
                DeliverFails, BackgroundEnds, Receive, DropReceiver, DeviceTakes, ReadBreaks,
                WriteBreaks, Tick, vars, port
  <2> QED
    BY <2>1 DEF Numbered
<1> QED
  BY <1>2, <1>3

\* The message that the receiver takes next is the next that the device sent.
LEMMA NextReceived ==
  ASSUME Inv, InboundWay, Numbered, Receive
  PROVE  /\ Head(msgs) = Len(received) + 1 /\ Head(msgs) \in Numbers
         /\ Len(received') = Len(received) + 1
<1> DEFINE later == rmsg \o inbound
<1>1. /\ receiver /\ msgs # <<>> /\ received' = Append(received, Head(msgs))
      /\ devsent = received \o (msgs \o later)
  BY DEF Receive, InboundWay, Ahead
<1>2. /\ later \in Seq(Numbers) /\ msgs \in Seq(Numbers) /\ received \in Seq(Numbers)
      /\ devsent \in Seq(Numbers)
  BY InboundTypes
<1> HIDE DEF later
<1>3. Len(received) < Len(devsent) /\ devsent[Len(received) + 1] = Head(msgs)
  BY <1>1, <1>2, NextOnPath
<1>4. Head(msgs) \in Numbers
  BY <1>1, <1>2, HeadAndTail
<1>5. Len(received') = Len(received) + 1
  BY <1>1, <1>2, <1>4, AppendProperties
<1>6. devsent[Len(received) + 1] = Len(received) + 1
  BY <1>2, <1>3 DEF Numbered
<1> QED
  BY <1>3, <1>4, <1>5, <1>6

LEMMA MarkedKept ==
  ASSUME Inv, InboundWay, Numbered, Marked, [ZNext]_zvars
  PROVE  Marked'
<1>1. Len(received) \in Nat /\ Len(msgs) \in Nat /\ [Next]_vars
  BY InboundTypes, InterfaceSteps
<1>2. Inv'
  BY <1>1, InvariantKept
<1>3. Len(received') \in Nat /\ Len(msgs') \in Nat
  BY <1>2 DEF Inv, Typed, InsideOK
<1>4. CASE FlushBegins
  <2>1. /\ receiver /\ mark' = Len(received) + Len(msgs) /\ flushing' = TRUE
        /\ UNCHANGED <<receiver, received, msgs>>
    BY <1>4 DEF FlushBegins, vars, inside
  <2>2. mark' \in Nat /\ mark' <= Len(received') + Len(msgs')
    BY <1>1, <2>1
  <2> QED
    BY <2>1, <2>2 DEF Marked
<1>5. CASE FlushEnds
  <2>1. /\ flushing /\ msgs = <<>> /\ flushing' = FALSE /\ UNCHANGED <<mark, received>>
    BY <1>5 DEF FlushEnds, vars, inside
  <2>2. mark \in Nat /\ mark <= Len(received) + Len(msgs)
    BY <2>1 DEF Marked
  <2>3. mark' \in Nat /\ mark' <= Len(received')
    BY <1>1, <2>1, <2>2
  <2> QED
    BY <2>1, <2>3 DEF Marked
<1>6. CASE ~FlushBegins /\ ~FlushEnds
  <2>1. UNCHANGED <<mark, flushing>>
    BY <1>6 DEF ZNext, SendInvalid, SendConverted, WriteFailsForSender, DropSend, ReceiverStep, Recv,
                RecvFails, FlushTakes, Below, zvars, recvr
  <2>2. CASE flushing
    <3>1. ~DropReceiver
      <4>1. receiver' = receiver
        BY <1>6, <2>2 DEF ZNext, SendInvalid, SendConverted, Send, WriteFailsForSender, WriteFails,
                          DropSend, CancelSend, ReceiverStep, Recv, RecvFails, FlushTakes, Receive,
                          Below, DropSender, ResumeSend, WriterRecv, WriterFinishes, Lock, Wake,
                          WriterLockTimeout, WriteFrame, ReaderStep, ReaderLockTimeout, ReadMessage,
                          ReadTimesOut, ReadFails, Deliver, DeliverFails, BackgroundEnds,
                          DeviceTakes, DeviceSends, ReadBreaks, WriteBreaks, Tick, zvars, vars,
                          inside
      <4> QED
        BY <4>1 DEF DropReceiver
    <3>2. /\ receiver' = receiver
          /\ Len(received) + Len(msgs) <= Len(received') + Len(msgs')
      BY <1>1, <3>1, DeliveredGrows
    <3>3. receiver /\ mark \in Nat /\ mark <= Len(received) + Len(msgs)
      BY <2>2 DEF Marked
    <3>4. mark' \in Nat /\ mark' <= Len(received') + Len(msgs')
      BY <1>1, <1>3, <2>1, <3>2, <3>3
    <3> QED
      BY <2>1, <2>2, <3>2, <3>3, <3>4 DEF Marked
  <2>3. CASE ~flushing
    BY <1>1, <1>3, <2>1, <2>3, DeliveredGrows DEF Marked
  <2> QED
    BY <2>2, <2>3
<1> QED
  BY <1>4, <1>5, <1>6

LEMMA Results ==
  ASSUME ReturnedOK
  PROVE  /\ DOMAIN returned = 1..Len(returned)
         /\ \A i \in 1..Len(returned) :
              returned[i].n \in Numbers /\ returned[i].n \in Nat /\ returned[i].after \in Nat
<1>1. \A r \in Result : r.n \in Numbers /\ r.after \in Nat
  BY DEF Result
<1>2. \A k \in Numbers : k \in Nat
  BY Bounds DEF Numbers
<1>3. returned \in Seq(Result)
  BY DEF ReturnedOK
<1> QED
  BY <1>1, <1>2, <1>3

LEMMA ReturnedKept ==
  ASSUME Inv, InboundWay, Numbered, Marked, ReturnedOK, [ZNext]_zvars
  PROVE  ReturnedOK'
<1>1. /\ Len(received) \in Nat /\ Len(received') \in Nat /\ Len(received) <= Len(received')
  <2>1. [Next]_vars
    BY InterfaceSteps
  <2>2. Inv'
    BY <2>1, InvariantKept
  <2>3. received' \in Seq(1..MaxInbound)
    BY <2>2 DEF Inv, Typed, InsideOK
  <2> QED
    BY <2>1, <2>3, InboundTypes, DeliveredGrows
<1>2. returned \in Seq(Result) /\ \A i \in 1..Len(returned) : returned[i].n \in Nat
  BY Results DEF ReturnedOK
<1>3. CASE Recv
  <2> DEFINE r == [n |-> Head(msgs), after |-> mark, msg |-> ToZencan(Incoming[Head(msgs)])]
             len == Len(received)
  <2>1. returned' = Append(returned, r) /\ Receive /\ ~flushing
    BY <1>3 DEF Recv
  <2>2. Head(msgs) = len + 1 /\ Head(msgs) \in Numbers /\ Len(received') = len + 1
    BY <2>1, NextReceived
  <2>3. mark \in Nat /\ mark <= len
    BY <2>1 DEF Marked
  <2>4. /\ r \in Result /\ r.n = len + 1 /\ r.after = mark
        /\ r.msg = ToZencan(Incoming[r.n])
    BY <2>2, <2>3 DEF Result
  <2>5. len \in Nat
    BY <1>1
  <2> HIDE DEF r, len
  <2>6. /\ returned' \in Seq(Result) /\ Len(returned') = Len(returned) + 1
        /\ returned'[Len(returned) + 1] = r
        /\ \A i \in 1..Len(returned) : returned'[i] = returned[i]
    BY <1>2, <2>1, <2>4, AppendProperties
  <2>7. \A i \in 1..Len(returned) : returned[i].n <= len
    BY DEF ReturnedOK, len
  <2>8. ASSUME NEW i \in 1..Len(returned')
        PROVE  /\ returned'[i].after < returned'[i].n /\ returned'[i].n <= Len(received')
               /\ returned'[i].msg = ToZencan(Incoming[returned'[i].n])
    <3>1. CASE i = Len(returned) + 1
      BY <2>2, <2>3, <2>4, <2>5, <2>6, <3>1
    <3>2. CASE i # Len(returned) + 1
      <4>1. i \in 1..Len(returned) /\ returned'[i] = returned[i] /\ returned[i].n \in Nat
        BY <1>2, <2>6, <3>2
      <4>2. /\ returned[i].after < returned[i].n
            /\ returned[i].msg = ToZencan(Incoming[returned[i].n])
        BY <4>1 DEF ReturnedOK
      <4>3. returned[i].n <= len + 1
        BY <2>5, <2>7, <4>1
      <4> QED
        BY <2>2, <4>1, <4>2, <4>3
    <3> QED
      BY <3>1, <3>2
  <2>9. ASSUME NEW i \in 1..Len(returned'), NEW j \in 1..Len(returned'), i < j
        PROVE  returned'[i].n < returned'[j].n
    <3>1. i \in 1..Len(returned) /\ returned'[i] = returned[i] /\ returned[i].n \in Nat
      BY <1>2, <2>6, <2>9
    <3>2. CASE j = Len(returned) + 1
      BY <2>4, <2>5, <2>6, <2>7, <3>1, <3>2
    <3>3. CASE j # Len(returned) + 1
      <4>1. j \in 1..Len(returned) /\ returned'[j] = returned[j]
        BY <1>2, <2>6, <3>3
      <4> QED
        BY <2>9, <3>1, <4>1 DEF ReturnedOK
    <3> QED
      BY <3>2, <3>3
  <2> QED
    BY <2>6, <2>8, <2>9 DEF ReturnedOK
<1>4. CASE ~Recv
  <2>1. returned' = returned
    BY <1>4 DEF ZNext, SendInvalid, SendConverted, WriteFailsForSender, DropSend, ReceiverStep,
                RecvFails, FlushTakes, FlushEnds, FlushBegins, Below, zvars, recvr
  <2>2. \A i \in 1..Len(returned) : returned[i].n <= Len(received')
    BY <1>1, <1>2 DEF ReturnedOK
  <2> QED
    BY <2>1, <2>2 DEF ReturnedOK
<1> QED
  BY <1>3, <1>4

LEMMA ReceiverInvariant == ZSpec => [](Numbered /\ Marked /\ ReturnedOK)
<1>1. ZInit => Numbered /\ Marked /\ ReturnedOK
  <2> SUFFICES ASSUME ZInit PROVE Numbered /\ Marked /\ ReturnedOK
    OBVIOUS
  <2>1. devsent = <<>> /\ received = <<>> /\ mark = 0 /\ flushing = FALSE /\ returned = <<>>
    BY DEF ZInit, Init
  <2>2. \A S : <<>> \in Seq(S) /\ Len(<<>>) = 0
    OBVIOUS
  <2>3. Numbered
    BY <2>1, <2>2 DEF Numbered
  <2>4. Marked
    <3>1. mark \in Nat /\ mark <= Len(received) /\ flushing = FALSE
      BY <2>1
    <3> QED
      BY <3>1 DEF Marked
  <2>5. ReturnedOK
    BY <2>1, <2>2 DEF ReturnedOK
  <2> QED
    BY <2>3, <2>4, <2>5
<1>2. Inv /\ InboundWay /\ Numbered /\ Marked /\ ReturnedOK /\ [ZNext]_zvars
        => Numbered' /\ Marked' /\ ReturnedOK'
  BY InterfaceSteps, NumberedKept, MarkedKept, ReturnedKept
<1> QED
  BY <1>1, <1>2, BelowInvariant, PTL DEF ZSpec

\* flush leaves nothing of what the channel held when it was called, and what
\* recv returns later was delivered later, in order (ZenCanReceiver::flush).
THEOREM FlushTakesAll == ZSpec => []FlushedIsGone
<1>1. ReturnedOK => FlushedIsGone
  <2> SUFFICES ASSUME ReturnedOK PROVE FlushedIsGone
    OBVIOUS
  <2> QED
    BY Results DEF ReturnedOK, FlushedIsGone
<1> QED
  BY <1>1, ReceiverInvariant, PTL

-----------------------------------------------------------------------------
(* The messages to send.                                                   *)

Convertible == {z \in Requests : FromZencan(z) # <<>>}

\* One sender: its sends are numbered as asked is, and one at most is suspended.
SenderOK ==
  /\ asked \in Seq(Convertible)
  /\ \A p \in Producers : offered[p] = Len(asked)
  /\ Len(waiters) <= 1
  /\ \A i \in 1..Len(waiters) : waiters[i][2] \in 1..Len(asked)
  /\ \A i \in 1..Len(accepted) : accepted[i][2] \in 1..Len(asked)

SetAccepted == {asked[accepted[i][2]] : i \in 1..Len(accepted)}

Accounted ==
  /\ todo \in SUBSET Requests /\ rejected \in SUBSET Requests
  /\ \A z \in rejected : FromZencan(z) = <<>>
  /\ todo \cap rejected = {} /\ todo \cap Suspended = {}
  /\ Requests = (todo \cup rejected) \cup (Suspended \cup SetAccepted)
  /\ Cardinality(Requests) =
       Cardinality(todo) + Cardinality(rejected) + Len(waiters) + Len(accepted)

LEMMA SenderTypes ==
  ASSUME Inv
  PROVE  /\ waiters \in Seq(Message) /\ accepted \in Seq(Message)
         /\ Len(waiters) \in Nat /\ Len(accepted) \in Nat
         /\ offered \in [Producers -> 0..MaxSends]
BY DEF Inv, Typed, ChannelsOK

\* Steps that move no message to send.
SenderRests ==
  \/ ReceiverStep \/ FlushBegins
  \/ Below /\ ~ResumeSend
  \/ UNCHANGED zvars

LEMMA SenderRestsKeeps ==
  ASSUME SenderRests
  PROVE  UNCHANGED <<todo, rejected, asked, waiters, accepted, offered>>
BY DEF SenderRests, ReceiverStep, Recv, RecvFails, FlushTakes, FlushEnds, FlushBegins, Below,
       DropSender, WriterRecv, WriterFinishes, Lock, Wake, WriterLockTimeout, WriteFrame,
       ReaderStep, ReaderLockTimeout, ReadMessage, ReadTimesOut, ReadFails, Deliver, DeliverFails,
       BackgroundEnds, Receive, DropReceiver, DeviceTakes, DeviceSends, ReadBreaks, WriteBreaks,
       Tick, zvars, vars, channels, sender, recvr

\* A suspended send is the only one.
LEMMA OneSuspended ==
  ASSUME Inv, SenderOK
  PROVE  \/ waiters = <<>> /\ Suspended = {} /\ Len(waiters) = 0
         \/ \E w \in Message : /\ waiters = <<w>> /\ Suspended = {asked[w[2]]} /\ Len(waiters) = 1
                               /\ w[2] \in 1..Len(asked) /\ asked[w[2]] \in Convertible
<1>1. waiters \in Seq(Message) /\ Len(waiters) \in Nat /\ Len(waiters) <= 1
  BY SenderTypes DEF SenderOK
<1>2. DOMAIN waiters = 1..Len(waiters)
  BY <1>1
<1>3. CASE Len(waiters) = 0
  <2>1. waiters = <<>>
    BY <1>1, <1>3
  <2> QED
    BY <1>2, <1>3, <2>1 DEF Suspended
<1>4. CASE Len(waiters) = 1
  <2>1. waiters[1] \in Message /\ waiters = <<waiters[1]>>
    BY <1>1, <1>4
  <2>2. waiters[1][2] \in 1..Len(asked)
    BY <1>4 DEF SenderOK
  <2>3. asked[waiters[1][2]] \in Convertible
    BY <2>2 DEF SenderOK
  <2>4. DOMAIN waiters = {1}
    BY <1>2, <1>4
  <2>5. Suspended = {asked[waiters[1][2]]}
    BY <2>4 DEF Suspended
  <2> QED
    BY <1>4, <2>1, <2>2, <2>3, <2>5
<1>5. Len(waiters) = 0 \/ Len(waiters) = 1
  <2> DEFINE n == Len(waiters)
  <2>1. n \in Nat /\ n <= 1
    BY <1>1
  <2> HIDE DEF n
  <2>2. n = 0 \/ n = 1
    BY <2>1
  <2> QED
    BY <2>2 DEF n
<1> QED
  BY <1>3, <1>4, <1>5, Zenon

\* A message more in the frame channel.
LEMMA AcceptedGrows ==
  ASSUME Inv, SenderOK, NEW m \in Message, accepted' = Append(accepted, m),
         asked' \in Seq(Convertible), Len(asked) <= Len(asked'),
         \A i \in 1..Len(asked) : asked'[i] = asked[i],
         m[2] \in 1..Len(asked')
  PROVE  /\ SetAccepted' = SetAccepted \cup {asked'[m[2]]}
         /\ Len(accepted') = Len(accepted) + 1
         /\ \A i \in 1..Len(accepted') : accepted'[i][2] \in 1..Len(asked')
<1>1. accepted \in Seq(Message) /\ Len(accepted) \in Nat /\ Len(asked) \in Nat
  BY SenderTypes DEF SenderOK
<1>2. /\ Len(accepted') = Len(accepted) + 1 /\ accepted'[Len(accepted) + 1] = m
      /\ \A i \in 1..Len(accepted) : accepted'[i] = accepted[i]
  BY <1>1, AppendProperties
<1>3. \A i \in 1..Len(accepted) : accepted[i][2] \in 1..Len(asked)
  BY DEF SenderOK
<1>4. \A i \in 1..Len(accepted) : asked'[accepted'[i][2]] = asked[accepted[i][2]]
  BY <1>2, <1>3
<1>5. \A i \in 1..Len(accepted') : i \in 1..Len(accepted) \/ i = Len(accepted) + 1
  BY <1>1, <1>2
<1>6. Len(accepted) + 1 \in 1..Len(accepted') /\ 1..Len(accepted) \subseteq 1..Len(accepted')
  BY <1>1, <1>2
<1>7. Len(asked') \in Nat
  OBVIOUS
<1>8. \A i \in 1..Len(accepted') : accepted'[i][2] \in 1..Len(asked')
  BY <1>1, <1>2, <1>3, <1>5, <1>7
<1> DEFINE n == Len(accepted)
           n1 == Len(accepted')
<1>9. {asked'[accepted'[i][2]] : i \in 1..n1} = {asked[accepted[i][2]] : i \in 1..n} \cup {asked'[m[2]]}
  <2>1. /\ \A i \in 1..n : asked'[accepted'[i][2]] = asked[accepted[i][2]]
        /\ \A i \in 1..n1 : i \in 1..n \/ i = n + 1
        /\ n + 1 \in 1..n1 /\ 1..n \subseteq 1..n1 /\ accepted'[n + 1] = m
    BY <1>2, <1>4, <1>5, <1>6
  <2> HIDE DEF n, n1
  <2>2. asked'[accepted'[n + 1][2]] = asked'[m[2]]
    BY <2>1
  <2>3. ASSUME NEW x \in {asked'[accepted'[i][2]] : i \in 1..n1}
        PROVE  x \in {asked[accepted[i][2]] : i \in 1..n} \cup {asked'[m[2]]}
    <3>1. PICK i \in 1..n1 : x = asked'[accepted'[i][2]]
      OBVIOUS
    <3> QED
      BY <2>1, <2>2, <3>1
  <2>4. ASSUME NEW x \in {asked[accepted[i][2]] : i \in 1..n} \cup {asked'[m[2]]}
        PROVE  x \in {asked'[accepted'[i][2]] : i \in 1..n1}
    <3>1. CASE x = asked'[m[2]]
      BY <2>1, <2>2, <3>1
    <3>2. CASE \E i \in 1..n : x = asked[accepted[i][2]]
      BY <2>1, <3>2
    <3> QED
      BY <3>1, <3>2
  <2> QED
    BY <2>3, <2>4
<1> QED
  BY <1>2, <1>8, <1>9 DEF SetAccepted

\* The suspended send is dropped or gets its slot.
LEMMA LastWaiter ==
  ASSUME Inv, SenderOK, NEW i \in DOMAIN waiters
  PROVE  i = 1 /\ Without(waiters, i) = <<>>
<1>1. waiters \in Seq(Message) /\ Len(waiters) \in Nat /\ Len(waiters) <= 1 /\ i \in 1..Len(waiters)
  BY SenderTypes DEF SenderOK
<1>2. i = 1 /\ Len(waiters) = 1
  <2> DEFINE n == Len(waiters)
  <2>1. n \in Nat /\ n <= 1 /\ i \in 1..n
    BY <1>1
  <2> HIDE DEF n
  <2>2. i = 1 /\ n = 1
    BY <2>1
  <2> QED
    BY <2>2 DEF n
<1>3. Without(waiters, i) \in Seq(Message) /\ Len(Without(waiters, i)) = Len(waiters) - 1
  <2>1. waiters \in Seq(Message) /\ i \in 1..Len(waiters)
    BY <1>1
  <2> QED
    BY <2>1, WithoutType
<1> DEFINE s == Without(waiters, i)
<1>4. s \in Seq(Message) /\ Len(s) = 0
  BY <1>2, <1>3
<1> HIDE DEF s
<1>5. s = <<>>
  BY <1>4
<1> QED
  BY <1>2, <1>5 DEF s

LEMMA ResumedWaiter ==
  ASSUME Inv, SenderOK, ResumeSend
  PROVE  \E w \in Message :
           /\ waiters = <<w>> /\ Suspended = {asked[w[2]]} /\ Len(waiters) = 1
           /\ w[2] \in 1..Len(asked) /\ asked[w[2]] \in Convertible
           /\ accepted' = Append(accepted, w) /\ waiters' = <<>>
<1>1. PICK i \in 1..(FrameCap - Len(frames)) :
        i <= Len(waiters) /\ Push(waiters[i]) /\ waiters' = Without(waiters, i)
  BY DEF ResumeSend
<1>2. i \in DOMAIN waiters
  BY <1>1, SenderTypes
<1>3. i = 1 /\ waiters' = <<>>
  BY <1>1, <1>2, LastWaiter
<1>4. waiters # <<>>
  BY <1>2
<1>5. PICK w \in Message : /\ waiters = <<w>> /\ Suspended = {asked[w[2]]} /\ Len(waiters) = 1
                           /\ w[2] \in 1..Len(asked) /\ asked[w[2]] \in Convertible
  BY <1>4, OneSuspended
<1>6. accepted' = Append(accepted, w)
  BY <1>1, <1>3, <1>5 DEF Push
<1> QED
  BY <1>3, <1>5, <1>6

LEMMA SendNumbered ==
  ASSUME Inv, SenderOK, NEW p \in Producers, NEW z \in Requests, SendConverted(p, z)
  PROVE  /\ asked' \in Seq(Convertible) /\ Len(asked') = Len(asked) + 1
         /\ asked'[Len(asked) + 1] = z
         /\ \A i \in 1..Len(asked) : asked'[i] = asked[i]
         /\ \A q \in Producers : offered'[q] = Len(asked')
         /\ <<p, offered'[p]>> \in Message /\ offered'[p] = Len(asked) + 1
<1>1. asked' = Append(asked, z) /\ Offer(p) /\ z \in Convertible
  BY DEF SendConverted, Send, Convertible
<1>2. asked \in Seq(Convertible) /\ offered[p] = Len(asked)
  BY DEF SenderOK
<1>3. /\ asked' \in Seq(Convertible) /\ Len(asked') = Len(asked) + 1
      /\ asked'[Len(asked) + 1] = z
      /\ \A i \in 1..Len(asked) : asked'[i] = asked[i]
  BY <1>1, <1>2, AppendProperties
<1>4. offered'[p] = Len(asked) + 1
  BY <1>1, <1>2, SenderTypes DEF Offer
<1>5. <<p, offered'[p]>> \in Message
  BY <1>1, OfferType DEF Inv, Typed
<1>6. \A q \in Producers : q = p
  BY ZenAssumption
<1> QED
  BY <1>3, <1>4, <1>5, <1>6

LEMMA SenderKept ==
  ASSUME Inv, SenderOK, [ZNext]_zvars
  PROVE  SenderOK'
<1>1. ASSUME NEW z \in Requests, SendInvalid(z)
      PROVE  SenderOK'
  BY <1>1 DEF SendInvalid, vars, channels, SenderOK
<1>2. ASSUME NEW p \in Producers, NEW z \in Requests, SendConverted(p, z)
      PROVE  SenderOK'
  <2> DEFINE m == <<p, offered'[p]>>
  <2>1. /\ asked' \in Seq(Convertible) /\ Len(asked') = Len(asked) + 1
        /\ \A i \in 1..Len(asked) : asked'[i] = asked[i]
        /\ \A q \in Producers : offered'[q] = Len(asked')
        /\ m \in Message /\ m[2] = Len(asked) + 1 /\ Len(asked) \in Nat
    BY <1>2, SendNumbered DEF SenderOK
  <2>2. waiters = <<>> /\ Len(waiters) = 0
    BY <1>2 DEF SendConverted
  <2> HIDE DEF m
  <2>3. m[2] \in 1..Len(asked') /\ \A k \in 1..Len(asked) : k \in 1..Len(asked')
    BY <2>1
  <2>4. \A i \in 1..Len(accepted) : accepted[i][2] \in 1..Len(asked')
    BY <2>3 DEF SenderOK
  <2>5. CASE UNCHANGED <<accepted, waiters>>
    BY <2>1, <2>2, <2>4, <2>5 DEF SenderOK
  <2>6. CASE accepted' = Append(accepted, m) /\ UNCHANGED waiters
    <3>1. Len(asked) <= Len(asked')
      BY <2>1
    <3>2. \A i \in 1..Len(accepted') : accepted'[i][2] \in 1..Len(asked')
      BY <2>1, <2>3, <2>6, <3>1, AcceptedGrows
    <3> QED
      BY <2>1, <2>2, <2>6, <3>2 DEF SenderOK
  <2>7. CASE accepted' = accepted /\ waiters' = Append(waiters, m)
    <3>1. waiters' = <<m>>
      BY <2>2, <2>7
    <3>2. Len(waiters') <= 1 /\ \A i \in 1..Len(waiters') : waiters'[i] = m
      BY <3>1
    <3> QED
      BY <2>1, <2>3, <2>4, <2>7, <3>2 DEF SenderOK
  <2> QED
    BY <1>2, <2>5, <2>6, <2>7 DEF SendConverted, Send, Push, m
<1>3. CASE WriteFailsForSender
  <2>1. waiters' = <<>> /\ UNCHANGED <<asked, accepted, offered>>
    BY <1>3 DEF WriteFailsForSender, WriteFails
  <2> QED
    BY <2>1 DEF SenderOK
<1>4. CASE DropSend
  <2>1. PICK i \in DOMAIN waiters : waiters' = Without(waiters, i)
    BY <1>4 DEF DropSend, CancelSend
  <2>2. UNCHANGED <<asked, accepted, offered>>
    BY <1>4 DEF DropSend, CancelSend
  <2>3. Len(waiters') = 0
    BY <2>1, LastWaiter
  <2> QED
    BY <2>2, <2>3 DEF SenderOK
<1>5. CASE ResumeSend /\ Below
  <2>1. PICK w \in Message : /\ waiters = <<w>> /\ w[2] \in 1..Len(asked)
                             /\ accepted' = Append(accepted, w) /\ Len(waiters') = 0
    BY <1>5, ResumedWaiter
  <2>2. UNCHANGED <<asked, offered>>
    BY <1>5 DEF ResumeSend, Below, sender
  <2>3. /\ asked' \in Seq(Convertible) /\ Len(asked) <= Len(asked') /\ w[2] \in 1..Len(asked')
        /\ \A i \in 1..Len(asked) : asked'[i] = asked[i]
    BY <2>1, <2>2 DEF SenderOK
  <2>4. \A i \in 1..Len(accepted') : accepted'[i][2] \in 1..Len(asked')
    BY <2>1, <2>3, AcceptedGrows
  <2> QED
    BY <2>1, <2>2, <2>4 DEF SenderOK
<1>6. CASE SenderRests
  BY <1>6, SenderRestsKeeps DEF SenderOK
<1> QED
  BY <1>1, <1>2, <1>3, <1>4, <1>5, <1>6 DEF ZNext, SenderRests

LEMMA Finite ==
  ASSUME Accounted
  PROVE  /\ IsFiniteSet(todo) /\ IsFiniteSet(rejected)
         /\ Cardinality(todo) \in Nat /\ Cardinality(rejected) \in Nat
<1>1. IsFiniteSet(Requests) /\ todo \in SUBSET Requests /\ rejected \in SUBSET Requests
  BY ZenAssumption DEF Accounted
<1>2. IsFiniteSet(todo) /\ IsFiniteSet(rejected)
  BY <1>1, FS_Subset
<1> QED
  BY <1>2, FS_CardinalityType

\* A refused message goes from todo to rejected.
LEMMA InvalidAccounted ==
  ASSUME Inv, SenderOK, Accounted, NEW z \in Requests, SendInvalid(z)
  PROVE  Accounted'
<1>1. /\ z \in todo /\ FromZencan(z) = <<>>
      /\ todo' = todo \ {z} /\ rejected' = rejected \cup {z}
      /\ UNCHANGED <<asked, waiters, accepted>>
  BY DEF SendInvalid, HandedBack, vars, channels
<1>2. Suspended' = Suspended /\ SetAccepted' = SetAccepted
  BY <1>1 DEF Suspended, SetAccepted
<1>3. z \notin rejected
  BY <1>1 DEF Accounted
<1>4. /\ Cardinality(todo') = Cardinality(todo) - 1
      /\ Cardinality(rejected') = Cardinality(rejected) + 1
  BY <1>1, <1>3, Finite, FS_RemoveElement, FS_AddElement
<1>5. Cardinality(todo') + Cardinality(rejected') = Cardinality(todo) + Cardinality(rejected)
  BY <1>4, Finite
<1>6. /\ Cardinality(Requests) =
           Cardinality(todo) + Cardinality(rejected) + Len(waiters) + Len(accepted)
      /\ Len(waiters') = Len(waiters) /\ Len(accepted') = Len(accepted)
  BY <1>1 DEF Accounted
<1>7. Cardinality(Requests) =
        Cardinality(todo') + Cardinality(rejected') + Len(waiters') + Len(accepted')
  BY <1>5, <1>6
<1>8. /\ todo' \in SUBSET Requests /\ rejected' \in SUBSET Requests
      /\ \A y \in rejected' : FromZencan(y) = <<>>
      /\ todo' \cap rejected' = {} /\ todo' \cap Suspended' = {}
      /\ Requests = (todo' \cup rejected') \cup (Suspended' \cup SetAccepted')
  BY <1>1, <1>2 DEF Accounted
<1> QED
  BY <1>7, <1>8 DEF Accounted

\* A message given to split mode is accepted, suspended, or handed back.
LEMMA SendAccounted ==
  ASSUME Inv, SenderOK, Accounted, NEW p \in Producers, NEW z \in Requests, SendConverted(p, z)
  PROVE  Accounted'
<1> DEFINE m == <<p, offered'[p]>>
<1>1. /\ waiters = <<>> /\ Len(waiters) = 0 /\ z \in todo /\ FromZencan(z) # <<>>
      /\ rejected' = rejected
  BY DEF SendConverted
<1>2. /\ asked' \in Seq(Convertible) /\ Len(asked') = Len(asked) + 1
      /\ asked'[Len(asked) + 1] = z
      /\ \A i \in 1..Len(asked) : asked'[i] = asked[i]
      /\ m \in Message /\ m[2] = Len(asked) + 1 /\ Len(asked) \in Nat
  BY SendNumbered DEF SenderOK
<1>3. Suspended = {} /\ Len(accepted) \in Nat
  BY <1>1, OneSuspended, SenderTypes
<1>4. Cardinality(Requests) = Cardinality(todo) + Cardinality(rejected) + Len(accepted)
  BY <1>1, <1>3, Finite DEF Accounted
<1>5. CASE IsClosed
  <2>1. /\ todo' = todo /\ UNCHANGED <<accepted, waiters>>
    BY <1>1, <1>5 DEF SendConverted, Send, HandedBack
  <2>2. SetAccepted' = SetAccepted
    <3>1. \A i \in 1..Len(accepted) : asked'[accepted[i][2]] = asked[accepted[i][2]]
      BY <1>2 DEF SenderOK
    <3> QED
      BY <2>1, <3>1 DEF SetAccepted
  <2>3. Suspended' = {}
    BY <1>1, <2>1 DEF Suspended
  <2> QED
    BY <1>1, <1>3, <2>1, <2>2, <2>3 DEF Accounted
<1>6. CASE ~IsClosed
  <2>1. todo' = todo \ {z}
    BY <1>6 DEF SendConverted
  <2>2. Cardinality(todo') = Cardinality(todo) - 1
    BY <1>1, <2>1, Finite, FS_RemoveElement
  <2>3. /\ m[2] \in 1..Len(asked') /\ asked'[m[2]] = z /\ Len(asked) <= Len(asked')
    BY <1>2
  <2>4. CASE accepted' = Append(accepted, m) /\ UNCHANGED waiters
    <3> HIDE DEF m
    <3>1. SetAccepted' = SetAccepted \cup {z} /\ Len(accepted') = Len(accepted) + 1
      BY <1>2, <2>3, <2>4, AcceptedGrows
    <3>2. Suspended' = {} /\ Len(waiters') = 0
      BY <1>1, <2>4 DEF Suspended
    <3>3. Cardinality(Requests) =
            Cardinality(todo') + Cardinality(rejected') + Len(waiters') + Len(accepted')
      BY <1>1, <1>3, <1>4, <2>2, <3>1, <3>2, Finite
    <3>4. /\ todo' \in SUBSET Requests /\ rejected' \in SUBSET Requests
          /\ \A y \in rejected' : FromZencan(y) = <<>>
          /\ todo' \cap rejected' = {} /\ todo' \cap Suspended' = {}
          /\ Requests = (todo' \cup rejected') \cup (Suspended' \cup SetAccepted')
      BY <1>1, <1>3, <2>1, <3>1, <3>2 DEF Accounted
    <3> QED
      BY <3>3, <3>4 DEF Accounted
  <2>5. CASE accepted' = accepted /\ waiters' = Append(waiters, m)
    <3>1. waiters' = <<m>>
      BY <1>1, <2>5
    <3> HIDE DEF m
    <3>2. Len(waiters') = 1 /\ DOMAIN waiters' = {1} /\ waiters'[1] = m
      BY <3>1
    <3>3. Suspended' = {z}
      BY <2>3, <3>2 DEF Suspended
    <3>4. SetAccepted' = SetAccepted
      <4>1. \A i \in 1..Len(accepted) : asked'[accepted[i][2]] = asked[accepted[i][2]]
        BY <1>2 DEF SenderOK
      <4> QED
        BY <2>5, <4>1 DEF SetAccepted
    <3>5. Cardinality(Requests) =
            Cardinality(todo') + Cardinality(rejected') + Len(waiters') + Len(accepted')
      BY <1>1, <1>3, <1>4, <2>2, <2>5, <3>2, Finite
    <3>6. /\ todo' \in SUBSET Requests /\ rejected' \in SUBSET Requests
          /\ \A y \in rejected' : FromZencan(y) = <<>>
          /\ todo' \cap rejected' = {} /\ todo' \cap Suspended' = {}
          /\ Requests = (todo' \cup rejected') \cup (Suspended' \cup SetAccepted')
      BY <1>1, <1>3, <2>1, <3>3, <3>4 DEF Accounted
    <3> QED
      BY <3>5, <3>6 DEF Accounted
  <2> QED
    BY <1>6, <2>4, <2>5 DEF SendConverted, Send, Push
<1> QED
  BY <1>5, <1>6

\* The suspended message is to be sent again.
LEMMA HandBackAccounted ==
  ASSUME Inv, SenderOK, Accounted, waiters' = <<>>, todo' = todo \cup Suspended,
         UNCHANGED <<rejected, asked, accepted>>
  PROVE  Accounted'
<1>1. /\ Suspended' = {} /\ Len(waiters') = 0 /\ SetAccepted' = SetAccepted
      /\ Len(accepted) \in Nat
  BY SenderTypes DEF Suspended, SetAccepted
<1>2. /\ todo \cap rejected = {} /\ todo \cap Suspended = {}
      /\ \A z \in rejected : FromZencan(z) = <<>>
      /\ todo \in SUBSET Requests /\ rejected \in SUBSET Requests
      /\ Requests = (todo \cup rejected) \cup (Suspended \cup SetAccepted)
      /\ Cardinality(Requests) =
           Cardinality(todo) + Cardinality(rejected) + Len(waiters) + Len(accepted)
  BY DEF Accounted
<1>3. CASE waiters = <<>> /\ Suspended = {} /\ Len(waiters) = 0
  <2>1. todo' = todo
    BY <1>3
  <2> QED
    BY <1>1, <1>2, <1>3, <2>1 DEF Accounted
<1>4. CASE \E z \in Convertible : Suspended = {z} /\ Len(waiters) = 1
  <2>1. PICK z \in Convertible : Suspended = {z} /\ Len(waiters) = 1
    BY <1>4
  <2>2. z \in Requests /\ FromZencan(z) # <<>> /\ z \notin todo
    BY <1>2, <2>1 DEF Convertible
  <2>3. Cardinality(todo') = Cardinality(todo) + 1
    BY <2>1, <2>2, Finite, FS_AddElement
  <2>4. Cardinality(Requests) =
          Cardinality(todo') + Cardinality(rejected') + Len(waiters') + Len(accepted')
    BY <1>1, <1>2, <2>1, <2>3, Finite
  <2>5. /\ todo' \in SUBSET Requests /\ rejected' \in SUBSET Requests
        /\ \A y \in rejected' : FromZencan(y) = <<>>
        /\ todo' \cap rejected' = {} /\ todo' \cap Suspended' = {}
        /\ Requests = (todo' \cup rejected') \cup (Suspended' \cup SetAccepted')
    BY <1>1, <1>2, <2>1, <2>2
  <2> QED
    BY <2>4, <2>5 DEF Accounted
<1> QED
  BY <1>3, <1>4, OneSuspended

\* The suspended message gets its slot.
LEMMA ResumeAccounted ==
  ASSUME Inv, SenderOK, Accounted, ResumeSend, UNCHANGED sender
  PROVE  Accounted'
<1>1. PICK w \in Message :
        /\ waiters = <<w>> /\ Suspended = {asked[w[2]]} /\ Len(waiters) = 1
        /\ w[2] \in 1..Len(asked) /\ asked[w[2]] \in Convertible
        /\ accepted' = Append(accepted, w) /\ waiters' = <<>>
  BY ResumedWaiter
<1>2. UNCHANGED <<todo, rejected, asked>>
  BY DEF sender
<1>3. /\ asked' \in Seq(Convertible) /\ Len(asked) <= Len(asked') /\ w[2] \in 1..Len(asked')
      /\ \A i \in 1..Len(asked) : asked'[i] = asked[i]
  BY <1>1, <1>2 DEF SenderOK
<1>4. SetAccepted' = SetAccepted \cup {asked'[w[2]]} /\ Len(accepted') = Len(accepted) + 1
  BY <1>1, <1>3, AcceptedGrows
<1>5. Suspended' = {} /\ Len(waiters') = 0 /\ Len(accepted) \in Nat
  BY <1>1, SenderTypes DEF Suspended
<1>6. Cardinality(Requests) =
        Cardinality(todo') + Cardinality(rejected') + Len(waiters') + Len(accepted')
  <2>1. /\ Cardinality(Requests) =
             Cardinality(todo) + Cardinality(rejected) + Len(waiters) + Len(accepted)
        /\ Cardinality(todo) \in Nat /\ Cardinality(rejected) \in Nat
    BY Finite DEF Accounted
  <2>2. Len(waiters) = 1 /\ Len(waiters') = 0 /\ Len(accepted') = Len(accepted) + 1
    BY <1>1, <1>4, <1>5
  <2> QED
    BY <1>2, <1>5, <2>1, <2>2
<1>7. /\ todo' \in SUBSET Requests /\ rejected' \in SUBSET Requests
      /\ \A y \in rejected' : FromZencan(y) = <<>>
      /\ todo' \cap rejected' = {} /\ todo' \cap Suspended' = {}
      /\ Requests = (todo' \cup rejected') \cup (Suspended' \cup SetAccepted')
  BY <1>1, <1>2, <1>4, <1>5 DEF Accounted
<1> QED
  BY <1>6, <1>7 DEF Accounted

LEMMA AccountedKept ==
  ASSUME Inv, SenderOK, Accounted, [ZNext]_zvars
  PROVE  Accounted'
<1>1. ASSUME NEW z \in Requests, SendInvalid(z) PROVE Accounted'
  BY <1>1, InvalidAccounted
<1>2. ASSUME NEW p \in Producers, NEW z \in Requests, SendConverted(p, z) PROVE Accounted'
  BY <1>2, SendAccounted
<1>3. CASE WriteFailsForSender
  <2>1. /\ waiters' = <<>> /\ todo' = todo \cup Suspended
        /\ UNCHANGED <<rejected, asked, accepted>>
    BY <1>3 DEF WriteFailsForSender, WriteFails, HandedBack
  <2> QED
    BY <2>1, HandBackAccounted
<1>4. CASE DropSend
  <2>1. PICK i \in DOMAIN waiters : waiters' = Without(waiters, i)
    BY <1>4 DEF DropSend, CancelSend
  <2>2. waiters' = <<>>
    BY <2>1, LastWaiter
  <2>3. todo' = todo \cup Suspended /\ UNCHANGED <<rejected, asked, accepted>>
    BY <1>4 DEF DropSend, CancelSend
  <2> QED
    BY <2>2, <2>3, HandBackAccounted
<1>5. CASE ResumeSend /\ Below
  <2>1. UNCHANGED sender
    BY <1>5 DEF Below
  <2> QED
    BY <1>5, <2>1, ResumeAccounted
<1>6. CASE SenderRests
  <2>1. UNCHANGED <<todo, rejected, asked, waiters, accepted>>
    BY <1>6, SenderRestsKeeps
  <2>2. Suspended' = Suspended /\ SetAccepted' = SetAccepted
    BY <2>1 DEF Suspended, SetAccepted
  <2> QED
    BY <2>1, <2>2 DEF Accounted
<1> QED
  BY <1>1, <1>2, <1>3, <1>4, <1>5, <1>6 DEF ZNext, SenderRests

LEMMA SenderInvariant == ZSpec => [](SenderOK /\ Accounted)
<1>1. ZInit => SenderOK /\ Accounted
  <2> SUFFICES ASSUME ZInit PROVE SenderOK /\ Accounted
    OBVIOUS
  <2>1. /\ asked = <<>> /\ waiters = <<>> /\ accepted = <<>> /\ todo = Requests /\ rejected = {}
        /\ offered = [p \in Producers |-> 0]
    BY DEF ZInit, Init
  <2>2. Len(asked) = 0 /\ Len(waiters) = 0 /\ Len(accepted) = 0 /\ asked \in Seq(Convertible)
    BY <2>1
  <2>3. SenderOK
    BY <2>1, <2>2 DEF SenderOK
  <2>4. Suspended = {} /\ SetAccepted = {}
    BY <2>1, <2>2 DEF Suspended, SetAccepted
  <2>5. Cardinality(rejected) = 0 /\ Cardinality(Requests) \in Nat
    BY <2>1, ZenAssumption, FS_EmptySet, FS_CardinalityType
  <2>6. Cardinality(Requests) =
          Cardinality(todo) + Cardinality(rejected) + Len(waiters) + Len(accepted)
    BY <2>1, <2>2, <2>5
  <2>7. Accounted
    BY <2>1, <2>4, <2>6 DEF Accounted
  <2> QED
    BY <2>3, <2>7
<1>2. Inv /\ SenderOK /\ Accounted /\ [ZNext]_zvars => SenderOK' /\ Accounted'
  BY SenderKept, AccountedKept
<1> QED
  BY <1>1, <1>2, BelowInvariant, PTL DEF ZSpec

LEMMA AcceptedDomain ==
  ASSUME Inv
  PROVE  /\ DOMAIN Accepted = 1..Len(accepted) /\ Len(Accepted) = Len(accepted)
         /\ \A i \in 1..Len(accepted) : Accepted[i] = asked[accepted[i][2]]
<1>1. DOMAIN accepted = 1..Len(accepted) /\ Len(accepted) \in Nat
  BY SenderTypes
<1> QED
  BY <1>1 DEF Accepted

\* Only what no CanMessage can be is refused.
LEMMA RefusedOutOfRange ==
  ASSUME NEW z \in Requests, FromZencan(z) = <<>>
  PROVE  z.id \notin IdRange(z.ext) \/ z.dlc > 8
<1>1. z.dlc \in Byte /\ Len(z.data) <= 8
  BY ZenAssumption DEF IsZenCanMessage
<1>2. CASE z.id \in IdRange(z.ext)
  <2>1. ~(Len(z.data) > 8)
    <3>1. Len(z.data) \in Nat
      BY ZenAssumption DEF IsZenCanMessage
    <3> QED
      BY <1>1, <3>1
  <2>2. NewData(z.ext, z.id, z.data) # <<>>
    BY <2>1 DEF NewData
  <2>3. z.rtr /\ NewRemote(z.ext, z.id, z.dlc) = <<>>
    BY <1>2, <2>2 DEF FromZencan
  <2> QED
    BY <2>3 DEF NewRemote
<1> QED
  BY <1>2

\* Every message is to be sent, rejected, suspended or accepted, and in one of
\* these places only: the caller may send again what an error hands back and
\* what it dropped (ZenCanSender::send, into_can_message).
THEOREM SendsAccounted == ZSpec => []RequestsAccounted
<1>1. Inv /\ SenderOK /\ Accounted => RequestsAccounted
  <2> SUFFICES ASSUME Inv, SenderOK, Accounted PROVE RequestsAccounted
    OBVIOUS
  <2>1. {Accepted[i] : i \in DOMAIN Accepted} = SetAccepted /\ Len(Accepted) = Len(accepted)
    BY AcceptedDomain DEF SetAccepted
  <2>2. \A z \in rejected : z.id \notin IdRange(z.ext) \/ z.dlc > 8
    BY RefusedOutOfRange DEF Accounted
  <2>3. Requests = UNION {todo, rejected, Suspended, {Accepted[i] : i \in DOMAIN Accepted}}
    BY <2>1 DEF Accounted
  <2>4. Cardinality(Requests) =
          Cardinality(todo) + Cardinality(rejected) + Len(waiters) + Len(Accepted)
    BY <2>1 DEF Accounted
  <2> QED
    BY <2>2, <2>3, <2>4 DEF RequestsAccounted
<1> QED
  BY <1>1, BelowInvariant, SenderInvariant, PTL

-----------------------------------------------------------------------------
(* The conversions.                                                        *)

LEMMA WithDlc ==
  ASSUME NEW z \in [ext : BOOLEAN, id : Nat, rtr : BOOLEAN, dlc : Byte, data : Seq(Byte)]
  PROVE  [z EXCEPT !.dlc = 0]
           = [ext |-> z.ext, id |-> z.id, rtr |-> z.rtr, dlc |-> 0, data |-> z.data]
OBVIOUS

\* A message that converts comes back, but for the dlc of a remote frame.
LEMMA ThereAndBack ==
  ASSUME NEW z \in Requests, FromZencan(z) # <<>>
  PROVE  ToZencan(FromZencan(z)[1]) = IF z.rtr THEN [z EXCEPT !.dlc = 0] ELSE z
<1>1. /\ z \in [ext : BOOLEAN, id : Nat, rtr : BOOLEAN, dlc : Byte, data : Seq(Byte)]
      /\ IF z.rtr THEN z.data = <<>> ELSE z.dlc = Len(z.data)
  BY ZenAssumption DEF IsZenCanMessage
<1>2. CASE z.rtr
  <2>1. FromZencan(z) = NewRemote(z.ext, z.id, z.dlc) /\ z.data = <<>> /\ z.rtr = TRUE
    BY <1>1, <1>2 DEF FromZencan
  <2>2. FromZencan(z)[1] = [ext |-> z.ext, id |-> z.id, rtr |-> TRUE, dlc |-> z.dlc, data |-> <<>>]
    BY <2>1 DEF NewRemote
  <2>3. ToZencan(FromZencan(z)[1])
          = [ext |-> z.ext, id |-> z.id, rtr |-> TRUE, dlc |-> 0, data |-> <<>>]
    BY <2>2 DEF ToZencan, ZenCanNewRtr
  <2>4. [z EXCEPT !.dlc = 0]
          = [ext |-> z.ext, id |-> z.id, rtr |-> TRUE, dlc |-> 0, data |-> <<>>]
    BY <1>1, <2>1, WithDlc
  <2> QED
    BY <1>2, <2>3, <2>4
<1>3. CASE ~z.rtr
  <2>1. /\ FromZencan(z) = NewData(z.ext, z.id, z.data)
        /\ z.dlc = Len(z.data) /\ z.rtr = FALSE
    BY <1>1, <1>3 DEF FromZencan
  <2>2. FromZencan(z)[1]
          = [ext |-> z.ext, id |-> z.id, rtr |-> FALSE, dlc |-> Len(z.data), data |-> z.data]
    BY <2>1 DEF NewData
  <2>3. ToZencan(FromZencan(z)[1])
          = [ext |-> z.ext, id |-> z.id, rtr |-> FALSE, dlc |-> Len(z.data), data |-> z.data]
    BY <2>2 DEF ToZencan, ZenCanNew
  <2>4. z = [ext |-> z.ext, id |-> z.id, rtr |-> FALSE, dlc |-> Len(z.data), data |-> z.data]
    BY <1>1, <2>1
  <2> QED
    BY <1>3, <2>3, <2>4
<1> QED
  BY <1>2, <1>3

\* A data frame that is received converts back to itself.
LEMMA BackAndThere ==
  ASSUME NEW m \in CanMessage, ~m.rtr
  PROVE  FromZencan(ToZencan(m)) = <<m>>
<1>1. /\ m \in [ext : BOOLEAN, id : Nat, rtr : BOOLEAN, dlc : 0..8, data : Seq(Byte)]
      /\ m.id \in IdRange(m.ext) /\ Len(m.data) = m.dlc /\ m.dlc \in 0..8
  BY DEF CanMessage
<1>2. ToZencan(m) = [ext |-> m.ext, id |-> m.id, rtr |-> FALSE, dlc |-> Len(m.data), data |-> m.data]
  BY DEF ToZencan, ZenCanNew
<1>3. FromZencan(ToZencan(m)) = NewData(m.ext, m.id, m.data)
  BY <1>1, <1>2 DEF FromZencan
<1>4. ~(Len(m.data) > 8)
  BY <1>1
<1>5. NewData(m.ext, m.id, m.data)
        = <<[ext |-> m.ext, id |-> m.id, rtr |-> FALSE, dlc |-> Len(m.data), data |-> m.data]>>
  BY <1>4 DEF NewData
<1>6. m = [ext |-> m.ext, id |-> m.id, rtr |-> FALSE, dlc |-> Len(m.data), data |-> m.data]
  BY <1>1
<1> QED
  BY <1>3, <1>5, <1>6

\* What enters the frame channel converts back to what was given to send, but
\* for the dlc of a remote frame, and what recv returns to what the device sent
\* (from_zencan, to_zencan).
THEOREM ConversionsLossless == ZSpec => []ConversionsReverse
<1>1. Inv /\ SenderOK /\ ReturnedOK => ConversionsReverse
  <2> SUFFICES ASSUME Inv, SenderOK, ReturnedOK PROVE ConversionsReverse
    OBVIOUS
  <2>1. ASSUME NEW i \in DOMAIN Accepted
        PROVE  ToZencan(FromZencan(Accepted[i])[1])
                 = IF Accepted[i].rtr THEN [Accepted[i] EXCEPT !.dlc = 0] ELSE Accepted[i]
    <3>1. i \in 1..Len(accepted) /\ Accepted[i] = asked[accepted[i][2]]
      BY <2>1, AcceptedDomain
    <3>2. Accepted[i] \in Convertible
      BY <3>1 DEF SenderOK
    <3> DEFINE z == Accepted[i]
    <3>3. z \in Requests /\ FromZencan(z) # <<>>
      BY <3>2 DEF Convertible
    <3> HIDE DEF z
    <3>4. ToZencan(FromZencan(z)[1]) = IF z.rtr THEN [z EXCEPT !.dlc = 0] ELSE z
      BY <3>3, ThereAndBack
    <3> QED
      BY <3>4 DEF z
  <2>2. ASSUME NEW i \in DOMAIN returned
        PROVE  FromZencan(returned[i].msg) = <<Incoming[returned[i].n]>>
    <3>1. i \in 1..Len(returned) /\ returned[i].n \in Numbers
      BY <2>2, Results
    <3>2. returned[i].msg = ToZencan(Incoming[returned[i].n])
      BY <3>1 DEF ReturnedOK
    <3>3. \A k \in Numbers : Incoming[k] \in {m \in CanMessage : ~m.rtr}
      BY ZenAssumption DEF Numbers
    <3> QED
      BY <3>1, <3>2, <3>3, BackAndThere
  <2> QED
    BY <2>1, <2>2 DEF ConversionsReverse
<1> QED
  BY <1>1, BelowInvariant, SenderInvariant, ReceiverInvariant, PTL
=============================================================================
