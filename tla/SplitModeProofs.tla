--------------------------- MODULE SplitModeProofs ---------------------------
(***************************************************************************)
(* The two background tasks never use the port at once and never strand    *)
(* each other on its lock, and on a punctual executor the write task never *)
(* gives up a message, for every capacity, timeout and number of producers.*)
(***************************************************************************)
EXTENDS SplitMode, SequenceTheorems, TLAPS

-----------------------------------------------------------------------------
(* Types, by the part of the state; a task holds one message at most.      *)

ChannelsOK ==
  /\ frames \in Seq(Message) /\ Len(frames) <= FrameCap
  /\ waiters \in Seq(Message) /\ accepted \in Seq(Message)
  /\ handles \subseteq Producers /\ offered \in [Producers -> 0..MaxSends]

InsideOK ==
  /\ msgs \in Seq(1..MaxInbound) /\ Len(msgs) <= MsgCap
  /\ receiver \in BOOLEAN /\ received \in Seq(1..MaxInbound)

PlacesOK ==
  /\ pc \in [Tasks -> {"recv", "lock", "queued", "granted", "port", "deliver", "exited"}]
  /\ age \in [Tasks -> Nat]
  /\ holder \in Tasks \cup {NoOne} /\ queue \in Seq(Tasks)

HandsOK ==
  /\ wmsg \in Seq(Message) /\ Len(wmsg) <= 1
  /\ rmsg \in Seq(1..MaxInbound) /\ Len(rmsg) <= 1

PortOK ==
  /\ canRead \in BOOLEAN /\ canWrite \in BOOLEAN
  /\ outbuf \in Seq(Message) /\ Len(outbuf) <= OutCap
  /\ inbound \in Seq(1..MaxInbound)
  /\ bus \in Seq(Message) /\ devsent \in Seq(1..MaxInbound)

RestOK == background \in {"select", "ended"} /\ dropped \in Seq(Message)

Typed == ChannelsOK /\ InsideOK /\ PlacesOK /\ HandsOK /\ PortOK /\ RestOK

LEMMA TypedGivesTypeOK == Typed => TypeOK
BY DEF Typed, ChannelsOK, InsideOK, PlacesOK, HandsOK, PortOK, RestOK, TypeOK

LEMMA Capacities == FrameCap \in Nat \ {0} /\ MsgCap \in Nat \ {0} /\ OutCap \in Nat \ {0}
BY CapAssumption

LEMMA Times ==
  /\ ReadTimeout \in Nat /\ ReadLockTimeout \in Nat /\ WriteLockTimeout \in Nat
  /\ Late \in Nat
BY TimeAssumption

LEMMA Bounds == MaxSends \in Nat /\ MaxInbound \in Nat
BY BoundAssumption

LEMMA InitTyped == Init => Typed
<1> SUFFICES ASSUME Init PROVE Typed
  OBVIOUS
<1>1. \A S : <<>> \in Seq(S) /\ Len(<<>>) = 0
  OBVIOUS
<1>2. ChannelsOK
  BY <1>1, Capacities, Bounds DEF Init, ChannelsOK
<1>3. InsideOK
  BY <1>1, Capacities DEF Init, InsideOK
<1>4. PlacesOK
  BY <1>1 DEF Init, PlacesOK, Tasks, NoOne
<1>5. HandsOK
  BY <1>1 DEF Init, HandsOK
<1>6. PortOK
  BY <1>1, Capacities DEF Init, PortOK
<1>7. RestOK
  BY <1>1 DEF Init, RestOK
<1> QED
  BY <1>2, <1>3, <1>4, <1>5, <1>6, <1>7 DEF Typed

-----------------------------------------------------------------------------
(* Sequences with one element less or more.                                *)

LEMMA WithoutType ==
  ASSUME NEW S, NEW s \in Seq(S), NEW i \in 1..Len(s)
  PROVE  Without(s, i) \in Seq(S) /\ Len(Without(s, i)) = Len(s) - 1
<1> DEFINE before == SubSeq(s, 1, i - 1)
           after == SubSeq(s, i + 1, Len(s))
<1>1. /\ before \in Seq(S) /\ Len(before) = i - 1
      /\ after \in Seq(S) /\ Len(after) = Len(s) - i
  OBVIOUS
<1>2. Len(s) \in Nat /\ i \in Nat /\ Without(s, i) = before \o after
  BY DEF Without
<1> HIDE DEF before, after
<1>3. before \o after \in Seq(S) /\ Len(before \o after) = Len(before) + Len(after)
  BY <1>1
<1> QED
  BY <1>1, <1>2, <1>3

LEMMA PushType ==
  ASSUME ChannelsOK, NEW m \in Message, Len(frames) < FrameCap, Push(m)
  PROVE  /\ frames' \in Seq(Message) /\ Len(frames') <= FrameCap
         /\ accepted' \in Seq(Message)
BY Capacities DEF ChannelsOK, Push

-----------------------------------------------------------------------------
(* Each part keeps its types.                                              *)

LEMMA OfferType ==
  ASSUME ChannelsOK, NEW p \in Producers, Offer(p)
  PROVE  /\ offered' \in [Producers -> 0..MaxSends]
         /\ <<p, offered'[p]>> \in Message
BY Bounds DEF ChannelsOK, Offer, Message

LEMMA ChannelsKept ==
  ASSUME Typed, [Next]_vars
  PROVE  ChannelsOK'
<1> USE DEF Typed
<1>1. ASSUME NEW p \in Producers, Send(p) PROVE ChannelsOK'
  <2> DEFINE m == <<p, offered'[p]>>
  <2>1. Offer(p) /\ offered' \in [Producers -> 0..MaxSends] /\ m \in Message
    BY <1>1, OfferType DEF Send
  <2>2. handles' = handles
    BY <1>1 DEF Send
  <2> HIDE DEF m
  <2>3. CASE SlotFree /\ Push(m) /\ UNCHANGED waiters
    <3>1. Len(frames) < FrameCap
      BY <2>3, Capacities DEF ChannelsOK, SlotFree
    <3> QED
      BY <2>1, <2>2, <2>3, <3>1, PushType DEF ChannelsOK
  <2>4. CASE waiters' = Append(waiters, m) /\ UNCHANGED <<frames, accepted>>
    BY <2>1, <2>2, <2>4 DEF ChannelsOK
  <2>5. CASE UNCHANGED <<frames, accepted, waiters>>
    BY <2>1, <2>2, <2>5 DEF ChannelsOK
  <2> QED
    BY <1>1, <2>3, <2>4, <2>5 DEF Send, m
<1>2. ASSUME NEW p \in Producers, TrySend(p) PROVE ChannelsOK'
  <2> DEFINE m == <<p, offered'[p]>>
  <2>1. Offer(p) /\ offered' \in [Producers -> 0..MaxSends] /\ m \in Message
    BY <1>2, OfferType DEF TrySend
  <2>2. handles' = handles /\ waiters' = waiters
    BY <1>2 DEF TrySend
  <2> HIDE DEF m
  <2>3. CASE SlotFree /\ Push(m)
    <3>1. Len(frames) < FrameCap
      BY <2>3, Capacities DEF ChannelsOK, SlotFree
    <3> QED
      BY <2>1, <2>2, <2>3, <3>1, PushType DEF ChannelsOK
  <2>4. CASE UNCHANGED <<frames, accepted>>
    BY <2>1, <2>2, <2>4 DEF ChannelsOK
  <2> QED
    BY <1>2, <2>3, <2>4 DEF TrySend, m
<1>3. ASSUME ResumeSend PROVE ChannelsOK'
  <2>1. PICK i \in 1..(FrameCap - Len(frames)) :
          i <= Len(waiters) /\ Push(waiters[i]) /\ waiters' = Without(waiters, i)
    BY <1>3 DEF ResumeSend
  <2>2. i \in 1..Len(waiters) /\ waiters[i] \in Message /\ Len(frames) < FrameCap
    BY <2>1, Capacities DEF ChannelsOK
  <2>3. waiters' \in Seq(Message)
    BY <2>1, <2>2, WithoutType DEF ChannelsOK
  <2> QED
    BY <1>3, <2>1, <2>2, <2>3, PushType DEF ResumeSend, ChannelsOK
<1>4. ASSUME CancelSend PROVE ChannelsOK'
  <2>1. PICK i \in 1..Len(waiters) : waiters' = Without(waiters, i)
    BY <1>4 DEF CancelSend, ChannelsOK
  <2>2. waiters' \in Seq(Message)
    BY <2>1, WithoutType DEF ChannelsOK
  <2> QED
    BY <1>4, <2>2 DEF CancelSend, ChannelsOK
<1>5. ASSUME NEW p \in Producers, DropSender(p) PROVE ChannelsOK'
  BY <1>5 DEF DropSender, ChannelsOK
<1>6. ASSUME WriterRecv PROVE ChannelsOK'
  <2>1. frames' \in Seq(Message) /\ Len(frames') <= FrameCap
    BY <1>6, Capacities DEF WriterRecv, ChannelsOK
  <2> QED
    BY <1>6, <2>1 DEF WriterRecv, ChannelsOK
<1>7. ASSUME WriteFails PROVE ChannelsOK'
  <2>1. <<>> \in Seq(Message) /\ Len(<<>>) = 0
    OBVIOUS
  <2> QED
    BY <1>7, <2>1, Capacities DEF WriteFails, ChannelsOK
<1>8. ASSUME UNCHANGED channels PROVE ChannelsOK'
  BY <1>8 DEF channels, ChannelsOK
<1>9. CASE WriterStep
  BY <1>6, <1>7, <1>8, <1>9 DEF WriterStep, WriterFinishes, Lock, Wake, WriterLockTimeout, WriteFrame
<1>10. CASE ReaderStep \/ BackgroundEnds
  BY <1>8, <1>10 DEF ReaderStep, Lock, Wake, ReaderLockTimeout, ReadMessage, ReadTimesOut,
                     ReadFails, Deliver, DeliverFails, BackgroundEnds
<1>11. CASE Receive \/ DropReceiver \/ DeviceTakes \/ DeviceSends \/ ReadBreaks \/ WriteBreaks \/ Tick
  BY <1>8, <1>11 DEF Receive, DropReceiver, DeviceTakes, DeviceSends, ReadBreaks, WriteBreaks, Tick
<1>12. CASE UNCHANGED vars
  BY <1>8, <1>12 DEF vars
<1> QED
  BY <1>1, <1>2, <1>3, <1>4, <1>5, <1>9, <1>10, <1>11, <1>12 DEF Next, Producer

LEMMA InsideKept ==
  ASSUME Typed, [Next]_vars
  PROVE  InsideOK'
<1> USE DEF Typed
<1>1. ASSUME Deliver PROVE InsideOK'
  <2>1. msgs' = msgs \o rmsg /\ receiver' = receiver /\ received' = received /\ Len(msgs) < MsgCap
    BY <1>1 DEF Deliver
  <2>2. msgs \o rmsg \in Seq(1..MaxInbound) /\ Len(msgs \o rmsg) = Len(msgs) + Len(rmsg)
    BY DEF InsideOK, HandsOK
  <2>3. Len(msgs) \in Nat /\ Len(rmsg) \in Nat /\ Len(rmsg) <= 1
    BY DEF InsideOK, HandsOK
  <2> QED
    BY <2>1, <2>2, <2>3, Capacities DEF InsideOK
<1>2. ASSUME Receive PROVE InsideOK'
  <2>1. msgs' \in Seq(1..MaxInbound) /\ Len(msgs') <= MsgCap
    BY <1>2, Capacities DEF Receive, InsideOK
  <2>2. received' \in Seq(1..MaxInbound)
    <3>1. Head(msgs) \in 1..MaxInbound /\ received' = Append(received, Head(msgs))
      BY <1>2, HeadTailProperties DEF Receive, InsideOK
    <3> QED
      BY <3>1, AppendProperties DEF InsideOK
  <2> QED
    BY <1>2, <2>1, <2>2 DEF Receive, InsideOK
<1>3. ASSUME DropReceiver PROVE InsideOK'
  <2>1. <<>> \in Seq(1..MaxInbound) /\ Len(<<>>) = 0
    OBVIOUS
  <2> QED
    <3>1. msgs' = <<>> /\ receiver' = FALSE /\ received' = received
      BY <1>3 DEF DropReceiver
    <3>2. msgs' \in Seq(1..MaxInbound) /\ Len(msgs') = 0
      BY <2>1, <3>1
    <3>3. Len(msgs') <= MsgCap
      BY <3>2, Capacities
    <3> QED
      BY <3>1, <3>2, <3>3 DEF InsideOK
<1>4. ASSUME UNCHANGED inside PROVE InsideOK'
  BY <1>4 DEF inside, InsideOK
<1>5. CASE Producer \/ ResumeSend \/ CancelSend
  BY <1>4, <1>5 DEF Producer, Send, TrySend, DropSender, ResumeSend, CancelSend
<1>6. CASE WriterStep
  BY <1>4, <1>6 DEF WriterStep, WriterRecv, WriterFinishes, Lock, Wake, WriterLockTimeout,
                    WriteFrame, WriteFails
<1>7. CASE ReaderStep \/ BackgroundEnds
  BY <1>1, <1>4, <1>7 DEF ReaderStep, Lock, Wake, ReaderLockTimeout, ReadMessage, ReadTimesOut,
                          ReadFails, DeliverFails, BackgroundEnds
<1>8. CASE DeviceTakes \/ DeviceSends \/ ReadBreaks \/ WriteBreaks \/ Tick
  BY <1>4, <1>8 DEF DeviceTakes, DeviceSends, ReadBreaks, WriteBreaks, Tick
<1>9. CASE UNCHANGED vars
  BY <1>4, <1>9 DEF vars
<1> QED
  BY <1>2, <1>3, <1>5, <1>6, <1>7, <1>8, <1>9 DEF Next

\* The three moves of the mutex keep the types of its state.
LEMMA GotoType ==
  ASSUME PlacesOK, NEW t \in Tasks,
         NEW place \in {"recv", "lock", "queued", "granted", "port", "deliver", "exited"},
         Goto(t, place)
  PROVE  /\ pc' \in [Tasks -> {"recv", "lock", "queued", "granted", "port", "deliver", "exited"}]
         /\ age' \in [Tasks -> Nat]
BY DEF PlacesOK, Goto

LEMMA ReleaseType ==
  ASSUME PlacesOK, NEW t \in Tasks,
         NEW place \in {"recv", "lock", "queued", "granted", "port", "deliver", "exited"},
         Release(t, place)
  PROVE  PlacesOK'
<1>1. CASE queue = <<>>
  BY <1>1, GotoType DEF Release, PlacesOK
<1>2. CASE queue # <<>>
  <2>1. Head(queue) \in Tasks /\ Tail(queue) \in Seq(Tasks)
    BY <1>2 DEF PlacesOK
  <2>2. /\ holder' = Head(queue) /\ queue' = Tail(queue)
        /\ pc' = [pc EXCEPT ![t] = place, ![Head(queue)] = "granted"]
        /\ age' = [age EXCEPT ![t] = 0, ![Head(queue)] = 0]
    BY <1>2 DEF Release
  <2> QED
    BY <2>1, <2>2 DEF PlacesOK
<1> QED
  BY <1>1, <1>2

LEMMA LeaveQueueType ==
  ASSUME PlacesOK, NEW t \in Tasks, LeaveQueue(t)
  PROVE  queue' \in Seq(Tasks) /\ holder' = holder
BY WithoutType DEF PlacesOK, LeaveQueue

LEMMA PlacesKept ==
  ASSUME Typed, [Next]_vars
  PROVE  PlacesOK'
<1> USE DEF Typed
<1>1. "reader" \in Tasks /\ "writer" \in Tasks
  BY DEF Tasks
<1>2. ASSUME NEW t \in Tasks, Lock(t) PROVE PlacesOK'
  <2>1. CASE holder' = t /\ Goto(t, "port") /\ UNCHANGED queue
    BY <2>1, GotoType DEF PlacesOK
  <2>2. CASE queue' = Append(queue, t) /\ Goto(t, "queued") /\ UNCHANGED holder
    BY <2>2, GotoType DEF PlacesOK
  <2> QED
    BY <1>2, <2>1, <2>2 DEF Lock
<1>3. ASSUME NEW t \in Tasks, Wake(t) PROVE PlacesOK'
  BY <1>3, GotoType DEF Wake, PlacesOK
<1>4. ASSUME WriterRecv \/ WriterFinishes \/ Deliver \/ DeliverFails PROVE PlacesOK'
  BY <1>1, <1>4, GotoType DEF WriterRecv, WriterFinishes, Deliver, DeliverFails, PlacesOK
<1>5. ASSUME WriterLockTimeout \/ ReaderLockTimeout PROVE PlacesOK'
  BY <1>1, <1>5, GotoType, LeaveQueueType DEF WriterLockTimeout, ReaderLockTimeout, PlacesOK
<1>6. ASSUME WriteFrame \/ WriteFails \/ ReadMessage \/ ReadTimesOut \/ ReadFails PROVE PlacesOK'
  BY <1>1, <1>6, ReleaseType DEF WriteFrame, WriteFails, ReadMessage, ReadTimesOut, ReadFails
<1>7. ASSUME Tick PROVE PlacesOK'
  BY <1>7 DEF Tick, PlacesOK
<1>8. ASSUME UNCHANGED <<pc, age, holder, queue>> PROVE PlacesOK'
  BY <1>8 DEF PlacesOK
<1>9. CASE Producer \/ ResumeSend \/ CancelSend
  BY <1>8, <1>9 DEF Producer, Send, TrySend, DropSender, ResumeSend, CancelSend, tasks
<1>10. CASE WriterStep
  BY <1>1, <1>2, <1>3, <1>4, <1>5, <1>6, <1>10 DEF WriterStep
<1>11. CASE ReaderStep
  BY <1>1, <1>2, <1>3, <1>4, <1>5, <1>6, <1>11 DEF ReaderStep
<1>12. CASE BackgroundEnds \/ Receive \/ DropReceiver \/ DeviceTakes \/ DeviceSends
            \/ ReadBreaks \/ WriteBreaks
  BY <1>8, <1>12 DEF BackgroundEnds, Receive, DropReceiver, DeviceTakes, DeviceSends, ReadBreaks,
                     WriteBreaks, tasks
<1>13. CASE UNCHANGED vars
  BY <1>8, <1>13 DEF vars, tasks
<1> QED
  BY <1>7, <1>9, <1>10, <1>11, <1>12, <1>13 DEF Next

LEMMA HandsKept ==
  ASSUME Typed, [Next]_vars
  PROVE  HandsOK'
<1> USE DEF Typed
<1>1. \A S : <<>> \in Seq(S) /\ Len(<<>>) = 0
  OBVIOUS
<1>2. ASSUME WriterRecv PROVE HandsOK'
  <2>1. Head(frames) \in Message /\ wmsg' = <<Head(frames)>> /\ rmsg' = rmsg
    BY <1>2 DEF WriterRecv, ChannelsOK
  <2> QED
    BY <2>1 DEF HandsOK
<1>3. ASSUME wmsg' = <<>>, rmsg' = rmsg PROVE HandsOK'
  BY <1>1, <1>3 DEF HandsOK
<1>4. ASSUME ReadMessage PROVE HandsOK'
  <2>1. Head(inbound) \in 1..MaxInbound
    BY <1>4, HeadTailProperties DEF ReadMessage, PortOK
  <2>2. rmsg' = <<Head(inbound)>> /\ wmsg' = wmsg
    BY <1>4 DEF ReadMessage
  <2> QED
    BY <2>1, <2>2 DEF HandsOK
<1>5. ASSUME rmsg' = <<>>, wmsg' = wmsg PROVE HandsOK'
  BY <1>1, <1>5 DEF HandsOK
<1>6. ASSUME UNCHANGED <<wmsg, rmsg>> PROVE HandsOK'
  BY <1>6 DEF HandsOK
<1>7. CASE Producer \/ ResumeSend \/ CancelSend
  BY <1>6, <1>7 DEF Producer, Send, TrySend, DropSender, ResumeSend, CancelSend, tasks
<1>8. CASE WriterStep
  BY <1>2, <1>3, <1>6, <1>8 DEF WriterStep, WriterFinishes, Lock, Wake, WriterLockTimeout,
                                WriteFrame, WriteFails
<1>9. CASE ReaderStep
  BY <1>4, <1>5, <1>6, <1>9 DEF ReaderStep, Lock, Wake, ReaderLockTimeout, ReadTimesOut,
                                ReadFails, Deliver, DeliverFails
<1>10. CASE BackgroundEnds \/ Receive \/ DropReceiver \/ DeviceTakes \/ DeviceSends
            \/ ReadBreaks \/ WriteBreaks \/ Tick
  BY <1>6, <1>10 DEF BackgroundEnds, Receive, DropReceiver, DeviceTakes, DeviceSends, ReadBreaks,
                     WriteBreaks, Tick, tasks
<1>11. CASE UNCHANGED vars
  BY <1>6, <1>11 DEF vars, tasks
<1> QED
  BY <1>7, <1>8, <1>9, <1>10, <1>11 DEF Next

LEMMA PortKept ==
  ASSUME Typed, [Next]_vars
  PROVE  PortOK'
<1> USE DEF Typed
<1>1. ASSUME WriteFrame PROVE PortOK'
  <2>1. /\ outbuf' = outbuf \o wmsg /\ Len(outbuf) < OutCap
        /\ UNCHANGED <<canRead, canWrite, inbound, bus, devsent>>
    BY <1>1 DEF WriteFrame
  <2>2. /\ outbuf \o wmsg \in Seq(Message) /\ Len(outbuf \o wmsg) = Len(outbuf) + Len(wmsg)
        /\ Len(outbuf) \in Nat /\ Len(wmsg) \in Nat /\ Len(wmsg) <= 1
    BY DEF PortOK, HandsOK
  <2>3. Len(outbuf') <= OutCap
    BY <2>1, <2>2, Capacities
  <2> QED
    BY <2>1, <2>2, <2>3 DEF PortOK
<1>2. ASSUME ReadMessage PROVE PortOK'
  <2>1. inbound' \in Seq(1..MaxInbound)
    BY <1>2 DEF ReadMessage, PortOK
  <2> QED
    BY <1>2, <2>1 DEF ReadMessage, PortOK
<1>3. ASSUME DeviceTakes PROVE PortOK'
  <2>1. bus' \in Seq(Message) /\ outbuf' \in Seq(Message) /\ Len(outbuf') <= OutCap
    BY <1>3, Capacities DEF DeviceTakes, PortOK
  <2> QED
    BY <1>3, <2>1 DEF DeviceTakes, PortOK
<1>4. ASSUME DeviceSends PROVE PortOK'
  <2>1. Len(devsent) + 1 \in 1..MaxInbound
    BY <1>4, Bounds DEF DeviceSends, PortOK
  <2>2. devsent' \in Seq(1..MaxInbound) /\ inbound' \in Seq(1..MaxInbound)
    BY <1>4, <2>1 DEF DeviceSends, PortOK
  <2> QED
    BY <1>4, <2>2 DEF DeviceSends, PortOK
<1>5. ASSUME ReadBreaks \/ WriteBreaks PROVE PortOK'
  BY <1>5 DEF ReadBreaks, WriteBreaks, PortOK
<1>6. ASSUME UNCHANGED port PROVE PortOK'
  BY <1>6 DEF port, PortOK
<1>7. CASE Producer \/ ResumeSend \/ CancelSend
  BY <1>6, <1>7 DEF Producer, Send, TrySend, DropSender, ResumeSend, CancelSend
<1>8. CASE WriterStep
  BY <1>1, <1>6, <1>8 DEF WriterStep, WriterRecv, WriterFinishes, Lock, Wake, WriterLockTimeout,
                          WriteFails
<1>9. CASE ReaderStep
  BY <1>2, <1>6, <1>9 DEF ReaderStep, Lock, Wake, ReaderLockTimeout, ReadTimesOut, ReadFails,
                          Deliver, DeliverFails
<1>10. CASE BackgroundEnds \/ Receive \/ DropReceiver \/ Tick
  BY <1>6, <1>10 DEF BackgroundEnds, Receive, DropReceiver, Tick
<1>11. CASE UNCHANGED vars
  BY <1>6, <1>11 DEF vars
<1> QED
  BY <1>3, <1>4, <1>5, <1>7, <1>8, <1>9, <1>10, <1>11 DEF Next

LEMMA RestKept ==
  ASSUME Typed, [Next]_vars
  PROVE  RestOK'
<1> USE DEF Typed
<1>1. ASSUME WriterLockTimeout PROVE RestOK'
  BY <1>1 DEF WriterLockTimeout, RestOK, HandsOK
<1>2. ASSUME BackgroundEnds PROVE RestOK'
  BY <1>2 DEF BackgroundEnds, RestOK
<1>3. ASSUME UNCHANGED <<background, dropped>> PROVE RestOK'
  BY <1>3 DEF RestOK
<1>4. CASE Producer \/ ResumeSend \/ CancelSend
  BY <1>3, <1>4 DEF Producer, Send, TrySend, DropSender, ResumeSend, CancelSend
<1>5. CASE WriterStep
  BY <1>1, <1>3, <1>5 DEF WriterStep, WriterRecv, WriterFinishes, Lock, Wake, WriteFrame, WriteFails
<1>6. CASE ReaderStep
  BY <1>3, <1>6 DEF ReaderStep, Lock, Wake, ReaderLockTimeout, ReadMessage, ReadTimesOut, ReadFails,
                    Deliver, DeliverFails
<1>7. CASE Receive \/ DropReceiver \/ DeviceTakes \/ DeviceSends \/ ReadBreaks \/ WriteBreaks \/ Tick
  BY <1>3, <1>7 DEF Receive, DropReceiver, DeviceTakes, DeviceSends, ReadBreaks, WriteBreaks, Tick
<1>8. CASE UNCHANGED vars
  BY <1>3, <1>8 DEF vars
<1> QED
  BY <1>2, <1>4, <1>5, <1>6, <1>7, <1>8 DEF Next

LEMMA TypedKept == Typed /\ [Next]_vars => Typed'
<1> SUFFICES ASSUME Typed, [Next]_vars PROVE Typed'
  OBVIOUS
<1> QED
  BY ChannelsKept, InsideKept, PlacesKept, HandsKept, PortKept, RestKept DEF Typed

\* Types are kept, and both channels and the port's output buffer stay within
\* their capacities.
THEOREM TypeCorrect == Spec => []TypeOK
<1>1. Spec => []Typed
  BY InitTyped, TypedKept, PTL DEF Spec
<1> QED
  BY <1>1, TypedGivesTypeOK, PTL

-----------------------------------------------------------------------------
(* The lock.                                                               *)

\* The places that say nothing of the lock.
Away == {"recv", "lock", "deliver", "exited"}

LEMMA TwoTasks ==
  /\ "reader" \in Tasks /\ "writer" \in Tasks /\ "reader" # "writer"
  /\ \A t \in Tasks : t = "reader" \/ t = "writer"
  /\ NoOne \notin Tasks
BY DEF Tasks, NoOne

LEMMA MoveKeepsLock ==
  ASSUME PlacesOK, LockDiscipline, NEW t \in Tasks, NEW place \in Away,
         pc[t] \in Away, Goto(t, place), UNCHANGED <<holder, queue>>
  PROVE  LockDiscipline'
<1>1. \A u \in Tasks : pc'[u] = IF u = t THEN place ELSE pc[u]
  BY DEF PlacesOK, Goto
<1>2. \A u \in Tasks : /\ pc'[u] \in {"granted", "port"} <=> pc[u] \in {"granted", "port"}
                       /\ pc'[u] = "queued" <=> pc[u] = "queued"
  BY <1>1 DEF Away
<1> QED
  BY <1>2, Zenon DEF LockDiscipline

LEMMA LockKeepsLock ==
  ASSUME PlacesOK, LockDiscipline, NEW t \in Tasks, Lock(t)
  PROVE  LockDiscipline'
<1>1. pc[t] = "lock" /\ holder # t
  BY DEF Lock, LockDiscipline
<1>2. CASE holder = NoOne /\ holder' = t /\ Goto(t, "port") /\ UNCHANGED queue
  <2>1. \A u \in Tasks : pc'[u] = IF u = t THEN "port" ELSE pc[u]
    BY <1>2 DEF PlacesOK, Goto
  <2>2. \A u \in Tasks : pc[u] # "queued" /\ pc[u] \notin {"granted", "port"}
    BY <1>2, TwoTasks DEF LockDiscipline
  <2> QED
    BY <1>2, <2>1, <2>2 DEF LockDiscipline
<1>3. CASE holder # NoOne /\ queue' = Append(queue, t) /\ Goto(t, "queued") /\ UNCHANGED holder
  <2>1. \A u \in Tasks : pc'[u] = IF u = t THEN "queued" ELSE pc[u]
    BY <1>3 DEF PlacesOK, Goto
  <2>2. holder \in Tasks /\ pc[holder] \in {"granted", "port"}
    BY <1>3 DEF PlacesOK, LockDiscipline
  <2>3. \A u \in Tasks : pc[u] # "queued"
    BY <1>1, <2>2, TwoTasks
  <2>4. queue = <<>>
    BY <2>3 DEF LockDiscipline
  <2>5. queue' = <<t>>
    BY <1>3, <2>4
  <2>6. \A u \in Tasks : pc'[u] \in {"granted", "port"} <=> holder' = u
    BY <1>1, <1>3, <2>1 DEF LockDiscipline
  <2> QED
    BY <1>3, <2>1, <2>5, <2>6 DEF LockDiscipline
<1> QED
  BY <1>2, <1>3 DEF Lock

LEMMA WakeKeepsLock ==
  ASSUME PlacesOK, LockDiscipline, NEW t \in Tasks, Wake(t)
  PROVE  LockDiscipline'
<1>1. \A u \in Tasks : pc'[u] = IF u = t THEN "port" ELSE pc[u]
  BY DEF PlacesOK, Wake, Goto
<1>2. pc[t] = "granted" /\ UNCHANGED <<holder, queue>>
  BY DEF Wake
<1>3. \A u \in Tasks : /\ pc'[u] \in {"granted", "port"} <=> pc[u] \in {"granted", "port"}
                       /\ pc'[u] = "queued" <=> pc[u] = "queued"
  BY <1>1, <1>2
<1> QED
  BY <1>2, <1>3, Zenon DEF LockDiscipline

LEMMA ReleaseKeepsLock ==
  ASSUME PlacesOK, LockDiscipline, NEW t \in Tasks, NEW place \in Away,
         pc[t] = "port", Release(t, place)
  PROVE  /\ LockDiscipline'
         /\ \A u \in Tasks \ {t} : \/ queue = <<>> /\ pc'[u] = pc[u] /\ age'[u] = age[u]
                                   \/ pc[u] = "queued" /\ pc'[u] = "granted" /\ age'[u] = 0
<1>1. holder = t
  BY DEF LockDiscipline
<1>2. CASE queue = <<>>
  <2>1. holder' = NoOne /\ queue' = queue
    BY <1>2 DEF Release
  <2>2. \A u \in Tasks : /\ pc'[u] = IF u = t THEN place ELSE pc[u]
                         /\ age'[u] = IF u = t THEN 0 ELSE age[u]
    BY <1>2 DEF PlacesOK, Release, Goto
  <2>3. \A u \in Tasks : pc[u] # "queued"
    BY <1>2 DEF LockDiscipline
  <2>4. \A u \in Tasks : pc'[u] # "queued" /\ pc'[u] \notin {"granted", "port"}
    BY <1>1, <2>2, <2>3 DEF LockDiscipline, Away
  <2> QED
    BY <1>2, <2>1, <2>2, <2>4, TwoTasks DEF LockDiscipline
<1>3. CASE queue # <<>>
  <2>1. PICK w \in Tasks : pc[w] = "queued" /\ queue = <<w>>
    BY <1>3 DEF LockDiscipline
  <2>2. Head(queue) = w /\ Tail(queue) = <<>> /\ w # t
    BY <2>1
  <2>3. /\ holder' = w /\ queue' = <<>>
        /\ pc' = [pc EXCEPT ![t] = place, ![w] = "granted"]
        /\ age' = [age EXCEPT ![t] = 0, ![w] = 0]
    BY <1>3, <2>2 DEF Release
  <2>4. pc'[t] = place /\ pc'[w] = "granted" /\ age'[w] = 0
    BY <2>2, <2>3 DEF PlacesOK
  <2>5. \A u \in Tasks : u = t \/ u = w
    BY <2>2, TwoTasks
  <2> QED
    BY <2>1, <2>2, <2>3, <2>4, <2>5 DEF LockDiscipline, Away
<1> QED
  BY <1>2, <1>3

LEMMA TimeoutKeepsLock ==
  ASSUME PlacesOK, LockDiscipline, NEW t \in Tasks, NEW place \in Away,
         LockTimesOut(t), LeaveQueue(t), Goto(t, place)
  PROVE  LockDiscipline'
<1>1. pc[t] = "queued" /\ holder' = holder /\ holder # NoOne
  BY DEF LockTimesOut, LeaveQueue, LockDiscipline
<1>2. PICK w \in Tasks : pc[w] = "queued" /\ queue = <<w>>
  BY <1>1 DEF LockDiscipline
<1>3. queue' = <<>>
  <2>1. PICK i \in DOMAIN queue : queue' = Without(queue, i)
    BY DEF LeaveQueue
  <2>2. queue \in Seq(Tasks) /\ i \in 1..Len(queue) /\ Len(queue) = 1
    BY <1>2, <2>1
  <2>3. Without(queue, i) \in Seq(Tasks) /\ Len(Without(queue, i)) = Len(queue) - 1
    BY <2>2, WithoutType, Zenon
  <2>4. queue' \in Seq(Tasks) /\ Len(queue') = Len(queue) - 1
    BY <2>1, <2>3, Zenon
  <2>5. Len(queue') = 0
    BY <2>2, <2>4
  <2> QED
    BY <2>4, <2>5
<1>4. \A u \in Tasks : pc'[u] = IF u = t THEN place ELSE pc[u]
  BY DEF PlacesOK, Goto
<1>5. \A u \in Tasks : pc'[u] # "queued"
  <2>1. holder \in Tasks /\ pc[holder] \in {"granted", "port"}
    BY <1>1 DEF PlacesOK, LockDiscipline
  <2> QED
    BY <1>1, <1>4, <2>1, TwoTasks DEF Away
<1>6. \A u \in Tasks : pc'[u] \in {"granted", "port"} <=> holder' = u
  BY <1>1, <1>4 DEF LockDiscipline, Away
<1> QED
  BY <1>3, <1>5, <1>6 DEF LockDiscipline

LEMMA LockKept ==
  ASSUME PlacesOK, LockDiscipline, [Next]_vars
  PROVE  LockDiscipline'
<1>1. ASSUME UNCHANGED <<pc, holder, queue>> PROVE LockDiscipline'
  BY <1>1 DEF LockDiscipline
<1>2. ASSUME WriterRecv \/ WriterFinishes \/ Deliver \/ DeliverFails PROVE LockDiscipline'
  BY <1>2, TwoTasks, MoveKeepsLock DEF WriterRecv, WriterFinishes, Deliver, DeliverFails, Away
<1>3. ASSUME WriterLockTimeout \/ ReaderLockTimeout PROVE LockDiscipline'
  BY <1>3, TwoTasks, TimeoutKeepsLock DEF WriterLockTimeout, ReaderLockTimeout, Away
<1>4. ASSUME WriteFrame \/ WriteFails \/ ReadMessage \/ ReadTimesOut \/ ReadFails
      PROVE  LockDiscipline'
  BY <1>4, TwoTasks, ReleaseKeepsLock DEF WriteFrame, WriteFails, ReadMessage, ReadTimesOut,
                                          ReadFails, Away
<1>5. CASE WriterStep
  BY <1>2, <1>3, <1>4, <1>5, TwoTasks, LockKeepsLock, WakeKeepsLock DEF WriterStep
<1>6. CASE ReaderStep
  BY <1>2, <1>3, <1>4, <1>6, TwoTasks, LockKeepsLock, WakeKeepsLock DEF ReaderStep
<1>7. CASE Producer \/ ResumeSend \/ CancelSend
  BY <1>1, <1>7 DEF Producer, Send, TrySend, DropSender, ResumeSend, CancelSend, tasks
<1>8. CASE BackgroundEnds \/ Receive \/ DropReceiver \/ DeviceTakes \/ DeviceSends
            \/ ReadBreaks \/ WriteBreaks \/ Tick
  BY <1>1, <1>8 DEF BackgroundEnds, Receive, DropReceiver, DeviceTakes, DeviceSends, ReadBreaks,
                    WriteBreaks, Tick, tasks
<1>9. CASE UNCHANGED vars
  BY <1>1, <1>9 DEF vars, tasks
<1> QED
  BY <1>5, <1>6, <1>7, <1>8, <1>9 DEF Next

LEMMA InitLock == Init => LockDiscipline
<1> SUFFICES ASSUME Init PROVE LockDiscipline
  OBVIOUS
<1>1. \A t \in Tasks : pc[t] \in {"lock", "recv"}
  BY DEF Init
<1>2. holder = NoOne /\ queue = <<>>
  BY DEF Init
<1> QED
  BY <1>1, <1>2, TwoTasks DEF LockDiscipline

\* The tasks exclude each other from the port, and no exit, timeout or
\* hand-over leaks the lock or strands the task that waits for it.
THEOREM LockSafe == Spec => []LockDiscipline
<1>1. Init => Typed /\ LockDiscipline
  BY InitTyped, InitLock
<1>2. Typed /\ LockDiscipline /\ [Next]_vars => (Typed /\ LockDiscipline)'
  BY TypedKept, LockKept DEF Typed
<1> QED
  BY <1>1, <1>2, PTL DEF Spec

-----------------------------------------------------------------------------
(* Time.                                                                   *)

\* No task stays in a timed place beyond its limit, and the write task waits
\* for the lock no longer than one read and the delays around it: since the
\* read task was given the lock, or, once it reads, one delay more.
Waits ==
  /\ \A t \in Tasks : Timed(t) => age[t] <= Limit(t)
  /\ pc["writer"] = "queued" =>
       \/ pc["reader"] = "granted" /\ age["writer"] <= age["reader"]
       \/ pc["reader"] = "port" /\ age["writer"] <= age["reader"] + Late

LEMMA InitWaits == Init => Waits
BY TwoTasks DEF Init, Waits, Timed, Tasks

LEMMA LimitIsNat == ASSUME NEW t \in Tasks PROVE Limit(t) \in Nat
BY Times DEF Limit, Patience

\* A task that comes to a new place starts its time there.
LEMMA FreshWithinLimit ==
  ASSUME PlacesOK, NEW t \in Tasks, age'[t] = 0, PlacesOK'
  PROVE  Timed(t)' => age'[t] <= Limit(t)'
<1>1. Limit(t)' \in Nat
  BY Times DEF Limit, Patience
<1> QED
  BY <1>1

\* One that stays where it is keeps its limit.
LEMMA SameWithinLimit ==
  ASSUME Waits, NEW t \in Tasks, pc'[t] = pc[t], age'[t] = age[t]
  PROVE  Timed(t)' => age'[t] <= Limit(t)'
BY DEF Waits, Timed, Limit

LEMMA MoveKeepsWaits ==
  ASSUME PlacesOK, PlacesOK', LockDiscipline, Waits, NEW t \in Tasks, NEW place \in Away,
         pc[t] \in Away \cup {"queued"}, Goto(t, place)
  PROVE  Waits'
<1>1. \A u \in Tasks : /\ pc'[u] = IF u = t THEN place ELSE pc[u]
                       /\ age'[u] = IF u = t THEN 0 ELSE age[u]
  BY DEF PlacesOK, Goto
<1>2. \A u \in Tasks : Timed(u)' => age'[u] <= Limit(u)'
  BY <1>1, FreshWithinLimit, SameWithinLimit
<1>3. ASSUME pc'["writer"] = "queued"
      PROVE  \/ pc'["reader"] = "granted" /\ age'["writer"] <= age'["reader"]
             \/ pc'["reader"] = "port" /\ age'["writer"] <= age'["reader"] + Late
  <2>1. t = "reader" /\ pc["writer"] = "queued"
    BY <1>1, <1>3, TwoTasks DEF Away
  <2>2. pc["reader"] \in {"granted", "port"}
    BY <2>1 DEF Waits
  <2> QED
    BY <2>1, <2>2 DEF Away
<1> QED
  BY <1>2, <1>3 DEF Waits

LEMMA LockKeepsWaits ==
  ASSUME PlacesOK, PlacesOK', LockDiscipline, Waits, NEW t \in Tasks, Lock(t)
  PROVE  Waits'
<1>1. PICK place \in {"port", "queued"} :
         Goto(t, place) /\ (place = "queued" => holder # NoOne)
  BY DEF Lock
<1>2. \A u \in Tasks : /\ pc'[u] = IF u = t THEN place ELSE pc[u]
                       /\ age'[u] = IF u = t THEN 0 ELSE age[u]
  BY <1>1 DEF PlacesOK, Goto
<1>3. \A u \in Tasks : Timed(u)' => age'[u] <= Limit(u)'
  BY <1>2, FreshWithinLimit, SameWithinLimit
<1>4. pc[t] = "lock"
  BY DEF Lock
<1>5. ASSUME pc'["writer"] = "queued"
      PROVE  \/ pc'["reader"] = "granted" /\ age'["writer"] <= age'["reader"]
             \/ pc'["reader"] = "port" /\ age'["writer"] <= age'["reader"] + Late
  <2>1. CASE t = "writer"
    <3>1. holder \in Tasks /\ pc[holder] \in {"granted", "port"}
      BY <1>1, <1>2, <1>5, <2>1 DEF PlacesOK, LockDiscipline
    <3>2. pc["reader"] \in {"granted", "port"}
      BY <1>4, <2>1, <3>1, TwoTasks
    <3>3. pc'["reader"] = pc["reader"] /\ age'["writer"] = 0 /\ age'["reader"] \in Nat
      BY <1>2, <2>1, TwoTasks DEF PlacesOK
    <3> QED
      BY <3>2, <3>3, Times
  <2>2. CASE t = "reader"
    <3>1. pc["writer"] = "queued"
      BY <1>2, <1>5, <2>2, TwoTasks
    <3> QED
      BY <1>4, <2>2, <3>1 DEF Waits
  <2> QED
    BY <2>1, <2>2, TwoTasks
<1> QED
  BY <1>3, <1>5 DEF Waits

LEMMA WakeKeepsWaits ==
  ASSUME PlacesOK, PlacesOK', Waits, NEW t \in Tasks, Wake(t)
  PROVE  Waits'
<1>1. \A u \in Tasks : /\ pc'[u] = IF u = t THEN "port" ELSE pc[u]
                       /\ age'[u] = IF u = t THEN 0 ELSE age[u]
  BY DEF PlacesOK, Wake, Goto
<1>2. \A u \in Tasks : Timed(u)' => age'[u] <= Limit(u)'
  BY <1>1, FreshWithinLimit, SameWithinLimit
<1>3. ASSUME pc'["writer"] = "queued"
      PROVE  pc'["reader"] = "port" /\ age'["writer"] <= age'["reader"] + Late
  <2>1. t = "reader" /\ pc["writer"] = "queued" /\ pc["reader"] = "granted"
    BY <1>1, <1>3, TwoTasks DEF Wake
  <2>2. age["writer"] <= age["reader"] /\ age["reader"] <= Limit("reader")
    BY <2>1, TwoTasks DEF Waits, Timed
  <2>3. Limit("reader") = Late
    BY <2>1, Times DEF Limit
  <2>4. age["writer"] \in Nat /\ age["reader"] \in Nat
    BY TwoTasks DEF PlacesOK
  <2> QED
    BY <1>1, <2>1, <2>2, <2>3, <2>4, Times, TwoTasks
<1> QED
  BY <1>2, <1>3 DEF Waits

LEMMA ReleaseKeepsWaits ==
  ASSUME PlacesOK, PlacesOK', LockDiscipline, Waits, NEW t \in Tasks, NEW place \in Away,
         pc[t] = "port", Release(t, place)
  PROVE  Waits'
<1>1. \A u \in Tasks \ {t} : \/ queue = <<>> /\ pc'[u] = pc[u] /\ age'[u] = age[u]
                             \/ pc[u] = "queued" /\ pc'[u] = "granted" /\ age'[u] = 0
  BY ReleaseKeepsLock
<1>2. pc'[t] = place /\ age'[t] = 0
  <2>1. CASE queue = <<>>
    BY <2>1 DEF PlacesOK, Release, Goto
  <2>2. CASE queue # <<>>
    <3>1. PICK w \in Tasks : pc[w] = "queued" /\ queue = <<w>>
      BY <2>2 DEF LockDiscipline
    <3>2. Head(queue) = w /\ w # t
      BY <3>1
    <3> QED
      BY <2>2, <3>2 DEF PlacesOK, Release
  <2> QED
    BY <2>1, <2>2
<1>3. \A u \in Tasks : Timed(u)' => age'[u] <= Limit(u)'
  BY <1>1, <1>2, FreshWithinLimit, SameWithinLimit
<1>4. pc'["writer"] # "queued"
  <2>1. CASE t = "writer"
    BY <1>2, <2>1 DEF Away
  <2>2. CASE t = "reader" /\ queue = <<>>
    <3>1. pc["writer"] # "queued"
      BY <2>2, TwoTasks DEF LockDiscipline
    <3> QED
      BY <1>1, <2>2, <3>1, TwoTasks
  <2>3. CASE t = "reader" /\ queue # <<>>
    BY <1>1, <2>3, TwoTasks
  <2> QED
    BY <2>1, <2>2, <2>3, TwoTasks
<1> QED
  BY <1>3, <1>4 DEF Waits

LEMMA TickKeepsWaits ==
  ASSUME PlacesOK, Waits, Tick
  PROVE  Waits'
<1>1. /\ \A t \in Tasks : Timed(t) => age[t] < Limit(t)
      /\ age' = [t \in Tasks |-> IF Timed(t) THEN age[t] + 1 ELSE age[t]]
      /\ pc' = pc
  BY DEF Tick
<1>2. ASSUME NEW t \in Tasks, Timed(t)'
      PROVE  age'[t] <= Limit(t)'
  <2>1. Timed(t) /\ Limit(t)' = Limit(t)
    BY <1>1, <1>2 DEF Timed, Limit
  <2>2. age'[t] = age[t] + 1 /\ age[t] < Limit(t) /\ age[t] \in Nat
    BY <1>1, <2>1 DEF PlacesOK
  <2> QED
    BY <2>1, <2>2, LimitIsNat
<1>3. ASSUME pc'["writer"] = "queued"
      PROVE  \/ pc'["reader"] = "granted" /\ age'["writer"] <= age'["reader"]
             \/ pc'["reader"] = "port" /\ age'["writer"] <= age'["reader"] + Late
  <2>1. pc["writer"] = "queued" /\ pc["reader"] \in {"granted", "port"}
    BY <1>1, <1>3 DEF Waits
  <2>2. Timed("writer") /\ Timed("reader")
    BY <2>1 DEF Timed
  <2>3. /\ age'["writer"] = age["writer"] + 1 /\ age'["reader"] = age["reader"] + 1
        /\ age["writer"] \in Nat /\ age["reader"] \in Nat
    BY <1>1, <2>2, TwoTasks DEF PlacesOK
  <2>4. \/ pc["reader"] = "granted" /\ age["writer"] <= age["reader"]
        \/ pc["reader"] = "port" /\ age["writer"] <= age["reader"] + Late
    BY <2>1 DEF Waits
  <2> QED
    BY <1>1, <2>3, <2>4, Times
<1> QED
  BY <1>2, <1>3 DEF Waits

LEMMA WaitsKept ==
  ASSUME PlacesOK, PlacesOK', LockDiscipline, Waits, [Next]_vars
  PROVE  Waits'
<1>1. ASSUME UNCHANGED <<pc, age>> PROVE Waits'
  BY <1>1 DEF Waits, Timed, Limit
<1>2. ASSUME WriterRecv \/ WriterFinishes \/ Deliver \/ DeliverFails PROVE Waits'
  BY <1>2, TwoTasks, MoveKeepsWaits DEF WriterRecv, WriterFinishes, Deliver, DeliverFails, Away
<1>3. ASSUME WriterLockTimeout \/ ReaderLockTimeout PROVE Waits'
  BY <1>3, TwoTasks, MoveKeepsWaits DEF WriterLockTimeout, ReaderLockTimeout, LockTimesOut, Away
<1>4. ASSUME WriteFrame \/ WriteFails \/ ReadMessage \/ ReadTimesOut \/ ReadFails PROVE Waits'
  BY <1>4, TwoTasks, ReleaseKeepsWaits DEF WriteFrame, WriteFails, ReadMessage, ReadTimesOut,
                                           ReadFails, Away
<1>5. CASE WriterStep
  BY <1>2, <1>3, <1>4, <1>5, TwoTasks, LockKeepsWaits, WakeKeepsWaits DEF WriterStep
<1>6. CASE ReaderStep
  BY <1>2, <1>3, <1>4, <1>6, TwoTasks, LockKeepsWaits, WakeKeepsWaits DEF ReaderStep
<1>7. CASE Producer \/ ResumeSend \/ CancelSend
  BY <1>1, <1>7 DEF Producer, Send, TrySend, DropSender, ResumeSend, CancelSend, tasks
<1>8. CASE BackgroundEnds \/ Receive \/ DropReceiver \/ DeviceTakes \/ DeviceSends
            \/ ReadBreaks \/ WriteBreaks
  BY <1>1, <1>8 DEF BackgroundEnds, Receive, DropReceiver, DeviceTakes, DeviceSends, ReadBreaks,
                    WriteBreaks, tasks
<1>9. CASE UNCHANGED vars
  BY <1>1, <1>9 DEF vars, tasks
<1> QED
  BY <1>5, <1>6, <1>7, <1>8, <1>9, TickKeepsWaits DEF Next

\* On a punctual executor the write task's patience is never exhausted.
LEMMA PatientEnough ==
  ASSUME Typed, Waits, Punctual
  PROVE  ~LockTimesOut("writer")
<1> SUFFICES ASSUME pc["writer"] = "queued" PROVE age["writer"] < WriteLockTimeout
  BY Times, TwoTasks DEF LockTimesOut, Patience, Typed, PlacesOK
<1>1. age["writer"] \in Nat /\ age["reader"] \in Nat
  BY TwoTasks DEF Typed, PlacesOK
<1>2. CASE pc["reader"] = "granted" /\ age["writer"] <= age["reader"]
  <2>1. age["reader"] <= Late
    BY <1>2, Times, TwoTasks DEF Waits, Timed, Limit
  <2> QED
    BY <1>1, <1>2, <2>1, Times DEF Punctual
<1>3. CASE pc["reader"] = "port" /\ age["writer"] <= age["reader"] + Late
  <2>1. age["reader"] <= Late + ReadTimeout
    BY <1>3, Times, TwoTasks DEF Waits, Timed, Limit
  <2> QED
    BY <1>1, <1>3, <2>1, Times DEF Punctual
<1> QED
  BY <1>2, <1>3 DEF Waits

\* The inductive invariant: types, the lock, time, and nothing given up.
Inv == Typed /\ LockDiscipline /\ Waits /\ NothingDropped

LEMMA DroppedKept ==
  ASSUME Inv, [Next]_vars
  PROVE  NothingDropped'
<1> SUFFICES ASSUME Punctual PROVE dropped' = <<>>
  BY DEF NothingDropped
<1>1. dropped = <<>>
  BY DEF Inv, NothingDropped
<1>2. ~WriterLockTimeout
  BY PatientEnough DEF Inv, WriterLockTimeout
<1>3. CASE Producer \/ ResumeSend \/ CancelSend
  BY <1>1, <1>3 DEF Producer, Send, TrySend, DropSender, ResumeSend, CancelSend
<1>4. CASE WriterStep
  BY <1>1, <1>2, <1>4 DEF WriterStep, WriterRecv, WriterFinishes, Lock, Wake, WriteFrame, WriteFails
<1>5. CASE ReaderStep
  BY <1>1, <1>5 DEF ReaderStep, Lock, Wake, ReaderLockTimeout, ReadMessage, ReadTimesOut, ReadFails,
                    Deliver, DeliverFails
<1>6. CASE BackgroundEnds \/ Receive \/ DropReceiver \/ DeviceTakes \/ DeviceSends
            \/ ReadBreaks \/ WriteBreaks \/ Tick
  BY <1>1, <1>6 DEF BackgroundEnds, Receive, DropReceiver, DeviceTakes, DeviceSends, ReadBreaks,
                    WriteBreaks, Tick
<1>7. CASE UNCHANGED vars
  BY <1>1, <1>7 DEF vars
<1> QED
  BY <1>3, <1>4, <1>5, <1>6, <1>7 DEF Next

LEMMA InvariantKept ==
  ASSUME Inv, [Next]_vars
  PROVE  Inv'
BY TypedKept, LockKept, WaitsKept, DroppedKept DEF Inv, Typed

THEOREM Invariant == Spec => []Inv
<1>1. Init => Inv
  BY InitTyped, InitLock, InitWaits DEF Inv, Init, NothingDropped
<1>2. Inv /\ [Next]_vars => Inv'
  BY InvariantKept
<1> QED
  BY <1>1, <1>2, PTL DEF Spec

\* When one read and the delays around it are shorter than the write task's
\* patience, it never gives up a message for want of the lock.
THEOREM NeverDrops == Spec => []NothingDropped
<1>1. Inv => NothingDropped
  BY DEF Inv
<1> QED
  BY <1>1, Invariant, PTL
=============================================================================
