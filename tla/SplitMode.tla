----------------------------- MODULE SplitMode -----------------------------
(***************************************************************************)
(* Split mode: CanUsbSender, the two background tasks and the receiver.    *)
(*                                                                         *)
(*   producers -> frame channel -> write task -> port -> device            *)
(*   consumer <- message channel <- read task <- port <- device            *)
(*                                                                         *)
(* Both tasks use the port through one tokio Mutex, which hands itself to  *)
(* its waiters in arrival order.  A message is an opaque value here: that  *)
(* bytes become the right messages is the subject of RxTransport.          *)
(*                                                                         *)
(* Time is counted in ticks.  age is how long a task has been in a place   *)
(* that a timer or the scheduler bounds; Tick does not let it pass that    *)
(* bound by more than Late, the longest the executor leaves a task that    *)
(* can go on waiting for a thread.                                         *)
(***************************************************************************)
EXTENDS Integers, Sequences, FiniteSets

CONSTANTS Producers,           \* tasks that hold a CanUsbSender each
          FrameCap,            \* capacity of the frame channel (100)
          MsgCap,              \* capacity of the message channel (100)
          OutCap,              \* frames the serial port buffers for output
          ReadTimeout,         \* read_frame's timeout (50 ms)
          ReadLockTimeout,     \* the read task's patience for the lock (100 ms)
          WriteLockTimeout,    \* the write task's patience for the lock (5 s)
          Late,                \* scheduling delay
          MaxSends,            \* bound: sends of one producer
          MaxInbound           \* bound: messages the device sends

ASSUME CapAssumption == {FrameCap, MsgCap, OutCap} \subseteq Nat \ {0}
ASSUME TimeAssumption ==
  {ReadTimeout, ReadLockTimeout, WriteLockTimeout, Late} \subseteq Nat
ASSUME BoundAssumption == {MaxSends, MaxInbound} \subseteq Nat

VARIABLES frames,      \* the frame channel
          waiters,     \* producers suspended in send, with their messages
          handles,     \* producers that still hold their sender
          offered,     \* number of sends each producer made
          msgs,        \* the message channel
          receiver,    \* FALSE: the consumer dropped the receiver
          pc,          \* where the two tasks are
          age,         \* ticks spent there
          wmsg, rmsg,  \* the msg of the write task and of the read task
          holder,      \* who holds the mutex
          queue,       \* who waits for it, in order
          background,  \* background_task's select!
          canRead, canWrite,  \* FALSE: reads, writes of the port fail
          outbuf,      \* frames in the port's output buffer
          inbound,     \* messages in the port's input buffer and rx_buffer
          accepted,    \* history: messages that entered the frame channel
          bus,         \* history: frames the device took
          devsent,     \* history: messages the device sent
          received,    \* history: messages the consumer got
          dropped      \* history: messages given up for want of the lock

channels == <<frames, waiters, handles, offered, accepted>>
inside   == <<msgs, receiver, received>>
tasks    == <<pc, age, wmsg, rmsg, holder, queue>>
port     == <<canRead, canWrite, outbuf, inbound, bus, devsent>>
vars == <<channels, inside, tasks, port, background, dropped>>

Tasks == {"reader", "writer"}
NoOne == "none"
Message == Producers \X (1..MaxSends)

Init ==
  /\ frames = <<>> /\ waiters = <<>> /\ accepted = <<>>
  /\ handles = Producers
  /\ offered = [p \in Producers |-> 0]
  /\ msgs = <<>> /\ receiver = TRUE /\ received = <<>>
  /\ pc = [t \in Tasks |-> IF t = "reader" THEN "lock" ELSE "recv"]
  /\ age = [t \in Tasks |-> 0]
  /\ wmsg = <<>> /\ rmsg = <<>>
  /\ holder = NoOne /\ queue = <<>>
  /\ background = "select"
  /\ canRead = TRUE /\ canWrite = TRUE
  /\ outbuf = <<>> /\ inbound = <<>> /\ bus = <<>> /\ devsent = <<>>
  /\ dropped = <<>>

-----------------------------------------------------------------------------
(* The senders.                                                            *)

\* The frame channel is closed once the write task has dropped frame_rx.
IsClosed == pc["writer"] = "exited"
Waiting(p) == \E i \in DOMAIN waiters : waiters[i][1] = p

Offer(p) ==
  /\ p \in handles /\ ~Waiting(p) /\ offered[p] < MaxSends
  /\ offered' = [offered EXCEPT ![p] = @ + 1]

\* A faulty variant the runs must tell apart: one slot too many.
OneSlotMore == Len(frames) + Len(waiters) <= FrameCap

\* A free slot belongs to the first waiter.
SlotFree == Len(frames) + Len(waiters) < FrameCap

Push(m) == frames' = Append(frames, m) /\ accepted' = Append(accepted, m)

\* send: queue the message, or suspend until there is room, or fail.
Send(p) ==
  /\ Offer(p)
  /\ LET m == <<p, offered'[p]>> IN
       \/ IsClosed /\ UNCHANGED <<frames, accepted, waiters>>
       \/ ~IsClosed /\ SlotFree /\ Push(m) /\ UNCHANGED waiters
       \/ ~IsClosed /\ ~SlotFree /\ waiters' = Append(waiters, m)
                    /\ UNCHANGED <<frames, accepted>>
  /\ UNCHANGED <<handles, inside, tasks, port, background, dropped>>

\* try_send: queue the message or fail at once.
TrySend(p) ==
  /\ Offer(p)
  /\ IF ~IsClosed /\ SlotFree
     THEN Push(<<p, offered'[p]>>)
     ELSE UNCHANGED <<frames, accepted>>
  /\ UNCHANGED <<waiters, handles, inside, tasks, port, background, dropped>>

Without(s, i) == SubSeq(s, 1, i - 1) \o SubSeq(s, i + 1, Len(s))

\* Free slots are granted to the first waiters, who push as they wake up.
ResumeSend ==
  /\ \E i \in 1..(FrameCap - Len(frames)) :
       /\ i <= Len(waiters)
       /\ Push(waiters[i])
       /\ waiters' = Without(waiters, i)
  /\ UNCHANGED <<handles, offered, inside, tasks, port, background, dropped>>

\* The producer drops the future of a suspended send.
CancelSend ==
  /\ \E i \in DOMAIN waiters : waiters' = Without(waiters, i)
  /\ UNCHANGED <<frames, accepted, handles, offered, inside, tasks, port, background, dropped>>

DropSender(p) ==
  /\ p \in handles /\ ~Waiting(p)
  /\ handles' = handles \ {p}
  /\ UNCHANGED <<frames, waiters, offered, accepted, inside, tasks, port, background, dropped>>

-----------------------------------------------------------------------------
(* The mutex and the places of the tasks.                                  *)
(*   "lock"    about to call lock()      "queued"  waiting in it           *)
(*   "granted" given the lock, not yet awake    "port"  using the port     *)
(*   "recv"    the write task at recv()  "deliver" the read task at send() *)

\* Task t goes to a new place.
Goto(t, place) ==
  /\ pc' = [pc EXCEPT ![t] = place]
  /\ age' = [age EXCEPT ![t] = 0]

Lock(t) ==
  /\ pc[t] = "lock"
  /\ \/ holder = NoOne /\ holder' = t /\ Goto(t, "port") /\ UNCHANGED queue
     \/ holder # NoOne /\ queue' = Append(queue, t) /\ Goto(t, "queued") /\ UNCHANGED holder
  /\ UNCHANGED <<channels, inside, wmsg, rmsg, port, background, dropped>>

Wake(t) ==
  /\ pc[t] = "granted"
  /\ Goto(t, "port")
  /\ UNCHANGED <<channels, inside, wmsg, rmsg, holder, queue, port, background, dropped>>

\* Task t drops its guard and goes on: the first waiter holds the lock now.
Release(t, place) ==
  IF queue = <<>>
  THEN holder' = NoOne /\ UNCHANGED queue /\ Goto(t, place)
  ELSE /\ holder' = Head(queue)
       /\ queue' = Tail(queue)
       /\ pc' = [pc EXCEPT ![t] = place, ![Head(queue)] = "granted"]
       /\ age' = [age EXCEPT ![t] = 0, ![Head(queue)] = 0]

\* Faulty: both tasks have the read task's patience.
ReadersPatience(t) == ReadLockTimeout

Patience(t) == IF t = "reader" THEN ReadLockTimeout ELSE WriteLockTimeout

LockTimesOut(t) == pc[t] = "queued" /\ age[t] >= Patience(t)

\* Faulty: a task that gives up waiting stays in the queue.
StayQueued(t) == UNCHANGED <<queue, holder>>

LeaveQueue(t) ==
  /\ \E i \in DOMAIN queue : queue[i] = t /\ queue' = Without(queue, i)
  /\ UNCHANGED holder

-----------------------------------------------------------------------------
(* The write task.                                                         *)

WriterRecv ==
  /\ pc["writer"] = "recv" /\ frames # <<>>
  /\ wmsg' = <<Head(frames)>> /\ frames' = Tail(frames)
  /\ Goto("writer", "lock")
  /\ UNCHANGED <<waiters, handles, offered, accepted, inside, rmsg, holder, queue, port,
                 background, dropped>>

\* Faulty: the task ends with the last sender, whatever the channel holds.
WriterFinishesEarly ==
  /\ pc["writer"] = "recv" /\ handles = {}
  /\ Goto("writer", "exited")
  /\ UNCHANGED <<channels, inside, wmsg, rmsg, holder, queue, port, background, dropped>>

\* recv returns None: every sender is gone and the channel is empty.
WriterFinishes ==
  /\ pc["writer"] = "recv" /\ frames = <<>> /\ handles = {}
  /\ Goto("writer", "exited")
  /\ UNCHANGED <<channels, inside, wmsg, rmsg, holder, queue, port, background, dropped>>

\* Faulty: the message goes back to the end of the channel to be tried again.
WriterRetriesLast ==
  /\ LockTimesOut("writer") /\ LeaveQueue("writer") /\ Goto("writer", "recv")
  /\ wmsg' = <<>> /\ frames' = frames \o wmsg
  /\ UNCHANGED <<waiters, handles, offered, accepted, inside, rmsg, port, background, dropped>>

\* No lock in time: the message is given up and the task goes on.
WriterLockTimeout ==
  /\ LockTimesOut("writer") /\ LeaveQueue("writer") /\ Goto("writer", "recv")
  /\ wmsg' = <<>> /\ dropped' = dropped \o wmsg
  /\ UNCHANGED <<channels, inside, rmsg, port, background>>

\* Faulty: a message that was written is tried again.
WriteFrameAgain ==
  /\ pc["writer"] = "port" /\ canWrite /\ Len(outbuf) < OutCap
  /\ outbuf' = outbuf \o wmsg
  /\ Release("writer", "lock")
  /\ UNCHANGED <<channels, inside, wmsg, rmsg, canRead, canWrite, inbound, bus, devsent,
                 background, dropped>>

\* write_frame succeeds when the port takes the whole frame, and waits, with
\* the lock, until it does.
WriteFrame ==
  /\ pc["writer"] = "port" /\ canWrite /\ Len(outbuf) < OutCap
  /\ outbuf' = outbuf \o wmsg /\ wmsg' = <<>>
  /\ Release("writer", "recv")
  /\ UNCHANGED <<channels, inside, rmsg, canRead, canWrite, inbound, bus, devsent, background, dropped>>

\* Faulty: the message is tried again for ever.
WriteFailsRetries ==
  /\ pc["writer"] = "port" /\ ~canWrite
  /\ Release("writer", "lock")
  /\ UNCHANGED <<channels, inside, wmsg, rmsg, port, background, dropped>>

\* The task ends on a write error, and frame_rx with it: what the channel held
\* is gone and suspended sends fail.
WriteFails ==
  /\ pc["writer"] = "port" /\ ~canWrite
  /\ Release("writer", "exited")
  /\ frames' = <<>> /\ waiters' = <<>> /\ wmsg' = <<>>
  /\ UNCHANGED <<handles, offered, accepted, inside, rmsg, port, background, dropped>>

-----------------------------------------------------------------------------
(* The read task.                                                          *)

ReaderLockTimeout ==
  /\ LockTimesOut("reader") /\ LeaveQueue("reader") /\ Goto("reader", "lock")
  /\ UNCHANGED <<channels, inside, wmsg, rmsg, port, background, dropped>>

\* Faulty: the guard lives on while the message is delivered.
ReadMessageKeepsGuard ==
  /\ pc["reader"] = "port" /\ inbound # <<>>
  /\ rmsg' = <<Head(inbound)>> /\ inbound' = Tail(inbound)
  /\ Goto("reader", "deliver")
  /\ UNCHANGED <<channels, inside, wmsg, holder, queue, canRead, canWrite, outbuf, bus, devsent,
                 background, dropped>>

\* The guard is dropped before the message is delivered.
ReadMessage ==
  /\ pc["reader"] = "port" /\ inbound # <<>>
  /\ rmsg' = <<Head(inbound)>> /\ inbound' = Tail(inbound)
  /\ Release("reader", "deliver")
  /\ UNCHANGED <<channels, inside, wmsg, canRead, canWrite, outbuf, bus, devsent, background, dropped>>

\* Faulty: what a read had received is lost with it when it times out.
TimeoutDiscards ==
  /\ pc["reader"] = "port" /\ age["reader"] >= ReadTimeout
  /\ inbound' = IF inbound = <<>> THEN <<>> ELSE Tail(inbound)
  /\ Release("reader", "lock")
  /\ UNCHANGED <<channels, inside, wmsg, rmsg, canRead, canWrite, outbuf, bus, devsent,
                 background, dropped>>

ReadTimesOut ==
  /\ pc["reader"] = "port" /\ age["reader"] >= ReadTimeout
  /\ Release("reader", "lock")
  /\ UNCHANGED <<channels, inside, wmsg, rmsg, port, background, dropped>>

\* Faulty: an error is taken for a timeout.
ReadFailsGoesOn ==
  /\ pc["reader"] = "port" /\ ~canRead
  /\ Release("reader", "lock")
  /\ UNCHANGED <<channels, inside, wmsg, rmsg, port, background, dropped>>

ReadFails ==
  /\ pc["reader"] = "port" /\ ~canRead
  /\ Release("reader", "exited")
  /\ UNCHANGED <<channels, inside, wmsg, rmsg, port, background, dropped>>

Deliver ==
  /\ pc["reader"] = "deliver" /\ receiver /\ Len(msgs) < MsgCap
  /\ msgs' = msgs \o rmsg /\ rmsg' = <<>>
  /\ Goto("reader", "lock")
  /\ UNCHANGED <<channels, receiver, received, wmsg, holder, queue, port, background, dropped>>

DeliverFails ==
  /\ pc["reader"] = "deliver" /\ ~receiver
  /\ rmsg' = <<>>
  /\ Goto("reader", "exited")
  /\ UNCHANGED <<channels, inside, wmsg, holder, queue, port, background, dropped>>

\* Faulty: the other task is aborted.
BackgroundAborts ==
  /\ background = "select" /\ \E t \in Tasks : pc[t] = "exited"
  /\ background' = "ended"
  /\ pc' = [t \in Tasks |-> "exited"]
  /\ UNCHANGED <<channels, inside, age, wmsg, rmsg, holder, queue, port, dropped>>

\* select! ends with the first task.  It drops the JoinHandle of the other,
\* which detaches that task and does not stop it.
BackgroundEnds ==
  /\ background = "select" /\ \E t \in Tasks : pc[t] = "exited"
  /\ background' = "ended"
  /\ UNCHANGED <<channels, inside, tasks, port, dropped>>

-----------------------------------------------------------------------------
(* The consumer, the device and the clock.                                 *)

Receive ==
  /\ receiver /\ msgs # <<>>
  /\ received' = Append(received, Head(msgs)) /\ msgs' = Tail(msgs)
  /\ UNCHANGED <<channels, receiver, tasks, port, background, dropped>>

DropReceiver ==
  /\ receiver /\ receiver' = FALSE
  /\ msgs' = <<>>
  /\ UNCHANGED <<channels, received, tasks, port, background, dropped>>

DeviceTakes ==
  /\ canWrite /\ outbuf # <<>>
  /\ bus' = Append(bus, Head(outbuf)) /\ outbuf' = Tail(outbuf)
  /\ UNCHANGED <<channels, inside, tasks, canRead, canWrite, inbound, devsent, background, dropped>>

DeviceSends ==
  /\ canRead /\ Len(devsent) < MaxInbound
  /\ LET m == Len(devsent) + 1 IN
       devsent' = Append(devsent, m) /\ inbound' = Append(inbound, m)
  /\ UNCHANGED <<channels, inside, tasks, canRead, canWrite, outbuf, bus, background, dropped>>

\* A serial error ends reading, writing, or both: the device was unplugged.
ReadBreaks ==
  /\ canRead /\ canRead' = FALSE
  /\ UNCHANGED <<channels, inside, tasks, canWrite, outbuf, inbound, bus, devsent,
                 background, dropped>>

WriteBreaks ==
  /\ canWrite /\ canWrite' = FALSE
  /\ UNCHANGED <<channels, inside, tasks, canRead, outbuf, inbound, bus, devsent,
                 background, dropped>>

\* How long task t may stay where it is, for the places that time bounds.
Timed(t) == pc[t] \in {"queued", "granted"} \/ (pc[t] = "port" /\ t = "reader")
Limit(t) ==
  Late + IF pc[t] = "queued" THEN Patience(t)
         ELSE IF pc[t] = "port" THEN ReadTimeout ELSE 0

Tick ==
  /\ \E t \in Tasks : Timed(t)
  /\ \A t \in Tasks : Timed(t) => age[t] < Limit(t)
  /\ age' = [t \in Tasks |-> IF Timed(t) THEN age[t] + 1 ELSE age[t]]
  /\ UNCHANGED <<channels, inside, pc, wmsg, rmsg, holder, queue, port, background, dropped>>

-----------------------------------------------------------------------------
WriterStep ==
  \/ WriterRecv \/ WriterFinishes
  \/ Lock("writer") \/ Wake("writer") \/ WriterLockTimeout
  \/ WriteFrame \/ WriteFails

ReaderStep ==
  \/ Lock("reader") \/ Wake("reader") \/ ReaderLockTimeout
  \/ ReadMessage \/ ReadTimesOut \/ ReadFails
  \/ Deliver \/ DeliverFails

Producer == \E p \in Producers : Send(p) \/ TrySend(p) \/ DropSender(p)

Next ==
  \/ Producer \/ ResumeSend \/ CancelSend
  \/ WriterStep \/ ReaderStep \/ BackgroundEnds
  \/ Receive \/ DropReceiver
  \/ DeviceTakes \/ DeviceSends \/ ReadBreaks \/ WriteBreaks
  \/ Tick

Spec == Init /\ [][Next]_vars

\* The executor runs every task that can go on, and time passes.  Strong
\* fairness: tokio's timeout asks the port before the clock, so a message or an
\* error that waits there is not timed out for ever.  Nothing is assumed of producers, and of
\* consumer and device only what their names say.
TaskFairness ==
  /\ WF_vars(WriterStep) /\ WF_vars(ReaderStep) /\ SF_vars(ReadMessage \/ ReadFails)
  /\ WF_vars(ResumeSend) /\ WF_vars(Tick)
DeviceDrains == WF_vars(DeviceTakes)
ConsumerReceives == WF_vars(Receive)

FairSpec == Spec /\ TaskFairness /\ DeviceDrains /\ ConsumerReceives
NoConsumerSpec == Spec /\ TaskFairness /\ DeviceDrains
StalledDeviceSpec == Spec /\ TaskFairness /\ ConsumerReceives

-----------------------------------------------------------------------------
(* Properties.                                                             *)

\* Types, and both channels and the output buffer within their capacities.
TypeOK ==
  /\ frames \in Seq(Message) /\ Len(frames) <= FrameCap
  /\ waiters \in Seq(Message) /\ accepted \in Seq(Message)
  /\ handles \subseteq Producers /\ offered \in [Producers -> 0..MaxSends]
  /\ msgs \in Seq(1..MaxInbound) /\ Len(msgs) <= MsgCap
  /\ receiver \in BOOLEAN /\ received \in Seq(1..MaxInbound)
  /\ pc \in [Tasks -> {"recv", "lock", "queued", "granted", "port", "deliver", "exited"}]
  /\ age \in [Tasks -> Nat]
  /\ wmsg \in Seq(Message) /\ rmsg \in Seq(1..MaxInbound)
  /\ holder \in Tasks \cup {NoOne} /\ queue \in Seq(Tasks)
  /\ background \in {"select", "ended"}
  /\ canRead \in BOOLEAN /\ canWrite \in BOOLEAN
  /\ outbuf \in Seq(Message) /\ Len(outbuf) <= OutCap
  /\ inbound \in Seq(1..MaxInbound)
  /\ bus \in Seq(Message) /\ devsent \in Seq(1..MaxInbound)
  /\ dropped \in Seq(Message)

\* One task at most uses the port, the lock is never left with a task that has
\* gone elsewhere, and a task waits exactly while someone else holds it: no
\* exit, timeout or hand-over leaks the guard or strands the waiter.
LockDiscipline ==
  /\ \A t \in Tasks : pc[t] \in {"granted", "port"} <=> holder = t
  /\ IF \E t \in Tasks : pc[t] = "queued"
     THEN holder # NoOne /\ \E t \in Tasks : pc[t] = "queued" /\ queue = <<t>>
     ELSE queue = <<>>

\* The write task is never without the lock so long that it gives up the
\* message it took from the channel, however the read task keeps the port busy:
\* it waits for one read at most.  That holds on an executor whose delays leave
\* the 5 s longer than one read.
Punctual == ReadTimeout + 2 * Late < WriteLockTimeout
NothingDropped == Punctual => dropped = <<>>

\* rest is all without the messages of lost, in the order of all.
IsRest(rest, all, lost) ==
  /\ Len(all) = Len(rest) + Len(lost)
  /\ {all[i] : i \in 1..Len(all)} = {rest[i] : i \in 1..Len(rest)} \cup {lost[i] : i \in 1..Len(lost)}
  /\ \A i, j \in 1..Len(all) : all[i] = all[j] => i = j
  /\ \A i, j \in 1..Len(rest) :
       i < j => \E k, l \in 1..Len(all) : k < l /\ all[k] = rest[i] /\ all[l] = rest[j]

\* On an executor that is late beyond that, messages the channel accepted are
\* given up without a word, but only those: the others stay in order, each once,
\* and none of them is lost while the write task runs.
OnlyGivenUpLost == ~IsClosed => IsRest(bus \o outbuf \o wmsg \o frames, accepted, dropped)

\* Closing is graceful: when the write task has ended on a port that still
\* takes writes, every message the channel accepted has been written.
DrainOnClose == IsClosed /\ canWrite /\ Punctual => bus \o outbuf = accepted

\* The two directions are lossless paths: what the device takes is what the
\* frame channel accepted, and what the consumer gets is what the device sent,
\* in order, nothing lost in between, doubled or overtaken, through serial errors,
\* cancelled sends and either half ending.
Outbound == INSTANCE FrameFifo
              WITH Payload <- Message, sent <- accepted, delivered <- bus
OutboundInOrder == Outbound!Spec
Inbound == INSTANCE FrameFifo
             WITH Payload <- 1..MaxInbound, sent <- devsent, delivered <- received
InboundInOrder == Inbound!Spec

\* Every message the channel accepts reaches the device, even if the consumer
\* never takes a message or the read task has ended.
OutboundProgress ==
  \A k \in 1..(MaxSends * Cardinality(Producers)) :
    (Len(accepted) >= k) ~> (Len(bus) >= k \/ ~canWrite)

\* No send stays suspended for ever: it gets its slot, or fails when the write
\* task ends.
SendersReleased ==
  \A p \in Producers : Waiting(p) ~> ~Waiting(p)

\* Every message the device sends gets into the message channel, the write task
\* ended or not, unless the consumer leaves that full.
InboundProgress ==
  \A k \in 1..MaxInbound :
    (Len(devsent) >= k)
      ~> (Len(received) + Len(msgs) >= k \/ Len(msgs) = MsgCap \/ ~canRead \/ ~receiver)

\* When writes fail, is_closed does not stay FALSE: the next message the channel
\* has accepted is the last, however the read task keeps the port busy.
BrokenPortCloses == Punctual /\ ~canWrite /\ frames # <<>> ~> IsClosed

\* A read error ends the read task, which closes the message channel for the
\* consumer, unless that leaves it full.
ReadErrorEndsReader == ~canRead ~> pc["reader"] = "exited" \/ Len(msgs) = MsgCap

\* What the comment on background_task says of the port: it is full-duplex, so
\* a frame to write does not wait for a read that has nothing to read.
FullDuplex ==
  ~(pc["writer"] = "queued" /\ pc["reader"] = "port" /\ inbound = <<>>)

\* What the module's documentation says of the two halves: they are
\* independent, so that the receiving one gets on although the device has
\* stopped taking frames.
HalvesIndependent == InboundProgress
=============================================================================
