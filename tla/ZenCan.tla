------------------------------ MODULE ZenCan -------------------------------
(***************************************************************************)
(* The zencan interface on top of split mode: ZenCanSender converts and    *)
(* sends, ZenCanReceiver receives and converts, and both report errors as  *)
(* zencan's traits ask.                                                    *)
(*                                                                         *)
(* There is one sender, and its send borrows it: no call begins before the *)
(* last one has ended or its future was dropped.  The caller is zencan's   *)
(* bus manager.  It has some messages to send, and one whose send failed   *)
(* or was dropped it sends again, as into_can_message hands it back.       *)
(***************************************************************************)
EXTENDS SplitMode, ZenCanMessage

CONSTANTS Requests,    \* the messages to send
          Incoming,    \* the messages the device sends: parsed_to_message makes
                       \* data frames only
          MaxFlushes   \* bound: calls of flush

ASSUME ZenAssumption ==
  /\ \E p \in Producers : Producers = {p}
  /\ IsFiniteSet(Requests) /\ \A z \in Requests : IsZenCanMessage(z)
  /\ Incoming \in Seq({m \in CanMessage : ~m.rtr}) /\ Len(Incoming) = MaxInbound
  /\ MaxFlushes \in Nat

VARIABLES todo,      \* messages the caller has yet to send, or to send again
          rejected,  \* messages that send refused: "Invalid CAN message"
          asked,     \* history: the messages given to split mode's send
          flushing,  \* the caller is in flush
          flushes,   \* number of calls of flush
          mark,      \* history: the last message delivered when flush began
          returned,  \* history: what recv and try_recv returned
          failed     \* recv has returned "Channel closed"

sender == <<todo, rejected, asked>>
recvr == <<flushing, flushes, mark, returned, failed>>
zvars == <<vars, sender, recvr>>

ZInit ==
  /\ Init
  /\ todo = Requests /\ rejected = {} /\ asked = <<>>
  /\ flushing = FALSE /\ flushes = 0 /\ mark = 0 /\ returned = <<>> /\ failed = FALSE

-----------------------------------------------------------------------------
(* ZenCanSender.                                                           *)

\* The message of a send that is suspended in the frame channel.
Suspended == {asked[waiters[i][2]] : i \in DOMAIN waiters}

\* Faulty: the error does not keep the message, as From<ClientError> builds it.
Placeholder(z) == ZenCanNew(FALSE, 0, <<>>)

\* into_can_message of the error that send returns for z.
HandedBack(z) == z

SendInvalid(z) ==
  /\ waiters = <<>> /\ z \in todo /\ FromZencan(z) = <<>>
  /\ todo' = todo \ {z} /\ rejected' = rejected \cup {HandedBack(z)}
  /\ UNCHANGED <<vars, asked, recvr>>

\* The send of split mode, up to where it returns or is suspended.
SendConverted(p, z) ==
  /\ waiters = <<>> /\ z \in todo /\ FromZencan(z) # <<>>
  /\ Send(p)
  /\ asked' = Append(asked, z)
  /\ todo' = IF IsClosed THEN (todo \ {z}) \cup {HandedBack(z)} ELSE todo \ {z}
  /\ UNCHANGED <<rejected, recvr>>

\* A suspended send fails when the write task ends.
WriteFailsForSender ==
  /\ WriteFails
  /\ todo' = todo \cup {HandedBack(z) : z \in Suspended}
  /\ UNCHANGED <<rejected, asked, recvr>>

\* The caller has kept the message: it is Copy.
DropSend ==
  /\ CancelSend
  /\ todo' = todo \cup Suspended
  /\ UNCHANGED <<rejected, asked, recvr>>

-----------------------------------------------------------------------------
(* ZenCanReceiver.                                                         *)

\* recv and try_recv, with a message in the channel.
Recv ==
  /\ ~flushing
  /\ Receive
  /\ returned' = Append(returned, [n |-> Head(msgs), after |-> mark,
                                   msg |-> ToZencan(Incoming[Head(msgs)])])
  /\ UNCHANGED <<sender, flushing, flushes, mark, failed>>

\* Faulty: the end of the read task is an error at once.
RecvFailsEarly ==
  /\ ~flushing /\ receiver /\ ~failed /\ pc["reader"] = "exited"
  /\ failed' = TRUE
  /\ UNCHANGED <<vars, sender, flushing, flushes, mark, returned>>

\* recv returns an error when the channel is empty and the read task, which
\* holds its only sender, has ended.
RecvFails ==
  /\ ~flushing /\ receiver /\ ~failed /\ msgs = <<>> /\ pc["reader"] = "exited"
  /\ failed' = TRUE
  /\ UNCHANGED <<vars, sender, flushing, flushes, mark, returned>>

FlushBegins ==
  /\ ~flushing /\ receiver /\ flushes < MaxFlushes
  /\ flushing' = TRUE /\ flushes' = flushes + 1
  /\ mark' = Len(received) + Len(msgs)
  /\ UNCHANGED <<vars, sender, returned, failed>>

\* One turn of flush: the read task may deliver between two of them.
FlushTakes ==
  /\ flushing /\ Receive
  /\ UNCHANGED <<sender, recvr>>

\* Faulty: flush may end whatever the channel still holds.
FlushEndsEarly ==
  /\ flushing
  /\ flushing' = FALSE
  /\ UNCHANGED <<vars, sender, flushes, mark, returned, failed>>

FlushEnds ==
  /\ flushing /\ msgs = <<>>
  /\ flushing' = FALSE
  /\ UNCHANGED <<vars, sender, flushes, mark, returned, failed>>

-----------------------------------------------------------------------------
ReceiverStep == Recv \/ RecvFails \/ FlushTakes \/ FlushEnds

\* Split mode's steps that are not steps of the interface.
Below ==
  /\ \/ \E p \in Producers : DropSender(p)
     \/ ResumeSend
     \/ WriterRecv \/ WriterFinishes
     \/ Lock("writer") \/ Wake("writer") \/ WriterLockTimeout \/ WriteFrame
     \/ ReaderStep \/ BackgroundEnds
     \/ ~flushing /\ DropReceiver
     \/ DeviceTakes \/ DeviceSends \/ ReadBreaks \/ WriteBreaks
     \/ Tick
  /\ UNCHANGED <<sender, recvr>>

ZNext ==
  \/ \E z \in Requests : SendInvalid(z)
  \/ \E p \in Producers, z \in Requests : SendConverted(p, z)
  \/ WriteFailsForSender \/ DropSend
  \/ ReceiverStep \/ FlushBegins
  \/ Below

ZSpec == ZInit /\ [][ZNext]_zvars

-----------------------------------------------------------------------------
(* Properties.                                                             *)

\* However sends are suspended, dropped, refused and tried again, and whenever
\* the write task ends: each message is to be sent, rejected, suspended or
\* accepted, one of them, and accepted once at most.  So the caller may send
\* again what an error hands back, and what it dropped: nothing goes out twice.
\* Only messages that no CanMessage can be are rejected.
Accepted == [i \in DOMAIN accepted |-> asked[accepted[i][2]]]
RequestsAccounted ==
  /\ Requests = UNION {todo, rejected, Suspended, {Accepted[i] : i \in DOMAIN Accepted}}
  /\ Cardinality(Requests) =
       Cardinality(todo) + Cardinality(rejected) + Len(waiters) + Len(Accepted)
  /\ \A z \in rejected : z.id \notin IdRange(z.ext) \/ z.dlc > 8

\* What enters the frame channel converts back to the message that was given to
\* send, but for the dlc of a remote frame; and what recv returns converts to
\* what the device sent.
ConversionsReverse ==
  /\ \A i \in DOMAIN Accepted :
       ToZencan(FromZencan(Accepted[i])[1])
         = IF Accepted[i].rtr THEN [Accepted[i] EXCEPT !.dlc = 0] ELSE Accepted[i]
  /\ \A i \in DOMAIN returned : FromZencan(returned[i].msg) = <<Incoming[returned[i].n]>>

\* flush leaves nothing of what the channel held when it was called, however
\* the read task goes on delivering: what recv returns later was delivered
\* later, in order.
FlushedIsGone ==
  /\ \A i \in DOMAIN returned : returned[i].n > returned[i].after
  /\ \A i, j \in DOMAIN returned : i < j => returned[i].n < returned[j].n

\* recv reports an error when every message that was read from the port has
\* been returned or flushed, and none before.
ClosedMeansDrained == failed => received \o inbound = devsent
=============================================================================
