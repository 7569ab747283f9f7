----------------------------- MODULE MotorBus ------------------------------
(***************************************************************************)
(* The motor controller's program on the CAN bus: transactions that pack   *)
(* commands into one, send_cmd that cuts a command into frames, write_read *)
(* that waits for an answer, in its polling and its async form, and the    *)
(* motors.                                                                 *)
(*                                                                         *)
(*   caller -> send_cmd -> toMotors -> motors -> toCaller -> write_read    *)
(*                                                                         *)
(* Both directions of the bus are FIFO, which is what SplitMode shows of   *)
(* the adapter below.  The caller may drop the future of an async call at  *)
(* each of its awaits: the traits leave timeouts to it.  A frame that a    *)
(* motor sends is an opaque value with the number of the call it answers   *)
(* and which part of the answer it is, which the program does not see; a   *)
(* report of its own has 0 for both.                                       *)
(***************************************************************************)
EXTENDS MotorFrames

CONSTANTS Motors,       \* their addresses
          PollLimit,    \* poll_limit of a polling write_read
          Menus         \* bound: what a caller may send, in how many calls
                        \* and loads, and how often the motors report

Byte == 0..255
ASSUME MotorAssumption == Motors \subseteq 1..255
ASSUME PollAssumption == PollLimit \in Nat

-----------------------------------------------------------------------------
(* Function codes.                                                         *)

\* How long a motor expects a command to be, by its function code.
CodesByLength ==
  {<<3, {\h22, \h3F, \h1A, \h21, \h41, \h13, \h16, \h23}
          \cup {SysParams[s] : s \in DOMAIN SysParams \ {"Sys"}}>>,
   <<4, {\h06, \h08, \h0A, \h0E, \h0F, \hFF, \h9C, \h50, \h49, \h43, \h42}>>,
   <<5, {\hFE, \h93, \h9A}>>,
   <<6, {\hF3, \hAE, \h84, \hD7, \hD5, \h46, \hD4, \hD0, \h4F}>>,
   <<7, {\hFC, \h5C, \h44, \h45, \hD1, \h11}>>, <<9, {\hF5, \hF6, \h68, \h4B}>>,
   <<11, {\hC5, \hC6, \hD3}>>, <<12, {\hFB}>>, <<13, {\hF1}>>, <<14, {\hCB}>>, <<16, {\hFD}>>,
   <<18, {\hCD}>>, <<19, {\hD9}>>, <<20, {\h4C}>>, <<21, {\h4A}>>}
LengthOf(code) == (CHOOSE row \in CodesByLength : code \in row[2])[1]

\* A command: no batch is sent as one or loaded into another, and each has the
\* length that the motor expects.
IsCommand(c) ==
  /\ c \in Seq(Byte) /\ Len(c) >= 3 /\ Len(c) <= MAX_CMD_LEN
  /\ c[2] # \hAA /\ Len(c) = LengthOf(c[2])
\* send_cmd and write_read take any slice: one of up to two bytes has no frame.
IsShort(c) == c \in Seq(Byte) /\ Len(c) <= 2
ASSUME MenuAssumption ==
  \A name \in DOMAIN Menus :
    /\ \A c \in Menus[name].commands : IsCommand(c) \/ IsShort(c)
    /\ \A c \in Menus[name].loads : IsCommand(c)
    /\ Menus[name].kinds \subseteq {"send", "poll", "await"}
    /\ {Menus[name].calls, Menus[name].maxLoads, Menus[name].reports} \subseteq Nat

-----------------------------------------------------------------------------
VARIABLES menu,      \* which menu this caller has
          txn,       \* Transaction: the bytes loaded
          loads,     \* history: the commands they are from, and where each begins
          issued,    \* history: the calls, with what was sent
          call,      \* where the caller is in the last of them
          toMotors,  \* frames on their way to the motors
          partial,   \* what each motor has of a command
          taken,     \* history: the commands each motor took, with their calls
          todo,      \* the frames each motor has yet to answer with
          toCaller,  \* frames on their way back
          got,       \* history: the answers that write_read returned
          reports    \* number of reports

packing == <<menu, txn, loads>>
motors == <<partial, taken, todo>>
vars == <<packing, issued, call, toMotors, motors, toCaller, got, reports>>

Idle == [at |-> "idle", sent |-> 0, polls |-> 0, fresh |-> FALSE]

Init ==
  /\ menu \in DOMAIN Menus
  /\ txn = <<>> /\ loads = <<>>
  /\ issued = <<>> /\ call = Idle
  /\ toMotors = <<>>
  /\ partial = [a \in Motors |-> <<>>]
  /\ taken = [a \in Motors |-> <<>>]
  /\ todo = [a \in Motors |-> <<>>]
  /\ toCaller = <<>> /\ got = <<>> /\ reports = 0

This == Len(issued)
Cmd == issued[This].cmd
Kind == issued[This].kind

-----------------------------------------------------------------------------
(* Transactions.                                                           *)

LoadCommand(cmd) ==
  /\ call.at = "idle" /\ This < Menus[menu].calls /\ Len(loads) < Menus[menu].maxLoads
  /\ txn' = Load(txn, cmd) /\ loads' = Append(loads, [at |-> Len(txn), cmd |-> cmd])
  /\ UNCHANGED <<menu, issued, call, toMotors, motors, toCaller, got, reports>>

-----------------------------------------------------------------------------
(* The caller: send_cmd ("send"), and write_read of CanBus ("poll") and of *)
(* AsyncCanBus ("await").                                                  *)

\* Earlier frames are on their way to motor a or from it, or it is to answer.
Outstanding(a) ==
  \/ \E i \in DOMAIN toCaller : toCaller[i].from = a /\ toCaller[i].of # 0
  \/ todo[a] # <<>>
  \/ \E i \in DOMAIN toMotors : toMotors[i].frame.ext_id \div 256 = a

\* Where a call is that has nothing to send (any more): send_cmd returns, and so
\* does write_read of an empty slice; any other write_read reads.
AfterSend(kind, cmd) == IF kind = "send" \/ cmd = <<>> THEN "idle" ELSE "waiting"

Start(kind, cmd, loaded) ==
  /\ call.at = "idle" /\ This < Menus[menu].calls
  /\ issued' = Append(issued, [kind |-> kind, cmd |-> cmd, loads |-> loaded, whole |-> FALSE])
  /\ call' = [at |-> IF FramesOf(cmd) # <<>> THEN "sending" ELSE AfterSend(kind, cmd),
              sent |-> 0, polls |-> PollLimit,
              fresh |-> cmd # <<>> /\ cmd[1] \in Motors /\ ~Outstanding(cmd[1])]
  /\ UNCHANGED <<menu, toMotors, motors, toCaller, got, reports>>

Call(kind, cmd) == Start(kind, cmd, <<>>) /\ UNCHANGED <<txn, loads>>

\* The batch goes to all motors.  An empty transaction commits to None and
\* nothing is sent.
CommitAndSend ==
  /\ txn # <<>>
  /\ Start("send", Batch(0, txn), loads)
  /\ txn' = <<>> /\ loads' = <<>>

\* One turn of the loop of send_cmd, up to the end of its await.
SendFrame ==
  /\ call.at = "sending"
  /\ LET n == call.sent + 1
         last == n = Len(FramesOf(Cmd))
     IN  /\ toMotors' = Append(toMotors, [frame |-> FramesOf(Cmd)[n], call |-> This])
         /\ issued' = [issued EXCEPT ![This].whole = last]
         /\ call' = [call EXCEPT !.sent = n,
                       !.at = IF last THEN AfterSend(Kind, Cmd) ELSE "sending"]
  /\ UNCHANGED <<packing, motors, toCaller, got, reports>>

\* Faulty: the answer may come from any motor.
FromAnyone(frame) == TRUE

FromMotor(frame) == frame.from = Cmd[1]

\* Faulty: the frame is looked at and stays.
PeekFrame == UNCHANGED toCaller

\* try_receive_frame and receive_frame take the oldest frame.
ReceiveFrame == toCaller' = Tail(toCaller)

\* write_read takes the next frame: the answer if the motor sent it, dropped
\* otherwise.
TakeFrame ==
  /\ call.at = "waiting" /\ toCaller # <<>>
  /\ Kind = "poll" => call.polls > 0
  /\ LET frame == Head(toCaller) IN
       IF FromMotor(frame)
       THEN /\ call' = Idle
            /\ got' = Append(got, [call |-> This, from |-> frame.from, of |-> frame.of,
                                   part |-> frame.part, fresh |-> call.fresh])
       ELSE /\ call' = [call EXCEPT !.polls = IF Kind = "poll" THEN @ - 1 ELSE @]
            /\ UNCHANGED got
  /\ ReceiveFrame
  /\ UNCHANGED <<packing, issued, toMotors, motors, reports>>

\* Faulty: a poll that finds nothing is not counted.
PollUncounted ==
  /\ call.at = "waiting" /\ Kind = "poll" /\ call.polls > 0 /\ toCaller = <<>>
  /\ UNCHANGED vars

\* A poll that finds nothing.
PollNothing ==
  /\ call.at = "waiting" /\ Kind = "poll" /\ call.polls > 0 /\ toCaller = <<>>
  /\ call' = [call EXCEPT !.polls = @ - 1]
  /\ UNCHANGED <<packing, issued, toMotors, motors, toCaller, got, reports>>

\* None: the polls are used up.
PollsUsedUp ==
  /\ call.at = "waiting" /\ Kind = "poll" /\ call.polls = 0
  /\ call' = Idle
  /\ UNCHANGED <<packing, issued, toMotors, motors, toCaller, got, reports>>

\* The caller drops the future of an async call, in send_cmd or in write_read.
Abandon ==
  /\ call.at # "idle" /\ Kind # "poll"
  /\ call' = Idle
  /\ UNCHANGED <<packing, issued, toMotors, motors, toCaller, got, reports>>

\* Between calls the caller may go on reading, for the rest of a long answer.
ReadOn ==
  /\ call.at = "idle" /\ toCaller # <<>>
  /\ ReceiveFrame
  /\ UNCHANGED <<packing, issued, call, toMotors, motors, got, reports>>

-----------------------------------------------------------------------------
(* The motors.                                                             *)

Expected(bytes) ==
  IF bytes[2] = \hAA THEN bytes[3] * 256 + bytes[4] ELSE LengthOf(bytes[2])

\* What a motor has of a command after a frame: packet 0 begins one, the next
\* packet with the same address and function code goes on with it.
Assemble(bytes, frame) ==
  LET addr == frame.ext_id \div 256
      pack == frame.ext_id % 256
  IN  IF pack = 0 THEN <<addr>> \o frame.data
      ELSE IF bytes # <<>> /\ SubSeq(bytes, 1, 2) = <<addr, Head(frame.data)>>
                           /\ Len(bytes) = 7 * pack + 2
           THEN bytes \o Tail(frame.data)
           ELSE <<>>

Complete(bytes) == bytes # <<>> /\ Len(bytes) = Expected(bytes)

\* The system state comes in two frames, everything else in one.  Nobody
\* answers a broadcast.
Answers(a, bytes, k) ==
  IF bytes[1] # a THEN <<>>
  ELSE [n \in 1..(IF bytes[2] = \h43 THEN 2 ELSE 1) |-> [from |-> a, of |-> k, part |-> n]]

\* A frame reaches every motor: its own and the broadcasts concern it.
DeliverFrame ==
  /\ toMotors # <<>>
  /\ LET m == Head(toMotors)
         hears(a) == m.frame.ext_id \div 256 \in {0, a}
         now(a) == Assemble(partial[a], m.frame)
     IN  /\ partial' = [a \in Motors |-> IF ~hears(a) THEN partial[a]
                                         ELSE IF Complete(now(a)) THEN <<>> ELSE now(a)]
         /\ taken' = [a \in Motors |->
              IF hears(a) /\ Complete(now(a))
              THEN Append(taken[a], [call |-> m.call, cmd |-> now(a)]) ELSE taken[a]]
         /\ todo' = [a \in Motors |-> IF hears(a) /\ Complete(now(a))
                                      THEN todo[a] \o Answers(a, now(a), m.call) ELSE todo[a]]
  /\ toMotors' = Tail(toMotors)
  /\ UNCHANGED <<packing, issued, call, toCaller, got, reports>>

Reply(a) ==
  /\ todo[a] # <<>>
  /\ toCaller' = Append(toCaller, Head(todo[a]))
  /\ todo' = [todo EXCEPT ![a] = Tail(@)]
  /\ UNCHANGED <<packing, issued, call, toMotors, partial, taken, got, reports>>

\* A motor reports by itself.
Report(a) ==
  /\ reports < Menus[menu].reports
  /\ reports' = reports + 1
  /\ toCaller' = Append(toCaller, [from |-> a, of |-> 0, part |-> 0])
  /\ UNCHANGED <<packing, issued, call, toMotors, motors, got>>

-----------------------------------------------------------------------------
Caller ==
  \/ \E c \in Menus[menu].commands, kind \in Menus[menu].kinds : Call(kind, c)
  \/ \E c \in Menus[menu].loads : LoadCommand(c)
  \/ CommitAndSend
  \/ Abandon \/ ReadOn

\* The steps a call takes by itself.
CallStep == SendFrame \/ TakeFrame \/ PollNothing \/ PollsUsedUp

Next == Caller \/ CallStep \/ DeliverFrame \/ \E a \in Motors : Reply(a) \/ Report(a)

Spec == Init /\ [][Next]_vars

\* The caller's executor runs the call, the bus delivers and motors answer.
FairSpec ==
  Spec /\ WF_vars(CallStep) /\ WF_vars(DeliverFrame) /\ \A a \in Motors : WF_vars(Reply(a))

-----------------------------------------------------------------------------
(* Properties.                                                             *)

TypeOK ==
  /\ menu \in DOMAIN Menus /\ txn \in Seq(Byte) /\ Len(txn) <= MMCL_LEN
  /\ call.at \in {"idle", "sending", "waiting"} /\ call.sent \in Nat /\ call.polls \in 0..PollLimit
  /\ \A i \in DOMAIN issued : issued[i].cmd \in Seq(Byte)
  /\ \A i \in DOMAIN toMotors :
       /\ toMotors[i].frame.ext_id < 65536
       /\ toMotors[i].frame.data # <<>> /\ Len(toMotors[i].frame.data) <= 8
  /\ \A a \in Motors : partial[a] \in Seq(Byte)

\* However sends are cut into frames, dropped between two of them and followed
\* by others, a motor takes whole commands only, in the order they were sent,
\* and it has taken them all when no frame is on its way.
MotorsTakeWholeCommands ==
  \A a \in Motors :
    /\ \A i, j \in DOMAIN taken[a] : i < j => taken[a][i].call < taken[a][j].call
    /\ \A i \in DOMAIN taken[a] :
         LET k == taken[a][i].call
         IN  /\ k \in DOMAIN issued /\ issued[k].whole
             /\ taken[a][i].cmd = issued[k].cmd /\ issued[k].cmd[1] \in {0, a}
    /\ toMotors = <<>> =>
         \A k \in DOMAIN issued : issued[k].whole /\ issued[k].cmd[1] \in {0, a} =>
           \E i \in DOMAIN taken[a] : taken[a][i].call = k

\* A motor cuts a batch apart by the lengths of the commands in it, as far as the
\* next one is there whole.
CanCut(bytes, at) ==
  at + 2 <= Len(bytes) /\ at + LengthOf(bytes[at + 2]) <= Len(bytes)

\* What it cuts out are the commands that were loaded, in order from the first,
\* up to the end of the batch: one that is missing had no room left, and none
\* that comes after it is there.
IsCutInto(bytes, cmds) ==
  LET at(i) == IF i <= Len(cmds) THEN cmds[i].at ELSE Len(bytes) IN
    /\ at(1) = 0
    /\ \A i \in 1..Len(cmds) :
         IF CanCut(bytes, at(i))
         THEN LET end == at(i) + LengthOf(bytes[at(i) + 2])
              IN  SubSeq(bytes, at(i) + 1, end) = cmds[i].cmd /\ at(i + 1) = end
         ELSE Len(bytes) = MMCL_LEN /\ at(i + 1) = Len(bytes)
BatchIsPrefix ==
  \A k \in DOMAIN issued :
    LET c == issued[k]
    IN  c.loads # <<>> => IsCutInto(SubSeq(c.cmd, 5, Len(c.cmd) - 1), c.loads)

\* write_read returns the answer to its own command, if nothing was under way
\* to or from that motor when it was called: otherwise it may be an older one.
\* Reports of the motor may come first at any time.
FreshAnswerIsOwn ==
  \A i \in DOMAIN got :
    /\ got[i].from = issued[got[i].call].cmd[1]
    /\ got[i].of # 0 /\ got[i].fresh => got[i].of = got[i].call

\* Whatever was abandoned or ran out of polls before, the answers of a motor are
\* returned in the order of the commands and of the parts of an answer, each
\* once, and only answers to commands that were sent to it whole.
Earlier(x, y) == x.of < y.of \/ (x.of = y.of /\ x.part < y.part)
AnswersInOrder ==
  /\ \A i, j \in DOMAIN got :
       i < j /\ got[i].from = got[j].from /\ got[i].of # 0 /\ got[j].of # 0
         => Earlier(got[i], got[j])
  /\ \A i \in DOMAIN got : got[i].of # 0 =>
       LET k == got[i].of
       IN  /\ k <= got[i].call /\ issued[k].whole
           /\ got[i].part \in DOMAIN Answers(got[i].from, issued[k].cmd, k)

\* No call that sent a motor its command waits for ever, nor does a polling one,
\* whatever it sent and to whomever.
Waits ==
  /\ call.at = "waiting"
  /\ Kind = "poll" \/ (FramesOf(Cmd) # <<>> /\ Cmd[1] \in Motors)
CallsEnd == Waits ~> call.at # "waiting"
=============================================================================
