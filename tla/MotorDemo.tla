----------------------------- MODULE MotorDemo -----------------------------
(***************************************************************************)
(* main of the motor example on split mode: its commands, with a sleep     *)
(* between them, and the end of its runtime, which stops all tasks.        *)
(*                                                                         *)
(* Each sleep is taken to be long enough: the device has all frames when   *)
(* it ends, or the port is broken.  main is the one producer.              *)
(***************************************************************************)
EXTENDS SplitMode, MotorFrames
LOCAL INSTANCE SequencesExt

VARIABLE main    \* where main is
mvars == <<vars, main>>

MOTOR_ADDR == 1

\* run_demo: each of its commands is followed by a sleep.
Demo ==
  <<reset_clog_pro(MOTOR_ADDR), en_control(MOTOR_ADDR, TRUE, FALSE),
    vel_control(MOTOR_ADDR, 0, 500, 30000, FALSE), stop_now(MOTOR_ADDR, FALSE),
    bypass_pos_lv_control(MOTOR_ADDR, 0, 15000, 36000, 2, FALSE),
    bypass_pos_lv_control(MOTOR_ADDR, 1, 15000, 36000, 2, FALSE),
    Batch(0, Load(Load(<<>>, stop_now(MOTOR_ADDR, FALSE)), reset_cur_pos_to_zero(MOTOR_ADDR)))>>

\* What main sends after it.
PowerDown == <<stop_now(MOTOR_ADDR, FALSE), en_control(MOTOR_ADDR, FALSE, FALSE)>>

FramesOfAll(cmds) == FlattenSeq([i \in DOMAIN cmds |-> FramesOf(cmds[i])])

\* The frame channel gets the frames of main, one message each.
MainFrames == FramesOfAll(Demo \o PowerDown)

\* Frames with a sleep before them.
AfterSleep == {Len(FramesOfAll(SubSeq(Demo, 1, k))) + 1 : k \in 1..Len(Demo)}
SleepOver == frames \o wmsg \o outbuf = <<>> \/ ~canWrite

MInit == Init /\ main = "running"

\* MotorCan::send_frame expects that no send fails.
SendFrame(p) ==
  /\ main = "running" /\ offered[p] < Len(MainFrames) /\ Send(p)
  /\ offered'[p] \in AfterSleep => SleepOver
  /\ main' = IF IsClosed THEN "panicked" ELSE main

SendPanics ==
  /\ main = "running" /\ WriteFails
  /\ main' = IF waiters # <<>> THEN "panicked" ELSE main

\* "== 5. ..." is printed.
PrintStopped(p) ==
  /\ main = "running" /\ offered[p] = Len(MainFrames) /\ ~Waiting(p)
  /\ main' = "printed" /\ UNCHANGED vars

MainReturns == main = "printed" /\ main' = "returned" /\ UNCHANGED vars

\* The tasks of the runtime, among them the one that drains the receiver.
RuntimeRuns ==
  /\ main \in {"running", "printed"}
  /\ \/ ResumeSend
     \/ WriterRecv
     \/ Lock("writer") \/ Wake("writer") \/ WriterLockTimeout \/ WriteFrame
     \/ main = "printed" /\ WriteFails
     \/ ReaderStep \/ BackgroundEnds
     \/ Receive
     \/ Tick
  /\ UNCHANGED main

\* What goes on without it.
DeviceRuns == (DeviceTakes \/ DeviceSends \/ ReadBreaks \/ WriteBreaks) /\ UNCHANGED main

MNext ==
  \/ \E p \in Producers : SendFrame(p) \/ PrintStopped(p)
  \/ SendPanics \/ MainReturns
  \/ RuntimeRuns \/ DeviceRuns

MSpec == MInit /\ [][MNext]_mvars

\* What main prints before it returns: the motor has been stopped and powered
\* off.  So on a port that works no frame that main sent may be left behind
\* when the runtime is gone.
StoppedAndPoweredOff == main = "returned" /\ canWrite => bus \o outbuf = accepted
=============================================================================
