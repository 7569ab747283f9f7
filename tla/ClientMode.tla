----------------------------- MODULE ClientMode -----------------------------
(***************************************************************************)
(* The writing half of Transport as client mode uses it: new, which sends  *)
(* the settings frame, and write, over a port that takes bytes as it can.  *)
(*                                                                         *)
(* Both are a write_all and a flush.  The caller may drop the future of    *)
(* either at an await; what the port had taken of the frame stays on the   *)
(* wire and the next write follows it.                                     *)
(***************************************************************************)
EXTENDS SettingsFrame

CONSTANTS Configs,       \* settings callers ask for
          Messages,      \* messages they write
          MaxWrites,     \* bound: writes of a client
          MaxTorn        \* bound: writes that are dropped or fail

ASSUME ClientAssumption ==
  /\ Configs \subseteq Config
  /\ Messages \subseteq CanMessage
  /\ MaxWrites \in Nat /\ MaxTorn \in Nat

VARIABLES config,        \* what new was given
          pc,            \* "idle", "closed" or the place of the running call
          job,           \* the message it writes; none while new runs
          pending,       \* bytes of its frame the port has not taken
          up,            \* FALSE: the device is unplugged
          wire,          \* history: bytes the port took
          writes,        \* number of writes
          torn,          \* number of those that did not return Ok
          tail           \* history: messages of those that did, since the last other

vars == <<config, pc, job, pending, up, wire, writes, torn, tail>>

\* new: the settings frame goes first.
Init ==
  /\ config \in Configs
  /\ pc = "write" /\ job = <<>> /\ pending = BuildSettingsFrame(config)
  /\ up = TRUE
  /\ wire = <<>> /\ writes = 0 /\ torn = 0 /\ tail = <<>>

Write(m) ==
  /\ pc = "idle" /\ writes < MaxWrites
  /\ pc' = "write"
  /\ job' = <<m>> /\ pending' = BuildDataFrame(m).bytes
  /\ writes' = writes + 1
  /\ UNCHANGED <<config, up, wire, torn, tail>>

\* A faulty variant the runs must tell apart: write in place of write_all.
WriteOnce ==
  /\ pc = "write" /\ up
  /\ \E n \in 1..Len(pending) :
       /\ wire' = wire \o SubSeq(pending, 1, n)
       /\ pending' = <<>>
  /\ pc' = "flush"
  /\ UNCHANGED <<config, job, up, writes, torn, tail>>

\* write_all goes on until the port has taken every byte.
WriteAll ==
  /\ pc = "write" /\ up
  /\ \E n \in 1..Len(pending) :
       /\ wire' = wire \o SubSeq(pending, 1, n)
       /\ pending' = SubSeq(pending, n + 1, Len(pending))
       /\ pc' = IF n = Len(pending) THEN "flush" ELSE "write"
  /\ UNCHANGED <<config, job, up, writes, torn, tail>>

\* new waits 100 ms for the adapter; a write returns Ok.
Flush ==
  /\ pc = "flush" /\ up
  /\ IF job = <<>> THEN pc' = "settle" ELSE pc' = "idle"
  /\ job' = <<>> /\ tail' = tail \o job
  /\ UNCHANGED <<config, pending, up, wire, writes, torn>>

Settle ==
  /\ pc = "settle" /\ pc' = "idle"
  /\ UNCHANGED <<config, job, pending, up, wire, writes, torn, tail>>

\* Faulty: what the port has not taken is kept.
GiveUpKeepsRest ==
  /\ IF job = <<>>
     THEN pc' = "closed" /\ UNCHANGED <<torn, tail>>
     ELSE pc' = "idle" /\ torn' = torn + 1 /\ tail' = <<>>
  /\ job' = <<>>
  /\ UNCHANGED <<config, pending, up, wire, writes>>

\* The running call ends without Ok.  new takes the port with it.
GiveUp ==
  /\ IF job = <<>>
     THEN pc' = "closed" /\ UNCHANGED <<torn, tail>>
     ELSE pc' = "idle" /\ torn' = torn + 1 /\ tail' = <<>>
  /\ job' = <<>> /\ pending' = <<>>
  /\ UNCHANGED <<config, up, wire, writes>>

\* An error of the port ends the call.
WriteFails == pc \in {"write", "flush"} /\ ~up /\ GiveUp

\* The caller drops the future at one of its awaits.
Cancel == pc \in {"write", "flush", "settle"} /\ torn < MaxTorn /\ GiveUp

Unplug ==
  /\ up /\ up' = FALSE
  /\ UNCHANGED <<config, pc, job, pending, wire, writes, torn, tail>>

Next ==
  \/ \E m \in Messages : Write(m)
  \/ WriteAll \/ Flush \/ Settle
  \/ WriteFails \/ Cancel
  \/ Unplug

Spec == Init /\ [][Next]_vars

-----------------------------------------------------------------------------
(* Properties.                                                             *)

\* new has sent the settings and the call that runs, if any, is a write.
Opened == pc \in {"settle", "idle"} \/ job # <<>>

Settings == SubSeq(wire, 1, CMD_FRAME_SIZE)
Data == SubSeq(wire, CMD_FRAME_SIZE + 1, Len(wire))

\* The messages the protocol's own scanner finds in a stream.
Scan(stream) ==
  LET from[i \in 0..Len(stream)] ==
        LET p == ParseNextFrame(SubSeq(stream, i + 1, Len(stream)))
        IN  IF p.frame = <<>> THEN <<>>
            ELSE ParsedToMessage(p.frame[1]) \o from[i + p.consumed]
  IN  from[0]

TypeOK ==
  /\ config \in Config
  /\ pc \in {"write", "flush", "settle", "idle", "closed"}
  /\ job \in Seq(CanMessage) /\ Len(job) <= 1
  /\ pending \in Seq(Byte) /\ wire \in Seq(Byte)
  /\ pc # "write" => pending = <<>>
  /\ up \in BOOLEAN
  /\ writes \in 0..MaxWrites /\ torn \in 0..MaxWrites
  /\ tail \in Seq(Messages)

\* The wire begins with one whole settings frame, which says by its documented
\* layout what the caller asked for, before a byte of any message.
ConfigArrives ==
  Opened => WellFormed(Settings) /\ SettingsOf(Settings) = config

\* Writes that all returned Ok are on the wire, whole and in order, and nothing
\* else is: the scanner reads the same messages back.
WritesReadBack == pc = "idle" /\ torn = 0 => Scan(Data) = tail

\* Part of a frame, left by a write that was dropped or failed, costs at most
\* three of the messages written after it when these hold no start byte: the
\* scanner takes what follows for its rest, and finds its way back.
TornWriteBounded ==
  pc = "idle" =>
    LET scanned == Scan(Data)
    IN  \A n \in 1..(Len(tail) - 3) :
          /\ Len(scanned) >= n
          /\ scanned[Len(scanned) + 1 - n] = tail[Len(tail) + 1 - n]
=============================================================================
