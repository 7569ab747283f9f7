# A TLA+ model of usb-can-rs

usb-can-rs drives a CAN adapter (the Waveshare USB-CAN-A) over a serial port.
This directory models what is hard about that: finding frames in a byte stream
that is cut, delayed and dirty; two background tasks that share one serial
port between senders and a receiver; and, on top of them, a CANopen interface
and a motor controller whose calls may be dropped halfway. TLC checks the models on small instances
and TLAPS proves the main results for every value of the constants.

Source paths below are relative to the repository's root.

## The system

| part | source | state | operations |
| --- | --- | --- | --- |
| data frames of the Waveshare protocol | `src/protocol/waveshare_usb_can_a.rs`, `src/protocol/mod.rs` | none | `build_data_frame(_into)`, `parse_next_frame` |
| settings frame, speeds, modes | same file | `Config` | `build_settings_frame`, `generate_checksum`, `CanSpeed::try_from` / `as_bps` |
| CAN messages | `src/message.rs` | id, data, dlc, rtr | `new`, `new_remote`, accessors, `raw_id`, `id_from_raw` (the last two are not modelled) |
| transport | `src/adapters/tokio_serial.rs` 94-218 | serial port, `rx_buffer`, `rx_length` | `new`, `send_settings`, `write_frame`, `read_frame`, `try_read_frame` |
| client mode | same, 374-408 | the transport, exclusively | `write`, `read`, `try_read` |
| split mode | same, 224-367 | two bounded channels, one mutex around the transport, two tasks | `split`, `send`, `try_send`, `is_closed`, `background_task` |
| zencan interface | `src/interfaces/zencan_tokio_serial.rs` | a sender or a receiver of split mode | `from_zencan`, `to_zencan`, `send`, `recv`, `try_recv`, `flush` |
| motor controller example | `examples/tokio_serial_step_motor_ctrl.rs` | transactions, a `MotorCan` over the sender of split mode | `send_cmd`, `Transaction`, `write_read`, `run_demo`, `main` |
| logging, nusb adapter, other examples | `src/logging.rs`, `src/adapters/nusb.rs`, `examples/` | none | not modelled: formatting, an unbuilt plan, demonstrations |

How they interact:

    zencan bus manager, motor program (call the senders and receivers below)

    producers --send/try_send--> frame channel --> write task --\
                                                                 mutex -- transport -- serial port -- adapter
    consumer <-----recv--------- message channel <- read task --/

In client mode the caller owns the transport and calls it directly; the methods
take `&mut self`, so one call runs at a time, but an `async` call may be dropped
at an await. In split mode the transport sits behind one `tokio::sync::Mutex`
that both tasks lock, each with a timeout of its own (100 ms and 5 s); the read
task holds it for a `read_frame` of at most 50 ms. `background_task` waits for
the first of the two tasks to end and drops the handle of the other, which
detaches it.

### What is hard, and what makes each part correct

* *Data frames.* Payloads may contain start bytes, headers and footers. A frame
  that was built must be found and read back unchanged, whatever surrounds it
  (`RoundTrip`).
* *Transport.* The stream arrives in arbitrary pieces; timeouts, serial errors
  and dropped futures fall between them; noise may look like a header. Nothing
  received may be lost, doubled or reordered (`BytesInOrder`, `DecodesStream`,
  `DeliversInOrder`), the buffer must never overflow (`NoOverflow`), a read must
  not sleep on a message it has (`NothingParsableWhileWaiting`), must return
  (`ReadReturns`), and the scan must find its way back after noise
  (`Resynchronises`). A call that only polls never asks the port
  (`PollsLeavePort`): whoever makes no other calls gets no message.
* *Client mode.* Two things can go wrong on the way out that no read can make
  good. The adapter must get its settings whole and first, whatever happens to
  the future of `new` (`ConfigArrives`). And a `write` that is dropped or fails
  inside `write_all` leaves the head of a frame on the wire, behind which the
  next frame begins: this may cost only a few of the frames behind it
  (`TornWriteBounded`), and writes that succeed must arrive as written
  (`WritesReadBack`).
* *Split mode.* Two tasks, many producers, a consumer, each of which may stop or
  go away at any time, and lock timeouts that race hand-overs. The lock must not
  leak (`LockDiscipline`), accepted messages must not be given up, lost or
  reordered (`NothingDropped`, `OutboundInOrder`, `InboundInOrder`), closing must
  drain (`DrainOnClose`), and each direction must make progress whatever happens
  to the other (`OutboundProgress`, `SendersReleased`, `InboundProgress`,
  `ReadErrorEndsReader`). A port that refuses writes must show in `is_closed`
  sooner or later (`BrokenPortCloses`).
* *zencan interface.* A send may be refused, suspended, dropped or fail when the
  write task ends, and the caller sends again what it gets back: nothing may be
  lost or doubled by that (`RequestsAccounted`). `flush` runs while the read task
  delivers (`FlushedIsGone`), and an error of `recv` must not overtake messages
  (`ClosedMeansDrained`). The conversions lose the dlc of remote frames and must
  lose nothing else (`ConversionsReverse`).
* *Motor controller.* A command may need several frames, and the future of
  `send_cmd` may be dropped between two of them (`MotorsTakeWholeCommands`). A
  transaction cuts off what does not fit (`BatchIsPrefix`). An answer carries no
  number: which call it belongs to depends on what was abandoned before
  (`FreshAnswerIsOwn`, `AnswersInOrder`), and calls must end (`CallsEnd`). `main`
  must not return before its last commands are out (`StoppedAndPoweredOff`; it
  does).

The full list of hazards, with the lines where they bite and the properties
that cover them, is in `PROJECT.json`.

## The modules

| module | what it is |
| --- | --- |
| `WaveshareWire` | the codec as pure operators: building and scanning of data frames |
| `WaveshareWireProofs` | lemmas about them: the scan ends and at one offset, what it leaves is short, windows of buffers, the round trip, the frame of a message |
| `WireCheck`, `WireCheckProofs` | a frame between other bytes, and the theorem `RoundTripHolds` |
| `SettingsFrame` | the settings frame as pure operators, and a reading of it by its documented layout |
| `ClientMode` | the writing half of `Transport` over a port that takes bytes as it can |
| `ClientModeProofs` | speeds and settings read back, `SettingsFirst`, and what the scanner finds of the bytes written, proved |
| `StreamDecoder` | abstract: a scan over the whole received stream delivers the messages of the frames it passes |
| `FrameFifo` | abstract: a lossless FIFO path for messages |
| `RxTransport` | the receiving half of `Transport`; implements `StreamDecoder`, and `FrameFifo` on a line whose noise costs nothing |
| `RxTransportProofs` | its invariants, what noise costs, and the refinements of `StreamDecoder` and `FrameFifo`, proved |
| `SplitMode` | senders, channels, tasks, mutex, port; implements `FrameFifo` in both directions |
| `SplitModeProofs` | types, the lock discipline and `NothingDropped`, proved |
| `SplitModePaths` | both directions implement `FrameFifo`, `DrainOnClose` and `OnlyGivenUpLost`, proved |
| `ZenCanMessage` | the conversions between zencan's messages and `CanMessage` |
| `ZenCan` | zencan's sender and receiver, and their caller, on `SplitMode` |
| `ZenCanProofs` | the interface implements `SplitMode`; its four properties, proved |
| `MotorCommands` | `CommandBuilder`: the bytes of every command |
| `MotorFrames` | transactions, and the frames of a command |
| `MotorBus` | `send_cmd`, `Transaction`, `write_read` in both forms, and motors at the other end |
| `MotorBusProofs` | all safety properties of `MotorBus`, proved: frames, batches, whole commands, whose answer, answers in order |
| `MotorDemo` | `main` of the motor example on `SplitMode` |
| `MC*` | the constants of the runs |

Definitions called `Faulty` are variants of the definition they precede, each
with one plausible mistake. No specification uses them: they document what each
property tells apart.

### WaveshareWire

A message is a record with the fields of `CanMessage`; `data` has its actual
length, and a remote frame has none (that is what `data()` returns). Byte offsets are the code's, from 0. The
loop of `parse_next_frame` is not a recursion here: `SkipAt(buf, o)` says that
the loop steps over offset `o`, `ScanEnd(buf)` is the first offset it does not
step over, and `ParseNextFrame` says what is returned there. `ParsedToMessage`
is the transport's conversion with its range check on the identifier. The `u32`
identifier of a parsed frame is kept as its four bytes and only becomes a number
when it was found to be in range, so that every number stays below 2^31. The
ranges are those of `embedded_can`'s `StandardId` and `ExtendedId`.

### SettingsFrame and ClientMode

A `u32` is a pair of 16-bit halves, since TLC's integers are signed. `WordOf`,
`WellFormed` and `SettingsOf` are not code: they read a frame by the layout in
the comment of `build_settings_frame`, and are what the frame is compared with.

`new` and `write` are the same two awaits, `write_all` and `flush`; `job` is
empty while `new` runs, which also sleeps at the end (`Settle`). `WriteAll` is
one write of the port, of any number of the pending bytes. A call ends without
`Ok` when the port is gone (`WriteFails`) or the caller drops its future at an
await (`Cancel`). `new` then takes the port with it, and the client does not
exist; a client goes on, and what the port had taken of the frame stays. What the
adapter makes of the bytes is not in the repository: `Scan` is the library's own
scanner, which the adapter's firmware may or may not resemble, so
`TornWriteBounded` is about the protocol and not about one device.

### RxTransport

`rx` is `rx_buffer[..rx_length]`. A call is at one of three places: `"parse"` (in
the loop of `try_read_frame`), `"check"` (comparing the clock with the deadline)
and `"wait"` (at the await on the port). Everything between two awaits is
sequential code, but each round of the loop is a step, so that the invariants
see the states in between. `ReadBytes(n)` is a read that returns `n <= TEMP`
bytes and includes the append with its overflow branch; `ReadTimeout`,
`ReadFails` and `Cancel` are the other ways the await can end. Deadlines are a
flag that may be raised while a call waits. A call is `"read"`, `"zero"` (a
read with a timeout of zero, whose deadline has passed when it begins) or `"try"`. `line` holds what the operating system has and the program has
not read; the device appends whole frames and noise to it. `stream`, `sent`,
`tail` and `delivered` are history variables.

### SplitMode

Messages are opaque (`<<producer, n>>` outbound, numbers inbound): that bytes
become the right messages is shown by `RxTransport`. Each background task has a
place (`pc`) and the ticks spent there (`age`). tokio's mutex is fair: a guard
that is dropped hands the lock to the first waiter (`Release`), which owns it
before it runs (`"granted"`); a `lock()` that times out leaves the queue. The
frame channel grants free slots to suspended senders before others (`SlotFree`);
the granted ones run in any order (`ResumeSend`). `WriteFrame` is a whole
`write_frame`, possible when the port has room; until then the task sits in it
with the lock held. `ReadMessage`, `ReadTimesOut` and `ReadFails` are the three
ends of `read_frame`. `Tick` advances the clock; it does not let a task stay in
a place bounded by a timer more than `Late` beyond the timer.

### ZenCan

`ZenCan` extends `SplitMode`: a send of zencan is a conversion and a `Send`, and
whatever ends the write task or drops the future also decides what the caller
has to send again. `send` takes `&mut self`, so one call runs at a time, and a
message whose send was dropped is still the caller's, because it is `Copy`.
`todo` is what the caller has yet to send; `asked` says which message a number in
the frame channel stands for. `flush` is a loop of `try_recv`, one turn a step,
and delivery goes on between the turns. `returned` and `mark` are history
variables. `ZenCanSendError`'s conversion from a `ClientError` puts a placeholder
in the place of the message; no path of `send` uses it, and `RequestsAccounted`
says why none should.

### MotorCommands, MotorFrames, MotorBus

A command is the sequence of its bytes. Floats are whole numbers of hundredths,
so what the code cuts off after the first decimal is cut off here too; rounding
inside `f32` is not modelled. A `u32` that is passed through is a pair of
halves.

In `MotorBus` the caller is at one of three places of a call: `"sending"` (at the
await of a frame in `send_cmd`), `"waiting"` (in `write_read`) or `"idle"`. The polling
`write_read` counts every poll, whether it found a frame or not; the async one
waits, and its future may be dropped at any await (`Abandon`). A slice of up to two
bytes has no frame: `send_cmd` returns at once, and so does `write_read` of an empty
slice, but of one or two bytes it reads all the same (`AfterSend`). The bus below
is FIFO in both directions, which is what `SplitModePaths` proves of split mode. What
a motor does is not in the repository: it is taken to assemble packets by the
address and function code, as the comments in `send_cmd` lay them out, to answer what is
addressed to it, once or in two frames, and to report by itself now and then.
`taken` (what each motor put together, of which call), `issued`, `loads` (each
command with the place it was loaded at), `got` and the numbers `of` and `part`
in an answer are history. A motor is also taken to cut a batch apart by the
lengths its commands have (`CodesByLength`): `BatchIsPrefix` says that what it
cuts out are the loaded commands, and `MenuAssumption` that a caller loads
commands of such lengths, which is what `CommandBuilder` builds.

### MotorDemo

`MotorDemo` extends `SplitMode` with `main` as the one producer. The sleeps
between the commands of `run_demo` are taken to be long enough for all frames to
reach the device; the end of `main`, where there is no sleep, is not. When `main`
has returned, no task of its runtime takes another step.

## The runs

| run | shows | bounds and why they suffice |
| --- | --- | --- |
| `wire_roundtrip` | `RoundTrip` | 28 data frames with the extreme ids and payloads that contain framing, dlc 0, 1, 5 and 8; up to 2 bytes before and 3 after, from start, footer, header and neutral bytes |
| `wire_remote` | finding: a remote frame does not round-trip | the same |
| `rx_clean` | `TypeOK`, `NoOverflow`, `BytesInOrder`, `NothingParsableWhileWaiting`, `DecodesStream`, `DeliversInOrder`, `PollsLeavePort`, `ReadReturns`, `EventuallyDelivered` | reads of up to 6 bytes, so that one can end a frame with an invalid id and bring the whole frame behind it, and a buffer of 20, the smallest that `SizesAssumption` allows with it, so that an off-by-one in the residue overflows; 2 items out of a message of 5 bytes, one of 15, a false start, and a whole frame with an id out of range; every cut of the stream into reads of 1 to 6 bytes |
| `rx_noise` | `Resynchronises`, `DecodesStream` | noise that begins like a frame; 5 items, so that one burst is followed by 4 messages, one more than it can swallow; with "two" in place of "three" the property fails |
| `client` | `TypeOK`, `ConfigArrives`, `WritesReadBack`, `TornWriteBounded` | 5 writes, one of them dropped or failed anywhere inside, so that 4 can follow it, one more than it can cost; with "two" in place of "three" the property fails. Frames of 5 and of 15 bytes, the second full of footers. 4 configurations with each mode, both id types, and filters and masks whose bytes differ or are all ones; every configuration is the subject of `SettingsReadBack` |
| `split_safety` | `TypeOK`, `LockDiscipline`, `OnlyGivenUpLost` | 2 producers (interchangeable) of 2 messages over a channel of 2, so that both can be suspended at once; an inbound message, so that the read task can hold the lock, deliver and wait; delays that break `Punctual`, so that the write task's lock timeout happens |
| `split_live` | `NothingDropped`, `DrainOnClose`, `OutboundInOrder`, `InboundInOrder`, `OutboundProgress`, `SendersReleased`, `BrokenPortCloses`, `InboundProgress`, `ReadErrorEndsReader` | a producer of 3 messages over a channel of 1, so that a send is suspended while one message is queued and one being written; a consumer that need never receive, and 2 messages for a message channel of 1, so that the read task is suspended too; the write task's patience is the smallest that `Punctual` allows. The safety properties are proved for all sizes |
| `split_stalled` | finding: a stalled device stops the receiving half | one frame in the port's buffer and one being written |
| `split_duplex` | finding: a write waits for an idle read | the smallest instance |
| `zencan` | `RequestsAccounted`, `ConversionsReverse`, `FlushedIsGone`, `ClosedMeansDrained` | 3 messages to send: an extended id that would fit into 11 bits, a remote frame with a dlc, an id out of range; 3 sends, so that one can be repeated; 2 inbound messages and one flush; channels of 1; the lock timeout happens |
| `motor_bus` | `TypeOK`, `MotorsTakeWholeCommands`, `BatchIsPrefix`, `FreshAnswerIsOwn`, `AnswersInOrder`, `CallsEnd` | five callers: one command of any kind, sent each way; a batch of up to 3 commands for a transaction of 16 bytes, so that one is cut and one finds no room; three calls of `write_read`, abandoned or out of polls; two while a motor reports; and two with slices of no, one and two bytes among them. 2 motors and 2 polls, so that an answer may come within the polls or after them |
| `motor_demo` | finding: `main` returns with frames unsent | the real capacities and commands |

`MCMotorBus` also compares the commands with the byte sequences that the tests of
the example expect.

Deadlock is not checked in the `WireCheck`, `ClientMode`, `SplitMode`, `ZenCan`
and motor runs:
their behaviours really end, when the bytes are used up, when `new` was dropped
or the writes are used up, when all tasks have ended and everyone has left, or when all calls were made
and answered. In `RxTransport` a caller can always call again.

### Fairness

`RxTransport!FairSpec`: the executor runs a call that can go on (weak fairness
of the steps between awaits and of the timer), the clock goes on, and the caller
keeps calling `read`. `SF_vars(ReadSome)` says that a read that finds bytes at
the port is not timed out or cancelled for ever; tokio's `timeout` polls the read
before the timer. Nothing is assumed of the device.

`SplitMode`: the executor runs each task that can go on, and wakes senders; time
passes; and because `timeout` polls the port first, a message that stays at the
port is read at last. `DeviceDrains` (the port takes output) and
`ConsumerReceives` are assumed only in the runs that need them: `split_live` has
no consumer, `split_stalled` no draining device. Producers need do nothing.

`MotorBus`: the executor runs the step a call takes by itself, the bus delivers
and motors answer what they took. The caller need not call, and nothing is
assumed of reports. `CallsEnd` is about polling calls and about those that sent a
motor its command. An async call that sent to the broadcast address or had nothing
to send does wait for ever; the comment on `write_read` leaves the timeout to the
caller, and nothing says that there is one (`Abandon` is not fair).

## What is proved

All proofs are checked by TLAPS, from the assumptions on the constants that the
modules name and no others.

* `WireCheckProofs!RoundTripHolds`: `RoundTrip` for every message and all
  surrounding bytes. The argument: the info byte gives back its fields, the
  little-endian identifier is read back (linear arithmetic over its bytes), the
  built frame satisfies `FrameAt` at its first byte, bytes that are no start
  byte are skipped, and `ScanEnd` is unique, so it is that byte.
* `RxTransportProofs`: the inductive invariant `Inv` adds two facts to the types. `Suffix`: the buffer
  and the line are adjacent windows of the stream, ending at its end. `Scanned`: past the
  parse loop, the scan of the buffer finds nothing and consumes nothing. The
  second is what makes the first go through a read: an unsuccessful scan leaves
  at most 14 bytes (`ParseResidue`), so a read of at most `TEMP` bytes fits and
  the branch that empties the buffer is never taken. `TypeCorrect`,
  `NeverOverflows`, `BytesKeptInOrder` and `NothingHeldBack` follow. The only
  assumption is `14 + TEMP <= RX_BUFFER`; the code has 256 and 1024.
* `RxTransportProofs!PollsStayOff`: `PollsLeavePort`, from `InTime`: the deadline
  of a read with a timeout of zero stays passed, so only `"read"` comes to the await.
* `RxTransportProofs!ImplementsDecoder`: every step of the transport is a step
  of `StreamDecoder` or leaves it alone. A decision that the scan takes on the
  buffer is the one it would take on the whole rest of the stream, because a
  decision depends only on bytes that are already there (`DecisionsKept`).
* `RxTransportProofs!QuietNoiseLosesNothing`: `DeliversInOrder`, that is, the
  transport implements `FrameFifo`, when messages are data messages and every
  start byte in the noise is `Harmless`: no header comes of it, or one of a frame
  that the noise holds whole and from which no message comes. The invariant
  `Lossless` names the offset of each frame that was sent (`Laid`), says that what
  lies between the frames is harmless and reaches into none of them
  (`GapsQuiet`), and that the scan has passed just the frames whose messages have
  come out (`Caught`). The scan never passes a frame, because it does not skip
  one (`NotPassed`), and all it takes besides is refused for its id.
* `RxTransportProofs!NoiseCostsThree`: `Resynchronises`, for noise of any kind
  and length. In the frames after the last noise only the first bytes are start
  bytes (`Tailed`, from `PlainMessages`). `Reached` counts: a false frame begins
  before them and has at most 15 bytes, a frame has at least five, so it ends
  before the fourth of them; from there on the scan finds one frame after the
  other. When a read waits with a dry line, the scan left at most 14 bytes, which
  hold no frame, so all have come out (`NoneLeft`).
* `ClientModeProofs!SpeedsReadBack`: `try_from` and `as_bps` are inverse to each
  other, and nothing else is a speed.
* `ClientModeProofs!SettingsReadBack`: the frame of every `Config` is well formed
  and read back. The four bytes of a word are linear arithmetic; the position of
  each byte follows from the lengths of the parts; the checksum lies outside the
  bytes it covers, so it is the same sum on both sides. The layout leaves the
  last byte that the checksum covers always zero, so a sum that stopped one byte
  early would not differ.
* `ClientModeProofs!SettingsFirst`: `ConfigArrives` for every client. The
  invariant `ClientInv`: the first 20 bytes of the wire, as far as there are any,
  are those of the settings frame; while `new` writes, wire and pending bytes are
  that frame cut in two; a client that exists has all 20 on the wire.
* `ClientModeProofs!TypeCorrect`: `TypeOK`, from `ClientInv` and `Counted`, which
  says when there is a job and that each torn write is one of those begun. That
  the wire carries bytes needs the checksum to be one (`SumType`).
* `ClientModeProofs!WritesAreRead`: `WritesReadBack`, when all messages are data
  messages (`wire_remote` shows why). The invariant `Written`: the frames of
  `tail` and of the running write are the end of the bytes on the wire behind the
  settings and those pending (`Framed`, which names the offset of each); until a
  write is torn they begin at offset 0. It speaks of wire and pending bytes
  together, so that what the port takes at a time does not matter
  (`TakenInPlace`). The scan is the repeated parse of the rest: `TurnEnds` moves
  the decisions of a parse from the rest to the stream, and `FoundFromFrame` says
  that from the place of a frame the scan finds its message and all that follow.
* `ClientModeProofs!TornCostsThree`: `TornWriteBounded`, when moreover the frames
  hold no start byte but the first (`PlainMessage`), for any number of torn
  writes, from the same invariant. Within the tail every turn of the scan stops at
  the next frame (`FoundFromWithin`). Before it, from the end backwards: a turn
  that finds a frame goes on at most 14 bytes into the tail, before its fourth
  frame, and one that finds none would leave at most 14 bytes, but there are 20
  (`TornScan`).

The sum of bytes and the scan are recursive functions. The library's induction
theorems cannot be used for them, but its least-element principle can: a property
of every number that failed would fail at a least one (`LeastMember`). So
`SumType` and `ScanExists` show that the functions exist, `FromTheEnd` is
induction from the end of a stream, and the three theorems above rest on them.
* `SplitModeProofs!TypeCorrect`, `LockSafe`: types and the lock discipline, for
  every number of producers, capacity and timeout. The lock discipline is
  inductive with the types.
* `SplitModeProofs!NeverDrops`: under `Punctual` (one read plus two scheduling
  delays is shorter than the write task's patience). The strengthening is
  `Waits`: while the write task queues, the read task was given the lock no
  later than the write task queued, or reads since then with one delay more, and no
  timed place is kept beyond its limit.

* `SplitModePaths!InboundFifo`: `InboundInOrder`, that is, the inbound direction
  implements `FrameFifo`, from no assumption but those on the constants. The
  invariant `InboundWay`: as long as there is a receiver, what the device sent is
  what was received, then the message channel, then the message in the read
  task's hand, then the port's buffer; and only a task that delivers has a
  message in hand, so that no timeout, hand-over or error can lose one. It needs the
  lock discipline, since the hand-over of a lock moves the other task.
* `SplitModePaths!OutboundFifo`: `OutboundInOrder` under `Punctual`, from
  `OutboundWay`: on a port that takes writes, what the channel accepted is what
  the device took, then the output buffer, the write task's hand and the channel.
  `SplitModePaths!Drains`: `DrainOnClose` with the same invariant. When the
  write task has ended on such a port, hand and channel are empty, and
  they stay so because a suspended send belongs to a producer that still holds
  its sender, of which there is none.
* `MotorBusProofs!TypeCorrect`: every frame of every command has 1 to 8 bytes and
  an id of 16 bits, in which the number of the packet does not run into the
  address. The longest command is a batch; `LimitAssumption` keeps a transaction
  below 1790 bytes (the code has 512), which is 256 frames. All theorems about
  `MotorBus` hold of calls with any slice of up to two bytes as well.
* `SplitModePaths!OthersStayInOrder`: `OnlyGivenUpLost`, without `Punctual`. The
  invariant `KeptOK` says that device, output buffer, hand and channel together
  are the accepted messages without those in `dropped`, in their order
  (`IsRest`). What keeps it is `Once`: no message is accepted twice or accepted
  while its send is suspended, because a producer numbers its sends; without it,
  a message given up would be the same as one that is kept.
* `MotorBusProofs!FreshAnswers`: `FreshAnswerIsOwn` for every set of motors,
  commands and calls. The invariant `Fresh`: while a call that began on a quiet
  line is under way, every frame to its motor and every answer from it belongs
  to it (`Quiet`), and the answers returned to such calls were theirs (`Matched`).
* `MotorBusProofs!BatchesArePrefixes`: `BatchIsPrefix` for every transaction
  size. `IsCutInto(txn, loads)` is inductive: a load behind commands that are
  there whole is cut off or fits, and one behind a command that was cut off finds
  the transaction full and adds nothing.
* `MotorBusProofs!WholeCommands`: `MotorsTakeWholeCommands`. The invariant `Whole`
  is about `Line`, the frames on the bus and the one that `send_cmd` is about to
  send: each is a frame of the command of its call (`Pieces`), in the order of
  calls and packets (`Ordered`), and next to each other they are packets of one
  command that follow each other, or the first of another (`Gapless`). So when a
  packet other than the first arrives, its motor holds just the packets before it
  (`Ready`), although a send may have been dropped between any two. `Sealed`,
  `TookInOrder` and `TookAll` tie this to what the motors have taken.
* `MotorBusProofs!AnswersStayInOrder`: `AnswersInOrder` from the invariant
  `InOrder`: what was returned, what is on its way and what a motor has yet to
  send are sorted, and each of them comes before the next (`InRow`); every answer
  is to a command that was sent whole (`AnswersKnown`, with `Whole`), and none is
  returned to a call before the one it answers (`AnsweredLater`).
* `ZenCanProofs!InterfaceImplementsSplitMode`: every step of the interface is a
  step of `SplitMode` or leaves it alone. So the invariants of split mode hold
  below it, and the four theorems that follow use them.
* `ZenCanProofs!ErrorMeansDrained`: `ClosedMeansDrained`; `Drained` adds that the
  read task has ended and its channel is empty, which nothing undoes.
* `ZenCanProofs!FlushTakesAll`: `FlushedIsGone`. `Marked`: a flush that has ended
  has received up to its mark, and one under way has its mark within what was
  received or is in the channel; `ReturnedOK`: results are numbered upwards, beyond
  the mark that was set before them.
* `ZenCanProofs!SendsAccounted`: `RequestsAccounted`. `SenderOK`: the numbers in
  the frame channel are those of the conversions, and one send at most is
  suspended. `Accounted`: the four places a message can be in cover the requests,
  and their sizes add up to the number of requests, so that they do not overlap.
* `ZenCanProofs!ConversionsLossless`: `ConversionsReverse`, from what the two
  conversions do to ids, data and dlc and from `SenderOK` and `ReturnedOK`.

Every safety property that a passing run checks, every refinement
(`DecodesStream`, `DeliversInOrder`, `InboundInOrder`, `OutboundInOrder`) and every
action property but the progress ones is the subject of a theorem. Where
one needs more than the assumptions on the constants, the property or the theorem
says so: `Punctual`, where no message may be given up for want of the lock, and the
kind of messages and noise, where the scanner has to tell frames from other bytes.
The instances of the runs that check these properties satisfy the conditions.

Only model-checked, and why:

* Liveness (`ReadReturns`, `EventuallyDelivered`, `OutboundProgress`,
  `SendersReleased`, `BrokenPortCloses`, `InboundProgress`,
  `ReadErrorEndsReader`, `CallsEnd`): fairness and `ENABLED` are out of TLAPS's
  reach here.
* The byte sequences of the motor's commands, which `MCMotorBus` compares with
  those in the tests: they are finitely many values.
* The findings: a counterexample is what they need.

## Findings

Four places where a comment or a message says more than the code does;
each is a run that TLC must find violated.

* `wire_remote`: "accepts any `embedded_can::Frame`", but a remote frame is
  written as an empty data frame.
* `split_stalled`: "independent producer/consumer halves", but the write task
  keeps the transport's lock while the port takes no output.
* `split_duplex`: "exploiting the full-duplex serial port", but a frame to write
  waits for the read in progress, up to 50 ms.
* `motor_demo`: `main` prints that the motor has been stopped and powered off, and
  returns while the frames of those commands may still be in the channel; its
  runtime ends and the write task with it. On a port that works, the motor may
  stay enabled.

One more disagreement is too small for a run: the comment on
`qtraj_pos_lc_control` (`examples/tokio_serial_step_motor_ctrl.rs:405`) says that the
position is signed, but the code sends its absolute value (408).

## Not modelled

* `raw_id` and `id_from_raw` of `CanMessage`, which nothing in the repository
  calls.
* Rounding in the `f32` arithmetic of the motor commands, and the panics and
  printing of the example's adapters.
* What a motor does with a command: only that it takes it and answers.
* The logging facade (`src/logging.rs`) forwards to `log` or `defmt` and keeps no
  state; `src/adapters/nusb.rs` is not built; the other examples call
  what is modelled here and add no logic.
* The composition of `RxTransport` with `SplitMode`: the read task calls
  `read_frame`, and both sides are stated for the same interface (a message, a
  timeout or an error, with the buffer kept), but no module runs bytes through
  the two tasks.
