# TLA+ verification of edge-network

`edge-network` is the Go program that runs on a DIMO device in a vehicle. It
asks the vehicle for signals over the CAN bus (through the AutoPi API of the
device, or by itself), sends them to the cloud over MQTT, is paired and operated
over Bluetooth, and keeps what it needs for a start without a connection in
files. The device loses power whenever the vehicle says so.

This directory holds TLA+ modules that model its stateful parts, TLC
configurations that check them on small instances, and TLAPS proofs of the
properties that matter most. File and line references are to the Go sources.

Contents: [the system](#the-system) ·
[modules](#modules-and-how-they-correspond-to-the-code) ·
[runs](#runs-and-what-they-show) · [bounds](#bounds-and-why-they-are-enough) ·
[fairness](#fairness) · [proofs](#proofs) ·
[disagreements](#where-the-code-and-its-comments-disagree) ·
[observations](#other-observations) ·
[not modelled](#not-modelled) · [plan](#plan)

## The system

| component | state | operations | talks to |
|---|---|---|---|
| signals queue (`internal/worker_runner.go`, `SignalsQueue`) | samples per signal, time last checked, failure count per PID; in memory, one mutex | `Enqueue`, `Dequeue`, `IncrementFailureCount`, reset, `lastEnqueuedTime` | called by four goroutines |
| worker runner (`worker_runner.go`) | position in the template, `fingerprintDone`, `dtcErrorsDone`, the payload being sent | OBD loop, location loop, status loop, channel consumer | queue, vehicle, GPS, data sender, fingerprint and DTC runners |
| native CAN logger (`internal/loggers/dbc_passive_logger.go`, `internal/canbus`) | socket with filters, DBC entries, channel without buffer | `SendCANQuery`, `StartScanning` | the bus, the channel consumer |
| formula decoders (`internal/loggers/dbc_formula_decoder.go`) | none | `ExtractAndDecodeWithDBCFormula`, `ParsePIDBytesWithDBCFormula`, `DecodePassiveFrame` | called by the runner and the native logger |
| frame dump queue (`internal/signal_frame_dump_q.go`) | captured frames, `jobDone`; `CANDumpInfo` on disk | `ShouldCaptureReq`, `Enqueue`, `Dequeue`, `SenderWorker` | OBD loop, data sender, settings store |
| vehicle templates (`internal/vehicle_template.go`) | four files: URLs, PIDs, settings, DBC | `GetTemplateSettings` | signal decoding API, settings store |
| settings store (`internal/loggers/template_store.go`) | files under `/opt/autopi` | read, write, delete each; `DeleteAllSettings` | everybody |
| VIN logger (`internal/loggers/vin_logger.go`) | a mutex | `GetVIN`, `extractVIN` | the vehicle; called by the OBD loop and by Bluetooth reads |
| passive VIN scan (`vin_logger.go`, `internal/loggers/passive_can_reading.go`) | two goroutines per scan, the interface can0 | `passiveScanCitroen`, `ReadCitroenVIN` | the bus; called by `GetVIN` |
| fingerprint, DTC runners (`internal/fingerprint.go`, `internal/dtcErrors.go`) | failure counts of the boot, the query name that worked, failures of all boots on disk | `FingerprintSimple`, `IncrementFailuresReached`, `DtcErrors` | VIN logger, settings store, data sender |
| Bluetooth characteristics (`ble_chars.go`) | `lastVIN`, `lastProtocol`, `lastDTC`, `lastSignature` | a handler per read and write, each in a goroutine of its own | VIN logger, settings store, AutoPi API |
| log rate limiter (`internal/hooks/loghooks.go`) | a count per message, one mutex | `Run` at every log event | data sender |
| certificate service (`certificate/certificate.go`) | key file, certificate file | `CheckCertAndRenewIfExpiresSoon`, `SignWeb3Certificate` | OAuth server, certificate authority; read by the data sender |
| MQTT buffer (`internal/network/data_sender.go`, `mqtt_store.go`) | a directory of messages, a counter | `sendPayload`, `Put`, paho's `Del` and resumption | paho client, broker |
| boot (`main.go`, `config/config.go`, `internal/util/retry`, `internal/gateways/identity_api.go`) | `remote-config.json`, the vehicle file | `ReadConfig`, `blockingGetVehicleInfo` | configuration server, identity API |

What makes the system hard: goroutines that share state under a mutex they do
not always take; a state read before a request of seconds to the vehicle and
used after it; files that are emptied before they are written, by a process
that may lose power at every step; three owners of the same file; a counter
that stands for a directory somebody else changes; retries that count some
failures and not others; and a Bluetooth client that may delete all settings at
any moment.

What makes each component correct:

* **queue and runner**: no sample is lost, repeated or reordered between its
  queueing and the payload; PIDs are asked when due, and not after they were
  given up; the loops do not block each other.
* **native logger**: every decoded signal reaches the queue once; the listener
  does not get stuck; broadcast signals do not flood the queue.
* **decoders**: the number that is sent is the one the bytes of the answer stand
  for; no answer or frame ends the process; a VIN is extracted whole.
* **frame dumps**: frames are in one place however many workers race; the
  capture ends, because it replaces the regular queries.
* **templates**: a change in the cloud ends with all of it in use; what was
  completely saved is what a boot without a connection runs.
* **VIN**: the name on disk is one that works for the VIN beside it; failures
  are counted per boot; reads are answered.
* **passive scan**: it returns on a silent bus, with one answer, and its readers
  do not disturb each other.
* **signing, diagnostic codes**: a signature that is read is that of the last
  hash (it [may not be](#where-the-code-and-its-comments-disagree)), and codes that
  were cleared before anybody read them are not shown.
* **rate limiter**: a message that reached its threshold is sent; what is printed
  is bounded by what is sent.
* **certificate**: a renewal interrupted between its two files is repaired by the
  next start (one that tore the certificate file is not, see
  [below](#other-observations)); a clean start has a pair that lasts for the window.
* **MQTT buffer**: bounded, and what is in it is delivered.
* **boot**: a device that has its vehicle on disk does not give up for want of a
  connection; a start comes to an end.

## Modules and how they correspond to the code

```
Outbox <--refined by-- MqttStore        SignalsQueue <-- WorkerRunner, NativeRunner
Mailbox <--refined by-- WorkerRunner
VinLogger <-- VinConfig                 DbcFormula <-- VinExtraction <-- CanDecoding
Certificate <--extended and refined by-- Startup
LogRateLimiter, MqttStore <--composed by-- Delivery
PassiveScan   BleRequests   SignalFrameDumpQueue   VehicleTemplates

proofs                       about
WorkerRunnerProofs           WorkerRunner with SignalsQueue and Mailbox
NativeRunnerProofs           NativeRunner with SignalsQueue
TemplateProofs               VehicleTemplates, and CanDecoding with DbcFormula, VinExtraction
VinConfigProofs              VinConfig with VinLogger
SignalFrameDumpQueueProofs   SignalFrameDumpQueue
StartupProofs                Startup with Certificate
DeliveryProofs               LogRateLimiter, MqttStore with Outbox, and Delivery
OnDemandProofs               PassiveScan, and BleRequests
```

`MC*` modules give constants for TLC. Operators called a variant in a comment
are not used by any specification: each is a plausible mistake in the operator
next to it, and shows that a property depends on that operator.

**SignalsQueue** is the state and the operations of the queue. Each operation
is one critical section. A sample carries its rank among the samples of its
signal, so that it can be followed; the code has no such number.

**WorkerRunner** is `workerRunner.Run` on a device without native scanning. One
action is what a goroutine does between two points where another can see or
disturb it: `ObdAsks` ends where the request to the vehicle begins, and
`ObdSucceeds`, `ObdCannotDecode` or `ObdFails` is what follows its answer.
`ObdStamps` is the write of `lastTimeChecked` outside the mutex
(worker_runner.go:430), `LocLocks`/`LocEnqueues` the critical section it may
collide with, `MapRace` what the Go runtime may do then. `Dies` and `Restart`
are the end of the process and systemd.
`Mailbox` is the abstract specification: per signal, how many samples were posted,
taken and settled, where one payload takes of all signals at once. `Mail` maps it to
the lengths of the queue and the payload and to the counts of what was sent and lost.

**NativeRunner** is the same runner with native scanning. A frame is its
identifier, its format and the PID it answers; `Passes` is a filter with its
mask; `ListenerReads` takes a frame to the signals it gives, `HandsOver` is the
channel, `ConsumerEnqueues` the goroutine behind it. The status loop only
empties the queue here; its sending is in WorkerRunner.

**DbcFormula** holds the three decoders as operators on bytes, hexadecimal digits
and a formula in its parts; numbers are in thousandths. **VinExtraction** is
`extractVIN` with `findVINLineStart`, on lines of digits. **CanDecoding** composes
them with everything that has bytes: the query that is sent, the identifier it is
expected to be answered from, the lines of a DBC file, the filters and their
masks, `matchPID` and `findFilter`, the lines of the AutoPi. Its actions are one
exchange with a vehicle (`AsksNative`, `Answers`, `ListenerReads`; `AsksAutoPi`;
`AsksVIN`; `NumberForPID` and `NumberForVIN`, when the AutoPi has no frames but a
number; `VehicleBroadcasts`), of which NativeRunner and WorkerRunner interleave
many with the bytes left out. The vehicle's side, which answers as ISO 15765 and
ISO 14229 have it or refuses, is external.

**SignalFrameDumpQueue** has one process for the OBD loop and one per
`SenderWorker`; queryOBD starts a new one on every run. Each step of the worker
between two accesses to shared state is an action.

**VehicleTemplates** is `GetTemplateSettings` as a sequence of reads, requests
and writes with a failure branch for each, over several boots; `Reboot` may cut
any write, `Deletes` is the `DeleteAllSettings` of a Bluetooth client, file by
file, at any moment. A URL names a version, so it stands for its content.

**VinLogger** is `GetVIN` as a function of what the car answers to each query;
**VinConfig** is the OBD loop's use of it (fingerprint, then DTC scan, then PID
queries), the Bluetooth reads, the mutex, the file, and cars swapped while the
device has no power. Bluetooth is up first; `ReadsVINConfig` is the making of the
fingerprint runner, which reads the file. The passive scan is one step there.

**PassiveScan** is that scan from the inside: per scan a caller, a timer and a
reader, the channels between them, and can0, which every reader tries to bring up
and to take down: `SetsUp` and `StaysUp` are errors nobody looks at, `NewFails` and
`DialFails` end the process. The scans follow each other, as the mutex of `GetVIN` has it; their
goroutines do not.

**BleRequests** is the signing and the diagnostic codes characteristic, whose
handlers run in goroutines of their own and share `lastSignature` and `lastDTC`
without a lock. Assigning a slice or a string is taken for one step; that it is
not, in Go, is noted [below](#other-observations).

**LogRateLimiter** is the hook for one message: `Counts`, `Decides`, `Sends` or
`SendFails`, `Resets` for each goroutine, and `Prints` for the logger behind it,
which prints an event that its own count did not discard. `LimiterRestarts` is a new
process, whose counts and histories begin again.

**Certificate** is the start of the process as far as the certificate goes: the
check, the token, the key file, the signing, the certificate file, the loading,
each with its failure, and days passing. It is checked as a part of Startup.

**MqttStore** is `sendPayload`, `CustomFileStore.Put` and the paho client as it
is configured (QoS 1, stored session, connection retry), with the broker.
**Outbox** says what a buffer of messages promises; `MqttStore!OutboxSpec` is
the refinement, with `files` for what is kept and the messages for which
`sendPayload` returned nil for what was offered.

**Delivery** puts the two together as they are in the program: what the hook sends
goes through `SendErrorPayload` into the store (`ErrorIsSent`, or `ErrorFails` when
it could not be signed), beside the payloads of everybody else (`OtherPayload`), and
`ProcessRestarts` ends both wherever they are: the counts are gone, the files are not.

**Startup** is main.go from `ReadConfig` over the certificate to
`blockingGetVehicleInfo`, with their files: it extends Certificate with what
comes before, after and meanwhile. The identity API gives the vehicle
(`GetsVehicle`), says that there is none (`GetsNoVehicle`) or cannot be asked
(`CannotAsk`); `replies` keeps which of these a start has had. `Certificate!Spec` is the abstract
specification of it; both a run and a theorem show the implementation.

External code is modelled from its use and marked as such in `PROJECT.json`:
the paho client, the broker, the Go runtime, D-Bus, the power supply.

## Runs and what they show

Each run checks the safety and the liveness properties of its module together.
Every type invariant is a theorem ([below](#proofs)); that of NativeRunner also says
how full the socket can be, and is in the run for that. CanDecoding computes an output from an input and has none.

| run | safety | liveness | shows |
|---|---|---|---|
| `WorkerRunner` | `SamplesAccountedFor`, `GivenUpStaysQuiet`, `SampledOnlyWhenDue`, `MailboxSpec` | `QueueDrains`, `ScanEnds` | under all interleavings with crashes no sample is lost, repeated or reordered in the queue, a payload holds everything that waited at one instant and shares one fate, PIDs are asked by their rules, and the loops do not block each other |
| `NativeRunner` | `TypeOK`, `DecodedIsQueued`, `PassiveWaitsOnce` | `ReceivedIsRead` | a decoded signal reaches the queue once; a broadcast value waits once; a frame in the socket is read |
| `CanDecoding` | `NativeIsReference`, `AutoPiIsReference`, `BroadcastIsReference`, `PanicsKnown`, `VinExtracted` | | on both ways to the vehicle the number sent on is the one the data stand for, but for listed cases; the ways a frame or an answer ends the process are these and no others; a VIN is extracted whole |
| `PassiveScan` | `DisturbedByLate`, `AnsweredOnce` | `ScanReturns` | a scan that brought can0 up and fails early was disturbed by the reader of one that had timed out; each has one answer; it returns on a silent bus |
| `SignalFrameDumpQueue` | `QueueBounded`, `FramesAccountedFor` | `CapturingEnds` | at most two frames of a PID wait, each captured frame is in exactly one place, and the capture ends |
| `Delivery` | `ThresholdIsSent`, `PrintedBounded`, `StoreBounded`, `KeptUntilDelivered`, `OutboxSpec` | `StoredIsSent` | a count at the threshold is about to be sent; no more than `stopLogAfter` events are printed for each payload sent, and as many before the first; the directory is bounded, keeps what is not delivered, refines `Outbox`, and what is stored is delivered and deleted |
| `VehicleTemplates` | `UpdateRunsLatest`, `SettledSurvives` | | an undisturbed update runs all of the new template; a settled template survives |
| `VinConfig` | `NameFitsVIN`, `FailedBootsCounted` | `ReadsAnswered` | the stored name fits the stored VIN; failures are counted once per boot; Bluetooth reads are answered |
| `BleRequests` | `FreshSignature`, `SignedIsReadable`, `ClearedIsShown` | | a signature is of the last hash or of one whose handler was running when that came; a signed hash can be read; a clear in time is seen |
| `Startup` | `MismatchIsDue`, `WeekOfService`, `KnownVehicleRuns`, `Spec` | `StartEnds` | a mismatch of the files is due for renewal; a clean start serves for the window; a device with its vehicle on disk does not give up when the API could not be asked; the start implements Certificate and ends |

`VehicleTemplatesStale` and `BleRequestsSignature` each check a statement of the
documentation that the code does not keep; see [below](#where-the-code-and-its-comments-disagree).

All models are bounded (boots, days, events), so they stop when a bound is
reached. Deadlock checking is therefore off; that the system does not stop
before is what the liveness properties say.

## Bounds and why they are enough

* **WorkerRunner**: two PIDs, one asked once and one every tick, and a location
  field; two ticks, two boots, one failure allowed. A PID fails, succeeds,
  is given up and becomes due again within that, and a collision with the
  location loop needs one field. One value: nothing compares values here, since
  neither PIDs nor location fields have `LimitFrequency`.
* **NativeRunner**: one PID, a DBC message with two signals (so that a frame
  can be half pushed), two values, a socket of two frames, three frames, two
  boots. The broadcasts are one frame of each kind: wanted, of another tool, of
  no interest, extended with the same low bits.
* **SignalFrameDumpQueue**: one PID and three workers. PIDs do not interact but
  through `jobDone`; two workers race for the frames and a third finds what
  they left.
* **VehicleTemplates**: three templates (one a partial change, one without a
  DBC file), three boots, one change, one deletion: a torn boot, a boot that
  misreads it, and one that lives with it.
* **CanDecoding**: three templates with requests of both header lengths, one and
  two bytes of PID, with and without `can_flow_control_id_pair`, several on one
  identifier; every file of up to two lines, and every one of three that begins
  with a header, out of seven kinds of line, and two longer ones; data of one to
  three bytes that collide with PIDs, lengths and letters; no padding, 0x00 and
  0x55; broadcasts on known, unknown and colliding identifiers, of up to eight
  bytes; two VINs over six queries. Everything the code compares takes equal and
  different values.
* **PassiveScan**: two scans, one type of VIN, three frames. One reader can
  outlive one scan under another, complete a VIN, or run out of frames. A second
  type only adds segments that complete nothing together with those of the first;
  the proofs are for any set of types.
* **VinConfig**: two queries and the passive scan, a car for each way of being
  identified, two clients, two boots; the maxima of failures are 2 and 1
  instead of 5 and 3.
* **Delivery**: three threads, threshold 3, four events in each process, of which two
  are printed: the count passes the threshold with all threads inside, and begins
  again. Two messages and a limit of one: the counter is at the limit with an empty
  directory and with a full one, both messages are on their way at once, and one of
  them is not stored. The proofs are for any numbers.
* **BleRequests**: four hashes with two in their handlers at once, two readers,
  two codes stored, two boots: a handler overtakes, is overtaken, and ends after
  a third came.
* **Startup**: a window of one day, lifetimes of two and three, five days, four
  starts: renewals after each other, each cut off anywhere; two vehicles, a
  change of the pairing and a deletion; two tries of each loop instead of 11 and
  60, which the proofs have for every number.

## Fairness

Weak fairness on a goroutine's next step says that Go schedules what can run,
that its sleeps end, and that requests to the AutoPi API return. The last is an
assumption on the service, which runs on the device: the HTTP client it is asked
with has no timeout (`internal/api/api.go:249`). Strong fairness is used where a goroutine waits for a mutex
(`StatusComposes`, `ObdLocks`, `BleLocks`): Go's mutex hands over to a waiter
that was passed over for a millisecond. In `Delivery` the link comes back again
and again, nothing is assumed of the hook, and a packet sent over and over gets through once; in `Startup` only main's
goroutine goes on; in `PassiveScan` only timers and the select do, and no frame
need ever come. Nothing is assumed of the GPS, of
the voltage, of the clock, of failures, or of the power supply.

## Proofs

Each proof module holds the theorems of one component, or of several that have to do
with each other; in these the second component's specification has names of its
own (`ScanSpec`, `LimiterSpec`, `DecodingSpec`). tlapm checks all of them to the
last leaf. The constants' assumptions are the named `ASSUME`s of the component's
module; TLC evaluates them in every run.

* **WorkerRunnerProofs**. `TypeCorrect` is inductive by itself, over
  `EnqueueTypes`. `LedgerHolds` (`SamplesAccountedFor`) needs `NothingInHand`:
  outside `send` the status loop holds no samples; without it a payload could be
  overwritten when the next one is composed. Its core is `AppendFollows`: a queue
  whose ranks follow on a number keeps doing so when the next rank is appended.
  `QuietHolds` and `DueHolds` are action properties and need `AwaitDue`: the PID
  whose answer is awaited is still due and not given up. That is what could go
  wrong between the test in `queryOBD` and the answer, and what makes the location
  loop's writes to the same maps harmless; it uses that location fields are not
  PIDs. `PidSteps` says what a step may do to one PID.
  `RunnerImplementsMailbox` maps every step to a `Post`, `Take`, `Publish`, `Drop`
  or `Lose` of the mailbox, or to a stutter. The mailbox only has counters, which
  the mapping takes from the lengths of the queue and the payload; that a payload
  takes all there is and that the end of the process settles all follows from the
  ledger before and after the step (`EmptyHand`, `NothingWaits`).
* **DeliveryProofs**. For MqttStore, `BoundHolds` needs `CounterCovers`: once the directory has
  been read the counter is at least its size. `KeptHolds` needs that an
  acknowledgement is of a message that was delivered. `Implements` maps every
  step to an `Offer`, `Deliver` or `Forget` of the outbox, or to a stutter, and
  needs `OnlyOffered`: nothing is stored or on its way that was not offered. For
  LogRateLimiter, `PrintedHolds` needs `PrintedPaid`: what was printed, and what will
  be by goroutines still in the hook, is paid for by the resets that were made
  (`stopLogAfter` each) and by the present count. An event is paid for when it is
  counted, whenever it is printed; a reset turns what the count opened into what a
  payload pays for.
  `ThresholdHolds` finds the goroutine whose increase reached the threshold, for any
  set of goroutines. `LimiterTypeCorrect` needs `SentOnce`: each event leads to at
  most one publication. `Composed` carries all of these over to Delivery: each of its
  steps is a step of the hook or leaves it alone, and the same of the buffer.
* **StartupProofs**. For the certificate the inductive invariant says, per step of
  the renewal, what is already true of the files (`Renewing`, `Emptied`,
  `KeyWritten`, `SameDay`, `GoodToLoad`, `GoodLoaded`). `MismatchHolds` follows
  since a key is only replaced when a renewal is due; `WeekHolds` since a clean
  start leaves a certificate beyond the window. It assumes that lifetimes exceed
  the window and that the clock does not go back, which `Day` states.
  `StartImplementsCertificate` maps every step of the start to one of the
  certificate or to a stutter, so both carry over (`StartMismatchHolds`,
  `StartWeekHolds`). `KnownVehicleHolds` is inductive with the types alone: main gives
  up in a turn that found no vehicle in the file (`GivesUpWithout`), and nobody writes
  one after that.
* **OnDemandProofs**. For PassiveScan, `DisturbedHolds` needs `Alone` (one caller waits at a
  time), `Ends` (which goroutines a result leaves behind) and `Late`: who took
  can0 down under a waiting caller that had brought it up had lost its own. For BleRequests, `FreshHolds`
  needs `Known`: the handlers at work are the last one and those it overtook.
  `ClearedHolds` needs `Clean`: after a clear in time neither the cache nor a read
  at work holds a code.
* **VinConfigProofs**. `NameHolds` follows from what `GetVIN` returns (`ResultWorks`:
  the first query that worked on this car), over the writers of the file;
  `OfThisCar` says the same of results in the hands of a goroutine or a cache.
  `FailedHolds` needs `NotYetCounted`: a boot that has not failed yet is not in
  the count.
  That the first of a set of queries exists is the well-foundedness of the
  natural numbers.
* **SignalFrameDumpQueueProofs**. `QueueHolds` needs `CaptureHasRoom`: between the
  test and the append only the OBD loop adds. `AccountsHold` counts the frames in
  the hands of all workers as pairs of a worker and a frame (`Held`): what a step
  of one worker adds to or takes from them is `HeldGrows` and `HeldShrinks`.
* **NativeRunnerProofs**. `DecodedHolds` is inductive with the types: it counts a
  signal's pushes in the listener's hands, in the channel, in the consumer's hands
  and in the queue, and each step moves one or drops it where the code does. How
  often a name comes in a sequence (`Times`) is the size of a set of places;
  `TimesTail` and `TimesEmpty` say what handing over the head changes. `PassiveHolds`
  needs `PushedWithLimit`: what the listener, the channel and the consumer hold of
  the DBC file's signals carries `limitFrequency`, so `EnqueueOnce` applies.
* **TemplateProofs**, VehicleTemplates. The inductive invariant says, per step of an
  update, which parts are in use (`UpdateInUse`) and on disk (`UpdateOnDisk`) if it
  was not disturbed so far; that a template is fetched before its parts
  (`FetchedFirst`); that a settled template stays complete on disk and no update is
  under way then (`SettledOnDisk`); and that a boot that fetched nothing took what it
  uses from the files (`ReadFromDisk`). `SettledHolds` joins the last two. Neither
  bound is used: the theorems are about any number of boots and deletions.
* **TemplateProofs**, CanDecoding. An exchange is short, so its invariant
  (`ExchangeInv`) only says where the exchange came from: the query is that of the
  request, the frame answers it, and what was pushed or returned is what the decoders
  make of it. The work is in the lemmas on bytes and digits: `BigEndian` and the
  parser of the DBC file are recursive functions, and what holds of their values is
  shown by `SetInduction` (a set that has 0 and with each number the next has all up
  to the bound), from the well-foundedness of the natural numbers. On them rest
  `ValueOfHex` (digits and bytes stand for the same number), `AnsweredLine` (where the
  value is in a line of the AutoPi), `FoundAfter` and `AnswerIsDecoded` (where it is in
  a frame) and `VinLines` (the lines of a VIN answer never run beyond each other).
  `AutoPiHolds` and `NativeHolds` follow for every template, PID, formula and data;
  `PanicsHolds` needs besides that no filter is found only for an identifier the
  file does not have (`FilterIs`) and which identifiers a filter lets pass
  (`PassedBy`). The proof of `NativeHolds` showed three requests for which it does
  not hold, which no instance had: PID 0 (a frame is then never claimed for a
  decodable value), PID 255, looked for as if it had two bytes, and the header 0xfff,
  whose answer is expected from another identifier. `Addressed` names them.
  `BroadcastHolds` needs an invariant of the parser, line by line (`HasRead`, kept by
  `LineIsRead`): while a header is open the list has the signals under it so far, in
  their order (`Lists`); once it is closed exactly one filter has them (`OneFilter`),
  or none if there were no signals. At the end the last header is closed too
  (`SignalsAreListed`), and that filter is the one the listener finds (`OneIsFound`).

* **TemplateProofs**, the VIN. `VinHolds` follows the lines of an answer through
  `extractVIN`. The lines have the identifier in common and differ in the first
  digit after it, so the cut falls one digit before the data (`LineStartAt`); what is
  left of a line is odd and loses that digit (`EvenedRest`), and is the data of the
  frame, of which `Cleaned` keeps the text from the first letter or digit on
  (`CleanedIs`, `FrameText`). Three frames give a text that ends in the VIN
  (`ThreeFrames`, `EndsIn`), and the last 17 bytes of that are it (`LastOfText`). A
  refusal in a line before them adds nothing (`GatheredSteps`). `VINAssumption` says
  what a VIN is made of, by ISO 3779: without a letter or digit that is hexadecimal
  `validateVIN` would refuse it. `Text` and `Gathered` are recursive functions, whose
  values exist by `StepsExist`.

Only model-checked: the liveness properties, since TLAPS does not do fairness or
ENABLED. Every other property of the runs is a theorem. The theorems on formulas
are about numbers in thousandths, as the model is.

## Where the code and its comments disagree

In two configurations TLC finds a behaviour against a property that says what the
documentation says:

* `VehicleTemplatesStale`, `ReturnsLatest`: the URLs are saved before the parts, so
  a boot that was cut leaves parts that the next one takes for current
  (`internal/vehicle_template.go:88`, against the comment at line 37). In the
  shortest behaviour the parts are missing; they are old ones when an earlier boot
  had left some.
* `BleRequestsSignature`, `SignatureOfLast`: "Return the 65 bytes of the signature for
  the last submitted hash. If something went wrong with the signing this will error"
  (README.md:184 of the repository). The handler of an earlier hash may end after a
  later hash was submitted, and stores its signature (`ble_chars.go:656-671`), also
  when the later hash failed; and a read after a failure gives an empty value and no
  error. What wiping the old value does achieve is `FreshSignature`.

A third has no run of its own. "If the error is not tokenId zero, which would mean no
pairing, then check the local cache" (`main.go:307`), but no error has that text,
since the gateway turns a token id of zero into another
(`internal/gateways/identity_api.go:102`). In Startup `GetsNoVehicle` is therefore
followed by `ReadsCache`, and a device that is told in every turn that it has no
pairing runs with the vehicle of its file (`main.go:316`). `KnownVehicleRuns` does not
rest on that: it speaks only of starts in which the API could not be asked in some
turn, which is what the cache is for.

## Other observations

Seen while the code was modelled. The models do what the code does here; no run
states the opposite.

| source | what the code does | in the model |
|---|---|---|
| `internal/worker_runner.go:430` | `lastTimeChecked` is written without the mutex while the location loop may write it; the Go runtime may end the process | `MapRace` |
| `internal/worker_runner.go:457` | an answer that cannot be decoded is neither counted nor timed, so the PID is asked in every scan | `ObdCannotDecode` |
| `internal/worker_runner.go:404` | a native query that gets no answer is not counted | `ObdSends` (NativeRunner) |
| `internal/loggers/dbc_passive_logger.go:129` | the filter masks ignore the extended flag and bits above 29, as DBC files set them for extended frames, and a frame that passes without an entry dereferences nil | `ListenerPanics`, `Panics` (CanDecoding) |
| `internal/loggers/dbc_passive_logger.go:323` | the third byte of a frame that may be shorter is read, which ends the process | `Claims` |
| `internal/loggers/dbc_passive_logger.go:131` | a broadcast signal that cannot be decoded is logged and then sent as 0 | `PushedFor` |
| `internal/loggers/dbc_passive_logger.go:208` | a data identifier below 256 is sent as one byte, which a control unit refuses | `SendCANQuery`, `Understood` |
| `internal/loggers/dbc_formula_decoder.go:44` | the test for "not enough data" leaves out the digits of the PID, and the slice at line 49 ends the process instead | `ExtractAndDecodeWithDBCFormula` |
| `internal/loggers/dbc_formula_decoder.go:36` | the digits of a PID are found between two bytes of an answer as well (0x11, 0x34 or 0x41 after an identifier of 29 bits), and another number is decoded | `IndexOf`, `ClearLine` |
| `internal/loggers/dbc_formula_decoder.go:102` | a PID equal to the length or the mode of the answer is found there, and the number is wrong | `ParsePIDBytesWithDBCFormula` |
| `internal/loggers/dbc_passive_logger.go:320` | PID 255 is looked for as one of two bytes and PID 0 is never decoded, so neither is recorded | `Standard`, `Addressed` |
| `internal/models/template_configs.go:89` | the functional request of 29 bits is expected to be answered from 0x18daf133; control units answer from 0x18daf1xx with their own address | `ResponseHeader`, `Addressed` |
| `internal/loggers/vin_logger.go:125` | a refusal filled up with 0x55 before the answer is taken for letters, and a VIN that is none is accepted, since one hexadecimal digit is enough (line 154) | `Cleaned`, `validateVIN` |
| `internal/loggers/vin_logger.go:70` | a VIN query the AutoPi answers with a number (`commands/vehicle.go:149`) ends the process, as it is asserted to be a string | `NumberForVIN` |
| `internal/worker_runner.go:459` | a PID the AutoPi answers with a number is recorded without its formula | `NumberForPID` |
| `internal/loggers/passive_can_reading.go:38` | the errors of the interface are dropped: a scan reads on with can0 down, or ends the process when there is no such device | `SetsUp`, `NewFails` |
| `internal/loggers/passive_can_reading.go:41` | a reader that outlives its scan takes can0 down later, also under the native logger | `SetsDown` |
| `internal/loggers/vin_logger.go:205` | a result after the timeout is sent to a channel nobody reads: the goroutine stays for ever | `AnsweredOnce` |
| `internal/network/mqtt_store.go:34` | the counter only grows, as `Del` is that of the embedded store: after `limit` messages nothing is buffered until a restart, although the comment at line 26 speaks of the store's limit | `Put`, `Counted` |
| `certificate/certificate.go:134` | a certificate file that cannot be parsed is an error and not renewed, although README.md:247 says it is renewed on every start-up when due | `Checks`, `foundTorn` |
| `ble_chars.go:656` | two handlers assign `lastSignature`, a slice of three words, without a lock; a torn value is undefined behaviour and not in the model | `Signs` |
| `ble_chars.go:537` | once codes were read, clearing them shows only after a restart | `ShowsDTC`, `ClearEnds` |
| `internal/signal_frame_dump_q.go:97` | the queue is emptied before the job is marked done, so more frames are captured, several workers can send, and a late frame stays | `Dequeue`, `Marks` |
| `internal/network/data_sender.go:331` | `errors.Wrap` of an `err` that is nil reports success | `PublishTimesOut` |
| `internal/vehicle_template.go:104`, `:116` | settings and DBC read from disk are replaced by nil when their download fails; PIDs may be nil | `CannotDownload` |
| `internal/vehicle_template.go:94` | the cloud is told of the new template before it is downloaded | `Reports` |
| `internal/worker_runner.go:126` | `<=` gives one fingerprint try more than the maximum | `ObdStarts` |
| `internal/fingerprint.go:96` | a reset of the file makes a later boot report the VIN again | `Remembers` |
| `internal/dtcErrors.go:59` | codes that cannot be sent are not counted as a failure | `DtcSendFails` |
| `internal/loggers/vin_logger.go:55` | when no query is answered at all the passive scan is skipped | `GetVIN` |
| `ble_chars.go:493` | a read of the protocol fills the VIN cache, and the next VIN read neither clears nor saves | `BleGetsVIN`, `ReadsCachedVIN` |
| `commands/vehicle.go:78` | PID queries do not take the mutex of `GetVIN` | `ObdEnds` |
| `internal/hooks/loghooks.go:66` | an event that was counted before a reset is printed after it, so between two resets more than `stopLogAfter` may be printed: with 2, and a threshold of 3, two goroutines count, a third sends and resets, and the two and two more print | `Prints` |
| `internal/hooks/loghooks.go:70` | several goroutines can send for one threshold | `Decides`, `Sends` |
| `main.go:325` | the cached vehicle is written back after a deletion | `OpensCache` |
| `main.go:169` | a nil configuration is used before its error is looked at, also when `config.yaml` could not be written (`config/config.go:99`) | `ConfigFails`, `ReadsNoConfig` |
| `config/config.go:172` | an answer without the secrets is taken as the configuration; only the next start asks again | `WritesConfig` |
| `config/config.go:117` | eleven tries sleep 34 minutes, not an hour | `ConfigFails` |
| `config/config.go:133` | a torn `remote-config.json` is never fetched again | `ConfigFails` |

## Not modelled

* Payloads: cloud event headers, compression, signing, topics.
* The AutoPi commands and the API client: one HTTP request each; the callers'
  modules have an answer and an error.
* BlueZ registration (`service`, `agent`, partly generated) and the
  characteristics that pass a request through.
* The regular expression and the floating-point rounding of a formula, little
  endian signals (the code takes every formula for big endian), and the letters of
  a VIN in a passive scan.
* The subcommands of the command line and `internal/worker.go`, which is unused.
* Battery voltage (a choice), the periods set by device settings, the wait for
  the serial number and the modem at the start.

## Plan

The order was: queue and runner, since every signal goes through them; the
MQTT buffer with its abstract outbox; frame dumps, templates and VIN, which
share files and goroutines; rate limiter, certificate; the native
logger; the start as a whole; the decoders; the passive scan; the signing and
diagnostic codes. Left to do:

1. **Model**: payload periods; the composition of VehicleTemplates with the runner
   over a restart; the mailbox with a restart that forgets, for NativeRunner, whose
   history starts again with every boot.
2. **Abstract specifications**: what a template cell would promise is what
   `UpdateRunsLatest` and `SettledSurvives` state of the files already; it becomes
   worth a module when the runner is composed with it.
