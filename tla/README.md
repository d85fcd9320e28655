# Verification of the gateway (bridge) firmware

The gateway is one Linux process in C. Once a minute it reads temperature probes
through Bluetooth core modules, stores every reading in a local SQLite file, and
copies the stored readings to a DynamoDB table over plain HTTP. This directory
models it in TLA+, checks the models with TLC and proves their safety properties
with TLAPS.

## The system

| part | source | state | operations |
| --- | --- | --- | --- |
| main and timer | `src/src/main.c` | start time, the `bridge` record | `main` starts the database thread and a 1 s timer; `timeout_callback` runs a round when a full minute has passed: `ble_data_acq` for each Bluetooth core module, then one push per sensor |
| Bluetooth acquisition | `src/src/ble_data_acq.c` | the global socket, the handles and `discovered` of a core module, `data` and `data_code` of a sensor | `connect_ble`, `dicover_char`, `send_ble_cmd_with_response`, `write_ble_data`, `read_ble_data` |
| probe protocol | `src/src/temp_probe_RS485_tsys01.c` | none | builds the command of a TSYS01 probe, reads the status and the temperature out of the answer |
| database thread | `src/src/dynamodb_utilities.c` | `no_internet_count`, the reading in hand | `db_data_handler` pops a reading, stores it, and attempts an upload (`sync_hx_data`) |
| local database | `src/src/localdb_utilities.c` | the table: rows with `sync_status` | `write_sqlite_hx_data` |
| upload of one reading | `src/src/dynamodb_utilities.c` | a connection, `http_response` on the stack | `sync_single_raw_data`, `put_dynamodb_http_request` (format and sign), `send_http_request_to_dynamodb`, `recv_timeout` |
| network utilities | `src/src/utilities.c` | none | `resolve_ip`, `check_internet` |
| configuration | `src/src/utilities.c` | the core modules and sensors, the configuration file and its version | `init_data`, `load_local_config`, `load_remote_config`, `update_core_module`, `update_sensors`, `update_config_file`, all before the threads start |
| codecs | `src/src/utilities.c` | none | hexadecimal conversion, checksum |
| simulation | `src/src/simulation.c` | none | made-up readings; nothing calls it |

Two threads run. The main loop's callback produces, `DB_TH` consumes; between them
is the GLib queue `data_queue`, which locks itself. The callback alone touches the
core modules, the database thread alone the SQLite file and the HTTP connections.
They share the process's descriptor table, and die together. Everything but the
SQLite file, the configuration file and the DynamoDB table is lost in a restart.

What is hard here: an upload attempt has seven ways out, some of which leave a
connection and its lock behind; requests and answers can be lost, and a restart
can fall between an upload and its mark; the radio link can fail at every
exchange of a round while the state of earlier rounds stays in place; answers of
probes come late or cut short; the configuration is fetched in several
scans, none of them consistent, while it may be edited, and saved over the only copy
without a sync; timeouts are taken from a wall clock that may be set; and both threads
take numbers from one table of descriptors, which one of them closes more than once
and goes on using. `PROJECT.json` lists these hazards at their lines.

What makes each part correct:

- database thread: every reading pushed is stored once, in order; rows are marked
  oldest first and only when uploaded; what is uploaded twice is at most one
  reading; attempts are spaced but do not stop; the queue is always emptied;
- acquisition: the value queued for a sensor is that sensor's, of that round, or
  the error value with its code; the socket is closed; a round ends, and reads
  nothing more once it has lost its socket;
- HTTP exchange: it gives up in the time its comments promise, its verdict is
  right, and it closes what it opened;
- descriptors: a thread uses and closes only the numbers it opened;
- timer: a round begins every minute and has a time of its own;
- configuration: the file is one that can be loaded, its version says what it
  holds, and the gateway runs on it.

## Modules

| module | what it is |
| --- | --- |
| `DbHandler.tla` | the database thread, the queue, the SQLite file and the table of the service; restarts |
| `Outbox.tla` | what that thread promises: store, upload and confirm in order |
| `Outbox_proofs.tla` | what the promise amounts to: the cloud is a copy of the beginning of the store |
| `DbHandler_proofs.tla` | the theorems about `DbHandler` |
| `BleAcquisition.tla` | one core module and its sensors over several rounds |
| `BleAcquisition_proofs.tla` | the theorems about `BleAcquisition` |
| `HttpExchange.tla` | one request of the database thread after another: lookup, connection, send loop, `recv_timeout`, verdict |
| `PutItem.tla` | what one upload promises `db_data_handler` |
| `HttpExchange_proofs.tla` | the theorems about `HttpExchange` |
| `ConfigStore.tla` | `init_data` over several starts, the file, and the table an administrator edits |
| `ConfigStore_proofs.tla` | the theorems about `ConfigStore` |
| `Descriptors.tla` | the descriptors both threads open and close |
| `Descriptors_proofs.tla` | the theorems about `Descriptors` |
| `MainLoop.tla` | the timer, the clock test of `timeout_callback`, restarts |
| `MainLoop_proofs.tla` | the theorems about `MainLoop` |
| `MCDbHandler.tla`, `MCBleAcquisition.tla`, `MCHttpExchange.tla`, `MCConfigStore.tla`, `MCDescriptors.tla`, `MCMainLoop.tla` | the constants of the TLC runs |

How they fit: `MainLoop` says when a round begins, `BleAcquisition` what it does,
and `DbHandler` what becomes of its readings. `DbHandler` treats an upload as one
step with six outcomes; `HttpExchange` takes that step apart and implements
`PutItem`, which says of it what the thread relies on. `ConfigStore` ends where the
other modules begin. `Descriptors` is the one state the threads share besides the
queue; it keeps of the other modules only what they open and close, in any order
they allow.

Definitions that begin with "A plausible bug" in their comment are not part of a
specification: each is the mutated form of the definition below it and shows that
a property can fail.

### DbHandler

A reading is the number of its push, which is all its properties need of it. The
table is the sequence `rows` and the set `synced` of the ids with `sync_status` 1.
`pc` follows `db_data_handler` and `sync_hx_data`:

| action | code |
| --- | --- |
| `Push` | the sensor loop of `timeout_callback` |
| `Pop` | `g_async_queue_pop` |
| `WriteSucceeds`, `WriteFails` | `write_sqlite_hx_data`; its transaction is atomic, so it is one step |
| `TrySync`, `SkipSync` | the test and the steps of `no_internet_count` |
| `SyncOffline`, `SyncHangs` | `check_internet` fails, or waits for ever for an answer it reads without a timeout |
| `SyncNoDb`, `SyncOpen` | `sqlite3_open` of `sync_hx_data` |
| `StepRow`, `StepDone`, `StepError` | one `sqlite3_step`: the next pending row, the end, a failure (whose columns read as 0 and NULL) |
| `PutAccepted`, `PutRejected`, `PutRefused`, `PutSilent`, `PutHangs` | one PutItem request, by what becomes of it |
| `AppliedLate` | the service comes to a request whose sender has given up, hangs or has died |
| `MarkSucceeds`, `MarkFails` | the UPDATE of the row |
| `Crash` | the process dies at any point and starts again |

Two pieces of state are not variables of the program. `leaked` says that a
connection was left open with an unfinished SELECT: in SQLite's rollback journal
mode, which the code does not change, it keeps a SHARED lock, and no other
connection can commit a write until the process ends. `resp` is what the
uninitialised array `http_response` holds: the calls of one loop have the same
stack depth, so an earlier answer may still be there when nothing, or only the
beginning of an answer, is received, and may also have been overwritten; both
happen in the model.

`late` holds the readings of requests nobody waits for any more and the service may
still apply: a request the thread gave up (`PutSilent`), waits for without end
(`PutHangs`), or had under way when the process died (`Crash`). `AppliedLate` moves
one into `cloud` at any later time, after restarts too, or never.

`boot`, `quiet`, `pushed` and `crashes` are history and influence nothing but the
bounds.

### BleAcquisition

The sensors of one core module are places of `Probes`; the static buffers and the
socket are used by one core module at a time, so one is enough. A request and its
answer are one step: what a poll reads is decided between requests. Whether the write
or the read failed is left open (`ExchangeBroken`), and so is whether a command whose
exchange failed has reached the core module all the same (`MayHear`).

| action | code |
| --- | --- |
| `ConnectSucceeds`, `ConnectFails` | `connect_ble`, and the error value for every sensor if it fails |
| `NextSensor`, `LastSensor` | the head of the loop of `ble_data_acq`, and the last `close` |
| `Skip`, `UnknownProbe`, `ReadProbe` | what the loop does with a sensor by its kind and `discovered` |
| `DiscoverNext`, `DiscoverAgain`, `DiscoveryEnds` | the loop of `dicover_char`; what it found before a failure stays |
| `Command`, `CommandRefused` | the write of a command and its acknowledgement |
| `PollMisses`, `PollMatches` | one turn of the polling loop; an answer found on the last poll fails, as in the code |
| `ExchangeBroken` | `write_ble_data` or `read_ble_data` fails and closes its number |
| `Hangs`, `Dies` | a call or a discovery that never ends; a division by a block size of 0, or SIGPIPE |
| `Publish` | the callback queues data and code of every sensor |
| `NumberTaken`, `NumberFreed` | the database thread opens something and is given the closed number; it closes it |
| `PeerAnswers`, `Restart` | the core module; the next process |

A failed read or write closes the socket and the round goes on with its number. `sock`
says what the number stands for by then: nothing (`closed`), or a file or a socket of
the database thread (`other`). A call on nothing fails and closes nothing. A call on
the other thread's number may fail and close it (`Broken`), return nonsense (`Stray`),
or not return, as a connection of `check_internet` has no timeout (`Hangs`).

`dicover_char` gets on only by what its answers hold (`ble_data_acq.c:401`): an entry
that is given again is counted again and brings it no further (`DiscoverAgain`), and
nothing but the core module ends that; a block size of 0 ends the process (`:427`).

The buffer `ble_resp` is static and the length of an answer is not looked at: of an
answer that ends after the address, the temperature is what the buffer held before
(`resp`, in `Answered`).

The core module is external. It acknowledges a command, asks the probe later
(`PeerAnswers`), and keeps one answer. What kind it is the repository does not show,
so a set of traits says it: a command drops what came before it (`clears`), discovery
may be given an entry twice (`repeats`), an answer may be cut (`cuts`). No property
counts seconds: a write that fails has tried `RETRY_TIMES` times, and may have blocked
for `BLE_TIME_OUT` each time (`ble_data_acq.c:184`).

### HttpExchange and PutItem

Octets of an answer are copied over what the buffer held, in pieces of any size, so
what is judged may be half new and half old. What `sync_single_raw_data` searches for
tells four parts of an answer apart: `HTTP/1.1 ` and whatever else all answers begin
with, the octets of the code, which alone make it `200 OK` or another, the `Date`
header, and the body. The code counts as come when as much of it has as decides which
of the two it is; before, a piece that ends within it leaves an older code as it was.

A tick is a sleep of the loop in `recv_timeout`, or as long a time. `waited` is the
difference of the wall clock to `begin`, which the code looks at before each read:
`HeldUp` lets the thread not run for as long as may be, with data waiting or not, and
`ClockSet` sets the wall clock, forward or back. Two histories are not moved by a
setting: `silence` counts the ticks since data was last read in which there was none to
read, `unread` those in which there was some. They stop at `MaxTicks`, which is past
anything a property compares them with.

| action | code |
| --- | --- |
| `Begin` | `check_internet`, or `sync_single_raw_data` up to its request; the buffer keeps what the stack held, or was overwritten |
| `LookupFails`, `AddressWorks`, `AddressFails`, `AddressWithoutSocket` | the address loop of `resolve_ip`, a datagram socket for each |
| `Connected`, `ConnectFails` | `socket` and `connect`, for either use |
| `CheckEnds` | the rest of `check_internet` |
| `Write`, `WriteFails`, `WriteKills` | one turn of the send loop; on a connection that is gone the next write raises SIGPIPE |
| `WriteStumbles` | a write that fails and is survived, as on a number that is closed and given out again: the next one starts an octet before what is due |
| `RecvData`, `RecvNothing`, `RecvEndOfStream`, `RecvEnds` | one turn of `recv_timeout`; its end, the `close`, and the judgement of the buffer |
| `HeldUp`, `ClockSet` | the thread is not scheduled; the wall clock is set |
| `Restart` | the process after SIGPIPE |
| `Apply`, `Reply`, `Deliver`, `Close` | the service, which may be late or never come |

`PutItem` says that a verdict is ok only over a buffer that holds a success, and
that a success gets there only from a service that has applied the request; its
buffer is the part of `http_response` with the code. It does not say that the buffer
was clean. That gap is where `db_stale` lies.

### ConfigStore

A configuration is a version, a set of core modules and a list of sensors for
each; a list is known by whose it is and by its revision. `config_version`, `cms`
and `sens` are `bridge_data`, `file` is `config.json` as processes see it, `safe` as
it is on the disk, and `published`, `linked` and `revision` are the rows of
`Hx.DeviceConfiguration`, edited one at a time and then given a new version.

| action | code |
| --- | --- |
| `Load`, `LoadFails`, `LoadDies` | `load_local_config` of a whole, an empty, a cut file; it may also die of a whole one |
| `Online`, `Offline` | `check_internet` |
| `UpdateNeeded`, `NoUpdate`, `GatewayFails` | the scan of `load_remote_config` for the gateway's row |
| `VersionOnly`, `UpdateUnversioned` | the same for a row without DeviceID, or without ConfigVersion |
| `ModulesFound`, `ModulesFail` | `update_core_module` |
| `SensorsFound`, `SensorsFail`, `SensorsUnanswered` | `update_sensors`, one list each; unanswered, the buffer the last call left on the stack is judged |
| `Truncate`, `Write`, `WriteFails` | `update_config_file`, in place |
| `AnswerCut`, `Hangs` | an answer that parses to NULL, which is read through; a request without an end |
| `Crash` | the process dies; what it has written so far stays in the page cache |
| `Sync`, `PowerFails` | the kernel writes the file out, in its own time; the power fails first |
| `EditSensors`, `EditLinks`, `Publish` | the administrator |

No scan asks for a consistent read (`utilities.c:270`), so each may return the version,
the core modules or a list as they were at some earlier time. A file is written with
`fopen`, `fwrite`, `fclose` and no `fsync` (`utilities.c:246`): until `Sync`, a power
failure may leave the file of before, the new one, an empty or a cut one, long after
the gateway runs on it. A core module's row without a DeviceID is passed over; which
rows have one is part of `linked`.

`unanswered`, `missed` and `incomplete` are histories that properties need.

### Descriptors

`fd` says what each number stands for, and an open takes the lowest that is free.
`sock` keeps its number when it has been closed, as the global does. The rounds
and the uploads are those of the modules above without their reasons: any call may
fail at any time. `leaked` holds the numbers a return forgot.

### MainLoop

Time is ticks, `SECOND` to the second. GLib arms the timer one period after the
moment it calls the callback, so `Call` moves `due` with its own lateness. The
wall clock is `skew` ahead of the ticks and may be set, forwards or back.

## Runs

| run | shows | bounds |
| --- | --- | --- |
| `db_any` | with every outcome, fault, hang and restart: types, order of the table, marks oldest first, one repeated upload at most however late a request is applied, the retry budget | 6 readings, 2 restarts, frequency 2 |
| `db_answering` | when every request is answered or known to be refused: marks are evidence, no loss before a leak, a successful attempt covers the backlog, every queued reading is handled, `DbHandler` implements `Outbox` | 7 readings, 1 restart, frequency 2 |
| `db_leak` | violation: after one failed upload readings are no longer stored | 3 readings |
| `db_stale` | violation: a request without an answer is taken for a successful one | 3 readings |
| `ble_round` | handles, error values, origin and age of measurements, socket, what is read after its loss, how rounds end | 4 sensors of all kinds, core modules without a trait and with each, 2 rounds, 3 polls |
| `ble_stale` | violation: an answer to an earlier command is accepted | 2 sensors, 2 rounds |
| `ble_unread` | violation: values that were never measured are queued with code OK | 2 sensors |
| `http_any` | patience with a silent service, verdicts against what the service did, the octets it receives, sockets left open, the end of an exchange; `HttpExchange` implements `PutItem` | 3 requests, 2 addresses, 3 octets, 3 sockets, timeout 1 tick, the clock set back 1 tick at most, 1 failed write survived |
| `config_any` | version and contents of the file, what the gateway runs on, whose sensors a core module gets, loss of the file, the end of a start | 2 core modules, 2 versions, 1 edit, 2 starts |
| `desc_any` | whose number is whose, what is left open, when a wrong close or write can first happen | 4 numbers; no bound on rounds or rows |
| `desc_stray` | violation: a command is written to a file or a socket of the other thread | 4 numbers |
| `loop_any` | times of the rounds, lateness against missed rounds | 3 ticks to a second, a round every 2 s, 19 ticks, 1 setting of the clock |

Why the bounds are enough. The retry counter needs a frequency of at least 2 to
tell one past the limit from the limit; 6 readings give a failed attempt, the
readings skipped, the next attempt, and its failure; 7 give the third attempt. Two
restarts allow one during the recovery of another. Two readable probes are what
one answer can be confused between; two rounds let a failure of the first and the
answer it left meet the second; three polls distinguish the first, a middle
one and the last. Three requests let one fail, one go unanswered and one be judged
by the first's answer; three octets have a first, a middle and a last piece; with
three sockets two leaks leave one; one failed write is enough to shift what the next
one sends. Two core modules are what a list can be confused between, one edit may
fall on each side of either publication and of every scan, and the second start meets
the file of the first, which may not have reached the disk. More rounds, traits
together, and more edits and starts are in the proofs.
Four numbers are one for the callback, two for the database thread, and one to
leak before the table is full. Two seconds to a round leave one second that may be
passed over without harm. The proofs do away with the bounds where they exist.

`CHECK_DEADLOCK FALSE` is set where the models stop by design: readings, rounds,
requests and ticks are bounded, and a thread that is stuck stays so. `config_any`
stops once its starts are used up; `Descriptors` has no bound and is checked for
deadlocks.

## Fairness

`DbHandler` has weak fairness of the thread's next step: the kernel schedules it,
and every call it makes returns, in the run that checks a liveness property, since
the two that may not (`check_internet` without an answer, `recv_timeout` on a
closed connection) are left out of that run and appear in `db_any`. No fairness is
assumed of the sensors, of the network, or of restarts. `BleAcquisition` has weak
fairness of the callback inside a round: `SO_RCVTIMEO` and `SO_SNDTIMEO` bound every
call on its own socket. They bound none on a number of the other thread, and nothing
bounds a discovery whose entries repeat; there the callback may take the step `Hangs`,
which `RoundEnds` names, and in a discovery it may also never take it. The core module,
the other thread and the start of rounds have no fairness. `HttpExchange` has
weak fairness of a turn of `recv_timeout`, whose reads do not block, but for the times
it is held up; nothing is assumed of the calls that do, nor of the service.
`ConfigStore` has weak fairness of the next step of `init_data`; a scan that does not
return is a step, to "hung". The kernel's write to the disk has none.
`Descriptors` and `MainLoop` state no liveness and assume none.

## Proofs

`DbHandler_proofs.tla` proves, for every frequency above 0, every set of outcomes
and any number of readings and restarts:

- `TypeCorrect`: `TypeOK` with `RetryInv`. The bound of `no_internet_count` is not
  inductive alone: a failure increments it from anywhere unless it is known that an
  attempt runs only at 0, and that is half of `RetryInv`; the other half, that the
  counter is one more than the readings skipped, gives `RetryBudgetHolds`.
- `StoredInOrderHolds`: with `QueueInv`, the queue is sorted and lies after the
  reading in hand, which lies after the table.
- `UploadInOrderHolds`: with `CursorInv`, the row that is sent or marked is the
  oldest pending one; this is what stopping at the first failure is for.
- `AtMostOneUnmarkedUploadHolds`: from the two orders; that a reading is in one row
  only comes from the first, that only the oldest pending row is sent from the
  second. It speaks of `cloud` and `late` together, and has to: a request given up
  two restarts ago may still be applied, and is harmless because the row it carries
  has been the oldest pending one ever since, or is marked.
- `SyncedIsInCloudHolds` and `ImplementsOutboxHolds`: under `Answering` (no request
  is left unanswered), with `MarkInv`. `db_stale` shows that the assumption is
  needed.
- `CloudIsABeginningHolds`: under `Answering` too. The refinement carries over what
  `Outbox_proofs` proves of the promise itself, for any readings (`CloudIsABeginning`
  there): the marked rows are the first so many of the table, and the cloud holds
  just their readings, or those and the next. No step of `DbHandler` is looked at
  again.
- `SuccessLeavesNoBacklogHolds`, `NothingLostBeforeALeakHolds`: under
  `DbFaults = FALSE`, a disk that does not fail.
- `EveryReadingIsSavedUnlessRefused`: under `DbFaults = FALSE` and requests that are
  accepted or hang, the connection never leaks.
- `AttemptIsBoundedHolds`: see "Bounded lengths" below.

`BleAcquisition_proofs.tla` proves, for any sensors and characteristics (each of
the two UUIDs at most once), any number of polls and rounds, and a link that may
fail anywhere:

- `TypeCorrect` and `HandlesKnownHolds`: `TypeOK` with `DiscoveryInv`. The code
  counts the handles it finds and never lowers the count; that it is right, for a
  core module that gives no entry twice, needs that a discovery starts only when
  nothing is known and that what it has found lies behind it.
- `SocketClosedHolds`: with `SocketInv`, a round that has lost its socket does not
  have it open, and between rounds nothing is.
- `NothingReadAfterLossHolds`: with `LossInv`, the sensors between the one the socket
  was lost at and the one the loop is at have failed. It holds whatever the number
  has come to stand for, since no acknowledgement and no answer with an address come
  from the database thread's files and sockets.
- `ErrorIffSentinelHolds`, `OwnReadingHolds`: inductive beside the types; the
  second rests on the address check and on answers that come whole.
- `RoundIsBoundedHolds`: see "Bounded lengths" below.
- `ResponseIsToCommandIfCleared`, `OkMeansMeasuredIfSound`: see "What the violations
  need" below. The second has an invariant of its own, `MeasuredInv`: discovery,
  where it stands, has not passed a UUID it has not found, so it ends with both.
- `FreshIfClearedHolds`: with `FreshInv`, for answers that come whole. The sensors a round skips are the subtle
  part: they keep what they hold, and it is never a measurement, because only a
  probe the loop can read, of a core module with both handles, ever gets one.

`HttpExchange_proofs.tla` proves, for any addresses, request length, patience,
sockets and number of requests:

- `TypeCorrect`, `RequestIntactHolds`: with `Sends`, the count of octets is what the
  service has heard less one for each write that failed; where none has been survived,
  the two agree at every write.
- `QuietEndsHolds`: with `Timing`, `silence` and `unread` together are `waited` while
  the service keeps the connection open and nobody sets the clock.
- `FalseOkHolds`: with `Fresh` and `Answers`, nothing is received before the request is
  sent, a success is answered only when the item is there, and once the code has come
  the buffer holds the code of this answer. `FalseOkOnlyFromOldStatus` says no more
  than that: an answer of which only the beginning came is completed by an older one.
- `AnswerInTimeHolds`: with `Judged`. A service's success is missed only if the loop
  ended before all four parts were read, and it ends by the clock alone; `Timing` turns
  that into what happened meanwhile: silence, a thread held up with data waiting, or a
  setting of the clock.
- `LeaksOnlyOnFailureHolds`: with `Sockets`, `open` is `lost` and the one in use.
- `ImplementsPutItemHolds`: each step is one of `PutItem` or a stutter.
- `ExchangeIsBoundedHolds`: see "Bounded lengths" below.

`ConfigStore_proofs.tla` proves, for any finite set of core modules and any bounds:

- `RunsOnFileOrNothingHolds`, `WholeFileIsKeptHolds`, `VersionNeverFallsHolds`:
  with `Place`, which says how memory and file stand to each other at each place of
  the start: the same before an update, the file older within it. The last two are
  about steps: `FileSteps` lists those that change the file, and each is the write of
  an update, the process dying within it, or a power failure while the file is not on
  the disk.
- `UpToDateHolds`: with `Fresh`, of the file in use and of the one on the disk. If no
  edit is under way and the version fetched is the published one, what has been
  fetched so far is what the table holds: an edit after the version was read makes
  `editing` true until a newer one is published.
- `OwnSensorsHolds`: with `Own`, the same of both files.
- `StartIsBoundedHolds`: see "Bounded lengths" below; the only one for which the core
  modules have to be finitely many.

`Descriptors_proofs.tla` proves, for any finite or infinite table of numbers:

- `TypeCorrect`, and with it that the database thread has a number just between the
  open and the close on each of its ways out.
- `OwnDescriptorsHolds`, `EveryDescriptorHasACloserHolds`: inductive beside the
  types.
- `WrongUseHolds`: from `OwnDescriptors` before the step, and `EndHasFailed`: until a
  call of a round fails, that round neither closes nor writes to a number of the
  other thread.
- `WritesHoldUntilAFailure`: the same over a whole behaviour.

`MainLoop_proofs.tla` proves, for any resolution, interval, lateness and number of
restarts:

- `OneRoundPerTimeHolds`: with `Order`, the timer is due no sooner than a second
  after the last call on the wall clock too, and no round is later than that call.
- `MissedArePaidForHolds`: with `Pace`. The bound alone is not inductive; with the
  fraction of the second the last call fell in, it is: the seconds passed over and
  the fraction gained are the lateness.

### Bounded lengths

That a round or an attempt ends is liveness: it needs the weak fairness of the
thread, whose definition contains ENABLED, which the prover does not handle. What
makes it true has a proof all the same. Each of the four modules with a liveness
property has a measure `Left`, a number that says how many steps the thread can
still take; the theorem says where it starts, that every step of the thread lowers
it, and that no step of anybody else raises it. With fairness, which TLC takes into
account, the end follows.

| theorem | an episode | the most steps it takes |
| --- | --- | --- |
| `AttemptIsBoundedHolds` | from the pop of a reading to the next pop | `3 * Len(rows) + 7` |
| `RoundIsBoundedHolds` | a round of one core module, until it ends, hangs or dies | `2 + Len(Probes) * (Len(Chars) + FAST_RETRY_TIMES + 5)`, repeated entries not counted |
| `ExchangeIsBoundedHolds` | an exchange, from the lookup to its verdict | `ADDRESSES + REQUEST + 10 * TIMEOUT + 17`, one more for each failed write that is survived; the turns at the end of the stream not counted |
| `StartIsBoundedHolds` | a start, until it runs, hangs or dies | `Cardinality(Modules) + 6` |

The first says why readings pushed during an attempt do not prolong it: the cursor
only goes over rows, and rows are only added by the thread itself. The second and the
third name what is not counted, and must not be: `DiscoverAgain` and `RecvEndOfStream`
may be repeated for ever. A setting of the clock may prolong an exchange too, by as
much as it is set back.

### What the violations need

A violation shows that a property fails; these theorems say what it takes. Each
states the violated property under an assumption on the environment, for every
value of the constants, so that nothing else can be the cause.

| run | property | holds if | theorem |
| --- | --- | --- | --- |
| `db_leak` | `EveryReadingIsSaved` | the disk is sound and each request is accepted, or hangs | `EveryReadingIsSavedUnlessRefused` |
| `db_stale` | `SyncedIsInCloud` | no request is left without an answer | `SyncedIsInCloudHolds` |
| `ble_stale` | `ResponseIsToCommand` | core modules drop an answer at the next command, and answer whole | `ResponseIsToCommandIfCleared` |
| `ble_unread` | `OkMeansMeasured` | the link does not fail, no entry is repeated and no answer cut, every probe is of a kind the loop reads, and discovery meets both UUIDs before an entry it cannot read | `OkMeansMeasuredIfSound` |
| `desc_stray` | `WritesGoToTheCoreModule` | no call of a round fails | `WritesHoldUntilAFailure` |

### Only model-checked

`EveryReadingIsHandled`, `RoundEnds`, `ExchangeEnds` and `StartEnds`, the liveness
properties: fairness and ENABLED are out of the prover's reach. Every invariant and
every action property a run checks has a theorem.

## What the violations show

1. `sync_hx_data` returns early without `sqlite3_finalize` and `sqlite3_close`
   (`dynamodb_utilities.c:186`, `:192`). One refused or rejected upload, after an
   internet check that succeeded, stops the local storage until the next restart.
2. `http_response` is neither cleared nor terminated, and its length is ignored
   (`dynamodb_utilities.c:30`, `:89`). It takes no silence: the beginning of an answer
   over an older success is judged a success too (`FalseOkOnlyFromOldStatus`).
3. The answer check compares the address only (`ble_data_acq.c:331`).
4. Sensors that discovery keeps from being read are queued as they are, at first
   0 with code OK (`ble_data_acq.c:509`, `main.c:44`).
5. A failed read or write closes the socket and the round goes on with its number
   (`ble_data_acq.c:203`, `:245`): the commands of the remaining sensors may be
   written into the SQLite file or a connection. `WrongUseNeedsAFailure` says that
   it takes a failure, and `OwnDescriptors` that until then nothing is mixed up.

What the passing properties exclude says as much:

- `ExchangeEnds` and `QuietEnds` hold until the service closes its connection: `read`
  then returns 0, which `recv_timeout` takes for data and restarts its clock
  (`dynamodb_utilities.c:286`), so that it never returns, against its comment at `:273`.
- `QuietEnds` and `AnswerInTimeIsTaken` except settings of the clock, and the second a
  thread that comes late: the clock is looked at before the read, so an answer that is
  there may be left unread (`dynamodb_utilities.c:274`).
- `RequestIntact` excepts a failed write that the next one survives: what is sent then
  begins an octet early (`dynamodb_utilities.c:344`).
- `RoundEnds` excepts calls on the other thread's number and a discovery whose entries
  repeat (`ble_data_acq.c:401`), and counts the death of the process as an end.
- `UpToDate` is about updates that missed nothing: after one whose scan failed, or read
  old rows, the new version is saved all the same (`utilities.c:498`, `:521`).
- `RunsOnFileOrNothing` has its second case because `update_core_module` frees the core
  modules before it has others (`utilities.c:378`).
- `OwnSensors` is about starts without an unanswered scan: one gives a core module the
  sensors of another (`utilities.c:307`).
- `WholeFileIsKept` excepts the write in place and the time until the file is on the
  disk, in which the power may fail (`utilities.c:246`).
- `StartEnds` counts a process that dies of a good file as an end, and one that hangs on
  a request (`utilities.c:749`, `dynamodb_utilities.c:286`).
- `NothingLostBeforeALeak` begins anew with each process: the readings queued or in hand
  when one dies are lost (`dynamodb_utilities.c:214`).
- `MissedArePaidFor` is an upper bound that is reached: a second of lateness in all can
  cost a round (`main.c:25`), where `defines.h:36` has one minute between readings.

## Not modelled

- The seconds a call on the Bluetooth socket may block: what a round does after is
  modelled, how late it is only as the lateness of the next call in `MainLoop`.
- Signing and formatting of requests, the SQL texts, the byte layout of commands
  and answers: formatting without state.
- The hexadecimal conversions of `utilities.c`, which nothing calls, and
  `cal_checksum`, a sum whose result is part of a command's layout.
- The low octet of a handle, which is all a command carries (`ble_data_acq.c:272`):
  whether a handle is above 255 depends on the core module's attribute table.
- The pages of a scan: the code asks for the first only, and a table that fits into
  one is assumed.
- Memory safety of the buffers, and which memory the two releases of
  `load_local_config` or the freed address of `resolve_ip` hit: the process may end,
  and the connection may fail.
- `free_defs`: after a main loop that never ends.
- `simulation.c`: not called.
- A crash by SIGPIPE or memory exhaustion is one of the restarts of `Crash`;
  in `HttpExchange` SIGPIPE has a step of its own, and `Dies` is one in `BleAcquisition`.

## Plan

1. `DbUpload`, a composition of `DbHandler` and `PutItem`: the one step of an upload
   replaced by its own steps, so that a restart can fall within it and the buffer of
   one upload reaches the next, and a proof that it implements `DbHandler`.
2. An abstract specification of a round of `BleAcquisition` (for each sensor, one
   measurement of its own or the error value), with the refinement.
3. The composition of the modules into one specification of the gateway, in which a
   reading carries the time of its round from the probe to the table; it needs no
   new behaviour of the code, and the interfaces above are where its parts meet.
   With it, several core modules in a round, which share one socket and the static
   buffers of `ble_data_acq.c`.
