# 5map: specifications, model checking and proofs

5map maps WiFi environments: sensors in the field (a WiFi Pineapple, ESP32
boards, a router) send observation windows over MQTT to AWS, Lambdas store
them and compute maps, and a mobile app and web dashboards show them. This
directory models the parts of the program whose correctness depends on the
order of events: threads, signals, timeouts, crashes, retries and messages that
arrive late. Paths are relative to the root of the repository.

Contents: [system](#the-system) · [modules](#the-modules) ·
[runs](#the-runs) · [proofs](#the-proofs) · [divergences](#where-code-and-words-differ) ·
[not modelled](#what-is-not-modelled) · [plan](#plan)

## The system

| component | state it keeps | operations | who it works with | what makes it correct |
|---|---|---|---|---|
| MQTT transport (`pineapple/transport/mqtt_client.py`) | a bounded queue, two events (`_connected`, `_shutting_down`), a back-off, the paho session | `connect`, `publish`, `flush`, `disconnect`; callbacks; publish thread; reconnect threads | the capture agent and the bridges call it | no window is duplicated or vanishes, order holds while nothing is lost, teardown returns and strands nothing, a lost link comes back |
| Capture agent (`pineapple/capture_agent.py`) | the observations of the current window under a lock, `running` | packet handler, flush loop, `start`, `stop` as a signal handler | hoppers, transport | every packet is counted once, `stop()` ends and publishes what there is |
| Channel hopper (`pineapple/channel_hopper.py`) | stop event, thread, current channel | `start`, `stop`, the hop loop that calls `iw` | the radio, the agent | one loop per radio, the reported channel is the tuned one, every channel is visited |
| Frame buffer (`src/pipeline/buffer.py`) | a bounded deque, a drop count, stop event, timer thread | `add`, `flush`, `start`, `stop` | any sensor thread, a callback | frames are conserved, the oldest are dropped and counted, the timer's life cycle |
| Fingerprint collector (`src/pipeline/fingerprint_collector.py`) | readings per MAC and sensor, histories | `add_observation`, `add_observations_bulk`, `flush` | the bridges' scans, the classifier | a MAC has a fingerprint only if enough sensors saw it |
| Frame router, sensor transport (`src/pipeline/frame_router.py`, `transport.py`) | none | `normalize`, `send` | sensors, the paho client of `MQTTTransport` | a frame keeps what it says |
| Sensors, registry, CSI processor (`src/sensors/`) | aggregators, one pending window each, a deque of frames per MAC, health | `feed_window`, `capture`, `configure`, `health_check` | the bridges, the router | no window is read twice, a dead device is unhealthy |
| Frame parsing, window aggregation (`pineapple/parsers/`) | the best observation per device, a cap | `add`, `flush` | nobody: the agent aggregates itself | a window is complete up to the cap |
| ESP32, ESP32-S2 and router bridges (`esp32_bridge.py`, `esp32s2_wifi_bridge.py`, `router_bridge.py`) | aggregators shared by threads without a lock, the serial port | serial, poll and flush threads, `stop` in a signal handler | serial devices, transport, data file | no observation is lost or sent twice between the threads, a source that is back is read again |
| Serial bridge of the Pineapple, relay (`pineapple/esp32_serial_bridge.py`, `relay_server.py`) | the networks not posted yet | read a line, post a batch | firmware, REST Lambda | a scan is counted once, devices are seen in order |
| Pi edge bridge (`pi-edge/esp32/bridge.py`) | none | one POST per row | REST Lambda | - |
| Dashboard data file (`ble_scanner.py`, the bridges, `scripts/*.py`) | `dashboard/data.json`, `data.tmp`, `data.lock` | read, merge, replace | six processes, the dashboard | no writer undoes another, a reader never sees half a file |
| Ingest Lambda (`backend/handlers/preprocessor.py`) | a cache of session ids; four stores | record loop; the event source mapping | Kinesis, DynamoDB, S3 | every record is dealt with, the tables agree with the stream |
| REST Lambda (`backend/handlers/api_handler.py`) | sessions, positions, maps | sessions, positions, scans, map generation and push | DynamoDB, the app | creation is idempotent, a map of all positions is made and reaches its subscribers |
| WebSocket Lambda (`backend/handlers/ws_handler.py`) | the table of connections | connect, disconnect, subscribe | API Gateway, the push | a row for every connection and for no other |
| Authorizer (`backend/handlers/authorizer.py`) | none | compare a token | API Gateway | - |
| Mobile app (`app/`) | a store, a WebSocket client with a timer, cached answers | select, reconnect, take a message, fetch | REST, WebSocket | one connection, an honest status, data of the selected session |
| Movement tracker (`ml/models/movement_tracker.py`) | tracks, pending zones, MACs of a device | `update`, `link_mac`, `get_active_tracks` | the classifier | a zone changes after consecutive observations only, history is a path |
| ML models, training (`ml/`) | numeric parameters | fit, predict | SageMaker | numerical accuracy |
| Firmware (`esp32/`, `firmware/`, `pi-edge/esp32/firmware/`) | driver state, a retry counter | callbacks | bridges over serial | it keeps scanning |
| Dashboards, configuration schema, Terraform | - | drawing, validation, declarations | - | - |

What is hard: threads of one object with small locks and none around two
steps (transport, buffer, hopper, agent); `join` with a timeout, and a `start`
after it; signal handlers on the main thread; a queue and a deque at their
limit; Lambda invocations in any order; stores that fail one at a time; a batch
that is delivered again; a socket that opens after the user has chosen; a file
that several programs rewrite, each in its own way; an answer or a request that
outlives the moment it was made for.
`PROJECT.json` lists each such hazard at its line, with the properties that
would catch it going wrong.

## The modules

| module | models | composed with |
|---|---|---|
| `AtMostOnceChannel` | what `publish()` promises: accept or refuse, deliver at most once, or lose | |
| `MqttTransport` | `MQTTTransport`, step by step | implements `AtMostOnceChannel` |
| `MqttTransportProofs` | theorems about it | extends `MqttTransport` |
| `CaptureAgent` | `CaptureAgent` and `main()` | its transport is an `AtMostOnceChannel` |
| `ChannelHopper` | `ChannelHopper` | |
| `CaptureAgentProofs` | theorems about the agent and the hopper | extends both |
| `FrameBuffer` | `FrameBuffer` | |
| `FrameBufferProofs` | theorems about it | extends `FrameBuffer` |
| `LiveUpdates` | WebSocket client, its owner in the app, the WebSocket Lambda, the push | |
| `LiveUpdatesProofs` | theorems about them | extends `LiveUpdates` |
| `SessionsTable` | the sessions table and its two writers | |
| `Preprocessor` | the ingest Lambda and its event source mapping | extends `SessionsTable` |
| `PreprocessorProofs` | theorems about both | extends `Preprocessor` |
| `SensorBridge` | the ESP32, ESP32-S2 and router bridges, their sensors and aggregators | |
| `DashboardFile` | the six programs that rewrite `data.json` | |
| `DashboardFileProofs` | theorems about them | extends `DashboardFile` |
| `SerialRelay` | firmware, serial bridge, relay, `ingest_scan` | |
| `SessionData` | `create_position` with its map, `useMap` and the app's store | extends `SerialRelay`: a tag takes the ingested devices as its snapshot |
| `BridgesProofs` | theorems about `SensorBridge`, `SerialRelay` and `SessionData` | extends `SensorBridge` and `SessionData` |
| `MovementTracker` | `MovementTracker` | |
| `Localization` | fingerprint collector, zone classifier | extends `MovementTracker`, and implements it |
| `LocalizationProofs` | theorems about both | extends `Localization` |
| `MC*` | constants and symmetry for TLC | extend the module they name |

How state and actions correspond to the code:

* **MqttTransport.** `queue`, `connected`, `shuttingDown`, `backoff` are the
  attributes of the same name; `session` and `lossPending` are the paho client
  and a callback it owes; `pc`, `step`, `hand` say where a consuming thread is
  and which window it holds; `offer` is a window between the test and the put of
  `publish()`; `recon` is where a reconnect thread is. One step is one access to
  the queue or to one of the two events: each of them has a lock of its own and
  the code holds none across two. Windows are identities. `accepted`, `rejected`,
  `sent`, `failed`, `dropped` and `hist` record what happened. paho's own
  reconnection (`AutoReconnect`) and a dead socket (`SocketLost`) are external,
  and so is the queue paho keeps for QoS 1: "sent" means that paho took the window.
* **CaptureAgent.** An entry of `obs` is the set of packets merged into it, and
  `handled` and `turnedAway` record which packets there were and which of them the cap
  refused, so that losing or counting twice can be told. Python runs a signal handler between
  two bytecodes of the main thread: `stack` is the stack of `stop()` calls,
  innermost last, each with its place and the window in its hand. The lock is
  explicit where the main thread holds it, and one step in the other threads,
  which no handler can interrupt. The transport is the abstract channel, which is
  what `MqttTransport` is proved to implement.
* **ChannelHopper.** `iw` tunes the radio during the call or not at all, may outlast
  the join of `stop()`, and may be killed after its 5 seconds when the radio is on the
  new channel already (`KilledTooLate`). The model has the channel the radio is on
  beside the one the object reports. `abandoned` records the loops a join gave up on,
  `undisputed` whether the loop that tuned the radio last was alone and its `iw` not
  killed.
* **FrameBuffer.** A frame is the number of its `add()`. Each `with self._lock`
  body is a step, `_flush_loop` reads the buffer without the lock in a step of its
  own, and the callback is outside of it: it returns, raises, or (in a timer
  thread) hangs.
* **LiveUpdates.** The app is single-threaded, so one callback is one step. A
  Lambda invocation is one DynamoDB call, except for the push, which scans and
  then posts row by row. An invocation runs at any time after its cause, and a call
  of DynamoDB that raises was applied, or never is. `conn`
  is what became of a connection; `table`, `messages`, `disconnects`, `push` and
  `toClient` are the table and the work under way; `orphans`, `undeleted` and `ghosts`
  record the connections whose row was put by a `$connect` that failed, could not be
  deleted, or was put back.
* **SessionsTable.** `create_session` is two calls, `_ensure_session` one
  conditional call and a cache. An item is the identity of its writer.
* **Preprocessor.** `at` and `step` are the record and the step the loop is at.
  A store may fail with a `ClientError`, which is logged, or with another
  exception, which ends the record. A crash ends the invocation; the mapping
  halves the batch, retries a single record `MaxTries` times in all, and then puts
  it into the dead-letter queue.
* **SensorBridge.** A reading is a line or an answer of the source; `into` is the
  object it made or was merged into, 0 for none, and an object is named by the reading
  that made it. Aggregators, slots and windows are sets of objects, a frame is the set
  of readings that its objects held when `capture()` made it: so both a lost object and
  a reading that is merged into an object too late can be told. `add()` of BLE is two
  steps, the look-up (`BleGet`) and the merge (`BleMerge`), since nothing keeps the
  flush thread from clearing the aggregator in between; the other aggregators only
  append. `reader` is where the reading thread is; `pc`, `todo`, `hand` and `frame` are
  where the flush thread and the main thread are and what they hold. Copying an
  aggregator, clearing it, putting the window into the sensor's slot, taking it out
  and publishing are steps of their own, since no lock joins any two. `late` records
  readings whose `add()` a clear overtook, `disturbed` the objects of windows that two
  flushes were at together, a second signal cut short, or that ended the flush thread.
  `deques` is `CSIProcessor._buffers`; of a frame the model keeps its bandwidth, because
  stacking two of them raises. `kind` chooses the bridge: `esp32`, `s2` (no
  aggregator), and the router over `ssh` or `serial`.
* **DashboardFile.** A file is its form (whole, blank, torn, absent) and the set of
  sections in it that are the newest their owner published. A process has a file
  open, not a name: `open` follows the file when `rename` moves it. `Export(p)` is
  the next step of the read-merge-write of program `p`; which steps take the lock,
  which read first, and which file they write (`Target`) is what tells the six
  programs apart. A deployment is the set of programs that run.
* **SerialRelay.** A line is the set of MACs of one scan. `tty` is what is to be
  read; `ReadLine` takes a line and drops what the chunk has behind it. A request
  goes from `posts` into the table device by device, at once, late, or never; the
  10 seconds of the bridge and of the relay are `GivesUp`.
* **SessionData.** A tag is a call of `tagPosition()` and the Lambda invocation it
  makes, one step per call of DynamoDB; a query may miss rows. `size.mapper` says
  whether `ml` can be imported; `unmapped` records the tags that were answered 201 with
  no map made, or with a put of it that raised (`MapFails`). A load is one run of
  the effect of `useMap`, one step between two of its awaits. Of map data the model
  keeps whose it is and of which kind.
* **MovementTracker, Localization.** A device is the number `link_mac` can lead a
  second MAC to. `observed` records the predictions so that "consecutive" can be
  stated without the counter that the code keeps. The collector keeps who has
  readings of a MAC, the classifier whether it is trained.

## The runs

Every passing run checks a type invariant, most of them as a part of the
invariant that is named for the module. A property's comment in its module says
what it means; here is what a run shows and why its bounds are enough.

| run | bounds | shows |
|---|---|---|
| `mqtt_safety` | 3 windows, 1 caller, 2 closers, queue of 2 | conservation, order, a clean shutdown, and refinement of the channel, while two threads flush and disconnect at once. Three windows and a queue of two make the queue full with one window in a hand and one on offer, which is when a re-queue is refused |
| `mqtt_live` | 1 window, 1 closer, 2 reconnect threads, back-off 1..2 | teardown returns, a window gets out, the link comes back. Two reconnect threads are the least that can work against each other |
| `buffer` | deque of 2, 4 frames, 1 user, 2 timers | all of the buffer. Four frames overflow a deque of two twice; two timers are a start, a stop and a start |
| `hopper` | 3 channels, 3 starts | no loop runs but the one in the handle and those a join gave up on; the reported channel is the tuned one, after a late kill or two loops again with the next hop of a loop that is alone; every channel is visited. Three channels tell "the next" from "the previous", three starts let two lost loops run beside a third |
| `agent` | 2 radios, 3 packets, 2 devices, cap of 2, 3 windows, 2 signals | every handled packet is in one entry, one window, or was turned away; publishing under nested `stop()` calls, and that `stop()` returns. With a cap of two, packets of one device merge, windows hold packets of both radios, and the third packet is turned away once both devices are in the window |
| `live` | 3 connections, 2 sessions, 2 selections, 1 push | the client and the table. Three connections are an old one, a current one and a next one |
| `live_unsubscribed` | the same | violated: see the divergences |
| `ingest` | 4 records (two windows that share a device, one without observations, one that cannot be decoded), batches of up to 3, 2 tries, a `create_session` | the record loop and who overwrites a session. A batch of three is halved twice, down to a record that is given up |
| `bridges` | all four kinds, 2 readings, 1 MAC, cap of 1, 2 frames for features, 1 unplug, 2 signals | what the missing locks can lose, what `stop()` sends, that a flush comes and a source that is back is read. Two readings are one that a window has and one that races with its clear, as an object of its own or merged into the first one; two frames in a deque are enough for two bandwidths. (The invariants were also run for the ESP32 with three readings) |
| `dashboard` | deployments `{esp32, ble, router}`, `{esp32, s2, pine}`, `{s2, merge}`, 1 kill | who can tear the file, who loses whose section, what heals. Between them the deployments have every program and every pair of disciplines: lock, lock after reading, no lock, in place |
| `tracker` | 2 MACs, 2 sensors (both needed), 2 zones, 2 confirmations, 6 predictions, 1 link | zones, visits and MACs, from readings to tracks. Six predictions are three times a confirmation: a move, one that is broken off, and a return |
| `screens` | 3 lines and 2 requests; 3 tags beside a scan, with and without a mapper; 3 loads of a map over 2 sessions | four sizes of one composition: requests that overtake each other, concurrent `create_position` calls (three positions make a map) where `ml` can be imported and where it cannot, an app that is switched between sessions |

The bounds on histories (`MaxReadings`, `MaxUpdates`, `MaxUnplugs`, `MaxKills`,
`MaxPosts`, `Sizes`, `Stream`, the number of threads per `start`) are bounds of the
model; those on containers (`QueueMax`, `MaxSize`, `Cap`, `MaxObs`, `WindowSize`,
`MaxHistory`, `BatchSize`, `MaxTries`) stand for a limit of the code with a smaller
number.

Deadlock is not checked where the system may stop: when all windows are
published, all signals taken, all bounded calls made. In `dashboard`, whose
processes never stop, it is checked.

### Fairness

* `MqttTransport!FairSpec`: every thread is scheduled (WF of its steps), and the
  10 second deadline of `flush()` passes (SF, since the loop may be busy each time
  it is looked at). Nothing is assumed of the network; `ComesBack` alone assumes
  that the broker can be reached, as the antecedent `BrokerReachable`.
* `FrameBuffer!FairSpec`: threads are scheduled, and a `join` with a timeout
  ends. The callback of a timer may hang; `FlushedInTime` assumes that it does
  not, as the antecedent `CallbacksReturn`. The final callback of `stop()` is
  assumed to return: nothing bounds it in the code.
* `ChannelHopper!FairSpec`: threads are scheduled; `subprocess.run` has a timeout
  of 5 seconds.
* `CaptureAgent!FairSpec`: the main thread is scheduled; the transport's calls
  return, which `TeardownReturns` shows.
* `LiveUpdates!FairSpec`: the browser runs callbacks and fires timers, API Gateway
  answers a handshake, and `new WebSocket()` does not throw for ever (SF).
* `Preprocessor!FairSpec`: the mapping polls and calls, the Lambda runs. Crashes
  are not fair and not bounded other than by the retries.
* `SensorBridge!FairSpec`: threads are scheduled, and the flush of the BLE and CSI
  streams comes round although the thread may find itself busy with the other (SF).
  No source is assumed to come back, no signal to come.
* `DashboardFile!FairSpec`: whoever holds the lock finishes with it, the loops of the
  live bridge and of the merger go on, and the kernel grants the lock to a process
  that waits for it again and again (SF). Nothing is assumed of a killed process.

`SessionData` and `Localization` have safety properties only.

## The proofs

Eight modules hold theorems. Each proves an inductive invariant by one lemma per
action (or per kind of step) and derives the properties from it. TLC
checked those of `FrameBuffer`, `CaptureAgent`, `LiveUpdates`, `DashboardFile`,
`SensorBridge`, `SerialRelay` and `SessionData` as invariants of small instances before
they were proved. The theorems hold for every
value of the constants that meets the named `ASSUME`s; that sets of threads or sensors
are finite is assumed only where a property counts them.

**`MqttTransportProofs`**, for every set of windows and of threads and every queue
size:

* `TypeCorrect`: `Spec => []TypeOK`;
* `WindowsConserved`: `Spec => []Conservation`. Every accepted window is in exactly
  one of the queue, one thread's hand, the client, or the two ways to be lost, and
  a refused one is nowhere;
* `ImplementsChannel`: `Spec => ChannelSpec`. The transport is an at-most-once
  channel, under `pending <- InQueue \cup InHand`, `delivered <- sent`,
  `gone <- rejected \cup failed \cup dropped`;
* `OrderIsKept` (`OrderWhileUp`): what was accepted is what was sent, what the publish
  thread holds and the queue, in this order, while the link holds and nobody flushes;
* `NothingIsStranded` (`NothingStranded`) and `CleanShutdownSends`
  (`CleanShutdownDelivers`): what `disconnect()` promises of the queue.

They rest on five assumptions about constants: `NoWindow` is not a window, the
publish thread is not a closer, callers and closers are finitely many, the queue
holds at least one, and the back-off starts at a positive number no greater than its
maximum.

The argument. The inductive invariant is `IInv == TypeOK /\ Conservation`, and
neither half is inductive without the other. Type correctness needs `HandOK`:
a thread is inside `_do_publish` exactly when it holds a window, or else a send
would append "no window" to `sent`. Conservation needs `HandOK` and `OfferOK` to
say where a window is while it is in no container: two threads never hold the
same window, and a window on offer is nowhere else. Lemmas about sequences
(`RangeOfAppend`, `RangeOfTail`) say what a put and a get do to the set of queued
windows; `TakeMoves`, `RequeueMoves`, `SendMoves`, `PublishPutMoves` and the like
prove the invariant for a step that moves a window, `NoMove` for all others.
The refinement then maps a take to a stutter (queue to hand), a send to `Deliver` or
`Lose`, a re-queue to a stutter or `Lose`, and `publish()` to `Accept` or `Refuse`.

The last three need `ShutdownInv`, which adds ten conjuncts. `QueueDrained` is the
heart: with the flag set and no closer flushing, the queue holds only what was put
behind the flag. A closer that ends
its flush has seen the queue empty; the others could still spoil that, and the
remaining conjuncts say why they do not. `PublisherRetired`: after a join that
returned, the publish thread takes nothing again, even if `connect()` starts it
only then. `PublisherConnected` and `NoLoss`: it puts nothing back, since without a
loss nothing reconnects and only a closer clears `connected`. `LateBounded`:
a caller that had read the flag before it was set enqueues once, so late windows and
pending offers together never exceed the callers. `NoneRefused`, with one closer
only: nobody closes the client under a thread that sends. With two closers that is
false, which is why `CleanShutdownDelivers` speaks of one.

**`CaptureAgentProofs`**, for every finite set of radios, all packets and devices and
every bound on windows, observations and signals:

* `AgentIsSound` (`AgentInv`): every packet that was handled is in one entry, in one
  window, or was turned away at the cap; every window is with the transport or in one
  thread's hand;
* `ExitLoses` (`ExitLosesLittle`): what an exit through `stop()` loses;
* `PublishesOnce`: a window that is about to be published was never published before;
* `UsesChannel`: agent and transport behave as `AtMostOnceChannel` over the windows the
  agent builds. With `ImplementsChannel` this joins the two halves: the agent needs
  of its transport no more than `MqttTransport` is proved to give.

They assume finitely many radios, room for one observation, and natural bounds. The
argument: counting needs `HandsOK`, that a thread holds a window exactly between
building and publishing it, in the flush loop and in every call of `stop()` on the
stack of signal handlers. The exit needs two facts about time: `LatePerRadio`,
that a radio that handled a packet after `running` was cleared is done, because
`sniff()` then asks its `stop_filter`; and `StopOrder`, what each call of
`stop()` has done by where it stands, the interrupted ones included. The call that
ends the process built its last window under the lock, so all that is left in the
entries came after it.

`HopperIsSound` (`HopperInv`) is about the hopper, for every non-empty list of channels
and any number of starts. A loop that runs is the one in the handle or one that a join
gave up on (`LoopsAccounted`), since a thread is created only when the handle is clear
or its thread dead, and the handle is cleared after a join. And `current_channel()` is
the channel the radio is on (`ReportedIsTuned`) whenever no loop is between `iw` and the
record of it and the last tuning was by a loop that was alone and whose `iw` was not
killed: what earlier loops and kills left wrong, that hop puts right. `HopperRecordOK`
says that the loop about to record has the radio on its channel, as long as it was alone
when it tuned it.

**`FrameBufferProofs`**, for every size of the buffer, number of frames and any sets of
users and timers:

* `BufferIsSound` (`BufferInv`), `DeliveryKeepsOrder` (`DeliveredInOrder`),
  `StopIsComplete` (`StopQuiesces`).

They assume a buffer of at least one frame, and that users, timers, the controller and
"no timer" are told apart. Two halves of the invariant are independent.
`FramesInv` is about data: the frames that have left the buffer are the first ones
added, each in one of four places, so that the buffer holds the newest and
`dropCount` is the number of those pushed out. `ThreadsInv` is about who works: only
the timer in the handle can be alive, and outside of the join of `stop()` a flag that is
set means that it is dead, unless a join gave up. `OrderKept` and
`StopQuiesces` need both: a batch is delivered in order because all of it is newer
than what was delivered, and after `stop()` because no timer has a batch left.

**`LiveUpdatesProofs`**, for every set of connections, sessions, timers and concurrent
pushes:

* `ClientIsSound` (`ClientInv`), `LiveKeepsRow` (`LiveHasRow`), `GhostsAreExplained`
  (`GhostsExplained`).

They assume that "no connection", "no timer", "no session" and "no row" are different
from what they stand beside. "One timer" is not inductive: `onclose` overwrites
`reconnectTimer` without clearing it, so a second one would leave two timers running.
`ClientOrder` says why there is none: a timer is pending only if there is no socket, or
the socket has told the client of its end, which it does once; and no timer but the
recorded one is pending. The rows need `RowsOrder`: a connection
that has not been answered has neither row, message nor `$disconnect`, so whatever
order the invocations run in, only one that is closed can lose its row. A `$connect`
that fails after its put leaves a closed connection with a row; that and a subscribe
after the `$disconnect` are the only ways to a row nobody will delete, other than a
`delete_item` that fails.

**`DashboardFileProofs`**, for every set of deployments of the six programs and any number
of kills:

* `FileIsSound` (`FileInv`), `LockersRead` (`LockersReadEachOther`).

They assume that "nobody" is not a program and kills are a number. Both hold until two
programs have the one `data.tmp` open, as the code allows; `HandlesOK` says what the
file handles are until then: whoever has `data.tmp` is alone with it, so the rename
moves a whole file. `LockersReadEachOther` is about the two that read under the lock,
the ESP32 bridge and the Bluetooth scanner. The bridge makes the scanner's section anew,
so only the scanner can miss something. `BleHasRead` says that it does not: as long as
the bridge is the last to have published, an export of the scanner that is past its
reading has that publication in memory, and later in `data.tmp`, because the bridge
cannot publish while the scanner has the lock. Those that take no lock may publish in
between, but then the bridge is not the last any more.

**`LocalizationProofs`**, for every set of addresses, devices, zones and sensors and every
`CONFIRM_COUNT` and length of history:

* `TrackingInvariant` (`Inv`), `HistoryIsPath` (`VisitsArePath`), `ChangesAreConfirmed`
  (`ConfirmedChange`), `KnownForGood` (`KnownStays`);
* `TracksPredictions`: `Spec => TrackerSpec`. Collector, classifier and tracker together
  are the tracker alone, fed with some predictions.

They assume that "unknown" is not a zone and "no zone" not a prediction, that the
tracker keeps `CONFIRM_COUNT` observations or more and asks for two or more, that
sensors are finitely many, and that the collector keeps at least one value. The first
known zone of a device is taken without a look at what is pending, which is sound only
because nothing can be pending while the zone is unknown (`UnknownIsFresh`); and a
device is known only from a trained classifier (`KnownMeansTrained`). That a change has
`CONFIRM_COUNT` equal observations behind it follows from `PendingIsRecent`: the newest
observations that are counted are all of the pending zone, and old ones are cut at the
other end.

**`PreprocessorProofs`**, for every stream of records, size of batch, number of tries,
containers and concurrent calls of `POST /sessions`:

* `IngestIsSound` (`IngestInv`), `SessionsOverwrittenUnseenOnly`
  (`OverwrittenUnseenOnly`).

They assume that a record is a window, empty or malformed, that a batch has a record
and a try, and that "no item" is not a writer. `IngestInv` adds up what became of each
record, and that is known only with where the handler is: `HandlerOK` and `GoneThrough`
say that all before the current record has an outcome, `Untouched` that nothing behind
it has, until a crash delivers a batch again. That a stored device has its session
registered needs `SessionsDone`: an id is in a container's cache only if it was put
into the table, or the put is one that failed. `SawNothing` gives the action property:
a call that is about to write has seen no item.

**`BridgesProofs`**, for every stream of lines and set of devices, sessions and sizes, and
every number of requests, readings and unplugs and length of the deques:

* `TableIsInOrder` (`SeenInOrder`), `DataIsSound` (`DataInv`), `AMapCoversAll`
  (`MapCoversAll`), `ScreenShowsSelected` (`SettledShowsSelected`);
* `BridgeIsSound` (`BridgeInv`), `StopSendsWhatWasBle` (`StopSendsBle`).

They assume that lines are sets of devices, that the terminal holds a line and a deque a
frame, that the relay's session is one and "no session" is none, and that the
bridge is of the four known kinds. Three invariants, one per module:

*The relay* (`RelayIInv`). A scan raises `scan_count` at most once though requests may
be lost, given up or under way together, because the port gives each line once and in
order (`LinesInOrder`) and a line goes out in one request (`LinesApart`): each unit of
a count is a request that has tried the device (`CountsAreOfPosts`), and taking each to
a line of its own is an injection into the lines that name the device. `SeenInOrder`
adds `WaitedFor`: until the bridge gives one up, the request it waits for is the only
one open, and none that is late can set `last_seen` back.

*Cloud and app* (`CloudInv`, `AppInv`). `MapCoversAll` needs a witness among calls that
overlap. It is the one that queried last: each call puts its tag before it queries, so
once all have queried the last one has seen every tag, and its map is about to be made,
is kept, or is one that this very call could not make or store (`LastHasAll`). For the
screen, `InTurn`: without hurry all loads but the last are over and the last is of the
selected session (`LastIsCurrent`), so no other answer can come behind it.

*The sensor bridges* (`BridgeIInv`). A flush copies, clears, hands over, takes back and
publishes in steps of their own, and a reading may be merged into an object at any of
them. What a thread has is of the stream it is at (`WindowsOfStream`) and is not in the
aggregator again once it was cleared (`ClearedOnce`). Two threads at one stream share
nothing that is not `disturbed` (`Contest`), and a slot is full only between the feed
that fills it and the capture that empties it (`SlotsTended`), because a feed
overwrites. `ShippedOnce` then says that a reading that is in a frame or published
belongs to an object that is in no window any more, so that no second frame can get it,
and `NothingElseLost` that each is somewhere. `StopSendsBle` rests on `OneMoreLine`:
`running` is false when the final flush clears the aggregator, so the reader adds the
one line it had read and no other.

Every invariant and every action property of the passing runs is a theorem. Liveness
is model-checked only, since the prover has no support for fairness and `ENABLED`:
`Drains`, `TeardownReturns`, `DrainsWhileUp`, `StopReturns`, `FlushedInTime`,
`StoppedEnds`, `AllChannelsVisited`, `ComesBack`, `Flushed`, `ReadsAgain` and `Heals`.

## Where code and words differ

One disagreement has a run and an entry in `PROJECT.json`:

* `live_unsubscribed`: a session chosen before the socket opens, or before it
  reopens, is never subscribed, though the server "pushes `map_update` to connected
  clients" (`README.md:216`).

The others are named in a property that holds "unless", so that a passing run
keeps their cause from growing, or follow from the model directly:

* `HopperInv`: `stop()` "wait[s] for it to finish" (`channel_hopper.py:141`) but
  gives up before `iw` does; `start()` then clears the event the old loop has yet to
  see, and two loops tune one radio. And `current_channel()` is not "the channel the
  hopper most recently switched to" (`channel_hopper.py:154`) after an `iw` that was
  killed when it had tuned the radio, until the next hop.
* `StopReturns`: `stop()` of the capture agent takes a lock that is not reentrant in
  a signal handler; SIGHUP during SIGTERM's `stop()` can block for ever.
* `ExitLosesLittle` speaks of exits through `stop()`: Ctrl+C ends `start()` with
  `pass` (`capture_agent.py:203`), and nobody calls `stop()`.
* `OverwrittenUnseenOnly`: "idempotent creation" (`api_handler.py:125`) is a read and
  an unconditional write; two calls with one id both answer 201.
* `BufferInv`: `FrameBuffer.start()` after a `stop()` whose join gave up may start
  nothing (`buffer.py:90`).
* `GhostsExplained`: a subscribe that is handled after its `$disconnect` puts the row
  back (`ws_handler.py:91`), and a `put_item` that raises after it was applied leaves
  the row of a connection that is refused, for which no `$disconnect` comes
  (`ws_handler.py:41-44`).
* `IngestInv`: the cache of session ids takes an id whose `put_item` failed
  (`preprocessor.py:221`), so that later windows do not try again; and a record that
  failed is counted, not retried and not put into the dead-letter queue
  (`preprocessor.py:82`).
* `ReadsAgain` excludes the router on a serial port: its health check looks at
  `is_open`, which stays true when the device is unplugged
  (`router_csi_sensor.py:522`).
* `Flushed`: frames of two bandwidths in one deque make feature extraction raise
  (`csi_processor.py:223`), and the flush thread of the bridge ends.
* `BridgeInv`: an object that is added between the copy and the clear of a flush is
  in no window, and a reading that is merged into an object after its window was made
  into a frame is in no frame (`ble_sensor.py:85-88`). When the final flush of `stop()`
  meets the flush thread at one stream, a window may be lost or published twice.
* `LockersReadEachOther` speaks of those that read under the lock: the live bridge
  reads before it (`pineapple_live_bridge.py:73`); and it writes back the router's
  devices as it first saw them.
* `DataInv`: `read_line()` drops what the chunk has behind the newline
  (`esp32_serial_bridge.py:75`).
* `SettledShowsSelected` holds unless a session is selected while another is loaded:
  `useMap` takes whatever answer is last (`useMap.ts:22`), and a `map_update` does not
  say whose it is (`store/index.ts:94`).
* The collector is documented with "a 2-second window" (`README.md:777`); a sensor all
  of whose readings are older still counts (`fingerprint_collector.py`, `flush`).
* The REST Lambda answers with an envelope; `getMap` and `getDevices` declare the bare
  data (`api.ts:46-53`), and `tagPosition` alone unwraps it.
* The preview that `README.md:212` promises is made of positions with an
  `rssi_snapshot` (`useMap.ts:33`); the position that `tagPosition` answers has none.
* The newest map in the table may be of an older query than another one:
  `MapCoversAll` says that one of them is complete, not which.
* `MapCoversAll`: `create_position` answers 201 with `map_generated` whether a map was
  made or not (`api_handler.py:208-212`): `_generate_and_store_map` returns in silence
  when `ml` cannot be imported (355-359), when the mapper raises (382-384) and when the
  put does (400-402). As deployed the first is always so: the archive of the Lambda
  holds `api_handler.py` alone (`terraform/modules/lambda/main.tf:161-165`), so that no
  map is ever stored or pushed, and the heatmap of `README.md:216` never comes from
  there. That is the size of the `screens` run whose `mapper` is FALSE.
* The Pi edge bridge posts its rows to `/api/sessions`, which makes a session of each.

## What is not modelled

* Floating point: the ML models, CSI features, RSSI averages, IDW interpolation. Of
  the models only what others depend on is there: that an untrained classifier
  answers "unknown", and which positions a map can be made of.
* Parsers of packets, JSON and CSV: pure functions of bytes. No program uses
  `WindowAggregator`.
* Drawing, the configuration schema, logging, the authorizer, the frame router and
  the sensor registry, which have no state that events change; Terraform other than
  the event source mapping.
* The queue of paho for QoS 1, and the broker.
* In `Preprocessor`: the WebSocket and SageMaker steps, which return at once as
  deployed (`WEBSOCKET_CONNECTIONS_TABLE` and `SAGEMAKER_ENDPOINT` are not set), and
  the S3 archive, which nothing reads.
* In `LiveUpdates`: the length of the client's back-off, `ping`, and
  `unsubscribe`, which the app never sends.
* In `DashboardFile`: the reading of a single device within a section, the scan loop
  and MQTT client of `ble_scanner.py`, the pull over SSH of the live bridge.
* In `SessionData`: `useDevices` and `usePresence`, which are `useMap` over two other
  values.
* The C firmware: drivers and their callbacks.
* The retries of the AWS SDK within one call. The `ADD scan_count :one` of
  `ingest_scan` (`api_handler.py:287`) is not idempotent: botocore repeats a request
  whose answer was lost, and the scan is then counted twice. `DataInv` is about what
  the bridge, the relay and the handler repeat.
* In `Preprocessor`, two racing calls of `POST /sessions`: the run has one, to stay
  small; `SessionsOverwrittenUnseenOnly` is proved for any number.
* The number of reconnect threads: the code does not bound it, the model does,
  with a slot per thread (`ReconnectThreads`).

## Plan

Done: the delivery path from packet to queue (`CaptureAgent`, `MqttTransport`,
`ChannelHopper`, with proofs), `FrameBuffer` (with proofs), the bridges and the file they
share (`SensorBridge`, `SerialRelay`, `DashboardFile`, with proofs), the path from stream
to phone (`Preprocessor`, `SessionsTable`, `LiveUpdates`, `SessionData`, with proofs),
and from readings to tracks (`MovementTracker`, `Localization`, with proofs).

Left, in this order:

1. The reading of a single device in `DashboardFile`, for the cache of the live
   bridge.
2. The WiFi retry of the C firmware (`esp32/main/main.c`).
