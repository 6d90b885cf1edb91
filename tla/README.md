# ESP32Aging in TLA+

The firmware in `src/main` runs on the nodes of an aging bench. A node drives a device (over
Bluetooth, CAN or RS485) through the cycles and steps of an aging command, samples it, and reports
to a server over MQTT through a mesh of nodes. The commands come from the same server. Several
FreeRTOS tasks share global state, partly under mutexes and partly not; the power may fail at any
moment, and what is in NVS, SPIFFS and SQLite is all that remains.

This directory holds TLA+ modules translated from that code, the TLC configurations that check them
on small instances, and proofs for TLAPS. Line numbers in the comments and in `PROJECT.json` refer
to the source at this commit; a bare range in a property's comment is of `appTask.c`.

## Inventory

| Component | State it keeps | Operations | Hard behaviour | What makes it correct |
|---|---|---|---|---|
| Sampling sessions and gap backfill (`aging_gap.c`) | session table of 16 + 6 slots, current token, one poll and its work list | begin, resume, close, idle; snapshot, submit, next id, settle; poll | four tasks and an HTTP query without the lock; restarts | a packet stays with its session; no stored sample is forgotten; an intent ends only when the server has everything; one message of the poll at most goes out into a round |
| Aging commands and PN hand-over (`appTask.c` 2240-2565, 3050-3250, 3640-3790, `SelfRecovery.c`, `ble_target.c`) | `s_aging_cmd_state`, `PN_Code`, `PN_Code_Ready`, the keys of NVS, `Aging.json` | `set_pn`, `start_aging`, `stop_aging`, recovery, the ends of a round | each write to NVS may fail or be the last before a power loss; the end of a round and the next command overlap | one PN for one round; an acknowledged PN survives; a finished round stays finished |
| Aging round (`appTask.c` 4370-6010) | cycle, step, BLE session, recovery window, sampling flags, cursor in NVS | checkpoints, recovery, pre- and after-actions, condition, barrier, sampling, joins | link lost at any point; control task against sampler; stop and power loss | a packet is of one step and one connection; no step is left out; a teardown is not undone; a stop ends |
| MQTT commands (`mqtt_app.c` 1595-1640, `appTask.c` 2567-2755, 2947-3015) | queue of received pieces, the text being put together, ring of 32 Seq records with cached replies, fallback ring of 16 | hand over, collect, look up, record, cache the reply, replay, forget | a piece or a reply is lost; window and wrap; a restart forgets | a Seq is executed once while it is remembered; a command is answered in the end |
| Publish tracking (`appTask.c` 2757-2945) | ring of 64 message ids, settle queue | track, settle, drain | acknowledgement before registration, an entry half written or written over | a row is ACKED only when the broker has confirmed its sample |
| MQTT client and event retry (`mqtt_app.c`) | phase, connection epoch, client generation, publish references, event queue | start, stop, connect, disconnect, route switch, submit, cancel, poll | callbacks against tasks, early acknowledgements, a stop with a publish under way | an event is sent until acknowledged; a cancelled one is not sent again; a client in use is not destroyed |
| Restart (`system_restart.c`) | the plan, pause and restart times, the recovery claim | schedule, claim, poll | a plan against a recovery restart | at most one of them; the deadline does not move |
| Dual network (`dual_net.c`) | links, addresses, probe counts, generation, revision | events, probe, choice of the uplink, publication | a probe that outlives its link; a choice made from an old snapshot | the published uplink follows the last state |
| Mesh health (`mesh.c`) | parent state, failure count, soft resets, restart budget in RTC | watchdog, fast path, manage STA, pause | three tasks call disconnect and connect | restarts stay within the budget; a recovered node does not restart |
| OTA (`ota.c`, `mesh_ota.c`, `ota_cache.c`) | request, receiver, SDK transfer, candidate, supply, cache record, boot slot | request, download, transfer, validate, record, select, supply, retry | finish and data events in any order, parent changes, power loss at any write | only a whole, recorded image is supplied or booted; a command ends |
| BLE central (`Ble_control.c`, `appTask.c` 1815-1964, 4842-4902) | session id with its encryption bit, connection flags, scan operation, received pieces, stage of the authentication | scan, connect, disconnect, pause, resume, collect, authenticate, answer | callbacks of the host against four tasks, a lost link that is made again | a session belongs to one connection; an attempt has one outcome |
| SQLite cache (`SqLite.c`, `sqllib1.c`) | partition, file, schema, rows with push states, reset flag | mount, format, migrate, rebuild, insert, evict, find, mark | power loss, corrupt file, a step of the migration that fails | pushed rows go first; a row's state says what happened to its sample |
| Protocol download (`GetProto.c`, `appTask.c` 1965-2265, 4400-4660) | generation per device, queue of answers, protocol of each device | request, answer, install, free, create | an answer for a device that was freed and created again with the same protocol id | an answer is installed in its own device |
| Local log (`log.c`) | ring of records, index in NVS | write, recover, read | power loss between record and index | the ring never leaves out more than the last record |
| Status LEDs (`status_led.c`) | two lamps | set, tick | - | - |
| Framing, CAN transfers, CRC, ciphers (`can_extended.c`, `app_queue.c`, `app_crc.c`, `app_enc.c`) | reassembly buffers | segment, reassemble | order and loss of segments | reassembly inverts segmentation |
| Device protocols and drivers (`modbus_*`, `can_json_parser.c`, `scpi_dynamic.c`, `RS485.c`, `Uart.c`) | none that outlives a request | request, answer | - | - |
| Configuration and JSON (`aging_config.c`, `Json_data.c`, ...) | the parsed command | parse, build | - | - |

How they interact: `mqtt_rx` (priority 7) executes commands and starts `aging_ctrl` (8), which
creates `aging_get` (7); samples go through `Upload_data_queue` (3 entries) to `aging_upload` (4),
which numbers them with `aging_gap.c`, stores them in SQLite and publishes them; `http_auto` (4)
polls `aging_gap.c` and reads SQLite; `net_init` (6) recovers the round of the last power cycle. The
BLE driver reports a lost link by a callback which only sets variables. All these tasks are pinned
to one core but preempt each other, so the modules interleave them at every access that is not under
a common lock.

## Modules

| Module | Models |
|---|---|
| `AgingGap` | `aging_gap.c` whole, with sampler, uploader, SQLite and server as its callers and stores |
| `AgingCommand` | the three commands, the recovery, the life of `aging_ctrl`, and the records in NVS, SPIFFS and the BLE target file |
| `AgingControl` | a round: `Aging_Test_Task`, `aging_ble_ensure_ready`, `aging_get`, joins, cursor |
| `MqttUplink` | `mqtt_app.c`: life of the client, switch of the uplink, setup of a session, event cache, with the SDK and the broker as environment |
| `EventRelay` | the abstract specification of the event cache: an at-least-once relay with cancellation, implemented by `MqttUplink` |
| `DualNet` | `dual_net.c` and the net monitor: interfaces, choice and publication of the uplink, probes |
| `RestartPlan` | `system_restart.c`: plan, pause, attempts to leave the mesh, claim of a recovery |
| `MeshNode` | `mesh.c` with the two above (EXTENDS): a child that has lost its parent, a root that tries the other router, planned restarts |
| `RestartArbiter` | the abstract specification of who restarts a node, implemented by `MeshNode` |
| `MeshOta` | `mesh_ota.c`, `ota.c`, `ota_cache.c`: an update from the command to the report |
| `MqttCommands` | received data to reply: reassembly, Seq ring, fallback ring, replay |
| `SampleStore` | `SqLite.c` and the tracked publications |
| `BleLink` | `Ble_control.c`, the connection attempt and the authentication of `appTask.c` |
| `ProtocolFetch` | requests for protocols, their answers, the life of the devices |
| `Budget` | the budgets of a scenario, and which service acts |
| `Services` | the five above, of which one acts |
| `MCAgingGap`, `MCAgingCommand`, `MCAgingControl`, `MCMqttUplink`, `MCMeshNode`, `MCServices` | instances for TLC |
| `AgingGap_proofs`, `AgingCommand_proofs`, `AgingControl_proofs`, `MqttUplink_proofs`, `MeshNode_proofs` | theorems about these modules |
| `MeshOta_proofs`, `BleLink_proofs` | the inductive invariant of the service, and that its steps keep it |
| `Services_proofs` | the same for `SampleStore`, `MqttCommands` and `ProtocolFetch`, and the theorems about a node with all services |

A definition whose comment begins with `Fault` is a faulty variant of the definition that follows
it. It takes no part in the specification. `PROJECT.json` ("mutants") names, for each property, the
variant that violates it.

### AgingGap

A section between `gap_lock` and `gap_unlock` is one action. The poll leaves the lock for the HTTP
query and for each publication, so it is a chain of actions (`PollSelect`, `PollGo`, `PollAnswer`,
... `PollSettle`) between which everything else may happen; what it took from the table is in `poll`
and `work`, as in `s_work`. `gap_can_run` has given its lock back when the query or the publication it
allows is made, so check and call are two steps each (`PollGo`, `PollQuery`, `PollAnswer`;
`PollCheck`, `PollPublish`), and a round may begin between them. `late`, a history variable, counts
what http_auto still sends from the begin of a session until the node idles. The uploader's chain is
`UploadTake`, `UploadNumber`, `UploadStore`, `UploadDone`. An identity is a pair of PN and RecordId. The list of ids in an answer is a set of
numbers; an invalid answer is `valid = FALSE`. `forgotten` and `warned` are history variables:
identities whose unsent rows a restart left without a session, and those reported by warning 1003.

### AgingCommand

`at[w]` is the place of `mqtt_rx` or `net_init` (both call `aging_start_parse`), `ctrl` that of the
control task. Each write to NVS is a step, may fail (up to `MaxFail` times) and may be the last
before `Restart`. Reading one's own keys is atomic. `EarlyCommands` says whether `mqtt_rx` serves
commands while `net_init` recovers; in the code it may (3584 is before 3654), and the run
`command_recovery` shows what follows. The other runs set it to FALSE, to see what else holds.
`hasty` marks the case that a new round is aborted before its start has recorded it; two properties
exclude it.

### AgingControl

`ctrl` is the place of the control task in `Aging_Test_Task` and the functions it calls, `recover`
the place in `aging_ble_ensure_ready` when it is called from a checkpoint. `Then` gives for each
checkpoint the place after it. The sampler reads two values per packet (`first`, `second`), which is
enough to tell one connection or step from two. `measured` is a history variable: on which connection
and under which pre-actions the condition was read that is about to be judged. Time exists in four stop watches (`age`, `lostAge`,
`failAge`, `outage`) which `Tick` moves together, up to `Limit`, which stands for
`BLE_AGING_RECOVERY_TIMEOUT_MS`. The device is on Bluetooth. A command is for a single device or for
a group (`AgingCMode = 2`, with the barrier of 5492-5519).

### MqttUplink and EventRelay

A critical section under `s_mqtt_state_lock` is one action; a call of the SDK is an action of its
own, so that callbacks come before it returns (`Put`, then `SetupRegister`, `ConfigReport` or
`EventRegister`; `Ask`, then `Answer`). Between the look at the session in `mqtt_client_acquire`
(`Acquire`) and `Put` the session may end. A SUBSCRIBE that fails may be in the outbox or not, and
the connection is dropped or, when the outbox was full or the SDK refuses, kept (`PutFails`). `life`
is the holder of the lifecycle mutex; the service task keeps it from `SetupBegin` or `EventBegin` to the registration (`svc`). `sender` is any task
inside the SDK with a reference (`publish_refs`) and the admission mutex. `sdk`, `outbox` and `late`
are the SDK: its task, its outbox, and callbacks of a destroyed client which `mqtt_event_handler`
has to refuse; message numbers start again with each client. `Deliver` and `Acknowledge` are the
broker. Delays are abstracted: a retry may come at any later time, so `expedite_pending`,
`s_node_retry_*` and the backoff have no variables. The parent of a child is taken to be reachable
at some time. `got` and `confirmed` are history variables. The poll order of the service task is
left open, which allows more behaviours than the loop of 1561-1593 has.

`EventRelay` says what the cache promises: a bounded queue in order, at most one copy of its head
under way, retirement only when the server has the event or it is a void TaskCP. The mapping
(`Relay`) puts the head slot before the queue and counts a copy from `EventBegin` on: a cancellation
that comes later does not stop it, as the comment at 1109 of `mqtt_app.c` says.

### MeshNode, DualNet, RestartPlan and RestartArbiter

`DualNet` and `RestartPlan` hold the state and the steps of their files; `MeshNode` extends both and
adds `mesh.c`, since the three share `Network_Flag`, the station and `s_mesh_control_mutex`. The
role is `root`, `single` (a root with one valid router, which has nothing to fail over to) or
`child`. Counters that the code only compares with a copy (revision, generation) are not numbers:
`fresh` is the set of copies that are still equal. `rtc` outlives a restart and is lost with the
power, `saved` is in NVS. `heals` is a history variable. `RestartArbiter` has three phases; the
mapping gives the value `"both"` to a plan beside a claim, which is no phase of it.

### Services

Five services that share no state, checked in one run. A scenario names the one that acts (`part`),
what it starts from and the budgets; the other four rest.

* `MeshOta`: `svc.at` is the stage of `mesh_ota_service_poll`, `svc.back` the stage that follows
  what it called. A slot holds a version or nothing (0) while it is written. `sdk` and `queue` are
  the mesh library: its transfer of `Blocks` blocks and the events it posts, in the orders its
  callbacks allow. `Restart` keeps slots, boot choice and NVS.
* `MqttCommands`: a message is one piece or a head and a tail. `Receive`, `Silence` are `mqtt_rx`
  with its 5 s; `RecordIn`, `Expire`, `RecordFallback` the memory of Seqs. `done`, the executed
  commands in their order, is a history variable, as are `wanted` and `answered`.
* `SampleStore`: `init` is the place in `SqLite_Init`. `upload` is the place of the uploader between
  `mqtt_publish` and the last field of the entry that tracks it (`FillId`, `FillName`, `FillRecord`,
  `FillNumber`: four assignments without a lock). `mqtt_rx` has the higher priority on the same
  core, so its steps are whole but may come between any two of these.
* `BleLink`: `host` is Bluedroid and the radio, `calls` its events in order, `handler` the place in
  `gattc_profile_event_handler`. `closer[c]` is where a task is in `ble_disconnect`. `conn` numbers
  connections; the code has no such number, it is what the session id stands for.
* `ProtocolFetch`: `life` numbers the aging devices created. It is in the requests only to say what
  an answer was asked for; the code compares generation and protocol id.

| Run | Instance | Shows |
|---|---|---|
| `gap_restart` | two identities, two sessions and two packets per power cycle, one restart | packets stay with their session, rows keep their evidence, intents end only when complete, one message of the backfill at most goes out into a round, under merging, eviction, a lost resumption and stale answers |
| `gap_intents` | five sessions of one identity, no restart, fairness | the table never runs out of slots; the backfill of a quiet node comes to rest |
| `command` | three PNs, two failing writes, two restarts | the hand-over is crash-safe, a round keeps its PN, a finished round stays finished |
| `command_stop` | two PNs, one restart | *violated*: a PN that `stop_aging` cancelled is ready after a restart |
| `command_retry` | two PNs | *violated*: a start that overlaps the end of the previous round loses the ready PN |
| `command_recovery` | two PNs, early commands | *violated*: a `set_pn` during the recovery is accepted beside the running round |
| `control` | one standing and one working step, single and group, two connections, one restart, fairness | samples, judgements, teardown, recovery window, progress of the cursor, end of a stop |
| `control_cursor` | two rounds | *violated*: a power loss early in the second round skips its first step |
| `control_deadline` | two standing steps | *violated*: after a restart the second waits for the deadline of the first |
| `uplink` | eight scenarios of a root or a child, fairness | the event cache implements `EventRelay`; configuration and events are handed over in a confirmed session only; a root publishes over the present uplink only; a client in use is not destroyed; switches end and events arrive |
| `network` | eight scenarios of a child, a root, a root with one router, fairness | route, flag and reconnection follow the interfaces once the latest revision is applied, and it always is in the end; plan and recovery exclude each other and the budget holds (`RestartArbiter`); a node that has left the mesh for a restart stays away; a lost child acts; a trial of the other router ends |
| `services` | thirty-one scenarios: 8 of an update, 5 of commands, 7 of the cache, 9 of the link, 2 of protocols, fairness | only a whole and recorded image is supplied or booted, an update command ends; a Seq is executed once, commands are answered; ACKED means confirmed; a session is of one connection, an attempt has one outcome; a protocol is the device's own |

Each module states its type invariant (`TypeOK`, `OtaTypeOK`, ...) as the first conjunct of an
inductive invariant, which is proved. The runs check what a task may get wrong instead.

A violated property is a sentence of a comment or a design document; `PROJECT.json` ("findings")
quotes it and the lines that disagree.

Bounds, and why they are enough:

* `gap_restart`: two identities are needed for a packet to be in the wrong session, and two tokens
  for one session to be merged into another; `PendingMax = 1` makes the limit of intents bite with
  the second identity. A session's range is at most two numbers, so that an answer may miss one of
  two. One restart separates what is in RAM from what is in SQLite.
* `gap_intents`: the table has `PendingMax + QueueLen + 3` slots as in the code. With one of each,
  five sessions are the most the slots can hold, hence `MaxToken = 5`.
* `command`: the third PN is the one that arrives while the second is ready and the first is
  running. Two restarts allow a power loss in a recovery.
* `control`: a fault within a recovery needs two connections; the step after an interrupted one
  needs two steps. `Limit = 2` tells a window that was reopened from one that was not. One cycle,
  because with two the two writes of the cursor (5251, 5265) can be torn apart by a power loss; that
  is listed as a hazard.
* `uplink`: `Scenarios` are budgets for what the environment may do (starts, stops, route changes,
  events, cancellations, publications, losses, refused calls, failed messages), each rich in one
  thing. The restart of a client and a callback of the old one need two starts; a stale connection
  needs a second route change; `DisconnectMax = 2` stands for 3; four events overflow `Capacity = 3`
  and `NormalLimit = 2`. Everything not counted in a budget is unlimited.
* `network`: `ProbeFail = 2` and `FailThreshold = 2` tell the first failure from the last;
  `SoftResetMax = 1` and `HealMax = 2` let a node use both up and go on without; `TrialMax = 2` as
  in the code. Three events of an interface are a change, the change back and one more while the
  choice is made.
* `services`: `RetryMax = 1` and `Blocks = 2` (a transfer that stops half-way, a retry that fails
  again); `SeqCapacity = FallbackCapacity = 2` with three commands, and `DataQueueLen = 2`, so that
  rings and queue overflow; `TextPieces = 4` as in the code; `MaxRecords = 3`, `TrackCapacity = 2`,
  `SettleLen = 2` with four samples; `MountTries = 2`, `RecvPieces = 2`, `HttpQueueLen = 2` (3 in
  the code; three tasks ask and take). Three starts of a round let an answer of the first come in
  the third, with the protocol id of both equal.

Fairness: `AgingGap` assumes that the uploader, the poller and the clock proceed. The uploader
blocks only on its queue, `http_auto` calls the poll every 100 ms, and every request in it has a
time-out. `AgingControl` assumes that the control task and the sampler proceed: they have the
highest priorities of the core and each wait on the device has a time-out. `MqttUplink` assumes that
each task goes on with what it began: the SDK's calls return, the SDK reconnects by itself (root) or
is asked to by the service task (child), `net_monitor` polls, and the broker answers while a
connection lasts. `MeshNode` assumes that the restart service, the net monitor, the health task and
the failover task proceed (each is a loop with a delay), that an event that was posted is delivered,
and that a station which is lost at every look is at some look lost for long (SF). `MeshOta` assumes
the two tasks and the library to proceed, the deadline of a retry to pass (SF), a planned restart to
happen, and the parent and the broker to come back. `MqttCommands` assumes the tasks to proceed and
the server to repeat a command that has no reply (SF), without which a lost message is lost.
Otherwise no fairness is assumed of commands, links, the server or the power. Deadlock is switched
off where a node may come to rest: all sessions used up, the round over.

## Proofs

Every theorem is about `Spec`, for every value of the constants that the named assumptions of the
modules allow; what they say is what the code gives: sizes are naturals, positive where the code
allocates, a step is "standing" or "work", a scenario starts in a state that the program can be in
(`ScenariosAssumption` of `MeshNode`, `MqttUplink` and `Services`), no external device is the aging one. Two
restrict more: `StoreAssumption` asks for two entries of the table of tracked publications or more
(`MQTT_PUBLISH_TRACK_CAPACITY` is 64; with one, the entry being filled is the only one), and the theorems
about `AgingCommand` but the first are for `~EarlyCommands`, see below. The bounds of scenarios
(`Max...`, budgets) are any naturals, so that nothing depends on how often something happens.

`AgingGap_proofs`

* `TypeCorrect`: `Spec => []TypeOK`, with `TInv`, which adds that the poll's ids, tokens and phases
  fit the table (each operator that builds or changes a session has a lemma).
* `OneIntent`: one intent per identity and at most `PendingMax`. Inductive with `TInv`; the lemmas
  `FinalizeOneIntent` and `SlotOneIntent` say it of the only operators that make an intent.
* `OneLateMessageAlways`: `LateInv` adds to `TInv` that a round runs while its session is open
  (`RunsWhileOpen`) and that nothing was sent into the round as long as http_auto still stands
  between a check and the call it allows (`AllowedFirst`): once the call is made the next check fails.
* `PacketsAccountedAlways`: `PacketsAccounted` for any number of sessions, packets and restarts. It
  is not inductive by itself. `AInv` adds `Books` (the counters of every live session against its
  packets in queue and hand, and one slot per token), `TokensIssued` (no packet or session has a
  token not issued yet: a new session starts with none), `SnapshotFits` (the sampler's snapshot has
  the identity of its session, so that a packet gets the right one), `PollsIntents` (the poll works
  on intents only, so that its steps leave the counters alone) and `PacketsOrdered` (packets are
  distinct, so that taking one changes the number by one). There is one lemma per task, and under it
  one step per action.
* `SlotAvailableAlways`: the size of the table is enough. `SlotInv` adds to `AInv` that an open
  session is the current one (`OpenIsCurrent`), that a closed one which is no intent still waits for a
  packet (`Settled`; `gap_finalize` at every close and every settled packet keeps it so), and that the
  queue is bounded. So each entry in use is an intent (at most 16) or has a packet of its own in the
  queue or in hand (at most 4), and of the 22 entries two at least are free.
* `EvidenceRetainedAlways` and the action property `EndsOnlyWhenCompleteAlways`, from `EvidenceInv`.
  The range of a session is not enough for the induction: `Evidence` asks of the one that covers a
  number that it will lead to a backfill, as an intent, by its count of persisted samples, or because
  the packet that `aging_upload` has just stored is still in hand (`Backed`). `NumberInv` says that
  numbers given out are in the range of their session and that ranges only grow, also over a merge
  and a resume whose read of SQLite is not done; `PollFits` that an intent with the revision the poll
  has read has the range and identity the poll has read; `Answered` that what a valid answer does
  not list as missing is at the server.

`AgingCommand_proofs`

* `TypeCorrect`, for any set of PNs and any number of failing writes, commands and restarts.
* `SessionKeepsItsPnAlways`, `RecordedRoundRecoverableAlways`, `AckedPnInNvsAlways` and
  `EndedRoundStaysEndedAlways`, each `~EarlyCommands => (Spec => []P)`: with commands that are
  served while `net_init` still recovers, TLC violates them (`AgingCommandRecovery.cfg`, a finding).
  The four share one invariant, `CommandInv`. It says at each place of the task that is at work
  which of its writes are done, in RAM and in NVS: `OneAtATime` (mqtt_rx waits for `net_init`, which
  is what fails with early commands), `RoundKnown` (a round that runs has its PN, its file and its
  target), `Handed` and `InNvs` (which half of a hand-over NVS holds as long as no write failed).

`AgingControl_proofs`. One invariant, `ControlInv`, for the types and six properties:

* `SampleFromOneStepAlways`: `Samples` says what keeps the tasks apart: the wait for `s_sample_reading` in
  `aging_begin_step` holds the next step off while the sampler is at work, `RecoverQuiet` holds the
  next connection off, and a sampler that announces itself later sees `s_ble_recovering` or the
  state that rests. So neither `CurrentAgingStep` nor the session moves between the stamp and the
  submission, and the connection it reads is the last one made (`Links`).
* `WorkPreparedAlways`: `Actions` says for which
  session and step the last pre-actions were taken, and that `previous_session # ready` at the begin
  of a step means that a recovery has taken them (a recovery always makes a connection: `Links`).
* `JudgedByOwnReadingAlways`, an action property: `Measured` ties the reading, from `ConditionRead` to
  the judgement, to the connection and the pre-actions it was taken under (`measured`). A link lost
  and recovered between the two leaves it as it is, and the comparison of sessions then throws it away.
* `TeardownFinalAlways`, an action property: `s_ble_replay_pre` is off from the first after-action.
* `FaultWindowAlways`: `Windows` follows the time of the loss from the callback into the window.
* `DeviceOutlivesUseAlways`: `Owned`, inductive by itself, and needed nowhere else.
* `NoStepSkippedAlways`, from `Completed`: for any command as long as there is no power loss, and
  with power losses for the first round of a command with one cycle. Neither condition can be left
  out: `AgingControlCursor.cfg` shows the cursor of an earlier round, and with two cycles a power
  loss between the writes of `CycleIndex` and `CR_Step` resumes at the last step.

`MqttUplink_proofs`. One invariant, `UplinkInv`:

* `UplinkTypeCorrect`, the types.
* `ClientInUseAlways`, an action property, from `Lifecycle`: who holds the lifecycle mutex, and that
  nobody uses a client that is not there or that the owner is about to destroy.
* `RouteFreshAlways`, from `Routed`: over which uplink a connection was made, also while the SDK
  makes it. The proof showed that the monitor and the SDK's callback may each have a request to
  disconnect under way when the limit is reached, so that `failures` may exceed `DisconnectMax`.
* `EventsAfterOnlineAlways`, an action property: a message number is that of one message. `Numbered`
  says that numbers and epochs are those of the past; `HeldInv`, `AnswerInv` and `PhaseInv` follow the number of a
  message of the setup from the call to the answer, early or in time, and `HandedInv` says that what
  the service task is handing over is of a session confirmed by such answers.
* `RelayImplemented`, the refinement `Spec => RelaySpec`. `HeadInv`, `CopyInv` and `AnsweredInv` do
  for the head of the cache what the former do for the setup: at most one copy of it is in the
  outbox, and what is taken for its answer is the answer to that copy, so that it is retired only
  when the server has it. `CountInv` ties the two counters to what waits, `GivenInv` says that only
  accepted events do.

`MeshNode_proofs`. Three invariants that rest on each other:

* `Types` gives `TypeCorrect`. `Restarts` says who may hold the mesh control mutex and what a
  claimed or planned restart has switched off. From the two follow `PausedStaysAwayAlways` and
  `RestartPromiseKept`, the refinement: `Spec => RestartPromise`, where `RestartPromise` is the
  specification of `RestartArbiter` under the refinement mapping of `MeshNode`. The proof has the
  two parts of a refinement, that `Init` implies its initial state and that every step of the node
  is one of its steps or leaves its variables alone.
* `RouteInv`: which of the things that the net monitor has read in the pass under way is still
  true, place by place. From it `AppliedRouteAlways`.

`Services_proofs`. A step of one service leaves the others' state alone, so that each theorem needs
only the invariant of its service:

* `BootRecordedAlways`, `SupplyRecordedAlways`: `OtaInv`. At most one actor writes to the slot that
  does not run, and an image that is finalized, supplied or reported is there only in stages in which
  none does; the stages after the store find its record in NVS.
* `ExecutedOnceAlways`: `CommandsInv`. The table of records, and the one that stands in for it after
  a failed allocation, hold the last executions in their order (`InRing`, `InFallback`), so that a
  number is forgotten only when as many others as the table has places have come after it.
* `AckedConfirmedAlways`: `StoreInv`. A message id belongs to one sample wherever it is: with the
  SDK, in the queue of outcomes, in an entry, and in the hands of the uploader, whose entry is not
  written over while it is filled. The evictions keep the order of the rows (`RowsInv`).
* `SessionBoundAlways`, `OneOutcomeAlways`: `BleInv`. One request to connect is in work at most, its
  events come in one order, and a connection keeps its number from the first event to the last; so
  what is received in a session came over its connection.
* `ServicesOwnProtocol`: `FetchInv` adds to the types `AllDated` (wherever a request is, its
  generation is the present one of its device or an earlier one, and if it is the present one it was
  made for the device that is there), and `FreedBefore` (a device is created only where none is).

Only checked by TLC: the nine properties under fairness (`Answered`, `BackfillSettles`,
`EventsArrive`, `LostChildActs`, `OtaCommandEnds`, `RouteSettles`, `StopCompletes`,
`SwitchCompletes`, `TrialEnds`). Liveness and ENABLED are out of the prover's reach, as is induction
over data, of which nothing here has need. Every invariant, action property and refinement that a
passing run checks has its theorem. No module declares a recursive operator.

## What the modelling showed besides the findings

Exceptions that a property names, and places where code and comment or intention differ without a
run of their own:

* Backfill: MQTT_SAMPLE_GAP_DESIGN.md:14-15 says that a new round pauses queries and re-sending
  altogether and that an HTTP request already started may return. The code checks without holding
  the round back (aging_gap.c 384 and 387, 463 and 464), so that one query may start, or one record
  be published, after the round has begun; `OneLateMessage` says that it is one at most.
* MQTT: events that a lost session has left in the outbox are sent again by the SDK as soon as it is
  connected, before the new session's subscriptions are confirmed; `EventsAfterOnline` is about what
  the tasks of mqtt_app.c hand over.

* Mesh: a monitor that does not get the mutex (mesh.c 209, "下一轮 net_monitor 会重试最新状态") tries again
  only when the revision has moved. On a root the mutex is held only by a restart that is planned or
  claimed, so nothing comes of it; `AppliedRoute` leaves these out.
* OTA: a command that waits behind the finalization of a restored supply stays waiting when that has
  used up its retries, and `s_command_available` stays 0 (comment at mesh_ota.c 1222): `Deferred`.
* Commands: `set_config` answers nothing and restarts, so a repetition carries it out again. The
  head of one message and the tail of another may form an object, which is executed under the first
  one's Seq. The model assumes that the server's repetition comes later than the 5 s of silence;
  earlier ones cost a budget (`burst`).
* Samples: an entry that is half written names number 0, so that a row with number 0 may be settled
  wrongly (the exception of `AckedConfirmed`). Comments at appTask.c 2838, 2878, 2908 leave rows
  INFLIGHT to the restart, but no code resets them at a start. The flag that reports a rebuild is
  lost when the power fails, or NVS does, between the rebuild and the flag (comment at 3594). A
  migration that fails leads to a rebuild (SqLite.c 49-53 says that the database is kept). The model
  assumes that a message id is not used again while it is tracked.
* Link: `ble_disconnect` while a connection event is handled may leave `s_session_closing` FALSE
  until the disconnection is reported; the plaintext path of `app_ble_recv_data_Ack` does not look
  at the session once more (1815-1839).
* Protocols: `http_auto` reads `HaveProtocol` without the mutex, so that a device may be asked for
  again before its answer is installed; a MODBUS or CAN protocol is then freed and replaced while it
  may be in use.
* CAN: a device on CAN is asked without a lock and its answer is waited for without an end
  (appTask.c 4135-4137, 4294-4296), by the control task and the sampler, which may take each other's
  frames. BLE_MAC_TARGET_DESIGN.md:154 says that this path was left as it was.

## Not modelled

* Drivers of device buses, framing, ciphers, CRC, protocol parsers, configuration and JSON: a call
  leaves nothing behind but its result, which the modules take as a choice between success and
  failure. The CAN transfers have the interleaving named above; a module for them would check what
  the repository says is not promised.
* Local log: one ring under one mutex; its index is restored as the last one written, and only when
  a round is recovered (appTask.c 3702), so one record is overwritten.
* Status LEDs: they follow the state of others and feed nothing back.
* Of modelled parts: formatting, logging, the staggering of publications, memory exhaustion where
  the code does no more than return, the exits of `SqLite_Init` for lack of memory or a mutex,
  queries that print, the radio preference of BLE and Wi-Fi, the Wi-Fi fallback and the display
  states of `dual_net.c` (off or unread in this build), SNTP and the boot stagger of `mesh.c`, the
  check of external devices after a fetch, and a round started by `net_init` in `ProtocolFetch` (the
  overlap of the two starters is in `AgingCommand`).
* `AgingGap` takes the calls of `aging_gap_mqtt_ready` at any time, which covers a `true` that the
  service task sets (mqtt_app.c 1346) after a callback has set `false` for a new connection.
* No property is about these: a `stop_aging` that timed out and is answered from the cache when
  repeated although it was not completed (appTask.c 2680); a row that stays INFLIGHT because its
  acknowledgement was dropped (2875, 2908); a child that finds its parent in the moment between the
  last look at `Network_Flag` and the restart (mesh.c 368) and restarts all the same.
* The 32-bit counters (generations, session ids, revisions) are taken not to wrap.

## Plan

What is left: `PnHandover`, the abstract life of a PN (none, ready, running, over), implemented by
`AgingCommand`; the log ring.
