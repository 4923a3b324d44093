# Formal model of the DESS local monitor

A Home Assistant integration that polls Voltronic-type inverters over serial
ports, TCP bridges and EyBond Wi-Fi dongles, and lets the user change their
settings. All of it runs on one asyncio event loop: what can go wrong is not
parallel memory access but the order in which tasks get to run between their
suspension points. The modules here model those tasks; a step of a model is a
stretch of code between two `await`s that can suspend.

Paths below are relative to `src/custom_components/dess_monitor_local/`.

## Inventory of the system

| Component | State | Operations | What makes it correct |
|---|---|---|---|
| Command queues, `api/commands/direct_command_queue.py` | per transport a priority queue with a worker; registry of queues, reference counts, keys per entry, a lock | `enqueue`, worker loop, `stop`, `release_entry`, `run_on_bus` | one command at a time per link, user before poll, counts exact, unload stops exactly what nobody uses |
| Entry life cycle, `__init__.py` | the entries' set-up state | set-up, unload, reload | unload gives everything back |
| EyBond manager, `api/protocols/eybond_dongle.py` | sessions, PN map, ready events, per-session TID, pending futures and send lock, announcer, listener | accept, identify, evict, forward, time out, announce, shut down | requests reach their dongle and get their own answer; a stale session cannot hurt the live one |
| Discovery registry, `api/protocols/eybond_discovery.py` | a record per dongle: status and configuration | `record_seen`, `mark_disconnected`, setters, load and save | status agrees with the sessions; configuration survives restarts |
| EyBond hub, `eybond_hub.py`, `hub.py`, `coordinators/eybond_children.py` | Store, runtime, child targets | set-up, persist, reconcile, migrate, unload | Store, registry and children agree |
| Poll coordinator, `coordinators/` | data per device, cycle counter, failure counts, NAK sets | poll cycle, retry, forced refresh, freeze | published data is the newest; a failing device freezes, then becomes unavailable |
| Setting selects, `select.py` | pending choice | set, confirm, retry | the last choice wins and is shown only when confirmed |
| Modbus adapter, `api/adapters/modbus.py`, `api/protocols/modbus_rtu.py` | snapshot cache | read three blocks, write one register with a fallback | a snapshot is undamaged and has every register that is used |
| SoC estimator and energy sensors, `soc_core.py`, `sensors/direct_energy_sensors.py` | coulomb count, debounce, restored totals | update, set capacity, restore | bounded, monotone totals, no jumps |
| Single-shot transports, CRC, decoders, dispatcher | one connection, buffer and future per query | connect, receive, time out, validate, decode | no damaged frame gets through where strict mode is honoured, no connection is left behind |
| Config and options flows, diagnostics, entities | forms, ring buffers | | |

Interactions. The coordinator and the selects call `run_on_bus`, which queues a
command on the transport's queue (serial, TCP) or calls it directly (EyBond,
and user writes on TCP in `concurrent_writes` mode). An EyBond command ends up
in `EybondManager.send_frame`, which waits for the dongle's session and its
send lock. Sessions are created by dongles that answer the announcer's UDP
broadcast. The manager writes connection status into the registry; the registry
tells the announcer which dongles are wanted. Unloading an entry releases its
queues and shuts down its manager.

What a poll cycle publishes is pushed to every sensor; the energy meters and the
state-of-charge sensor integrate it, and configuration entities (numbers, a
select, a switch) of the same device change how.

Hard behaviours: a release that awaits a worker while another entry wants the
same transport; work that outlives the unload of its entry; a dongle that
reconnects before its old connection has ended; replies after timeouts;
requests that wake up on an event whose cause is gone again; shutdown that
suspends half-way; a registry that lives in two objects; a cycle that publishes
what it remembered over what was confirmed meanwhile; a state of charge that has
to survive edits, gaps and restarts. `PROJECT.json` lists them as hazards, with
their lines.

## Modules

| Module | Content |
|---|---|
| `CommandQueue` | queues, registry, entry life cycle as far as it concerns them |
| `SerialBus` | what the queues promise: an abstract serial link |
| `CommandQueueProofs` | theorems about `CommandQueue`: registry, workers, releases |
| `SerialBusProofs` | the queues' full invariant, and that they implement `SerialBus` |
| `EybondSessions` | sessions, requests, announcer, connection status, shutdown |
| `EybondSessionsProofs` | theorems about `EybondSessions` |
| `EybondHub` | managers and their listeners, discovery registry, Store, hub entry, legacy entry, migration, reconcile |
| `EybondHubProofs` | theorems about `EybondHub` |
| `Coordinator` | poll cycle, failure policy, forced refresh, Modbus cache, a setting select |
| `CoordinatorProofs` | theorems about `Coordinator` |
| `SingleShot` | one query over a connection of its own or through a dongle; frames and validators |
| `Modbus` | SMG-II snapshots and register writes; extends `SingleShot`, whose query it answers |
| `SocEstimator`, `EnergySensors` | the estimator and the meters as functions of their state and a reading |
| `Telemetry` | composes the four above: from bytes to sensors, with configuration entities and restarts |
| `TelemetryWireProofs` | theorems about the line, the validators and Modbus |
| `TelemetrySensorProofs` | arithmetic and lemmas about the estimator, the listeners and the meters; theorems about the sensors |
| `SocHistoryProofs` | theorems about the state of charge over time |
| `MC...` and `.cfg` files | instances for TLC |

`Telemetry` extends `Modbus` (and through it `SingleShot`), because their steps
are its steps, and takes `SocEstimator` and `EnergySensors` by `INSTANCE`. The
others stand on their own: a command of the coordinator is an answer, an error or
a refusal, whatever transport is behind it; a hub's manager has sessions and no
frames.

Definitions whose comment begins with "Mutant:" are deliberately wrong variants
of the definition that follows them; each of the checked properties fails when
its variant is put in place of the original.

### CommandQueue

Variables are named after the code's attributes: `queues`, `refcount`, `owned`
(`_entry_keys`) and `waiters` (the line for `_ensure_lock`) belong to
`QueueRegistry`; `pending`, `current`, `wstate`, `cancelled` and `nextSeq` to a
`CommandQueue` object; `caller` is where the task that called `run_on_bus`
stands; `phase` is the entry's. A queue object has an identity of its own,
because a registry that has forgotten an object and a worker that is still
winding down coexist. `Setup` ... `ReleaseEnd` are the life cycle,
`EnsureWaits` ... `EnqueueNew` the callers, `Take` ... `WorkerEnds` the worker.
`release_entry` is cut at its one inner suspension, the await of `stop()`.
A command (`fn`) is abstract: it ends with a result or an exception, or is
unwound by cancellation. A cancelled worker whose command is being unwound takes
a step of its own (`FnCancelled`), so the interval in which the old worker still
touches the link is there.

Each element of `Calls` is one invocation, and `Req[c].after` makes it follow
the end of another one of the same task (second attempt, next command of a
cycle), so an entry can go on using the bus while it unloads.

`TransportKey` is `transport_key` with its gaps: a TCP endpoint is keyed by
scheme as well, and a serial port without a path (`PortNames`, such as `COM3`),
for which `urlparse` finds no path, by the whole URI.

### EybondSessions

One element of `Sessions` is a `_Session` object with its TCP connection, its
`_handle_session` task and its heartbeat task; an identity is reused when
nothing refers to the object any more. `handler` is where the task stands
(`accepted`: the transport exists, the task has not run; `ending`: the finally
clause awaits the heartbeat task), `link` is the state of the connection
(`stale`: half-open; `eof`: closed by the dongle; `reset`: broken; `closed`: by
the manager), `inbox` the frames that have arrived and not been read, `wire`
the requests the dongle has and may still answer. `send_lock` is the line for
the session's lock, its head holds it. A request `r` goes through
`idle -> waiting -> woken -> locking -> sent -> replied | lost -> answered |
none | cancelled`; `replied` and `lost` are a completed future whose task has
not run, which is where timeouts and cancellations compete with completion.
`deaf` is a waiter whose event shutdown has removed from the map without
setting it.

The dongle and the network are an environment: `Accept`, `DongleHeartbeat`
(with or without a PN), `DongleReplies` (any request it has, in any order, at
any later time), `DongleVanishes`, `DongleCloses`, `LinkFails`. A read handles
one frame and runs to the next `await reader.readexactly`. Frames of other
function codes are ignored by the code and left out.

Abstracted: bytes, addresses, intervals and log lines; the clock (a timeout can
happen whenever its task waits); the rediscovery window (`ForcedAnnounce` at
any time). `ensure_started` is not part of this module: the listener runs.

### EybondHub

One config entry and the managers of its listener port. `mgr` is
`_managers[port]`; a manager has a `server` (its listener: absent, being bound,
bound, or in bind back-off), a registry `mreg`, sessions `sess`, and may be
`closing` while a successor exists. Registries are objects with identities
(`reg[r]`), because the hub's runtime and the manager hold references and
`get_eybond_manager` decides whose is kept. `phase` is where set-up and unload of
the entry stand between their awaits; `HubSetup` ... `HubNotReady` are
`async_setup_eybond_hub`, `Persist` and `Written` the Store, `HubUnload` and
`HubStops` the unload, `LegacySetup` ... `MigrationReloads` the legacy entry and
its migration, `Submit` ... `ReconcileApplies` the devices form and
`async_reconcile_children`. The form starts a task for each reconcile and nothing
orders them: `recon[t]` is what task `t` has computed before it awaits the
platforms, and `raced` remembers that the last one to begin found another under
way. `unsaved` says whether the registry differs from `_last_saved`, which starts
from the registry the hub adopted, on disk or not; everything that changes a
record sets it (`Touches`). `Crash` kills Home Assistant with whatever was under
way. Other entries appear as `OtherUnload`, the drain of all managers that the
last legacy entry does. A record is reduced to "enabled with a protocol" and
"connected".

### Coordinator

`data`, `prev` and `got` are the coordinator's data, the snapshot a cycle works
from and what the cycle has so far; `attempt` and `stuck` belong to the fetch of
a device; `fails`, `naks` and `unsupported` to the freeze policy and the NAK
suppression. `PollSkipped` ... `PollNak` are `fetch_with_retry` at one command,
`CyclePublishes` and `CycleTimesOut` the end of the cycle. A choice is a task
that writes up to `Tries` times and then re-reads up to `Attempts` times;
`Listens` is `_handle_coordinator_update` of the select, which every publication
runs. A device may answer, fail, refuse, or commit a write late; one that is
read through Modbus answers from the snapshot cache until the entry expires, and
its writes are never taken as acknowledged (`IsAck`). The clock appears as the
steps `CacheExpires` and `PendingAges`.

### SingleShot, Modbus, SocEstimator, EnergySensors, Telemetry

A query has a transport (`open`), the part of the reply that has not arrived
(`left`), a buffer and a future; chunks, a lost connection and the timeout come
in any order. Frames are sequences of tokens (start, payload, CRC, terminators,
foreign bytes), which is what the validators and the decoder tell apart:
`Decoded` says whether the fields are those that were sent, nothing, shifted or
damaged. The PI30 and PI18 protocols through an EyBond dongle
(`send_eybond_voltronic`) deliver a reply as a whole and check no CRC, whatever
`strict_crc` says. In `Modbus` a query is three requests, each with its own answer; the
reader asks for header, count and rest, so that a damaged count makes it wait
for bytes that do not come. The verdict on the bytes so far is a set, because
what a damaged byte says is anything. A block may have fewer registers than were
asked for; what counts is whether those that are used are there.
`write_register` stands for the seven semantic setters; its answer is checked for
CRC, unit and exception bit and not for being the echo of this write, so nothing
is concluded from it here. What becomes of the value is in `Coordinator`.

`SocEstimator` and `EnergySensors` are operators on a record of state: SoC in
0.01 %, charge in 0.01 Ah, currents in 0.1 A, voltages in 0.1 V, powers in W,
time in cycles of an hour. `Telemetry` runs the
coordinator's verdict on the answer (`Accept`, `Retry`, `GiveUp`) and then, in
one step as in the code, all listeners in their order of registration (`Publish`):
status sensor, meters, SoC sensor, derived times. Every finished cycle reaches
them, since each section carries the time of its cycle. A reading that
could not be refreshed is published again, or a blank one. `Changed` is an edit
by the user with the listener it reaches; `Restart`, `AddSensors` and `Added`
are a restart, in which the platforms come back in any order and from what Home
Assistant had stored: the percentage, the energies and the configuration.

## Runs

Every passing run explores its whole state space.

| Run | Shows |
|---|---|
| `queue` | two entries on one serial port, one of them in `concurrent_writes` mode with a direct write to a bridge: the inductive invariant, no overlap on a key or on a serial port given by its path, owners have a live worker, exact reference counts; the queues implement `SerialBus` (refinement); queued commands are answered unless cancelled or stopped; unloads finish |
| `leak` (fails) | a cycle in flight re-creates ownership after its entry was unloaded |
| `stranded` (fails) | `stop()` leaves the futures of its commands unresolved: a user command never returns |
| `requests` | two requests on one dongle with two connections: the inductive invariant, own answers, one frame at a time, no request left without its session, none failed by the loss of another |
| `return` | two dongles, one enabled, one at times without a PN: session set, PN map, ready events and registry status agree; the end of an old connection changes nothing for the new one; the announcer brings an enabled dongle back |
| `end` | every request ends |
| `shutdown` (fails) | a dongle that connects during shutdown keeps `wait_closed` from returning |
| `hub` | children, Store and statuses agree with the registry the hub uses, through set-up, failed set-up, reload, migration, late polls, drained managers, overlapping reconciles and crashes; what changes while the hub runs is saved, the hub gets a listener of its own again unless one is orphaned |
| `migrate` (fails) | a migrated hub keeps the legacy manager's registry and loses the child that the migration configured |
| `coordinator` | known data is frozen for as long as promised, a command is given up only after NAKs in a row, a choice stays on display until it is confirmed or too old, and the select ends up showing what the device has |
| `revert` (fails) | a cycle that began before a setting was confirmed puts the old value back |
| `telemetry` | eight transports: in strict mode no damaged frame over TCP and serial lines, none ever over Modbus (through an EyBond dongle `strict_crc` is ignored, and nothing is claimed), no connection left open, snapshots with every register they use; SoC and charge agree, the snap to 100 % is earned, no jump without a reason, times only with a known SoC; energies never fall and are accounted for sample by sample |

The five failing runs are disagreements between the code and what its comments
say; `PROJECT.json` quotes them under "findings".

Bounds.

- `queue`: three calls give a holder, a waiter and a successor; two queue objects
  a key that is released and served anew. Ports called by a name are left to the
  theorem, which holds for any `PortNames`.
- `requests`, `return`, `end`: two sessions give the eviction of one by the other
  (that a third changes nothing is part of what is proved), two requests a holder
  of the lock and a waiter. `InboxBound = 1` lets a frame be late by any number of
  steps, since reading is not forced; `TidSpace` is the 2^16 of the code,
  `FrameBound` keeps the model below the wrap and is never reached;
  `HeartbeatBound` limits keepalives, which only advance the TID. Symmetry is used
  where the instance does not distinguish sessions or requests, never with
  liveness.
- `hub`: one dongle (records do not interact), two managers (an old one closing
  and its successor), four registries, more than are ever referred to at
  once (by two managers and the runtime); one drain by another entry, or two
  reconciles that overlap.
- `coordinator`: one device read command by command, another one (`Others`)
  polled in parallel, which makes the per-device time limit apply; two choices; three
  faults, enough to exceed both thresholds and to make a write fail and a
  confirmation be lost in one behaviour. The NAK threshold is the code's 2; the
  failure limit is 2 instead of 6, the writes of a choice 2 instead of 3, its
  confirmations 1 instead of 4. One cycle runs at a time, as Home Assistant guarantees.
- `telemetry`: behaviours of up to five readings (the debounce takes three), or three
  with two edits, or two with an edit and a restart, over the agent, whose
  answers need no bytes; two cycles, with both attempts each, byte by byte over
  TCP, serial, PI18 and Modbus, two through a dongle with PI30 and PI18, and one
  with Modbus; one register write. The
  readings include charge, discharge, a full battery, float, missing ratings,
  implausible and unreadable values.

Deadlock is not checked: calls, faults and readings of an instance are used up
and the system may then rest.

Fairness. `CommandQueue`: a task that can run does run (weak fairness of
workers, releases and lock waiters), and a command ends, since every transport
has a timeout. Nothing is assumed of callers, set-ups, unloads or
cancellations. `EybondSessions`: handlers, resumed requests and timers run; a
write to a half-open connection fails in the end (TCP gives up), which is what
`_heartbeat_loop` relies on. For `return` the dongle has to cooperate: it does
not miss every broadcast, connects after hearing one, sends its heartbeat, and
does not disconnect for ever before the heartbeat is read. Nothing is assumed of
other dongles. `EybondHub`: the persist loop ticks, saves are written, binds
return, back-offs and shutdowns end, a cycle is begun every update interval;
nothing of users and dongles. `Coordinator`: cycles begin and go on, cache
entries and pending choices age, the device makes an accepted value visible;
faults are finitely many. `Settles` says where that ends; nothing is assumed of
the select's own task, which may have failed.

## Proofs

Every safety property of the passing runs, invariant, action property and
refinement, is also a theorem, proved by TLAPS for every value of the constants
that satisfies the named assumptions. `PROJECT.json` lists the theorems; the
theorem for a property `P` is called `PHolds` or by what it says. The inductive
invariants are conjunctions of invariants that TLC checks on the runs, so that
the runs guard the strengthenings too.

### Command queues

From `CallAssumption`, `EntryAssumption` and `NoneAssumption`.

`ServiceInv` is about the registry and the workers. That commands on a key do
not overlap is not inductive: it needs that a live worker is either the one the
registry lists for its key or the one a release is awaiting (`WorkerInv`), that
the latter's key has no listed queue while the lock is held (`ReleaseInv`), and
that a listed queue has an owner (`RegistryInv`), which in turn needs the count
to be exact, including the entry whose release has taken its key set and not
reached the key (`Owners`). `CommandsAreSerial`, `SerialPortsAreSerial`,
`RefcountsAreExact` and `OwnersAreServed` follow from it. That two URIs of one
serial port have one key (`OneSerialKey`) holds for a path in any form and for a
name in one form; COM3 and `pi18-serial://COM3` are excepted by the property.

`CallInv` is about the commands: each is in one queue at most, a worker has
taken out what it runs, only calls that went to a queue are in one, and a
queue's counter is ahead of the numbers it gave out. `QueueInv` is both.

`QueuesImplementSerialBus` is the refinement `Spec => ImplementsSerialBus`. A
call is "waiting" on the abstract link while it is in a queue that is not
cancelled, "serving" while some worker awaits its `fn`, also a cancelled one,
and "gone" afterwards. Every step of `CommandQueue` is shown to be a submission,
a withdrawal, the start or the end of a service, the drop of a key's whole line
(a release cancels the worker and with it everything that waits), or a stutter.
The abstract order of arrival is the order of `seq` within the one queue of a
key that is not cancelled, which is where `WorkerInv` is used again: two such
queues of a key would make the order partial.

### EyBond sessions

From `NoneAssumption`, `TargetAssumption` and `BoundAssumption` (the TIDs are an
interval from 0, and a session sends fewer frames than there are TIDs).

`SessionInv` includes the types (the type of `send_lock` needs that whoever
releases it is in its line, so the two are proved together) and adds to the
properties what makes them inductive. `ObjectInv`: a session holds a PN,
requests and frames only while its handler runs, and its PN and the heartbeats
in its inbox are its own dongle's. `MapInv`: a mapped session is still handled,
and, while the manager serves, a handled session that is no longer in the
session set was identified, so an unidentified one can still be routed to once
its heartbeat is read. `LockInv`: a request in flight heads the line of its
session, one that waits is somewhere in it. `TidInv`: the requests that have
left a trace in a session (future, frame or reply) have pairwise different TIDs,
none above the counter; a cancelled request's future that stays behind in
`pending` is therefore never completed with another's reply. The proof of
preservation treats the two halves (sessions and tables, requests) apart:
`RequestsKept`, `Leaves` and `TablesKept` say what a kind of step leaves alone,
and each action is an instance of one of them except for the half that it really
changes. `NoCollateralLoss` is an action property, proved from the same
invariant. The theorems about TIDs say nothing about sessions that outlive the
wrap of the counter.

### EyBond hub

From `HubAssumption` and `NoneAssumption`; the number of managers, registries
and dongles is arbitrary.

`HubInv`, `ChildrenMatch`, `EditsSurvive` and `NoPhantomConnections` are
inductive only together (`HubAll`), and each states more than its first purpose
because the others need it. `PhaseHolds` says which references exist in which
phase of set-up and unload. `ManagersApart`: one listener has the port, sessions
exist only there, and two managers that are still in use never share a registry;
without it the end of a closing manager could mark the dongles of its successor.
`StatusIsTrue` is `NoPhantomConnections` for every manager in use rather than
the hub's own, since any of them may become the hub's. `EditsSurvive` follows
the configuration through all the places it can be in: the Store or the save
that is under way, what set-up has loaded, the registry in use. `ChildrenMatch`
holds for any number of reconcile tasks: while none has overlapped with the one
that began last there is at most one, its targets are what the registry asks for,
and every later form begins another. The proof splits
the state into the owner of the port (managers, sessions, registries) and the
entry (phases, children, Store); `TwoSides` says that the invariant is the two
together, and most actions move one side.

### Coordinator

From `CoordinatorAssumption` and `SettingAssumption`, for any devices, commands,
schedule, thresholds and number of choices.

`CoordinatorInv`: the failure counters are the polls in a row without an
accepted answer, also when the accepted one was a refresh's (`CountsAgree`);
what was not due or was stuck is carried over unchanged (`CycleCarries`); the
section of the setting says what it is (`SettingIsSaid`); a held choice is on
display (`ChoiceIsShown`); a call under way has an attempt left
(`CallsHaveWork`). The three action properties use one or two parts each:
`SuppressedOnlyByNaks` and `KnownDataIsFrozen` the counters and the carried
sections, `HeldUntilConfirmed` the display.

### Telemetry

From the assumptions on the shapes of replies, frames, readings, stored values
and edits (`ReplyAssumption`, `FrameAssumption`, `DataAssumption`) and on the
marks being distinct (`MarkAssumption`, `OpAssumption`, `ValueAssumption`).
Replies, readings, registers, edits, capacities and currents are otherwise
arbitrary. A Modbus frame has at most five tokens: unit, function, count or
address, data, CRC.

The line (`TelemetryWireProofs`): `WireInv` adds to the properties that a future
holds exactly the frame that is in the buffer, validated where validation is
strict (`FrameIsReceived`), that a connection is open only while its query may
still use it (`NoSocketLeft`), and that a Modbus operation agrees with its
request: what has come and what is coming are one reply to it
(`OperationHolds`). `StrictKeepsDamageOut` and `SnapshotIsWhole` follow; the first
is claimed where a CRC is checked (`IsChecked`), the dongle's PI30 and PI18 being
in the model and outside the claim.

The sensors (`TelemetrySensorProofs`): `SensorInv` puts types, `SensorsAgree`
(the trapezoid's baseline is the last sample; a sensor that is not there is
new), `EnergyIsKept` and the properties together. Under it is the arithmetic of
the estimator for all integers: `PercentBounds` (rounding), `Anchored` and
`Rescaled` (what an edit of the capacity makes of charge and SoC),
`SnappedFits`, `MirroredFits`, `UpdateFits`, `Trapezoid`. `SnapIsEarned` counts
full readings by voltage and current alone (`IsFullTick`), not by the estimator's
own threshold; that the two agree is a step of its proof. Charge is kept in 0.01
Ah and SoC in 0.01 %: for a capacity below 100 Ah a unit of charge is more than
a unit of SoC, so the two agree to `Grain(cap)`, the larger of the two, and not
exactly; this is the tolerance of `SocAgreesWithCharge`. `MetersMove` says what
any step may do to a meter; the two action properties about energy follow from
it.

The history (`SocHistoryProofs`): `JumpsAreExplained` is not provable from the
values of one moment, because an estimate may be unknown for any time and come
back with an edit or a restart. `ShownBounds` makes it inductive: the last SoC
that was shown bounds from above both the SoC and the charge of the estimator,
and the charge never shows more than the SoC. Capacity edits keep that because
anchoring and rescaling round down (`CapacityBounds`), readings because without
a charging current the integral falls (`IntegratedFalls`, `UpdateBounds`),
restarts because what is stored is what was shown.

### Only model-checked

Liveness, which needs fairness: `QueuedIsAnswered`, `UnloadFinishes`,
`RequestsEnd`, `EnabledDonglesReturn`, `DiscoveriesAreSaved`, `PortIsServed`,
`Settles`. The failing runs, which are counterexamples.

## Observed deviations

Met while modelling, in the models as the code has them, and not the subject of
a failing run:

- A capacity that is cleared, or not yet restored, at a tick makes the SoC
  unknown; entered again it starts at 100 % (`soc_core.py:112`), also after a
  restart with an unknown value.
- The SoC sensor stores only its percentage: `async_get_extra_data` is not a hook
  Home Assistant calls, so charge and time of the last sync do not survive a
  restart (`sensors/direct_energy_sensors.py:532`, against the comment at 495).
- A reading frozen after failed polls is integrated, and counted for the snap,
  as if it were new.
- `int()` of unreadable status bits raises in the coordinator's fan-out
  (`sensors/direct_sensor.py:599`); listeners registered later miss the update,
  and the meters bridge the gap with their next sample.
- The snap to 100 % takes the smaller of sync and float voltage for its threshold
  (`soc_core.py:219`); `wiki/vSoC-Setup.md` asks for the sync voltage and says that
  without an override the snap never fires at float.
- `strict_crc` is offered for PI30 and PI18 devices behind an EyBond dongle
  (`config_flow.py:393`) and ignored by their adapter (`api/adapters/eybond.py`);
  `wiki/Configuration.md:164` says that frames with an invalid CRC are dropped.
- A Modbus block with fewer registers than asked for is accepted as long as those
  that are used are there.
- Neither transport compares the answer to a Modbus write with the request: a valid
  frame of another write, or of another function, counts as done.
- In "Lithium (BMS)" mode any BMS value moves the SoC, by any amount, the
  placeholder 100 included, which the docstring of `_read_bms_soc` says is ignored;
  `JumpsAreExplained` admits it, as it does any rise while charging.
- Junk in front of a valid frame passes `validate_voltronic_response`, and the
  decoder, which does not skip it, shifts the fields.
- A Modbus write returns `{"status": "OK"}`, which `SelectBase._is_ack` does not
  accept: each choice on an SMG-II is written three times and a warning logged.
- An exception reply to a Modbus write over TCP has 5 bytes where 8 are read: the
  fallback to 0x10 starts only after the timeout. Through a dongle, write replies
  of 4 to 7 bytes are accepted without a CRC.
- `smg2_to_qpigs` reports a battery capacity of 100 %, which the "Lithium (BMS)"
  mode mirrors; fault codes of SMG-II are read and never reach the fault sensors,
  because `get_data` nests them.
- `send_voltronic_set_command` returns on a timeout without closing its writer.
- Two protocols on one TCP bridge have separate queues, since the scheme is part
  of `transport_key`; so have the forms of a serial port that is called by its name
  (`COM3`, `pi18-serial://COM3`), since a URI without a path is keyed as a whole.
  The docstring (`direct_command_queue.py:27`) says they share one.
- Of two reconciles that overlap the older may set its targets last
  (`eybond_hub.py:203-211`); the hub then polls the older set until the next
  reconcile that runs alone, or a reload.
- `_last_saved` starts from the adopted registry (`eybond_hub.py:96`): a dongle that
  a manager had seen before, and that is silent afterwards, is saved only at the
  unload.
- `start_server` may return after the shutdown of its manager; the listener then
  belongs to nobody and keeps the port, while the hub's own manager stays in bind
  back-off.

## Not modelled

- The CRC polynomials, the field tables of the decoders and the enumerations: data
  and byte arithmetic without control, with reference vectors in the tests.
- Set commands of the Voltronic, PI18 and agent transports beyond their outcome
  (acknowledged, refused, lost), which `Coordinator` has.
- Forms that only collect and validate input, sensors that copy a field, diagnostics
  and the hub's discovery sensor: they observe, and nothing observes them.
- The wrap of the 16-bit TID, more than one cycle at a time.

## Plan

All modules of the plan are written, their safety properties checked and proved, the
refinement of `SerialBus` included. What could still be added:

- a composition of `EybondHub` with the sessions of `EybondSessions`, whose managers
  it has as sets of connected dongles;
- an abstract specification of the SoC sensor (a bounded value that moves only with a
  reason) with `Telemetry` shown to implement it; `ShownBounds` is its refinement
  invariant;
- the wrap of the 16-bit TID, which needs an assumption on how long a cancelled
  request's future can stay behind.
