# seed_mg24: a TLA+ verification project

The repository builds a condition-monitoring system: battery sensor nodes (Seeed XIAO
MG24, Arduino firmware in `sensor_package/firmware`) that send telemetry over BLE, and a
gateway (FastAPI, SQLAlchemy and Bleak, in `gateway/app`) that registers, provisions,
resets and records them. This directory holds TLA+ models of the parts where a mistake
would be hard to find by testing, the TLC runs that check them on small instances and the
TLAPS proofs that hold for every instance. Paths below are relative to `src/`.

## 1. The system and its components

| Component | State | Operations | What is hard about it | What makes it correct |
|---|---|---|---|---|
| Node stores (`node_identity_store.cpp`, `configuration_store.cpp`, `persistent_record.cpp`) | two A/B pairs of CRC-checked records with 32-bit generations | `load`, `write`, `provision` | power lost between or during writes, unreadable slots, rollover of the generation | an acknowledged configuration survives, an identity is written once, no pair of records `load` has to refuse |
| Node factory reset (`factory_reset.cpp`, `setup()`) | the reset marker, challenge, busy flags | `prepare`, `confirm`, `cancel`, `recover_on_boot`, `complete_recovery_on_boot` | a crash between any two of eight writes, deletions that fail | the marker outlives the keys, a reset once begun completes, the node is fenced meanwhile |
| Node commands (`xiao_mg24_sensor_node.ino`, `usb_bootstrap.cpp`) | running configuration, active identity, `bootstrap_only` | `PROV`, `CFGSET`, `CFG`, `RATE`, USB commands | a command that changes two stores | identity is the commit marker of a PROV |
| Node telemetry (`telemetry_buffer.cpp`, `loop()`, `ble_update_telemetry`) | offline buffer, sequence, uptime, the BLE characteristic | report, heartbeat, push, replay | a full buffer, link losses between push and replay, reboots | each record published once, waiting, or counted as dropped |
| Node vibration (`vibration_service.cpp`, `SeedMg24Vibration`) | IMU FIFO, two window buffers, lifecycle, latest result | drain, process, publish, fault | the IMU writes while the firmware reads, both buffers full | bounded service, no valid window over an overrun that the status could show |
| Attached-sensor provisioning (`provisioning_service.py`, `installation_service.py`, `api/installations.py`) | `SensorInstallation` and `ProvisioningAttempt` rows, per-node locks, the adapter's `_verified` | create, patch, validate, apply, verify, disable, archive, upgrade-profile; removal and guided restore of the node | coroutines and worker threads on the same rows, BLE timeouts with late effects, other writers of the node, restarts between commits | no success without verification, attempts on record before the node is touched, an uncertain result is not lost |
| BLE provisioning client (`ble_provisioning.py`) | one lock per address | `inspect`, `provision`, `configure` | command executed although the answer is lost | a retry does not provision twice |
| Reset and re-register (`reset_reregister_workflow.py`, `api/reset_reregister.py`) | persisted workflow row, confirmations and monitor task in memory | associate, select, back up, prepare, execute, cancel, reconcile, register, match, provision, verify | restart between stages, the sensor rebooting meanwhile, two commits of one registration | a reset is recorded only when it happened, with a backup before it |
| USB factory reset client (`usb_factory_reset.py`, `api/factory_reset.py`) | confirmations, operations, a lock per hardware id | prepare, launch, run, finalize, retry cleanup | a lost answer, a sensor that does not come back | every launched reset is concluded |
| Lifecycle and confirmations (`device_lifecycle_service.py`, `lifecycle_confirmation.py`) | tokens with expiry, device rows | issue, consume, remove, restore | removals racing the workflow on the same record | one active registration per hardware id |
| BLE connections (`ble/manager.py`, `ble/connection.py`) | `connections`, a reconnect task and a command queue per sensor | schedule, remove, pause, command, reconnect, stop | cancellation racing a reconnect and a new schedule, one endpoint in a worker thread | no unmanaged task by what the loop does, no caller left waiting, no command written twice |
| Telemetry ingestion (`telemetry_service.py`, `telemetry_persistence.py`, `telemetry_parser.py`) | sessions, duplicate cache, readings | ingest, dedupe, detect reboot, persist | packets overtaking each other at the database, reboots of the node, rollover of its clock | what is not stored is not remembered, readings of a session in order |
| Vibration condition (`vibration_condition.py`) | baseline, condition and history rows | process, relearn | threads that write rows they read earlier, column by column | statistics from valid windows, evidence before an alarm, no version lost |
| Commissioning, firmware installation | rows and one job each | approve, install | approval of a state that has changed since | the PROV of an approval is in `Installations`; otherwise not modelled, see section 7 |
| API shell, static pages, scripts, diagnostics, DSP | | | | see section 7 |

How they interact. The gateway reaches a node over BLE (telemetry notifications, `PROV`,
`CFGSET`) and over USB (bootstrap, factory reset). An operator drives the gateway through
HTTP: `async def` endpoints run on the event loop, plain `def` endpoints on worker
threads, and both commit to the same SQLite rows. Every exchange that needs the sensor for
itself stops its managed connection and schedules it again afterwards. `ingest` is called
by the connection's notifications and hands vibration windows to the condition service in
a worker thread.

The hazards, each at its line and with the properties aimed at it, are listed in
`PROJECT.json`.

## 2. Modules

| Module | Models |
|---|---|
| `NodePersistence` | node stores, factory reset, boot, every command that writes a store |
| `ResettableNode` | what a node promises the gateway about its identity (abstract) |
| `NodeRefinement` | the mapping under which `NodePersistence` implements `ResettableNode` |
| `ResetReregister` | USB factory reset, the guided workflow, removal and restoration; composed with `ResettableNode` |
| `Installations` | attached-sensor provisioning in the gateway, with every other writer of the same rows and of the node's configuration |
| `BleConnection` | the managed connection of one sensor and the requests that use it |
| `Telemetry` | from the node's report to the readings in the database |
| `VibrationNode` | FIFO, double buffer and bounded drain of the firmware |
| `VibrationCondition` | baseline learning, rating and relearning in the gateway |
| `...Proofs` | theorems about the module they are named after |
| `MC...` | instances for TLC |

### NodePersistence

The firmware is one loop on one core; an interrupt touches none of the modelled state.
What can come between two writes of an operation is a loss of power, so every step makes
at most one write or deletion, together with the reads around it, and `PowerLoss` may
follow any step. `pc` is the program point (`boot`, `recover_remove`, `recover_verify`,
`boot_load`, `loop`, ...).

* `nvm` maps the six resettable keys to records: valid with a generation and a value,
  torn (the CRC or a check fails) or absent. `marker` is the reset transaction.
* `faults` says which storage faults a behaviour may have: a read that fails for a moment,
  a write that does nothing, a write that leaves a torn record whatever it returns, a
  deletion that fails. It is fixed in a behaviour so that properties can say which
  combinations they survive.
* `Boot`, `RecoverRemove`, `RecoverVerify`, `BootLoad` are `setup()`; `ProvBegin`,
  `CfgSetBegin`, `CfgBegin`, `UsbProvisionIdentity`, `UsbRestoreConfiguration` start a
  command that goes on with `ConfigWrite`, `IdWriteA`, `IdWriteB`; `UsbPrepare`,
  `UsbCancel`, `UsbConfirm`, `MarkerWrite`, `ResetRemove`, `ClearedWrite`, `Reboot` are the
  reset. `ChallengeClock` is the 32-bit millisecond clock seen through the signed
  comparison of `confirm()`.
* `survivors` and `provCommitted` are history variables.

### ResettableNode, NodeRefinement and ResetReregister

`ResettableNode` is the node as the gateway may rely on it: none or one identity, never
replaced, gone only while a reset is under way, and a reset over only when it is gone.
`NodeRefinement` maps the valid identity records of `NodePersistence` and its marker to
this, and the property `ImplementsResettableNode` says that every behaviour of the stores,
with torn records and power losses, is one of the abstract node. `ResetReregister` uses the
actions of `ResettableNode` for its sensor, so that what it shows of the gateway rests on
what the firmware was shown to do.

In `ResetReregister` a record of the registry is named by its device id. A step of a
coroutine ends at an `await` or a commit; handlers in worker threads come between any two.
`_run` of the USB client talks to the serial port without an `await`, so that the event
loop does nothing else meanwhile (`LoopFree`); the sensor does (`SensorErases`). The wizard
does not force an order: the code checks the state of a workflow in `registration` and
`edit_registration` only, and so does the model. `resets` holds the USB operations with the
task that follows each, `prov` the `provision()` coroutine, which commits a registration in
two steps (`ProvisionRegister`, `ProvisionFinish`). `Restart` leaves the database and the
sensor.

### Installations

A step of a coroutine ends at an `await` or at a commit. Where the code commits an attempt
and then the installation row, the second commit is a step of its own: `Decide` commits
the attempt and leaves the row's change in `pending`, `LoopCommit` writes it; only worker
threads and a restart can come in between, because no other coroutine runs before the next
`await` (`LoopFree`). An endpoint on a worker thread reads the row in one step
(`RequestRead`) and commits in another (`RequestCommit`). `Change` and `Merge` model what
SQLAlchemy does with two sessions on one row: only the columns whose value changed are
written, over whatever the row holds by then.

The removal and the guided restore write every installation of the node in one session:
`RemoveNode` and `RestoreNode` load the rows and leave what will be written in `batch`,
`BatchCommit` writes it. Worker threads come in between here too.

`job` is the `apply()` holding the node's lock, `check` the `verify()` calls between their
read of the row and the return of the read-back, `verified` the adapter's memory of
acknowledged transactions. `device` is the node's configuration and `inflight` a command on
its way: the node has one command buffer and drops what arrives while it is taken
(`xiao_mg24_sensor_node.ino:685`). `apply()` is not the only writer of the node.
`ProvisionElsewhere` is the PROV of an approval or of the guided workflow, `Configure` the
CFGSET of `configure_device`, `LocalConfigure` the serial line and `NodeReset` a factory
reset; none of them records an attempt or touches `verified`. The BLE ones share the
provisioner's lock, so they do not run while `apply()` talks to the node; the serial line
does. `Restart` loses everything in memory.

History variables: `origin` is the attempt that the node's configuration came from, if it
came from one; `touched` the acknowledged attempts that another writer has overruled since;
`activated` the installations `verify()` has marked active; `waived` those on which
upgrade-profile or the guided restore was used; `cut` those whose row lost an attempt's
outcome to a restart.

### BleConnection

`entry` is `BleManager.connections[device_id]`, `conn` the `DeviceConnection` objects: the
entry's, and those popped from `connections` whose `stop()` still waits for the cancelled
task. `pc` is the await the task is at. `Failed` is the except clause of `run()` with the
delay computed after it. `BeginStop` with its four kinds stands for every request that
calls `remove()`; the ones of kind `exchange` go on with `WorkEnds`, the `schedule` in their
`finally`. `connect_device` is the one endpoint that calls `schedule` in a worker thread,
where `create_task` has no event loop and raises. It takes three steps, and the loop runs
between any two: it reads the device (`Admit`), looks for an entry (`LookUp`), and enters an
object without a task (`Enter`), over whatever the loop has entered since. `displaced`, a
history variable, are the connections it overwrote; `MaxDisplaced` bounds them.

### Telemetry

A record is its boot, type, sequence number and the time it was made at since that boot.
The gateway sees `Uptime`, that time modulo `Wrap` (2^32 in the code, `README.md:331`), and
compares nothing else; `Era` says how often `millis()` has rolled over. `ReportOffline` and
`Publish` are one pass of `loop()`: the delayed record, the new one with its own `millis()`,
and the heartbeat with the `now` the pass began with. Every notification becomes a task; a packet
is accepted up to the await (`Accept`), waits in `tasks` for its worker thread, and is
committed and remembered (`Persist`) or refused (`Refuse`) in any order. A poll is awaited
by the connection's own task, which `StopConnection` cancels while the worker thread goes
on.

### VibrationNode and VibrationCondition

`VibrationNode` counts the FIFO in batches of 16 frames. `Sample`, the IMU, may come
between any two steps of `service()`: between the status read and the batch read it is what
makes a status stale. Nothing is assumed of the OVER_RUN bit but that it goes up when
frames are overwritten: it may be up as soon as the FIFO is full and down after any word
that is read. `fifoGetStatus()` reports no error (`vibration_service.cpp:102`), so that
after a failed transfer the status is any member of `StatusWords`. The history `gap` of the
FIFO, of a buffer and of the latest result says that frames are missing there, and whether
a status could have shown it (`visible`) or not (`hidden`).

`VibrationCondition` has threads that read their rows (`Read`), decide, and commit with
`Merge`, the UPDATE of the changed columns. `Scoped` says whether the node has an
installation: the unique constraint of the history does not bind NULLs. The histories
`streak` and `overtaken` say how many of the last commits found the same state, and whether
one of them met a condition that had changed since it was read.

## 3. Runs

| Run | Instance | Result |
|---|---|---|
| `node` | 2 identities, 2 configurations, generations modulo 4, three fault models | all hold, 0.8 million states |
| `inst` | 1 installation, 2 configurations, 2 attempts | all hold, 0.95 million states |
| `reset_safety` | 2 identities, 1 workflow, 2 USB resets | all hold, 0.46 million states |
| `reset_complete` | the same with 1 reset | violated, finding 1 |
| `ble_safety` | 2 concurrent requests, 1 worker thread, 1 command, queue of 1 | all hold, 0.69 million states |
| `ble_reconnect` | 1 request, largest exponent 1 | violated, finding 2 |
| `telemetry` | buffer and cache of 2, clock modulo 4, 2 boots, 2 tasks, 3 sessions | all hold, 2.4 million states |
| `telemetry_boot` | buffer of 1, 1 task, 2 sessions | violated, finding 3 |
| `vibration` | 2 threads, minimum 1, persistence 3, 4 windows, 3 versions | all hold, 3.4 million states |
| `vib_relearn` | 2 threads, 3 windows, 2 versions | violated, finding 4 |
| `vib_evidence` | 2 threads, persistence 3, 5 windows | violated, finding 5 |
| `vib_node` | FIFO of 3 batches, window of 2, bound 3, sequence modulo 4 | all hold, 0.36 million states |

What the passing runs show.

* `node`: a configuration whose write returned Ok is what the next load returns
  unless a later write replaced it (`AckedConfigSurvives`); no pair of records of one
  generation (`NoGenerationConflict`); telemetry only under the identity in the store
  (`PublishesDurableIdentity`); an identity that PROV wrote implies a configuration
  (`ProvCommitsConfiguration`); the marker goes last (`MarkerOutlivesKeys`); an identity is
  not replaced without a reset (`IdentityWrittenOnce`); the slot in use is never the slot
  written (`ActiveSlotRetained`); the stores implement the abstract node
  (`ImplementsResettableNode`); a reset whose marker was stored ends once the storage works
  and the node is booted again (`ResetCompletes`). Two of these carry the fault model in their statement:
  with transient read failures *and* torn writes an older configuration can come back, and
  with read failures `write()` may take the active slot for an empty one.
* `inst`: an installation waits only for an attempt that is undecided
  (`TransactionIsOpen`); a reconciling one names the attempt to reconcile
  (`ReconcilingNamesAttempt`); an acknowledged configuration is on the node unless CFGSET,
  the serial line or a reset has overruled it, and no late PROV does
  (`AcknowledgedIsOnNode`); what the node has from an attempt is what the database records
  under that very transaction id (`NodeConfigOnRecord`); nothing is enabled or shown as
  active that was never verified, unless upgrade-profile or the guided restore was used on
  it (`EnabledOnlyAfterVerification`); no sequence of failures,
  racing requests and restarts leaves the node locked (`LockReleased`).
* `reset_safety`: a reset is recorded as complete only for an identity that was erased
  (`CompleteIsErased`); the guided workflow erases nothing it has no backup of
  (`ResetBackedUp`); one active registration per hardware id (`UniqueActiveHardware`); every
  launched reset is concluded and recorded, also the second of two that were launched before
  either took the sensor's lock (`ResetSettles`).
* `ble_safety`: a live task is the entry's or is being stopped, unless `connect_device`
  overwrote its entry (`NoOrphanTask`); a caller that waits has its command in a queue that
  is still served or about to be dropped (`NoStrandedCommand`); `CommandWrittenOnce`;
  `StopReturns`.
* `telemetry`: `EachRecordOnce` on the node; in the gateway `CacheOnlyStored`, and
  `SessionOrder`: the readings of one session that a boot made between two rollovers of
  `millis()` have their uptimes in the order of their numbers.
* `vibration`: `BaselineIsItsSamples`; `HistoryComplete`; `RepeatMakesNoVersion`, a relearn
  that is repeated before another one commits makes no second version; and
  `AlarmIsPersistentUnlessOvertaken`, the documented rule of consecutive evaluations
  wherever the commits of windows do not overtake each other. Where they do, the rule fails:
  `vib_evidence`.
* `vib_node`: `OneBufferFills`; `VisibleOverrunNeverValid`, no valid window spans an overrun
  that the next status could show; `ServiceReturns`.

### Bounds, and why they are enough

* Generations modulo 4 instead of 2^32: the smallest even modulus for which the two
  generations in a store, g and g+1, are told apart by the rollover-safe comparison. Every
  write sequence wraps around within four writes.
* Two identities and two configurations on the node let an old value differ from a new one;
  three values of a store are never in play at once.
* `MaxAttempts = 2`: an attempt that timed out and its successor, with the first one's
  command still in flight. `apply()` never looks further back than the attempt the row
  names. Two configurations, so that the late command is for another one. `MCOneFocus`
  keeps two kinds of races apart: those on the rows (removal, restore, disable, archive,
  upgrade-profile, verify from the endpoint, an outcome lost to a restart) and those on the
  node (a second configuration, another writer, a late command), each with all its
  interleavings; a restore is explored with one attempt, and not together with a verify
  from the endpoint. The theorems of `InstallationsProofs` have no such restriction and hold
  for any number of installations and configurations.
* `ResetReregister`: two identities are the old and the new one of the sensor. Two resets
  are launched while the first is queued (`MCLaunchedTogether`), which is the only way one
  finds the lock held by the other: `launch()` refuses once it is held. `MCFewRequests` then
  follows the two to their end with the sensor, removals, restores and restarts but without
  new requests of the workflow; neither constraint cuts off a step that the fairness of
  `ResetSettles` asks for. Deadlock is not checked in these two runs: once the resets are
  used up and everything is settled there may be nothing left to do.
* `BleConnection`: one object per request, one for the entry and `MaxDisplaced` overwritten
  ones are all that can exist. `MCFewActors` has two requests together only while no
  `connect_device` is under way and nothing was overwritten. The limit of the exponent is 0
  or 1 instead of 1023, so that the overflow is reached.
* `Telemetry`: a clock modulo 4 and four passes of `loop()` in the first boot (two units
  each): a rollover after the second. A buffer of 2 holds records from before and after it;
  a cache of 2 forgets after three packets; two tasks overtake each other. `MCEarlyReboot`
  lets a reboot follow one pass, `MCShort` lets the second boot make one and the tasks
  overtake each other in the first two.
* `VibrationCondition`: `Persistence` is 3, the default of the code and the least at which
  a count of one pending state can be taken over by another; `Minimum` is 1, so that of
  four windows three are left to be rated. Three versions let a retried relearn meet its
  successor. Two threads are one window and one relearn, or two windows, at a time.
* `VibrationNode`: a FIFO larger than a window and equal to the bound of the drain, a
  priority threshold below it, and a sequence that wraps.
* `MCLateQuiet` and `MCUnfinished` look past the end of the storage faults only from a boot
  that finds the marker, and only until the reset is done: what follows otherwise is a
  subset of the steps explored anyway, and a reset that never ends has such a boot.
* Symmetry is used in `vibration` only, on its threads, which no definition tells apart.

### Fairness

* Node: weak fairness of `NodeStep`. The processor keeps executing its instructions;
  commands, power losses and faults get none. `ResetCompletes` assumes further that
  storage faults end and that the node is booted again and again. `VibrationNode`: weak
  fairness of `Loop`; the IMU owes nothing.
* `Installations`: weak fairness of `LoopCommit` and `BatchCommit` (a coroutine runs on to
  its next `await`) and strong fairness of `ApplyStep`: the event loop's ready queue is first
  in, first out, and every BLE wait of `provision()` has a timeout, so an `apply()` whose continuation is
  due gets its turn however often other coroutines run before it.
* `ResetReregister`: weak fairness of each USB operation, which has a deadline, and of its
  follower. That the sensor comes back is not assumed.
* `BleConnection`: weak fairness of what a `stop()` waits for. `ble_reconnect` adds
  `InReach`: tasks run, the semaphore serves its waiters in order, and a sensor that is
  tried for ever is within reach at some attempt. The finding needs all of it: the task is
  not unlucky, it is gone.

## 4. Proofs

`NodePersistenceProofs` proves for every set of identities and configurations, every even
generation modulus from 4 up and every set of fault models (`ConfigAssumption`,
`NoneAssumption`, `GenAssumption`, `FaultAssumption`) the invariant

    IInv == TypeOK /\ SlotInv /\ FlowInv /\ ActiveInv

and from it `TypeCorrectness`, `ConflictFreedom`, `IdentityOfTelemetry`,
`MarkerDiscipline`, `IdentityIsPermanent`, `ActiveSlotIsRetained`, `AckedConfigIsDurable`
and `IdentityCommitsConfiguration`: every safety property of `node`.

The properties are not inductive. `NoGenerationConflict` says that two generations differ,
but the next write only keeps them different because the slot is chosen by the parity of
the generation: `SlotInv` says that slot A holds odd and slot B even generations, which is
also what survives a wrap of an even modulus (and why the assumption asks for one).
For identities `SlotInv` adds that both records hold the same identity, which rests on
`FlowInv`: between the two writes of `provision()` slot A holds the new identity and slot
B is empty. `FlowInv` also carries the marker from `confirm()` through the deletions, and
`ActiveInv` that a node out of bootstrap either is fenced by an active marker or runs
under the identity in its store.

`AckedConfigIsDurable` and `IdentityCommitsConfiguration` rest on `ConfigOutcome`, which says
what one `write()` leaves for the next `load()`: the store as it was, the new record as the
one that is loaded (`NextIsNewer` and `SuccessorLoads`: its generation follows that of the
other slot, also where it wraps), or a torn record beside the one `write()` had read. The
last case is where the two fault kinds that `AckedConfigSurvives` excludes together meet:
only a slot that could not be read is overwritten in use. `ProvInv` is what the second
property lacks: the configuration is already loadable when PROV comes to its first identity
record, so that a loss of power right after that record finds both.

`NodeRefinementProofs` proves `Refinement`: `NodePersistence` implements `ResettableNode`,
under the same assumptions and from the same `IInv`. One lemma per writing action says which
abstract step it is. Deletions empty the abstract node in one step although there are two
identity slots: by `SlotInv` both hold one identity, so that deleting the first of two
leaves it held and only deleting the last is an abstract erasure. By `FlowInv` the first
identity record goes into an empty store, and the second repeats the first.

`ResetReregisterProofs` proves `TypeCorrectness`, `OneActiveRecord`, `BackupComesFirst` and
`CompletionIsReal` for any sets of identities and workflows and any number of resets
(`FirstIdAssumption`, `NoneAssumption`, `MaxResetsAssumption`) from

    IInv == TypeOK /\ RecordInv /\ WorkflowInv /\ ResetInv /\ UniqueActiveHardware

`Had` is every identity the sensor has or has lost. `RecordInv` says that a record is for
one of those, `ResetInv` that a USB operation past its confirmation is for one of those and
that one which reports success is for an identity already lost: this is what the follower,
cleanup and reconcile-reset conclude from. `WorkflowInv` says that a confirmation exists
only after a backup, which `execute` hands on to the operation; the source and backup of a
workflow are not written again while the operation names it.

`InstallationsProofs` proves, for any sets of installations and configurations and any
number of attempts (`NoneAssumption`, `AttemptsAssumption`), all six invariants that
`inst` checks on one installation: `TypeCorrectness`, `OpenTransactions`,
`ReconcilingIsRecorded`, `AcknowledgedOnNode`, `ConfigOnRecord`, `NoUnverifiedSuccess`.
Its invariant is

    IInv == TypeOK /\ ShapeInv /\ RecordInv /\ JobInv /\ CheckInv
              /\ OpenInv /\ UncertainInv /\ DormantInv
              /\ AcknowledgedIsOnNode /\ NodeConfigOnRecord

The difficulty is that an outcome takes two commits, and that a worker thread or a restart
may come between them. `AfterTx` and `AfterState` are what a row will show once the
pending commit is made; `OpenInv` and `UncertainInv` say their property of the row as it is
*and* as it will be, so that the second commit preserves them (the future becomes the
present) and so does a restart (the future is dropped). `ShapeInv` says that no endpoint,
removal or restore writes `active_transaction_id` or the state reconciling, which is why
committing an old request or batch over a newer row is harmless to them; `UncertainInv` that an attempt shown as
uncertain has no acknowledgement in memory and no `apply()` working on it, which is why a
late verify cannot turn it active; `DormantInv` that an installation never verified has no
previous configuration in its row, in a pending commit, in a request or in a batch, which is
what `_fail` and `_uncertain` decide on. `AcknowledgedIsOnNode` and `NodeConfigOnRecord` are
inductive as they stand, once the node's refusal of PROV while it is assigned and the
histories `touched` and `origin` say who wrote last. `RecordInv`, `JobInv` and `CheckInv` tie transaction
ids held in memory to the attempts in the database.

The proofs lean on three lemmas about sessions (`ChangeFact`, `MergeFact`, `CommitFact`:
exactly the changed columns are committed) and on `ViewStep`, which says what any step that
neither begins nor decides an attempt does to the two views of a row.

`BleConnectionProofs` proves `TypeCorrect`, `NoOrphan`, `NoStranded` and `WrittenOnce` for
any finite set of requests, any worker threads and commands, queue size and largest exponent
(`RequestsAssumption`, `QueueAssumption`, `ExponentAssumption`, `NoneAssumption`) from

    IInv == TypeOK /\ ManagedInv /\ CommandInv

`ManagedInv` says who can still reach a connection object: it is the entry's, or exactly one
request waits for its end, or `connect_device` overwrote it, and never two of these. That
there is a fresh object for every `schedule` is then a pigeonhole argument over requests,
overwritten connections and objects (`FreshFact`), which is
the reason why `Conns` is large enough. `CommandInv` says that a command is at one place of
one queue and unwritten until it leaves it; "at most once" is not inductive without the
place, since a command queued twice would be written twice later.

`TelemetryProofs` proves `TypeCorrect`, `RecordsAccountedFor`, `CacheIsStored` and
`SessionsInOrder` for every size of buffer and cache and any number of boots, sessions and
packets at the database (`TelemetryAssumption`) from

    IInv == TypeOK /\ NodeInv /\ CacheOnlyStored
              /\ PastInv /\ AirInv /\ TurnInv /\ SessionInv

`SessionsInOrder` is the hard one. Two records of one era are inverted when the later one
has the smaller uptime (`EraOrder`: inside an era uptimes are ordered as the times are), and the firmware does make such pairs: a measurement and the heartbeat of
its pass, which carries the earlier time. The gateway keeps them apart because it compares
each uptime with the last of the session, which works only if the record with the smaller
number is accepted first. `AirInv` says that notifications arrive in the order of their
numbers; `TurnInv` that whatever is still to be accepted (in the offline buffer, on the
air, in the characteristic) is inverted with nothing accepted before it; `SessionInv` that
the last uptime of the open session is its greatest, counting the packets that still wait for
the database, so that the order in which they are committed does not matter. `PastInv` says
that all of it was made before the present pass, which is why new records have larger
numbers and, in their era, no smaller uptimes than anything accepted.

`VibrationNodeProofs` proves `TypeCorrect`, `BufferDiscipline` and `NoFabricatedWindow` for
every size of FIFO, window, batch bound and sequence (`NodeAssumption`) from

    IInv == TypeOK /\ OneBufferFills /\ ReadHasRoom /\ GapTraced

`ReadHasRoom` says that a batch is read only where the loop had room for one. `GapTraced`
is why `VisibleOverrunNeverValid` holds: while frames are missing that the next status can
show, OVER_RUN is up and no batch is being read, and `DrainStarts`, the only way to read
one, wants a status without it. So a gap that gets into a buffer is a hidden one. Nothing is
assumed of how the bit is cleared.

`VibrationConditionProofs` proves `BaselineAgrees` for any number of threads, windows and
versions (`VibrationAssumption`). Its invariant says that the row *and the copy of it every
thread has read* are sound: the count is the length of the samples, all of them valid.
`MergeSound` is the core: count and samples change together or not at all in `Learned` and
in a relearn, so that merging the changed columns of one sound row into another gives a
sound row whichever columns the other thread has written in between. (It is not so for
status and count, which is finding 4.)

`TypeCorrect`, `AlarmAfterPersistence`, `HistoryHasEveryVersion` and `RepeatIsAbsorbed` have
a second invariant on top of it, `RowsInv`. `StreakCounts` is its part for alarms: unless a
commit has met a changed condition, the pending count is covered by the last commits, which
have all found the pending state; so that the commit that reaches `Persistence` is the last
of as many. Without the exception this is not preserved by the merge of the two columns
`pending_state` and `pending_count`, which is finding 5. For versions, `VersionInv` says that
the history is `1..version-1`: of two relearns that read the same version the unique
constraint lets one insert, so that the second finds its version superseded and is rolled back.

Left to TLC: liveness (`ResetCompletes`, `LockReleased`, `ResetSettles`, `StopReturns`,
`ServiceReturns`), which rests on fairness and `ENABLED` and is beyond this prover. Every
invariant, action property and refinement of a passing run is also a theorem.

## 5. Findings

1. `reset_complete`: the wizard "does not advance until the backend verifies an
   unprovisioned non-telemetry bootstrap state" (`docs/sensor-lifecycle.md`). The
   registration step accepts `recoverable_error` whatever the error was, and
   verify-network looks at no state: a workflow whose reset failed is completed with the
   sensor still under its old identity.
2. `ble_reconnect`: "Offline --> Active: reconnect" (`docs/sensor-lifecycle.md`). At the
   1025th failure in a row `reconnect_delay` overflows, outside the try block of `run()`.
   The task ends and the entry stays, so that the sensor is not connected again until
   someone disconnects or disables it, or the gateway is restarted.
3. `telemetry_boot`: "The gateway detects a decreasing uptime, creates a new
   boot/connection session" (`README.md`). Duplicates are looked for before the session,
   under a key without it: after a reboot records with recent sequence numbers are lost.
4. `vib_relearn`: a baseline "learns [...] from 100 valid windows by default [...], then
   freezes" (`gateway/README.md`). A relearn that read a building baseline and commits
   after the window that froze it leaves it frozen and empty, and every later window raises.
5. `vib_evidence`: "Three consecutive evaluations are required for a state transition"
   (`gateway/README.md:55-56`). `pending_state` and `pending_count` are committed as separate
   columns by threads that read them earlier (`vibration_condition.py:168-177`): the count
   earned by one state can meet the state another thread has written, and an alarm is raised
   that the last three evaluations have not all found.

Disagreements met while modelling that have no run of their own; each can be followed in
the module named:

* `NodePersistence`: a reset marker that was stored but could not be read back leaves the
  node publishing until its next boot, which erases it (`factory_reset.cpp:85-87`;
  `sensor_package/docs/device-identity.md:16` has "stays in bootstrap-only mode").
* `Installations`: `README.md:5` has an installation activated "only after live telemetry is
  verified". The guided restore enables every installation of the node, verified or not
  (`api/reset_reregister.py:593-597`), and upgrade-profile on a draft makes its failed first
  apply look like a failed replacement, which is then enabled
  (`api/installations.py:125-133`). Both are the exception `waived` of
  `EnabledOnlyAfterVerification`. `_fail` and `_uncertain` re-enable without asking for the
  exclusive interface, and on an archived or removed row too
  (`provisioning_service.py:271-281`, `300-310`); validate or PATCH makes a reconciling
  installation ready for a new attempt and its transaction is dropped
  (`provisioning_service.py:157-162`).
* `Installations`: "Transaction IDs and attempts are persisted" (`README.md:78`) is true of
  `apply()`. `configure_device` (`api/nodes.py:114-141`), the workflow's `provision()` and
  the approval of a node put configurations on it without an attempt, and `_verified` keeps
  the configuration they have overruled, so that a later verify() finds it active.
* `BleConnection`: an exchange that ends after the sensor was removed schedules its
  connection again (`WorkEnds`). `connect_device` leaves an entry whose task never starts;
  when the loop has scheduled a connection between its look at `connections`
  (`manager.py:31`) and its assignment (`manager.py:53`), that live connection is overwritten
  and its task runs on unmanaged until the gateway stops (`displaced`).
* `VibrationCondition`: with three threads a window delivered twice can be counted twice,
  because the duplicate check reads a stale row; count and statistics still agree. Only the
  last request id is kept (`vibration_condition.py:221`): a relearn that is repeated after
  another one makes a version of its own.
* `VibrationNode`: "rather than [...] fabricating a valid window"
  (`vibration_service.cpp:246-248`) holds as far as a status can tell. An overrun between a
  status and the batch it promised, whose words may take the bit down again, or a status
  word from a failed transfer (`vibration_service.cpp:102`) leaves a hidden gap.
* `VibrationNode`: after a backlog `acquireReady` takes the lower index first, so that two
  windows may be processed in reverse order; a read error after whole frames leaves a gap
  in a window that becomes valid.
* `Telemetry`: the heartbeat carries the time its pass began with, earlier than the
  measurement sent before it, which the gateway takes for a reboot; a record popped from
  the offline buffer before the central has subscribed is heard by nobody; two copies of a
  packet in flight at once are both stored. A rollover of `millis()` is taken for a reboot,
  and a record from before it that arrives after one from behind it has a larger uptime and
  joins that one's session (`telemetry_service.py:46`), which is why `SessionOrder` speaks of
  readings between two rollovers.

## 6. Plan

What is left, the most important first.

1. Theorems: action properties that say what a restart keeps (`ResetReregister`,
   `Installations`), and lemmas shared by the two models of column-wise UPDATEs.
2. `Commissioning`: approval bound to a fingerprint of the current state.
3. Firmware installation jobs: one at a time, cancellation, process exit.
4. Alarm engine and filters as pure operators, once the firmware calls them.

## 7. What is not modelled, and why

* A failure to initialise the storage driver: `setup()` then stays in bootstrap without
  touching a store. The `configuration_only` scope of `confirm()` has no caller.
* Parsing and framing of BLE and USB lines, CRC arithmetic and record layout: a record is
  valid, torn or absent, a command or a packet is well formed or is refused without effect.
  A marker of an unsupported version would be refused by every boot
  (`factory_reset.cpp:108`); this firmware writes none, and the torn marker of the model is
  one that fails its CRC.
* In `Installations`, the profile and capability checks of `validate()` are a Boolean
  verdict, and the configuration of the node is one value: that PROV writes it before the
  identity is the matter of `NodePersistence`.
* In `ResetReregister`, the installations of the node, which removal and restore write
  (`Installations`), the contents of the backup, and the browser. The backup of a workflow is
  never cleared by the code. `erased` only grows, so that `CompleteIsErased` does not tell a
  second reset of one identity from its first, and it leaves out any record while a
  `provision()` is about to write the same word. A lifecycle confirmation and its execution
  are one step, because nothing it binds changes in between.
* In `Telemetry`, vibration packets: they share the session and the duplicate cache
  (`telemetry_service.py:84-111`) and go on to the condition service. The sequence number
  does not wrap: across a wrap the order of the numbers is not the order of the records, and
  `SessionOrder` says nothing of such readings.
* Alarm engine and filters of the firmware: nothing in the sketch calls them.
* DSP of the vibration library and the deviation of features from the baseline (floating
  point): a window has a validity, and a frozen baseline gives it any rating.
* Retention, the read-only endpoints, discovery scans, the websocket fan-out, dashboards,
  diagnostic sketches, scripts and the legacy dashboard. The instance lock of the gateway is
  what justifies a single gateway process.
