# ThesslaGreen Modbus: a TLA+ verification project

The repository is a Home Assistant integration for ThesslaGreen AirPack ventilation units.
It polls the unit's Modbus registers, shows them as entities, writes registers on behalf of
entities and services, and scans units for the registers they support. Everything runs on one
asyncio event loop; the unit accepts few connections and answers slowly. The hard questions are
therefore who talks to the unit when, what happens to the connection when a request fails, is
cancelled or never answered, whether what the entities show is true, and whether what a scan
or a set-up has concluded still holds when it is used.

Paths below are relative to `src/custom_components/thessla_green_modbus/` unless they start
with `src/`.

## 1. Inventory

| Component | State it keeps | Operations | Hard behaviours | What makes it correct |
|---|---|---|---|---|
| Coordinator (`coordinator/coordinator.py`, `update*.py`, `errors.py`) | `data`, `last_update_success`, `_shutting_down`; in the client `_update_in_progress`, `_consecutive_failures` | scheduled and requested refresh, failure handling, `async_shutdown` | cancellation at every await, refresh waiting for the lock, shutdown during a refresh | a cycle ends and resets its flag; data is never older than what was known |
| Write path (`coordinator/schedule.py`, `coordinator/write_path.py`) | `_write_lock`, attempt counters, the repair issue | one register, several registers in chunks or in one request, temporary modes, targeted read-back | retry of a write that may have been applied, blocks in several chunks, errors that escape | one exchange at a time; success is earned; the lock is released |
| Device client (`core/`) | `client` (alias), `_transport`, `_client_lock`, `offline_state`, `_resolved_connection_mode` | ensure and drop the connection, choose the transport, optimized reads, fallbacks, retries | a transport that reconnects behind the alias, retries that disconnect | a working link is used, a broken one replaced, at most one open |
| Transports (`transport/`, `modbus/`) | socket or pymodbus client, stream buffer | connect, call, reset, close; RTU framing and CRC | late answers, broken frames, dropped links | an answer belongs to its request |
| Scanner (`scanner/`) | batch size, failed addresses, unsupported ranges, report | verification of the connection, named, full and deep scans, batches, probes, retries | a cache cut by probes and merged by retried scans, time limits that cancel | what is reported is what the unit has |
| Diagnostic scan (`services/handlers_data.py`) | a second connection | scan with polling paused | two connections to one unit, cancellation in `finally` | the scanner is alone, the primary comes back |
| Registers (`registers/`) | immutable definitions and caches | group and chunk reads, encode and decode values | boundaries, signs and factors of 16-bit values | every register is read once; decoding undoes encoding |
| Entity mappings (`mappings/`) | none after the import | which platforms a register gets | loaders that look at what earlier ones did | one control per register |
| Clock synchronisation (`clock_sync.py`) | last sync time, listener | drift check on updates, block write, read-back | a time taken before the lock is waited for | the block is whole |
| Entry life cycle (`__init__.py`, `_setup.py`, `coordinator/scan.py`) | stored entry, `runtime_data`, scan caches | set-up, retry, unload, reload, removal, restart | failure in each phase, changes during a set-up, a cache that may be used once | what runs is what is stored |
| Config flow (`config_flow.py`, `_config_flow/`, `config_entry_identity.py`) | flows in progress | user, discovery, reconfigure, re-authentication, options | flows that race for a device | one entry per device |
| Services (`services/`) | none | validate, write several registers, refresh | one of several writes fails | the caller learns of it |
| Entities (`entity.py`, platforms, `optimistic.py`) | optimistic value with a time to live | show `coordinator.data`, write | overlay against refresh, commands of several writes | what is shown settles on the unit's value |
| Read-only entities, diagnostics, static tables, loader, tools | none of consequence | formatting, lookup | none concurrent | ordinary tests reach them |

How they interact: Home Assistant's `DataUpdateCoordinator` calls the refresh, one call at a
time. Entities and services call the write path. Both take `DeviceClient._write_lock`, as the
diagnostic scan does. A dial takes `_client_lock`, and so does a disconnect; `async_shutdown`
takes only that. All requests go through the transport, which may close its client and dial a
new one by itself, while `DeviceClient.client`, the alias, keeps the client that was there when
the device client dialled last. Results are published by replacing `coordinator.data`: the whole
of it by a poll, one register of it by a read-back; publishing calls every entity's listener.
Config flows run the scanner over connections of their own and leave what it found in the entry,
where the set-up looks for it before it scans itself; changes of an entry reach its coordinator
by a reload.

`PROJECT.json` lists every component with its status and every hazard at its line.

## 2. Modules

| Module | What it is | Builds on |
|---|---|---|
| `RegisterView` | The promise to the entities: a published value is one the register really had, no older than a confirmed write and no older than what was shown. | |
| `DeviceAccess` | The poll, the writes, the diagnostic scan and the shutdown over one connection: lock, alias, failures. | implements `RegisterView` |
| `Links` | Every kind of link to a unit: the choice of the transport, probes, the direct client, RTU frames over TCP, retries of a read. | |
| `ReadPlan` | `group_reads` and the values a scanner accepts, as functions. | |
| `Scanner` | One use of the scanner, by the config flow or at set-up, with its cache, probes, retries and time limits. | `ReadPlan` |
| `Entries` | Config entries: flows, set-ups, reloads, identity, caches. | |
| `Registers` | A register's definition, its codec, its published value, derived values, packing of times, clocks and schedule settings. | |
| `EntityMap` | Which entities the registers become: the dictionaries of the platforms, from the key of an entity to the register it reads and writes. | `Registers` |
| `Commands` | What each entity command and each service writes, and what each display shows. | `Registers` |
| `Control` | Commands against a unit that is also operated at its panel: write path, refresh and debounce, optimistic values. | `Commands` |
| `MCAccess`, `MCLinks`, `MCScanner`, `MCEntries`, `MCControl` | Instances for TLC; `MCControl` also checks the pure operators over small domains. | |
| `DeviceAccess_proofs` | Proofs about `DeviceAccess`. | `DeviceAccess` |
| `Registers_codec` | Proofs about `Registers`, `EntityMap` and the displays of `Commands`. | `EntityMap`, `Commands` |
| `Entries_proofs` | Proofs about `Entries`. | `Entries` |
| `Links_proofs`, `Links_retries` | Proofs about `Links`; the second is about retries. | `Links` |
| `Control_proofs` | Proofs about `Control` and the jobs of `Commands`. | `Control` |
| `ReadPlan_proofs` | Proofs about the operators of `ReadPlan`. | `ReadPlan` |
| `Scanner_proofs` | Proofs about `Scanner`. | `Scanner`, `ReadPlan_proofs` |

The device is cut along what its parts share. `DeviceAccess` has who waits for whom and what a
poll and a write do to the data, over a link whose failures are its own steps. `Links` has the
link itself, under a poll reduced to its two phases. `Control` has what is written and shown,
above a lock that works (which `DeviceAccess` shows) and requests that may be lost (which `Links`
details). `Scanner` has connections of its own. `Entries` uses a scan's outcome only: the serial
number, or none.

### DeviceAccess and the code

A step is what a task does between two suspension points. `pc` holds the suspension point,
`holder` and `waiters` the asyncio lock, `cycle` and `write` the locals of a poll and a write.

| Variables | Code |
|---|---|
| `conn` | `_transport` and its pymodbus client: never made, up, link lost, client that never connected, closed |
| `alias` | `DeviceClient.client`: the transport's client, an old one, or None |
| `offline` | `DeviceClient.offline_state` |
| `updating`, `stopping`, `failures` | `_update_in_progress`, `_shutting_down`, `_consecutive_failures` |
| `shown`, `present`, `lastOk` | `coordinator.data` and `last_update_success` |
| `device`, `acked` | the unit's registers and the last write it confirmed |
| `scanner` | the diagnostic scanner's own connection |

| Actions | Code |
|---|---|
| `PollStart`, `PollConnect`, `PollFinal`, `PollFinalConnect`, `PollCancelQueued`, `PollCancel`, `CycleSucceeds`, `CycleFails` | `coordinator/update.py`, `update_state.py`, `update_result.py`, `errors.py` |
| `PollNextPhase`, `PollNextChunk`, `PollReadOk`, `PollReadMissing`, `PollReadRaises` (`PollRetry`, `PollFallback`, `PollLeaveOut`, `PollReadFails`), `PollRetryConnect` | `core/read_batches.py`, `core/read_bits.py`, `core/retry.py` |
| `WriteStart`, `WriteConnect`, `WriteAcked`, `WriteRefused`, `WriteRaises`, `WriteReadback`, `WriteReadbackFails`, `WriteCancelQueued`, `WriteCancel` | `coordinator/schedule.py`, `coordinator/write_path.py` |
| `ScanStart`, `ScanOpen`, `ScanEnd`, `ScanRestored`, `ScanCancel` | `services/handlers_data.py`, `_scan_with_polling_paused` |
| `StopStart`, `StopDisconnect` | `coordinator/coordinator.py`, `async_shutdown` |
| `Disconnect`, `Reset`, `Dialed`, `DialFailed`, `DialCut`, `SelfDialed` | `core/connection_lifecycle.py`, `core/connection.py`, `transport/base.py`, `transport/tcp.py` |
| `Grant`, `LeaveQueue`, `Modify`, `LinkDrop`, `Redial` | asyncio, the unit, the network, pymodbus |

What is abstracted:

- A register stands for one read chunk, and holds a modification count instead of a value, so
  that "older" can be said. Counts saturate at `MaxVersion`.
- `Coils` stands for coils and discrete inputs: both are read through the alias, by the same
  code.
- The ways a request ends are an answer, an error answer, "illegal data address", an error that
  makes the transport close its client (a timeout, an I/O error), and a lost connection. Time
  is left out: a timeout may come whenever an answer may.
- `pymodbus` closes a client without suspending, so disconnecting is part of the step that
  needs it. This holds for the TCP transport; RTU over TCP waits for its writer to close.
- A dropped client may reconnect by itself at any moment (`Redial`), which is more than
  pymodbus does.
- A phase change of a poll, from inputs to holding registers to coils, is a step of its own,
  which lets other tasks in between two requests. The code has no suspension there, but it has
  one just before and just after.
- Answers shorter than what was asked for, registers marked as failed inside a cycle, and
  statistics are left out. A failed chunk is retried in the next cycle because
  `begin_update_cycle` clears the failed registers.
- The re-authentication flow that repeated failures start is output; only the count is state.

### Links and the code

`socks` holds what is open and what each stream has heard; `transport` and `client` are the
device client's; `trial` is the transport that is dialled or probed before it is stored; `task` is
the poll: where it is, the request it waits for, its attempt and its result.

| Actions | Code |
|---|---|
| `Ensure`, `Dial`, `Redial`, `Direct`, `TrialDial`, `NextTrial`, `EnsureFails` | `core/client_connection.py`, `core/connection.py`, `core/transport_select.py` |
| `StartPhase`, `EndCycle`, `Answered`, `Broken`, `Retried`, `ReconnectForRetry` | `core/read_batches.py`, `core/read_bits.py`, `core/retry.py` |
| `SendFrame`, `ReadHeader`, `ReadRest`, `BadFrame`, `FrameTimesOut` | `transport/tcp_rtu.py`, `transport/crc.py` |
| `SendPymodbus`, `SendUnconnected`, `PymodbusEnds`, `SelfDial` | `transport/tcp.py`, `transport/base.py`, `modbus/` |
| `Arrive`, `Drop`, `AutoRedial`, `Cancel`, `Stop` | the network, pymodbus, asyncio, `async_shutdown` |

A frame is a header and the rest, read one after the other, so that a late answer can be met in
the middle; the bytes, back-off times and raw writes are left out. A request finds its method on the client object before
the transport dials: after a lost link it goes to the closed object and fails (`Stale`), and the retry
dials anew.

### Scanner and the code

`todo` and `read` are the requests of a phase and the one in progress; `cache` the failed
addresses, failure counts and unsupported ranges of `scanner/io_read.py`, `io_core.py` and
`capabilities.py`; `report` what `scan()` returns; `asked` is history.

| Actions | Code |
|---|---|
| `BeginRequest`, `Answered`, `WordRejected`, `WordRefusedOtherwise`, `WordTimesOut`, `WordCancelled`, `WordModbusError`, `OsError`, `NoBitClient`, `BitUnanswered`, `BitModbusError`, `ResetTransport` | `scanner/io_read.py`, `io_core.py`, `io_read_helpers.py`, `full_scan_phase.py` |
| `NextPhase`, `FinishScan` | `scanner/orchestration.py`, `registers.py`, `firmware.py`, `selection.py` |
| `VerifyConnect`, `VerifySucceeds`, `VerifyFails`, `VerifyCancelledRequest`, `PrepareTransport`, `StartScan`, `DetectConnect`, `DetectSucceeds`, `DetectFails`, `Connect` | `scanner/setup.py`, `scanner/orchestration.py` |
| `VerifyLeaks`, `VerifyTimesOut`, `ScanTimesOut`, `Cancel` | `_config_flow/device_validation.py` |

Decoding the firmware version, the serial number and the capabilities is left out.

### Entries and the code

`entries` is Home Assistant's store, `coord` how far each set-up is and what its coordinator
runs with, `due` the reloads that wait, `ids` the entity registry, `flows` the flows in progress.

| Actions | Code |
|---|---|
| `StartUser`, `Zeroconf`, `Dhcp`, `StartReconfigure`, `Reauth`, `Submit`, `ValidationFails`, `Validated`, `Create`, `ConfirmReauth`, `Dismiss`, `SubmitOptions` | `config_flow.py`, `_config_flow/`, `config_entry_identity.py` |
| `SetupStart`, `SetupScanned`, `SetupFails`, `SetupDenied`, `SetupDone`, `Reload`, `PollDenied` | `__init__.py`, `_setup.py`, `coordinator/scan.py`, `coordinator/scan_result.py`, `coordinator/errors.py` |
| `MigratedUid`, `MigratedIds` | `config_entry_identity.py`, `_entry_migrations.py`, `unique_id_migration.py`, `_setup.py` |
| `Remove`, `Restart`, `Move` | Home Assistant, the network |

### Commands, Control and the code

`Commands!JobOf` gives the steps of every command: each step is a call of the write path, with
its words. `Commands!Display` gives what an entity shows from the data.

| Actions | Code |
|---|---|
| `Start`, `Continues`, `Resume` | `fan.py`, `climate.py`, `number.py`, `switch.py`, `select.py`, `time.py`, `text.py`, `services/handlers_*.py`, `clock_sync.py` |
| `Acquire`, `NotWritten`, `Send`, `Retries`, `GivesUp`, `Escapes`, `Confirmed`, `ReadsBack`, `ReadsClock` | `coordinator/schedule.py`, `coordinator/write_path.py`, `clock_sync.py` |
| `Recorded`, `Forgotten`, `Drops`, `Told`, `Expire` | `optimistic.py`, `entity.py`, `fan.py`, `climate.py` |
| `Tick`, `PollReads`, `PollEnds`, `Refreshes`, `CoolDownEnds` | Home Assistant's refresh and debouncer, `coordinator/update.py` |
| `Touch`, `CatchUp` | the unit |

An optimistic value ends when the display matches it. The fan's may differ by 2 % (`Matches`); the
tolerances of the climate, 0.25 degrees, and of a number, half a step, are less than one unit of a word,
so there matching is equality.

One request and its answer are one step: the write lock keeps every other client away, and the
panel may act between two steps.

## 3. Runs

| Run | Instance | What it shows |
|---|---|---|
| `access_safety` | one chunk of each type, two writers, scan, shutdown, `Retry = 2` | `TypeOK`, `WriteLockOwner`, `SingleEndpoint` in all 1.2 million states (with the writers symmetric) |
| `access_tasks_end` | holding and coil chunk, one writer, scan, shutdown | `TasksEnd`: every task that asks for the device ends |
| `access_converges` | holding and coil chunk, one writer, `MaxVersion = 1` | `ViewSpec`: `DeviceAccess` implements `RegisterView`; `Converges`: after the last fault the entities come to show the device for good |
| `links` | every installation the configuration admits, two sockets, four faults | an answer is taken for its own request, one connection is open at a time, three attempts hide two faults where there are no bits to read and one where there are, AUTO resolves to what the unit speaks, a sound site is polled in the end (192 thousand states) |
| `scanner` | nine units that lack registers or hold invalid values, one scanned in full and one without its serial port settings, and every pair of configured and spoken framing, from the flow and from set-up; two runs, two faults | the cache stays coherent, what a first scan did not find it asked for alone, a scan without faults is exact, what is missing has an explanation, a validation closes its connections, every scan ends (137 thousand states) |
| `entries` | two units, hosts, entries and flows | one owner of a device, a one-time cache used once, what is loaded is what is stored, set-ups end (419 thousand states) |
| `control` | the fan, another entity or service or the clock, the panel, the poll; batches of two registers, two faults | blocks are whole, steps in order, success and optimistic values earned, everything settles (401 thousand states) |
| `update_flag_stuck` | holding chunk, one writer | violated: finding 1 |
| `shutdown_reopens` | one chunk of each type, shutdown | violated: finding 2 |
| `connected_cycle_fails` | holding and coil chunk, one writer | violated: finding 3 |
| `unit_not_polled` | as `links`, without any fault | violated: finding 4 |
| `overlay_hides_device` | one number entity and the panel | violated: finding 5 |

Bounds.

- `Retry = 2` is the least that has a first, a next and a last attempt. `Links` has `Retry = 3`, as the
  code's default, because a third attempt tells two faults from all of them.
- `DeviceAccess`: one chunk of a type lets the fallback of holding chunks, the omission of input
  chunks and the failure of coil chunks all happen; the cases differ by type and not by number. Two
  writers queue behind each other and behind the poll, so that the queue has a middle to be
  cancelled from. `MaxVersion = 1` tells what was from what is; three values (`MaxVersion = 2`:
  2.5 million states) give the same verdicts, and `ViewRefined` holds for any. `MaxFailures` bounds a
  count that guards nothing inside the model. In `access_safety` and `access_tasks_end` values play
  no part. What these bounds leave open, the theorems close for the safety properties.
- `Links`: two sockets suffice to catch a second open connection; with four faults every attempt of
  a phase can fail, and a reconnection as well.
- `Scanner`: batches of two and a boundary make blocks that end at the size, at a gap and at a
  boundary; two runs on one object let the second meet what the first one cached; a fault can hit a
  request and its retry.
- `Entries`: two of each are what a race needs; `MaxFlows` and `MaxEvents` are per run and cover
  a flow that races with another and with a set-up that a fault, a move or a restart disturbs.
- `Control`: batches of two split the three registers of a temporary mode, the four of the clock and
  the steps of a schedule; two calls let a command meet another one's debounced refresh; two faults use
  up the attempts of a write.

Fairness. Every fault stays possible at each step; nothing is asked of the network, of users or of
callers, who never have to start anything.

- `DeviceAccess`: the lock wakes its first waiter, a poll, a write and a scan go on, a started
  shutdown disconnects. The event loop runs every ready task and each request ends because the
  code puts a timeout on it. `SettlingSpec` adds the step `Settle`, after which there are no faults
  and no cancellations; `Converges` is conditional on it.
- `Links`, `Scanner`: the task goes on, since every await in it has a timeout; faults are bounded.
- `Entries`: set-ups go on, and Home Assistant repeats a set-up that is not ready.
- `Control`: strong fairness for those who wait for the lock, because `asyncio.Lock` is first come,
  first served; timers fire, requests end, and status registers follow their set-points.

`CHECK_DEADLOCK FALSE` stands where a run ends by itself: a scan ends, and flows, calls and events
are bounded.

## 4. Findings

1. **The update flag can stay up** (`update_flag_stuck`). `begin_update_cycle` raises
   `_update_in_progress` before the task waits for `_write_lock` (`coordinator/update.py:57-61`);
   the `finally` that lowers it is inside the lock. A refresh cancelled while a write holds the
   lock leaves it up, and every later refresh returns cached data as a success. The comment at
   `coordinator/update_state.py:26` says the flag is reset "after a cycle completes or fails".
   `Converges` holds only under the premise that this has not happened.
2. **A shutdown during a poll can leave the connection open** (`shutdown_reopens`).
   `async_shutdown` disconnects without `_write_lock`; the poll's next request makes the
   transport dial by itself, and the poll, failing later because the alias is gone, re-raises
   without a disconnect because the coordinator is shutting down.
3. **A connected cycle fails for want of a connection** (`connected_cycle_fails`). After the
   transport has replaced its client by itself, the coil phase looks at the old alias and raises
   "Modbus client is not connected". The next cycle recovers, which `Converges` shows. A dial that
   fails between two attempts drops the alias too, so that two faults are enough to fail a cycle with
   bits, however many attempts there are: hence the second case of `RetriesMaskFaults`.
4. **A unit with bits behind raw RTU over TCP is never polled** (`unit_not_polled`). Coils and
   discrete inputs are read through the pymodbus client (`core/read_bits.py:20-22`), which the raw
   transport does not have; `src/QUICK_START.md:9` lists raw RTU over TCP as supported.
   `SoundSiteIsPolled` therefore excepts these sites.
5. **A confirmed value can be hidden for ten seconds** (`overlay_hides_device`). Only a matching
   value (one within the tolerance of the entity, 2 % for the fan) or the time ends an optimistic one; `src/docs/architecture/write_path.md:147-148` says it "must
   be superseded by confirmed device state as soon as it arrives". `Settles` shows that it ends.

Observations that no document contradicts, met while modelling:

- Links: AUTO takes a direct TCP client without a probe, so a unit behind
  RTU over TCP that accepts a plain connection is never polled in that mode; the buffer of the raw transport is not emptied before a
  request, and answers are safe because a timeout closes the stream.
- Scanner: a scan without the option for serial port settings does not ask for them (a full scan sweeps over
  them) and lists them as missing all the same, hence the last case of `MissingIsExplained`.
- Writes: `fan.async_turn_on` works out its second write after the first and can refuse with the
  power already on. A failing step leaves earlier ones applied and asks for no refresh.
  `set_airflow_schedule` writes the start time and then, for every airflow but 0, a word that fits no
  register, because it is packed twice (theorem `PackedTwice`). No property of `Control` forbids what the
  first two do: the steps come in order and the call reports no success. Nor does one forbid that the retry of
  a write that was applied overwrites what the panel set since, or that a coil write without an alias
  fails at every attempt. A device name of more than two batches keeps only its first
  four characters at batches of two (`ShortNames` of `MCControl`). A schedule setting of 128 % at
  0 degrees is read as missing (`AattRoundTrip`). UART codes are divided by the factor of their
  register (`CodesAreScaled`). Several service registers are not in the register map
  (`heating_curve_*`, `co2_threshold_*`, `humidity_target`, ...), so those commands fail.
- Entities: `fan_mode` takes values that the unit never confirms, so that the optimistic value only
  expires; so does a temperature set in the temporary mode (theorem `TemporaryIsNotShown`). A
  read-only register whose unit lists several states becomes a select.
- Entries: a change stored while a set-up runs is not applied (`missed` in `LoadedIsCurrent`); two
  flows whose units gave no serial number can create two entries of one unit; the re-authentication
  flow is started once in the life of a coordinator; the cache of a flow stays in an entry whose
  scanning is off and is used when it is switched on.

## 5. Proofs

The theorems hold for every value of the constants that the named assumptions of the modules allow.

| Theorem | Module | Says |
|---|---|---|
| `TypeCorrect` | `DeviceAccess_proofs` | `Spec => []TypeOK` |
| `LockCorrect` | `DeviceAccess_proofs` | `Spec => []WriteLockOwner` |
| `ScannerAlone` | `DeviceAccess_proofs` | `Spec => []SingleEndpoint` |
| `ViewRefined` | `DeviceAccess_proofs` | `Spec => ViewSpec` |
| `EntriesTyped` | `Entries_proofs` | `Spec => []TypeOK` |
| `OneOwner` | `Entries_proofs` | `Spec => []UidUnique`: one entry per device |
| `CacheUsedOnce` | `Entries_proofs` | `Spec => []FlowCacheOnce`: a one-time cache is applied once |
| `RunsWhatIsStored` | `Entries_proofs` | `Spec => []LoadedIsCurrent`: what is loaded is what is stored |
| `LinksTyped` | `Links_proofs` | `Spec => []TypeOK` |
| `OwnAnswers` | `Links_proofs` | `Spec => []AnswersMatch`: an accepted RTU answer answers the last request |
| `OneConnection` | `Links_proofs` | `Spec => []OneLink`: one open connection, held by someone |
| `RightChoice` | `Links_proofs` | `Spec => []ResolvedIsSpoken`: the automatic choice is a mode the unit speaks |
| `FaultsAreMasked` | `Links_retries` | `Spec => []RetriesMaskFaults`: a cycle fails only after as many faults as there are attempts, or after two where bits are read |
| `ControlTypes` | `Control_proofs` | `Spec => []TypeOK` |
| `BlocksStayWhole` | `Control_proofs` | `Spec => []BlocksAreWhole`: a temporary mode is never half written |
| `StepsComeInOrder` | `Control_proofs` | `Spec => []StepsInOrder`: no step is written before its predecessors are acknowledged |
| `SuccessMeansWritten` | `Control_proofs` | `Spec => SuccessIsEarned`: a call that reports success had every word acknowledged |
| `OverlayMeansWritten` | `Control_proofs` | `Spec => OverlayIsEarned`: an optimistic value was acknowledged in full |
| `GroupReadsExact`, `ChunkRangeExact` | `ReadPlan_proofs` | every address is asked for exactly once, in order, in requests of at most the block size |
| `BatchPlanExact` | `ReadPlan_proofs` | the same of the scanner's batches; a register known to be missing is read alone |
| `ScannerTyped` | `Scanner_proofs` | `Spec => []TypeOK` |
| `MemoryCoherent` | `Scanner_proofs` | `Spec => []CacheCoherent`: the unsupported ranges are disjoint and cover failed addresses only |
| `FlowClosesAll` | `Scanner_proofs` | `Spec => []ValidationClosesAll`: an answered flow has no connection open |
| `NoneIsDropped` | `Scanner_proofs` | `Spec => []MissingIsExplained`: a missing register was refused, invalid, lost with its batch, or is a serial port setting the scan leaves out |
| `FailuresAreProbed` | `Scanner_proofs` | `Spec => []FailedWereProbed`: a first scan writes nothing off because of its neighbours |
| `QuietScanFindsAll` | `Scanner_proofs` | `Spec => []QuietScanIsExact`: without faults a first scan finds exactly what the unit has |
| `SignRoundTrip` | `Registers_codec` | signed values and 16-bit words: encoding and decoding are inverse |
| `TimeRoundTrip` | `Registers_codec` | every time of day is read back as packed, and none is the marker of an unused slot |
| `ClockRoundTrip` | `Registers_codec` | every second of the century is read back from the clock block and accepted |
| `AattRoundTrip` | `Registers_codec` | a schedule setting is read back, but for one word that means "missing" |
| `PackedTwice` | `Registers_codec` | a setting of any airflow but 0 that is packed twice fits no register |
| `ScaleRoundTrip` | `Registers_codec` | a scaled quantity that was read is written as the same word |
| `CodesAreScaled` | `Registers_codec` | a code of a register with factor three is written as another one |
| `TemperatureRoundTrip` | `Registers_codec` | a temperature is published as written, with its sign, but for the word that means no sensor |
| `ShownIsConfirmed` | `Registers_codec` | what a command shows in advance is what its writes make the entity show (`Confirmable` says for which commands) |
| `TemporaryIsNotShown` | `Registers_codec` | a temperature of the temporary mode changes nothing that the climate entity shows |
| `OneControl` | `Registers_codec` | no register but `special_mode` has two entries among the numbers, switches, selects, texts and times, whatever the map, the translations and the overrides |
| `StartsAgain` | `Registers_codec` | the dictionaries a build leaves are such as the next build may start from |

### DeviceAccess

Assumptions: `BoundsAssumption` (at least one attempt, natural bounds), `TasksAssumption` (the
tasks are different from each other and from None), `RegistersAssumption` (the register types do
not overlap).

The argument. `TypeOK` is not inductive: an answer for no chunk would put `None` among the
registers read. `TypeInv` adds that a poll waiting for an answer has a chunk (`ReadsChunk`).
`WriteLockOwner` is not inductive either: whether the woken waiter may enter depends on the queue.
`LockInv` adds that the queue holds exactly the waiting tasks, each once (`QueueIsWaiters`). The
proof first shows that every action is one of a few moves of tasks and lock (`StepMoves`), then
that each move keeps `LockInv`; the removal of a cancelled waiter from the middle of the queue
rests on `RemoveAtProperties` and `DropOne`. The two parts need each other, since a woken
waiter must not be the shutdown, so `Inv` is their conjunction. `ScannerAlone` adds that all
through a scan the primary has no client object (`ScanAlone`): any other task that could dial
would have to hold the lock. `ViewRefined` adds `Fresh`: nothing shown or confirmed is ahead of the
device, and what the running poll has read is at least as new as what is shown and confirmed. It is
kept because no write is confirmed and no read-back published while the poll is inside
(`WriterAlone`), which is what the lock is for.


### Entries

Assumptions: `BoundsAssumption` (natural bounds), `HostsAssumption` (spelling a host twice changes
nothing; every unit starts at a host of its own; there is a unit), `NoneAssumption` (None is none of
the other values).

The argument. `TypeOK` is not inductive: a step that applies a cache or creates an entry needs to
know that a flow past its form has a host and that a flow about an entry names one (`FlowsSound`).
`FlowCacheOnce` is not inductive either: applying the cache of one entry would use up a copy in
another. `OneHolder` says that every numbered cache is at one place only, an entry or a flow, is
numbered by a validation that has happened, and has not been used. Together with the types
(`StoreType`) and `OffUnlessStored` they make `TypeInv`. `UidUnique` is inductive with the types, because each
step that gives an entry an ID looks for its owner in the same step. `LoadedIsCurrent` is
strengthened to set-ups in progress (`AllCurrent`): the coordinator has taken the entry as it was, and
every later change is either noted as missed or answered by a reload. `Inv` is the conjunction.
`Moves` and `FlowMoves` show that every step does one of a few things to an entry and to a flow, and
`Sheds` that a cache only moves or goes, but for the one a validation makes; the invariants
are then kept move by move.

### Links

Assumptions: `SitesAssumption` (a unit on a serial line is configured as one and speaks RTU),
`RetryAssumption` (at least one attempt, a natural bound on faults), `SocksAssumption` (there is a socket), `NoneAssumption` (None is
none of the other values).

The argument. `OneLink` is not inductive: a step that opens a connection has to know that no other is
open. `LinkInv` says that each open socket is held by the transport, by a trial of the automatic
choice or by a direct client, that no two of these hold one at once, and that a stream is framed the
way its holder frames it. `TaskInv` says what the poll knows of the link at each of its positions: a
trial exists exactly while it is dialled or probed, there is no transport while one is chosen or a
direct client is dialled, and a raw frame is read only over a link that exists and is framed so. `AnswersMatch` needs `StreamInv`, because an
RTU answer carries no transaction number: outside the two positions that read a frame no stream
holds an unread piece, since every way in which a frame can fail closes its stream; at those positions at
most two pieces (the header) or one (the rest) are left, each of the last request or noise, and a
unit that does not speak RTU frames has sent nothing. `ResolvedIsSpoken` follows, as a probe is
answered only in a framing the unit speaks. `Inv` is the conjunction with `TypeOK`. The lemmas
`Disconnecting`, `Failing`, `Breaks`, `Opening`, `ProbeWins` and `Reads` say what a kind of step
preserves; one lemma for each group of actions cites them.

`RetriesMaskFaults` has an invariant of its own, `RetryInv`, beside `Inv`. Its core is what the poll has
paid for the attempt it is at (`Count`): every failed attempt has cost a fault, with two exceptions. Over
RTU frames the first attempt may meet a stream that ended before the cycle began, and fail for nothing;
the attempts at bits are all paid for by two faults, because the alias is missing (`AliasInv`) only after
an attempt that timed out and a dial that failed, and without an alias bits are not read again. To keep the
count, `CountInv` has to say that a request that is waited for can only fail by a fault: the link is up,
and of a frame that is being read all pieces are heard or on their way (`Sane`). `PlaceInv` and `ModeInv`
say where the poll may be in which phase, and that a sound site has the transport it speaks. TLC checked
`RetryInv` with one, two and three attempts before it was proved; it was TLC, with three, that showed
that the property without the second case (`spent >= Retry` alone) is false of the code.

### Control

Assumptions: `BoundsAssumption` (at least one register to a batch, at least one attempt, natural bounds),
`NamesAssumption` (the callers are neither `None` nor the poll), `RegistersAssumption` (registers hold
16-bit words, also those that the panel sets and those that follow others), `CommandsAssumption` (the
commands are those the entities and the service schemas let through) and `BlocksAssumption` (a block is one
of the two temporary modes, no single control of its registers is operated beside it, and all its
registers are zero at first). The last is what `BlocksAreWhole` is about: the map also gives numbers and
selects for single registers of these blocks, and someone who uses them can of course write one alone.

The argument has two parts. The first is about `Commands`: every job that `JobOf` gives for an admissible
command and any data is good (`JobsAreGood`), that is, its steps are sequences of words, and each of them
spares a block or writes all of it, with its flag, in one request (`GoodStep`). There is a lemma for each
kind of command; the fan's and the climate's depend on the data they are worked out from, so these hold
for any registers. `ChunksCover` says that the chunks of a step, for any batch size, hold each of its
words, and that a step in one request is one chunk; it rests on the division lemmas before it.

The second is the inductive invariant `Inv`: the unit and the interface hold words (`IsUi`), a call that is under way has
a good job and has had every word of its earlier steps and earlier chunks acknowledged (`Working`), the
poll serves a caller who waits for it (`PollOK`), the lock is held by exactly the one who needs it
(`LockOK`), and blocks are whole. `StepsInOrder` and `TypeOK` follow. The two action properties are shown
with the invariant, step by step (`Kept`): a call reports success, or an optimistic value appears, only
in a step after the last chunk of the last step was acknowledged. An attempt that starts again goes back to the
first chunk, and what has been acknowledged stays so; a job that continues with another one, worked out
from newer data, adds its steps to those already acknowledged (`FollowIs`). The types of jobs and displays mix
numbers and names, so the invariant says that there is a set of values (`\E V`) instead of naming it.

### ReadPlan and Scanner

Assumptions: `BoundsAssumption` (at least one register to a batch, one attempt and one run),
`AddressAssumption` (finite sets of natural addresses), `SetupsAssumption` (the units and
configurations are well formed).

The planner's operators build sequences from sets. `Ranks` says that the position of an address among
the beginnings of blocks counts the beginnings up to it; `BeginningsStart`, `NextMultiple` and
`StartWithin` that from a beginning to the next, or to the end of its run, lies exactly one block of
the right size. `GroupsAreSound` puts them together.

The invariant of the scanner is `Base`: the types, `Links` (what is known of the transport at each
stage, and that a flow has no connection open but the one it uses), `PlanInv` (requests suit their
phase) and `Sound` (the memory of failures is coherent). Each cut and each merge of ranges keeps
`Coherent` (`ClearingIsCoherent`, `HoldingIsCoherent`, `InputIsCoherent`). The nine steps of a request
end in one of three ways, `Gains`, `Loses` and `Again` (`ReadEffect`), and `StepIs` gives nine
kinds of steps in all; each of the remaining invariants is shown by these kinds. They say where an
address of a type is between the beginning of its phase and the end of the scan: `Accounted`, that it
is in the report or is still to be asked for; `Probed`, that in the first scan it is found, invalid,
asked for alone or still to be asked for, and that only such addresses have a count of failures;
`Quiet`, that while no fault has happened the registers found are those the unit has, less those
still to be asked for. The last two need that the first scan begins with no counts and, for
`Quiet`, no registers found (`Fresh`), because the memory outlives a run and a register that has
failed often enough is skipped without being asked. That is why both properties are about the first
scan.

### Registers, EntityMap and the displays

These are facts about operators, so there is no invariant. The round trips are arithmetic: a word is
split by `\div` and `%`, and `Registers_codec` first states what a quotient and a remainder are for
each base in use. `OneControl` follows the loaders in their order: each later one leaves out what an
earlier one took. It speaks of the registers the entries write and not of their keys: the switches of the
special modes have a key for each mode and all write `special_mode`, which a select writes as well, so
that register is excepted. The overrides of numbers are always added. Its hypotheses are named: `Start` says that the
hand-written dictionaries of switches, selects and texts name their own registers or `special_mode`, that they do not
overlap among themselves or with the overrides, and that texts are strings. A reload starts from the dictionaries
the build before has left; that they satisfy `Start` again is `StartsAgain`, whose further hypothesis `ModesApart` is that no
special mode is named like an override, an entry of a select or a text, or a holding register. (`fireplace` is
a special mode and a discrete input, which is allowed.) The climate and the fan write registers that have
entries of their own; they are no entries of the dictionaries. `ShownIsConfirmed` works out, for each command, the words its steps leave in the registers
(`AppliedOne`, `AppliedTwo`) and what the display takes from them, for any other contents of the registers. It
leaves out the fan's speed, which only status registers confirm, and what is false: a fan mode that is not a
step of ten, and a temperature in the temporary mode (`TemporaryIsNotShown`).

### Only model-checked

Liveness (`TasksEnd`, `Converges`, `SoundSiteIsPolled`, `ScanEnds`, `SetupSettles`, `Settles`), which
is beyond the prover. Every safety invariant and action property of a passing run is proved. The
assumptions of `MCControl` about short names, values of two registers and flags are evaluated over the
domains they name: the last two rest on powers, which the provers know nothing of, and on recursive
functions.

## 6. Not modelled

- Floating-point registers, code pages of strings, the factor of the analogue outputs: no unit in the
  map needs the first, and the others are one-way presentation.
- Short answers and the per-register bookkeeping of failed reads inside a poll: a chunk is answered or
  not, and failed registers are cleared at every cycle.
- Raw writes over RTU framing, back-off times, the keyword of the unit id.
- The listener's schedule and the drift threshold of the clock synchronisation.
- The service that validates known registers: a sequence of reads under the write lock.
- Decoding of firmware, serial number and capabilities by the scanner.
- One platform failing to unload, registration of services, finding a service's targets.
- Forms, translations, icons, diagnostics texts, the register loader and its cache, static tables and
  developer tools. They have no concurrency and no state that outlives a call, and ordinary tests reach
  them.
