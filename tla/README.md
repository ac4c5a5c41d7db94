# ModESP: formal models

TLA+ specifications of the ModESP framework, the TLC configurations that check
them on small instances and the TLAPS proofs about them.  Paths are relative to
the repository; `scenario/` stands for `components/modesp_scenario/`.

    tlc -workers 2 -config MCDevice.cfg MCDevice
    tlapm ScenarioEngineProofs.tla

`PROJECT.json` lists the runs with the properties each checks, the source lines
of every definition (`map`), the hazards of the code, and a seeded fault per
property that the property must catch (`mutants`).


## 1. The system

ModESP is firmware for ESP32 controllers of refrigeration, watering and similar
equipment.  One **main task** runs a fixed-rate loop (`main/main.cpp:397`): drivers,
then all modules in order of priority.  The **HTTP task** of ESP-IDF serves the web
interface and calls into the same objects.  Smaller tasks exist beside them: the
drain task of scenario persistence, the clients of esp-mqtt, the NimBLE host, the
audio player, the download of a firmware, the renderer of an LED panel.

| Component | State it keeps | Operations | What is hard about it | What makes it correct |
|---|---|---|---|---|
| **Scenario engine** `scenario/src/core/{engine,instance,track}.cpp` | per slot: recipe, state, clock; per track: state, phase, clock, action progress, latched transition | load, start, pause, resume, abort, unload, recovery; `on_update` | tracks and scenarios in lock-step, calls between and inside ticks, timeouts against waiting | timeouts dominate, ends are final, true and reported once |
| **Resource arbiter** `scenario/src/arbiter/` | a bounded map from resource to owner | acquire and release in two scopes | all-or-nothing claims with rollback | single owner, no theft, no leak |
| **Recipe loader** `scenario/src/core/modr_loader.cpp` | none | `modr_validate` | the tick reads unchecked what it accepted; nested conditions form a graph | what is accepted is in bounds, finite and evaluated exactly |
| **NVS observer** `scenario/src/observers/nvs_observer.cpp`, `nvs_token.cpp` | throttle counters per slot | edges of a run; recovery | called from two tasks; snapshots age; power losses | a run's edges are durable, flash is spared |
| **Token backend** `main/scenario_persist.cpp` | queue, mutex, completion signal and result | `write`, `read`, the drain task | two producers, timeouts that race late answers | a call reports its own token's fate, in order |
| **Shared state** `modesp_core/src/shared_state.cpp` | key/value map, change list, version | set, iterate, drain the changes | writers on several tasks; overflow of the list | no change is lost to a browser |
| **Module manager, watchdog, error service** `modesp_core/src/module_manager.cpp`, `modesp_services/src/{watchdog,error}_service.cpp` | module states, restart counts, safe-mode latch | init in phases, update, stop in reverse, restart, escalate | restarts and stops asked for by another task, a wrapping clock, callbacks that hang | order of stopping; only late and critical modules are restarted |
| **Persist service** `persist_service.cpp` | dirty flags, debounce clock | restore, callback, flush | callback on any task, flush on two; busy flash, power loss | a changed setting is in flash or known not to be |
| **Configuration, boot** `config_service.cpp`, `hal.cpp`, `driver_manager.cpp`, `main.cpp` | board and bindings, pins, drivers | parse, set up, create, bind | broken and ragged files, dead hardware, power cuts between two writes | outputs come up off, rows before a break are kept, what was saved is read |
| **Equipment base, relay drivers** `equipment_base.cpp`, `drivers/relay`, `drivers/pcf8574_relay` | requests, latch, the byte of an expander | turn, message, stop | drivers share one byte; transfers fail before or after they take effect | the byte is what drivers believe; in safe mode all is and stays off |
| **Sensors** `equipment_base.cpp`, `drivers/*` | last value, age, errors, averages | read, update, scan | dead sensors, bounces, two tasks on one wire, torn and noisy streams | good means recent; only measured values are shown |
| **Data logger** `modules/datalogger` | memory buffers, two files per stream | sample, flush, rotate, download | a download while files rotate; torn writes | a download is whole; retention is kept |
| **HTTP service** `modesp_net/src/http_service.cpp` | credentials, lockout | sign-in, settings, backup, bindings, restart | several writes per request, power loss between them | who holds the accepted pair gets in; what was accepted is kept |
| **WebSocket service** `ws_service.cpp` | client table, send queue | handshake, broadcast, heartbeat | two tasks sweep one table; sockets are reused; sends fail late | each browser is sent the state it lacks |
| **WiFi** `wifi_service.cpp` | mode, retries, probe, watchdog | events, retries, fallback, probe, scan | events of an attempt that was given up; probes and scans on one radio | never stranded; status is true |
| **MQTT** `mqtt_service.cpp`, **AWS IoT** `aws_iot_service.cpp` | client, back-off, payload cache, shadow, jobs | publish, command, configure, reconnect | the client is another task; configuration changes under way | one client; alarms arrive; shadow and device agree |
| **OTA** `ota_handler.cpp`, `main.cpp:400-440` | guard, partitions, trial | upload, download, validate, roll back | two writers of a partition, power loss, a trial with a deadline | there is always a good image to boot |
| **BLE** `modesp_ble/src/ble_service.cpp` | link, subscriptions, table of devices | observe, link and write, peripheral | callbacks on the host task; one radio for two purposes | one write in the air; handles are live; bound sensors are heard |
| **Display, menu, notifications** `modules/display`, AMT630A driver | banners, view, port state, menu cursor | push, update, keys, recovery of the chip | a chip that cold-boots; keys other tasks write | the glass shows what the module believes it shows |
| **Player** `modules/player`, `drivers/max98357a` | queue, playback task, decoder buffers | play, tone, alarm, stop | preemption, a bounded queue, files that fail to open | nothing stays open; alarms are not cut off |
| Continuous behaviours, mirror, panel and presence and thermostat modules, character grid | control laws, formats | - | numerical | - |
| Web UI, code generators, recipe compiler | - | - | not on the device | - |

**How they interact.**  Modules talk through the shared state, by one set of keys and
values; messages on the bus (`SYSTEM_SAFE_MODE`) are direct calls.  The engine is a
module; its observers are called synchronously inside the tick and inside
`start()`, and the NVS observer calls the token backend through a function
pointer.  HTTP handlers call the engine, the persist service, WiFi, MQTT, the bus
scan and the logger directly, from their own task.  Hence the three questions
most modules below are about: what if the other task's step falls between two of
mine; what if a call fails or the power goes between them; does it come to an
end.


## 2. The modules

### 2.1 How the project is organised

One module per component (or per concern of a large one), each with its
`Init`, one action per handler, callback or step, `Next`, `Fairness` where the
component must make progress, and its statements at the end.

The parts share no memory but the shared state, and each module models of the
shared state what its component reads and writes, with the other writers as
actions.  Two modules therefore collect the components for TLC, without a
product of their states: **MCNetwork** (browsers, sign-in, settings, WiFi, MQTT,
updates, AWS, BLE) and **MCDevice** (modules, settings, boot, outputs, sensors,
log, scenarios, screen, sound).  Each instantiates its modules, most of them more
than once with different constants (an instance is a *part*).  `part` chooses the
part that runs in a behaviour; the variables of the others stand still.  Their
invariants say for each part what holds of it.  A part's `Fairness` is restated
there, guarded by `part`, and its liveness is asserted under it.  The constant
`Parts` of a run names those it looks at.

The modules whose names end in `Proofs` add lemmas and theorems to their
components and nothing that TLC evaluates.  `WsProofs` extends `WsService`, and MCNetwork's
browser parts are instances of it; `ScenarioEngineProofs` and `ScenarioPersistProofs` extend
the modules of those names; the others extend or instantiate several related
components each: `HttpProofs` (sign-in, settings),
`UpdateProofs` (OTA, AWS), `RadioProofs` (link, peripheral, observer), `BoardProofs` (persist
service, kernel, player, MP3 clips, outputs).  `NetworkProofs` instantiates them and carries
their theorems over to the parts of MCNetwork.

Where components act on each other's state they are one module:

- `ScenarioEngine` over `ResourceArbiter` and `ScenarioRecipe` (EXTENDS), and
  `ScenarioLifecycle` above it (refinement);
- `WsService` over `SharedState` (EXTENDS): the change list and those who drain it;
- `ModuleManager`: manager, watchdog, error service, hardware watchdog, stop request;
- `PersistService`: shared state, persist service, NVS, the HTTP handlers that restart;
- `BringUp`: configuration, HAL, driver manager, the HTTP handlers that write files;
- `Equipment`: equipment base, relay drivers, the expander, the safe mode message;
- `Ota`: upload, download, partitions, bootloader, the main loop's trial;
- `ScenarioRecovery`: engine, observer, token backend, flash;  `ScenarioRaces`: the
  engine's tick and the HTTP task's calls, step by step;
- `Display`: module, notification queue, port, chip;  `Player`: module, playback
  task, sink.

Definitions that a comment calls a *seeded fault* belong to no specification:
each is a faulty variant of the definition below it, and the named property is
violated when it takes that definition's place.  A statement whose comment says
*Broken by the code* is one the documentation makes and the code does not keep
(section 5).

### 2.2 The scenario engine

**ResourceArbiter** (`resource_arbiter.cpp`).  The flat map is the function
`owners`, an owner a pair of handle and track, with the sentinel track 255 for
scenario scope.  `acquire_scenario` and `try_acquire_phase` are `CanAcquire` and
`Acquire`: a dry run over all claims, then the inserts, undone when the map is
full.  The two loops are one step because nothing can run in between.

**ScenarioRecipe** (`modr_format.h`, `modr_loader.cpp`).  What validation leaves
the tick to walk: tracks, phases, transitions, claims and timeouts.  `RecipeOK`
is what `modr_validate` guarantees and is assumed of every recipe; pools of
actions are represented by their lengths, a condition by the set of transitions
for which it is true, chosen anew each tick.  `Elapse` is the saturating addition
to `uint32_t` clocks.

**ScenarioEngine** (`engine.cpp`, `instance.cpp`, `track.cpp`).  `slots` and
`tracks` are the runtime structures, `emitted_phase` is `last_emitted_phase_`,
`cursor` is where `on_update` is, and `observed` is what an observer has been told
of the slot's run.  One action per branch of the code:

| Code | Actions |
|---|---|
| `load_buffer`, `load_path`, `unload`, `start`, `pause`, `resume`, `abort` | `Load`, `Unload`, `Start`, `Pause`, `Resume`, `Abort` |
| `on_stop` followed by `on_init` | `Restart` |
| `on_update`, per slot | `SkipEmptySlot`, `SkipDormantSlot`, `Observe` |
| `instance_tick` | `HitCap`, `GlobalTransition`, `PlainPrologue`, then the tracks, then `CheckCompletion` |
| `track_tick`, in order of its early returns | `TrackDormant`, `TrackTimeout`, `TrackWaits`, `ExitAction`, `FinishAbort`, `EndTrack`, `AdvancePhase`, `EntryAction`, `TakeTransition`, `Dwell` |

A track's turn is one action that ends in one of these ways; a granted wait goes
on to work in the same turn (`Works`, `Working`, `WorkingOwners`).  Callers run
between ticks, as `engine.h` and `resource_arbiter.h` demand of them.  A refused
call changes nothing and is not an action.

**ScenarioLifecycle** is the abstract specification: the states of a slot as
callers know them and the last thing observers were told.  Nothing may happen
between the end of a run and its report.  `ScenarioEngine` instantiates it with
the state of each slot and `observed`, and implements it (`LifecycleSpec`).

**ScenarioRaces** has the calls of `http_service.cpp:2160-2240` on the HTTP task,
between any two steps of the tick.  A step is a run of reads and one write, or
one call of the arbiter.  `Serialised` TRUE makes the HTTP task wait for the
tick, which the arbiter's header asks for and nothing ensures.  The data is
coarser: a phase has no actions and no clock.

**ScenarioRecovery** has several runs with power losses between them: what the
engine tells the observer, when that hands over a token, the queue of deferred
tokens, and `try_recover` at boot.  The tick moves tracks as the recipe may make
it; `Calm` FALSE lets tokens of side tracks come together with the main track's,
`Fallible` lets the backend refuse.

**ScenarioPersist** (`scenario_persist.cpp`, with the edges of
`nvs_observer.cpp`).  Both tasks run `write()` step by step: enqueue or take the
mutex, clear the signal, send, wait, read the result, give the mutex back, or
fall back to a direct write when a wait times out.  The drain task receives,
writes, and signals if the item asks for it.  A token is its slot, its edge
(started, phase, terminal) and a number that counts the slot's snapshots.  `init`
may fail and leave the backend without its task (`async_enabled`).  FreeRTOS's
queue, mutex and binary semaphore are modelled from how the code uses them.
`Faults`: `stall` lets the two timeouts run out, `nvs_error` lets a write fail,
`power_loss` reboots.  `committed` is a history variable.

**CondValidator** walks a pool of condition nodes as `validate_cond_pool` does,
with its recursion as a stack of frames (`colour` is the three-colour mark that
memoises a subtree), and evaluates the accepted pool as `evaluate_condition` does.
`Evaluate` and `Meaning` (what the conditions say without a depth limit) are
recursive functions, compared over all pools.

### 2.3 The kernel

**ModuleManager** (`module_manager.cpp`, `watchdog_service.cpp`, `error_service.cpp`,
the loop of `main.cpp`).  A module is its state, its last update, how long its
callbacks take (`UpdateTime`, `StopTime`) and whether `on_init` may fail
(`MayFail`).  `Sorted` is the exchange sort of `init_all`, with its instability.
`CLOCK_RANGE` is the wrap of the 32-bit milliseconds, `WDT_TIMEOUT` the hardware
watchdog, `SLACK` how much later than due a turn may begin.  `Subscribed` says
whether the main task is subscribed to the hardware watchdog, `StartsAtZero` lets a
turn begin in the millisecond 0 that the code takes for "never updated".

**PersistService** has `set()` of the shared state with its callback after the
mutex is given back, the debounced flush of the main task and `flush_now()` on
the HTTP task, each key by key, `restore()` with the migration of the old names,
and the handlers that restart the device.  `Crossing` lets the two flushes
overlap.  NVS names are taken to be distinct.

**SharedState** is `set`, the two iterations, the change list and its overflow.

**ConfigWalk** is how the three parsers go over the tokens of jsmn; a document is
built from its parts so that what was read can be compared with what it says.
**BringUp** takes a file as rows and whether it breaks after them, and goes on to
pins, expanders, drivers and bindings: `Limits` are the capacities of the vectors,
`Fallible` the hardware that may be dead, and a request writes one of the two
files with the power going between removal and renaming (`MaxCuts`).

### 2.4 Outputs, sensors and log

**Equipment**: expanders and relays from the HAL's set-up to the turn, a relay's
belief (`relay_on_`) and the shared byte apart.  `Failures` says how a transfer may
fail: `nak` before the chip has taken the byte, `late` after it.  `Guarded` roles go
through a `ShortCycleGuard`.  `NestedFatal` lets a FATAL come from within a turn.

**Sensors**: NTC, contact on a pin, contact on an expander, two Bluetooth beacons,
and `read_all_sensors` above them.  `Alternating` lets a beacon's frames carry one of
its fields only.  **Ds18b20**: a driver and a scan of the bus on two tasks with the
mutex, in units of 100 ms; waits stop the main loop.  A scan previews up to eight
devices (`Devices`), each at the cost of one of the driver's tries at most.  **OneWireSearch**: the ROM search over
addresses of three bits.  Noise makes a pass miss the presence pulse, read any
of the four pairs at one bit, or end in a bad checksum: only the last is tried
again, a pair 1/1 ends the search and a wrong pair may lead it past devices (`misled`
remembers that one of the two has happened).  `Clones` are chips that answer both
values.  **Ld2410Port**: bytes, losses and noise on the UART, the
sliding buffer of frames, several drivers on one port.  Frames are scaled down.

**DataLogger**: records are numbers in the order of logging; appending, rotating,
migrating and a chunked download are steps with `io_mutex_` between them; a power
cut may tear the record being written.  A section under `buf_mutex_` is one step.

### 2.5 Network

**WsService** (over SharedState): handshake, first state, broadcasts and
heartbeats by client, queued sends that are carried out by the HTTP task,
sockets that close and whose numbers come back.  `Preempts` lets the HTTP task
handle a handshake between two steps of a broadcast.  `missed` is a history variable:
the keys whose last change a client was left without, by one of four steps (a delta
skipped for want of heap, a buffer too small, a first state dropped, a broadcast
overtaken by a handshake's copy).  `MaxSets`, `MaxWork` bound writes and queued work.

**HttpAuth**: `check_auth` with its lockout on a tick counter that wraps, and the
change of credentials as three writes.  Texts are characters of which only ":" is
special.  **HttpSettings**: `POST /api/settings`, backup, restore and the MQTT
command over typed values; a number is in units of which `SHOWN` make the last
digit a backup shows and `WHOLE` make 1.  A restore and a restart are `job`: while they wait
for the stop of the modules and for their answer to be sent, commands and modules
go on setting keys and flushes go on; `late` remembers the keys set after the job's
last flush.

**WifiService**: events of the driver arrive through a queue, each belonging to an
attempt that may have been given up; timers are the code's, scaled.  `MAX_DISCONNECT`
is long enough for one outage (`WatchdogIsSlow`).  **MqttService**: main task, one
task per client, the task that stops a client, commands and configuration.
`Parallel` lets other tasks write the shared state while keys are published;
`LoneCreds` lets `_set_creds` come without the `_set_tenant` it belongs to.

**Ota**: an image is three units (header, descriptor, code); upload, download and
bootloader write and read partitions unit by unit.  `ShortReads` lets a first
segment be too short to hold the descriptor, `AlwaysOnline` makes every trial
reach the network.  **AwsShadow** and **AwsCloud** are the two halves of
`aws_iot_service.cpp`: telemetry and shadow; configuration, certificates, client
and jobs.  A job is told IN_PROGRESS, then tried, then told FAILED when `start_ota` refuses:
three steps of the client's task (`HandleJob`, `Begin` or `Refuse`, `TellRefusal`), between which the
link may go, another update begin or the power fail.  What is told goes through
the outbox of esp-mqtt, which is emptied in order, late, or after an outage not at all.
Attempts of esp-mqtt to connect are external.

**BleLink**: every callback of the NimBLE host is a step; writers are tasks that
take the recursive mutex, send a chunk and wait for its completion; `Locks` is how
many of the writers may find the mutex not yet made, `SlowAcks` how many
acknowledgements may come after the wait.  **BleGatt**: the peripheral; `MaxLost`
is how many notifications find no buffer.  **BleObserver**: decoders, the table of
devices seen, the slots of bound devices.

### 2.6 Screen and sound

**Display**: `on_update` in three steps, because it reads `display.enabled` twice
while other tasks write it; the port's recovery and the chip's cold boot; layers
of frame and banner on the glass.  `Races` lets the switch change between the two
reads, `PowerIsInt` FALSE gives `display.power` the type its manifest declares, `Late`
lets the chip boot later than the port waits.  **MenuEngine**: navigation and edits
over a generated tree; other tasks write the keys (`Writes`), `Absent` and `Odd` are
keys not set and set to another type.  **Player**: keys, a queue, the playback task
buffer by buffer; `Hurried` lets the keys be written while the task is busy,
`Endless` are sounds that repeat.  **Mp3Decoder**: the buffer between file and
decoder; of bytes only those of a sync word are told apart, and what the decoder
library makes of a candidate is free.


## 3. What is checked

| Run | Question | States |
|---|---|---|
| `engine` | safety of the engine, and that it implements the lifecycle | 672,997 |
| `persist` | the handshake, the order of tokens and power loss, with a drain task that keeps up | 1,256,102 |
| `persist_dead_drain` | does every call return, whatever the drain task does? | 262,801 |
| `network` | what the parts that talk may never be in or do | 846,677 |
| `network_live` | do links come back, does what was begun end? | 217,530 |
| `device` | what the parts of the device may never be in or do | 623,616 |
| `device_live` | do boots, flushes, runs, readings, screens and sounds end? | 175,618 |
| `initial_claims`, `ended_holds`, `persist_late_start`, `abort_in_tick`, `flushes_cross` | five statements the code does not keep (section 5) | stops at the violation |

**Engine** (`ScenarioEngine.tla`, at the end):

- `TypeOK`, and `WellFormed`: a slot has a state exactly when it has a recipe, its
  tracks are untouched until start, phase index and latched target stay in the
  recipe's tables, which `track_tick` reads unchecked, and no call pulls a slot
  away from its own tick.
- `OwnershipIsLive`: every entry of the ownership map has someone who will
  give it back.  `WorkHoldsItsClaims`: who works holds everything he claimed, and
  nothing else.  `NoTheft`: a resource is given back before another takes it.
- `TimeoutsDominate`: between ticks nothing running is past its cap, nor a tick
  past its phase timeout, whatever actions answer.
- `ObserversAreCurrent`, `VerdictIsTrue`, `EndIsFinal`: observers know of each run
  what is true; the way it ended agrees with its tracks and stays so.
- `LifecycleSpec`: the engine implements `ScenarioLifecycle`.

**Token backend** (`ScenarioPersist.tla`): `ResultIsOwn`, a crash-critical call returns
the fate of its own token; `BacklogIsFlushed`, when it returns, no older token of
its task is under way; `PhaseNeverOverTerminal`, flash never goes from a terminal
token back to an earlier phase token; `Handshake`, the invariant behind the first
two; `WritesReturn` (liveness), no call blocks its task for ever.

**MCNetwork** (each invariant names, part by part, the statements of its modules):

| Property | What it says |
|---|---|
| `BrowsersAreCurrent` | once all under way has arrived, what each listed client has been sent is the shared state, but for the keys whose last change one of the four named steps left it without; where those are excluded nothing is missed; the two tasks' sweeps never list a socket twice or lose a slot |
| `OwnersAreMatched` | the last accepted credentials match, in memory as in flash; no window of the lockout sees more wrong pairs than allowed, wherever the counter wraps |
| `SettingsAreKept` | flash is typed, values are in range, a restored backup is what the device restarts with but for keys set meanwhile, what was accepted and flushed is loaded but for keys set after a job's last flush |
| `LinksAreTrue` | what WiFi and MQTT believe of their link is so once the events have been handled; one client; an outage alone does not restart the board |
| `UpdatesAreSafe` | some slot holds a good image at every moment; a foreign image never reaches its main loop; a download restarts into the very image it checked; a job the cloud takes for failed was never begun, one it takes to be in progress was begun, is being decided on, or its refusal is on its way or was lost with the link or a restart |
| `CloudConfigIsKept` | an answered request is in flash; the client is made only with both halves of a certificate |
| `RadioIsTrue` | the link's state is the radio's, one acknowledged write in the air, sensors are scanned for when the link is idle or ready, handles are of the live connection, frames of bound sensors arrive |
| `NetworkSteps` | a refused request changes no credentials; a probe keeps the access point; a frame's chunks are not interleaved; an incomplete advertisement erases nothing |
| `LinksComeBack` | a stranded device comes back; the station rejoins; MQTT takes the last configuration, reconnects and delivers alarms; the owner gets in after lockouts |
| `WorkConverges` | updates free their guard and the HTTP task, bad images are rolled back; shadow, device and subscribers agree; the cloud connection is made; writers return and the panel is found again; telemetry arrives |

**MCDevice**:

| Property | What it says |
|---|---|
| `KernelIsSound` | a value not in flash is known not to be (dirty, its callback still to run, or about to be written); the hardware watchdog never cuts an `on_stop` short |
| `BootIsWhole` | a walk stays in its tokens, keeps the rows before a break, accepts only what it read whole; outputs come up off, only dead hardware stops a boot, what a client was told is saved is read |
| `OutputsAreTrue` | the expander's byte is what each driver believes of its relay; a relay nobody drives is off |
| `ReadingsAreTrue` | good means recent; probes of one bus never talk at once and show measured temperatures only, and lose one try at most to each preview; the ROM search finds all, in order, unless a misreading hid an answer or ended it; the radar's reading is what its stream gives however it was cut |
| `LogIsWhole` | a download holds every record it owes in order; newest records survive rotation; flash is bounded; files are freed; nothing is read askew after a cut |
| `RunsSurvive` | a run's edges and main phases are durable across power losses, flash is spared; serialised calls leak nothing; an accepted condition pool has no cycle and means what it says |
| `ScreenIsTrue` | frame, parameters and banner on the glass are what the module gave; disabled is dark; a press is handled; the cursor points at an entry and every level leads back |
| `SoundIsTrue` | a silent playback task has muted and closed; the decoder passes no sync word over and sees whole frames |
| `DeviceSteps` | modules stop in reverse; only critical ones are restarted; a restart keeps settings; no relay moves unasked, cycles too early or turns on in safe mode; bounces are hidden; a recovered run is quiet; what is over stays over; banners go by rank; the menu writes legal values; alarms stand; Stop and Play are not lost |
| `MainTaskGetsThrough` | walks, boots and verdicts end; dirty settings are flushed; the logger never stalls the main task; a run that is ticked ends, or is paused or unloaded (`RunsEnd`), also when two wait for each other |
| `DriversFollow` | working sensors become good, failed ones bad; a probe's reading becomes its temperature; all the radar says is read; safe mode reaches every relay |
| `PanelAndSound` | banners with a limit leave; recoveries end; the rail obeys its switch; the menu returns; off is silent; sounds and clips end |

**Bounds.**  *Engine:* two slots (the default of the firmware), up to two tracks,
three resources with a map of two entries, so that claims fail for want of room
as well as on conflict.  The three recipes have both scopes of claims, a phase
with two of them, entry and exit actions, every kind of transition, both
sentinel targets, loops, all three completion rules, both scopes of global
transition, a cap, own and default timeouts, a recipe without a main track.
Clocks run to 6 and saturate there; no timeout is longer.  For liveness the tick is
3 and the clock ends at 5, so that saturation cuts a tick short and a wrapping
clock would never reach the timeouts.  *Tokens:* two slots, a queue of two and
three snapshots per slot are the smallest instance in which the queue is full,
both tasks flush, and an older token of the same slot and a token of the other
are under way.  `MaxTokens` bounds the snapshots, so these runs do stop and do not
check deadlock.  The others do: `Rest` is the only step of a part that has come to
its bounds.

*The parts of MCNetwork and MCDevice.*  Each has two of what has to compete (two
browsers or sockets, two keys, two drivers of one byte, two tracks, two writers),
a capacity that can be exceeded (client table 2, change list 1, buffer of 2
records, queue of 2 requests, table of 2 devices, expander roles one more than
the actuators' vector holds), clocks that reach every timeout they are compared
with and wrap or saturate after it, and at least one of each failure the part
has an action for: a power cut, a lost frame, a failed transfer, an outage, a
restart.  The names beginning with `Max` bound how often the environment acts;
they appear only in guards of environment actions, so that what the code does in
answer is never cut short.  Constants the code compares with one another keep
their order (a hold of the bus is longer than the driver's wait for it, a probe's
timeout not shorter than an attempt).  An instance with another emphasis is a part
of its own: `ws_one` has one client and more writes, `ws_faults` failing sends and
memory, `ws_left` all of that with a buffer of one entry and handshakes inside
broadcasts, `wifi_dog` repeated outages
and a short watchdog, `player_slow` a full-length queue with an unhurried user.

**What is assumed of the environment** is stated by constants, and each of those
below excludes a behaviour the code does have, whose consequence section 5
lists: no handshake in the middle of a broadcast (`Preempts`, except in `ws_left`), flushes that do not
overlap and flash that takes a write (`Crossing`, `Faults`), a main task
subscribed to the hardware watchdog and no turn at millisecond 0 (`Subscribed`,
`StartsAtZero`), transfers that fail before the chip has taken them (`Failures`),
a beacon that sends all its fields (`Alternating`), no cloned chips (`Clones`), a first
segment that holds the descriptor (`ShortReads`, for uploads), a lease for whoever
associates (`Nets`, for liveness), no writes while keys are published (`Parallel`,
for alarms), credentials with their tenant (`LoneCreds`, for liveness),
acknowledgements in time (`SlowAcks`, for one write in the air), buffers for
notifications (`MaxLost`, for liveness), tokens of one track at a time (`Calm`),
calls that wait for the tick (`Serialised`), a switch that stays during an update
and an integer power key (`Races`, `PowerIsInt`), keys not written while the player
is busy (`Hurried`, for Stop and Play).

**Fairness.**  Everything is the scheduling FreeRTOS and the loops give: a task that
can go on goes on (WF of the main task's step, of the HTTP task's once it has a
request, of the playback, drain, client and stop tasks).  Nothing is assumed of
callers, users or other writers.  In particular:

- engine: `WF(Tick)` alone; token backend: a task inside `write()` goes on (weak) and
  gets a mutex that is free again and again (strong: FreeRTOS hands a mutex to
  the waiting task); nothing of the drain task;
- `PersistService`: `SF(OnUpdate)`, because it is enabled only between two of the main
  task's other calls, and the loop comes round to it;
- `Sensors`: `SF(Frame)`, a beacon that works is heard again and again; `BleLink`:
  `SF(OnScanHit)`, a panel that advertises is heard again and again, and SF of taking
  the mutex; `BleGatt`: `SF(Reconnect)`, the network accepts the credentials in the end;
- `AwsShadow`: `SF` of the two publications, which are due again and again but only while
  connected, `WF` of connecting, and that keys other than those followed change now
  and then;
- `WifiService`, `MqttService`, `AwsCloud`, `Ota`: the driver, the client library and the
  bootloader answer what was asked of them (`WF`), with success or failure left
  open; `WifiReturns` and a network that is down come back once the bounded outages
  are over;
- `HttpAuth`: the owner keeps trying (`SF(SignIn(owner))`), time passes.

A part's liveness is `Fair => property`, so that it is the property of that part's
module alone; behaviours in which another part runs satisfy it trivially.

**Seeded faults.**  Every pair of run and property has one in `PROJECT.json`, a change a
programmer might make: an abort that forgets to release, `>` for `>=` at the cap, a
guard that is dropped, an order that is swapped, a reset that is missing.


## 4. What is proved

For every set of recipes, resources, keys, images, texts and values, every queue
depth, clock, tick and limit that satisfies the named assumptions; nothing is
assumed of the order in which tasks act.

| Module | Theorem | States |
|---|---|---|
| `ScenarioEngineProofs` | `TypesAndTables`, `EngineTypesAreKept` | `Spec => [](TypeOK /\ WellFormed)` |
| | `NothingLeaks` | `Spec => []OwnershipIsLive` |
| | `ResourcesAreNeverTaken`, `EndsAreFinal` | `Spec => NoTheft`, `Spec => EndIsFinal` |
| | `EngineImplementsLifecycle` | `Spec => LifecycleSpec` |
| | `ObserversKnow` | `Spec => []ObserversAreCurrent` |
| | `TimeoutsAlwaysDominate` | `Spec => []TimeoutsDominate` |
| | `VerdictsStayTrue` | `Spec => []VerdictIsTrue` |
| | `ClaimsAreHeld` | `Spec => []WorkHoldsItsClaims` |
| `ScenarioPersistProofs` | `FlushIsDurable`, `TypesAreKept`, `HandshakeHolds`, `BacklogIsAlwaysFlushed` | without `stall`: `Spec => [](TypeOK /\ Handshake /\ ResultIsOwn /\ BacklogIsFlushed)` |
| | `PhasesNeverOvertake` | without `stall`: `Spec => PhaseNeverOverTerminal` |
| `WsProofs` | `NoSlotIsEverLost` | `Spec => [](TypeOK /\ NoSlotIsLost)` |
| | `NobodyIsLeftBehind` | `Spec => []ViewsAreCurrent` |
| `HttpProofs` | `SettingsAreDurable` | `Spec => [](TypeOK /\ FlashTyped /\ RestoreFaithful /\ TypedIsKept)` |
| | `NumbersAreInRange` | without the literal nan: `Spec => []InRange` |
| | `OwnersAlwaysMatch` | `Spec => [](TypeOK /\ OwnerMatches /\ InForceIsStored)` |
| | `GuessesAreLimited` | `Spec => []RateLimited` |
| `UpdateProofs` | `AFallbackIsKept` | `Spec => [](TypeOK /\ AlwaysAFallback /\ NeverBricked)` |
| | `TheBoardMatches` | when descriptors are read: `Spec => []BoardMatches` |
| | `WhatWasCheckedIsInstalled` | `Spec /\ [](http.pc = "idle") => []InstallsWhatItChecked` |
| | `AcknowledgedStays` | `Spec => [](TypeOK /\ AcknowledgedIsKept)` |
| | `CertLoadedStaysTrue`, `JobsAreAlwaysToldTruly` | `Spec => []CertLoadedIsTrue`, `Spec => []JobsAreToldTruly` |
| | `ACertificateIsThere` | when no request empties a half: `Spec => []NeverWithoutCertificate` |
| `RadioProofs` | `SensorsAreAlwaysHeard` | `Spec => [](SensorsAreHeard /\ LinkMatchesRadio)` |
| | `FramesAreNeverSplit` | once the mutex exists (`Locked`): `Spec => FrameIsAtomic` |
| | `OneWriteIsOutstanding` | with answers in time besides (`Prompt`): `Spec => []OneOutstanding` |
| | `ThermostatIsAlwaysReachable` | `Spec => [](Reachable /\ HandleIsLive)` |
| | `BoundIsAlwaysHeard`, `IdentityIsAlwaysKept` | `Spec => []BoundIsHeard`, `Spec => IdentityIsKept` |
| `BoardProofs` | `NothingIsForgotten` | with flushes apart and writes that succeed (`FlushesApart`): `Spec => []NothingForgotten` |
| | `StopsAreAlwaysSpared` | `Spec => []PanicSparesStops` |
| | `NothingIsLeftOpen`, `AlarmsAlwaysStand` | `Spec => []NothingLeftOpen`, `Spec => AlarmStands` |
| | `NoSyncIsEverMissed`, `FramesAreAlwaysWhole` | `Spec => []NoSyncIsMissed`, `Spec => []FramesAreWhole` |
| | `BytesAreBeliefs` | `Spec => []ByteIsBelief` |
| | `NobodysOutputIsAlwaysOff` | with active-low outputs on the expander: `Spec => []NobodysOutputIsOff` |
| | `PinsFollowDrivers`, `TurnsShowWhatIs` | without late failures: `Spec => NoForeignMove`, `Spec => ShownIsReal` |
| | `SafeModeAlwaysHolds` | without `NestedFatal`: `Spec => SafeModeHolds` |
| | `ShortCyclesAreAvoided` | while nothing fails, restarts or nests (`Undisturbed`): `Spec => ShortCyclesAvoided` |
| `NetworkProofs` | `BrowsersAreAlwaysCurrent`, `OwnersAreAlwaysMatched`, `SettingsAreAlwaysKept`, `UpdatesAreAlwaysSafe`, `CloudConfigIsAlwaysKept`, `RadioIsAlwaysTrue` | the invariants of MCNetwork of those names |

**Assumptions on constants.**  `ArbiterAssumption`, `RecipeAssumption` (what
`modr_validate` guarantees), `NoRecipeAssumption`, `PersistAssumption`,
`StoreAssumption`, `WsAssumption`, `HttpSettingsAssumption`, `HttpAuthAssumption`,
`OtaAssumption`, `AwsCloudAssumption`, the
`ConstantsAssumption` of the radio's modules, `PersistServiceAssumption`, `ManagerAssumption`,
`PlayerAssumption`, `Mp3Assumption`, `EquipmentAssumption`.  They are the modules' own: types, bounds that are not empty,
a default within its range, a factory image that works and is of this board.
`NetworkAssumption` collects those of MCNetwork's parts and is evaluated by its
runs.

- *Engine.*  `TypeOK /\ WellFormed` is inductive: types alone are not, because
  the tick uses a latched target as the next phase index, and because the state of
  a track matters only while its slot stays loaded (`TickIsUndisturbed` carries
  this from one step of a tick to the next).  There is a lemma per action; those
  of a track go through one lemma on writing a single track.  `OwnershipIsLive` is
  inductive on top of it and is proved slot by slot: a step writes one slot, and
  releases or acquires for owners of that slot only, so that other slots' entries stay
  live.
- *Refinement.*  The mapping is the identity on the state of each slot.  `ViewInv` links
  the two: a run under way is known as started; an ended one is known as ended, but
  for the slot whose events are about to be dispatched.  `cursor.prev` must be
  known to be a ticking state while the tick is in the middle of a slot, or the
  dispatch could miss the edge.  `PhasesAreTold` adds the phase events for
  `ObserversKnow`.
- *Timeouts and verdicts.*  `TimeoutsDominate` speaks of the moments between ticks and
  is not inductive.  `ClocksInTime` holds at every step: the slot's clock is below its
  cap while the run is under way, a waiting track's clock below its timeout, a working one's
  less than one tick past it.  `VerdictStands` says how states of slots and tracks
  agree: a run under way outside its own tick is not complete; who is aborting has a
  track that failed; who completed satisfies the rule.  Lemma `TurnOutcome` says once
  what a track's turn may make of it, whichever of the ten ways it ends.
  `ClaimsAreHeld` follows the claims of the current phase through acquire and release, and
  leaves out tracks whose initial phase has claims, which are not acquired (section 5.1).
- *Persistence.*  `Handshake`: the mutex is held from arming to giving back; at most one
  item under way asks for the signal, its sender is waiting, its result is not yet
  there, and nothing of the same task is behind it.  Therefore the signal is the
  holder's own and the backlog is flushed when it comes.  For `PhaseNeverOverTerminal`,
  `OrderInv` numbers what is under way: snapshots are numbered in order, and a phase token still
  under way is younger than the terminal token in flash, since that one was written
  when nothing of its task was left in the queue.  With `stall` the invariants are false, and
  so are the properties: section 5.
- *Browsers.*  `ViewsAreCurrent` speaks of the moment when nothing is under way.
  `NobodyLeftBehind` says what holds all along: for a listed client, a key that is
  neither pending (the change list, or a full broadcast that is due) nor drained and
  still to be queued for it has, as the last value queued for that client or else
  the last one sent to it, the value of the state.  What the list was drained into
  is the state's unless it has changed again (`DrainedIsCurrent`); a key that is not
  there is nowhere in the queue (`OnlyWhatIsThere`), so that a client without it
  lacks nothing; a socket number that comes back is served only from its own handshake
  on.  All of it is said of the keys outside `missed`, which a step puts there when
  it leaves a client without a key's last change and takes away when a later
  value or a full state is queued: the theorem assumes nothing of heap, buffer or
  scheduling, and says what a client can be behind by.  `NothingIsSkipped` (no handshake
  preempts a broadcast, what is pending fits the broadcast's buffer, no delta is
  skipped for want of heap and no first state is dropped) is the hypothesis under which
  `missed` stays empty (lemma `NobodyEverMisses`, used for `ws` and `ws_one` only).
- *Settings.*  Besides types, the invariant says what a route may leave in the state (a
  bool for a number is taken as it comes) but never in flash, that a dirty key holds
  what was accepted last, and that the keys a restore has done and nobody set since
  are dirty or in flash.  While a job waits for its restart
  the sets of other tasks go into `late`, and stay there after the restart until
  the key is set or flushed again.
  Rounding to the digits a backup shows stays in range
  because the bounds are multiples of it (`BoundsAreShown`, `RoundingStays`).
- *Sign-in.*  `CountedOrOlder` is the heart of the rate limit: before a lockout every
  wrong pair of the window has been counted; since it began they are as old as it.
  Ages, not instants, are compared, so the wrap of the counter, whatever its range,
  does no harm.  `HeaderSplits`: a header is taken apart where it was put together,
  because no accepted name contains a colon.  `SavedSoFar`: between the three writes of a
  change, flash holds the fields written so far.
- *Updates.*  `OneToFallBackOn`: the running image is whole, and is the fallback itself or
  on trial with the fallback in the other partition, to which nothing writes
  meanwhile.  `BootIsKnown`: what is to be booted runs already or was never tried.
  The board check needs `BoardInv` under `DescriptorsAreRead`: uploads are of this board,
  or their first read reaches the descriptor and there is one (`ShortReads` breaks it).
  What a download installs is what it checked while nothing is uploaded at the same time
  (`DownloadInv`), because an upload does not look at the guard; `DownloadsAloneAreWhole` is the
  case of a device nobody uploads to.
- *Cloud.*  `ConfigIsKept`: flash holds of each field what was acknowledged, or what the
  request under way says, and memory the same but for the name a restart makes up.
  `CertLoadedStands`: the flag may be stale only while halves are being written.
  `ACertificateIsThere` assumes `HalvesAreSaid`: a request takes a half of the certificate
  only when it is longer than ten characters (`aws_iot_service.cpp:901`).
  `JobsOK` follows a job from its notification to what the cloud knows: one that is handled
  was announced and is not yet begun, what the outbox holds of a job that was begun
  is IN_PROGRESS only, and a refusal that is neither in the outbox nor arrived was
  lost in a way `hanging` has recorded.
- *Radio.*  What the link believes and what the radio does are related callback by
  callback; a frame half sent implies its writer holds the recursive mutex, and a write
  in the air that its writer waits for it (`Prompt`).
- *Board.*  For the persist service, every key is in flash, dirty, in the hands of its
  callback, or held by the one flush under way.  For the stop, the time the main task has
  spent since it last fed the watchdog is bounded by what callbacks may take, and the
  HTTP task's restart comes first.  For the decoder, what was passed of the clip held
  no sync word, and the buffer is the part of the file that follows.  For the
  outputs, bit, belief and pin of each relay are related through every branch of a
  transfer, and the safe mode through the turn it falls in.
- *Network.*  `PartStays`, and a lemma per part (`AuthRuns`, `UploadRuns`, ...): a behaviour in
  which the part runs is a behaviour of its module.  The theorems of the module then
  apply to the instance, whose assumptions `NetworkAssumption` gives.

**Model-checked only.**  Of MCNetwork `TypeOK`, `LinksAreTrue` and `NetworkSteps` (but for what
`RadioProofs` says of its frames and advertisements); of MCDevice the invariants as a
whole, of which `BoardProofs` proves the statements of five modules; the others have no
proofs yet (section 7).  Liveness (`RunsEnd`, `WritesReturn`, the five liveness properties of
MCNetwork and MCDevice) is out of the prover's reach, as are ENABLED and what needs
induction over data: what a fold over the relays, rows or drivers of any length
computes (`Equipment`, `BringUp`, `ConfigWalk`), and the recursive functions of
`CondValidator`.  No module declares a RECURSIVE operator.


## 5. Where the code and its documents disagree

### 5.1 With a run that ends in the counterexample

1. `initial_claims`: phase-scope resources are "claimed at phase entry"
   (`06_resource_arbitration.md:34`); `instance_start` enters the initial phase of
   every track without a claim.  Two tracks may work with the same resource.
2. `ended_holds`: a scenario ended by its completion rule, or by its main track's
   failure, releases only scenario scope.  Its other tracks, ticked no more, keep
   their phase-scope resources until unload; who waits "for the owning scenario to
   complete" (`10_error_model.md:33`) waits in vain.
3. `persist_late_start`: without any fault, a started token serialised before the
   tick hands over the terminal one can be committed after it, so that a
   finished run may be recovered (`nvs_observer.cpp:105` says never).
4. `abort_in_tick`: "Phase-scope resources released here so they don't leak"
   (`instance.cpp:89`); when the HTTP task aborts in the middle of the tick, the tick
   acquires the next phase's claims between the two steps of the abort.
5. `flushes_cross`: `flush_now()` writes what is dirty "before restart"
   (`persist_service.h:33`); the main task, which took the older value before, may
   write it afterwards, with the key no longer dirty.

### 5.2 Statements kept in the modules, without a run

Each was met as a counterexample of the module named, with the constants in
parentheses where they differ from section 3's.  A statement can be checked again
by naming it in a configuration of an instance of its module.

| Module: statement | The code | What is said |
|---|---|---|
| ScenarioPersist: PhaseNeverOverTerminal (Faults with stall) | the direct write after a timeout overtakes queued tokens (scenario_persist.cpp:126) | "a stale phase token can never land on top of a terminal token" (scenario_persist.h:23) |
| ScenarioPersist: ResultIsOwn (Faults with stall) | after a timeout the late signal of one flush is taken for the next one's | "producers never steal each other's completion signal" (07_persistence.md:169) |
| ScenarioPersist: AtMostOneBehind | several snapshots in a row can find the queue full (scenario_persist.cpp:94) | "recovery lands at most one phase stale" (scenario_persist.cpp:92) |
| ScenarioRecovery: FinishedStaysFinished | try_recover does not look at the state a token records (nvs_observer.cpp:126) | "terminal → not falsely re-recovered" (nvs_observer.h:58) |
| ScenarioRecovery: RefusedIsRetried (Fallible) | throttle_check resets the counter before the write is tried (nvs_observer.cpp:26) | "The observer's per-slot throttle counter is NOT reset" (07_persistence.md:177) |
| ScenarioRecovery: RewindsOnePhase | throttled phases of a side track have no token of their own (nvs_observer.cpp:95) | "only rewinds recovery by one phase" (nvs_observer.h:53) |
| ScenarioRecovery: RunsAreExclusive (two slots) | neither try_recover nor resume acquires the scenario's resources (engine.cpp:304) | a scenario owns them "for its full duration" (06_resource_arbitration.md:15) |
| ScenarioRecovery: RecoveredWasStarted | the first tick after a load tells the observer of a phase of a slot that was not started (engine.cpp:87) | "No persisted token (fresh install or never persisted)" (07_persistence.md:207) |
| ScenarioRaces: HeaderIsThere, OverIsOver (Serialised FALSE) | unload clears a runtime inside its tick; pause writes PAUSED over an end (engine.cpp:252, 284) | "Cross-task callers must serialize at engine layer" (resource_arbiter.h:68), unload() as the only way out (04_state_machines.md:62) |
| CondValidator: DeepIsRefused | children come first in the pool, and a validated node is passed over at any depth (modr_loader.cpp:228) | "The compiler and loader both reject deeper trees" (recipe-actions.md:154) |
| CondValidator: LimitIsUsable | a leaf below 16 composites is answered false without being asked (track.cpp:77) | "up to 16 levels deep" (recipe-actions.md:154) |
| WsService: NothingIsMissed (BufferEntries 1) | what does not fit the broadcast's buffer is passed over after the list was cleared (ws_service.cpp:287) | "fallback" to a full broadcast (shared_state.cpp:70) |
| WsService: NothingIsMissed (Preempts) | the client is listed before its state is copied, so that an older copy is sent after a delta (ws_service.cpp:187) | the full state at once (ws_service.cpp:184) |
| WsService: ConnectedAreServed | with a full table the handshake goes on and the session is never sent anything (ws_service.cpp:177) | "New clients receive full state immediately on connect." (ws_service.h:7) |
| PersistService: NothingForgotten (Faults with nvs_error) | the dirty flag is cleared before a write that may fail (persist_service.cpp:219) | changed keys are saved (persist_service.h:4) |
| PersistService: RestartKeepsSettings (Jobs with ota) | the upload handler restarts without a flush (http_service.cpp:1350) | "before restart" (persist_service.h:33) |
| PersistService: MigrationKeepsSettings (Faults with nvs_error) | the positional key is erased whatever the write of its new name returned (persist_service.cpp:102) | old keys are migrated (persist_service.h:9) |
| ModuleManager: SafeModeIsShown | the watchdog restarts the error service, whose on_init clears the key and not the latch (watchdog_service.cpp:48) | "we skip ourselves and ErrorService" (watchdog_service.cpp:47) |
| ModuleManager: GivenUpAfterAll | a failed restart leaves the module in ERROR, which the watchdog passes over: no further attempt, no report (module_manager.cpp:170) | up to MAX_RESTARTS attempts, then a report (watchdog_service.h:10) |
| ModuleManager: RegistrationOrder | the sort exchanges distant elements (module_manager.cpp:192) | "Order within a phase is registration order" (architecture.md:124) |
| ModuleManager: HealthyAreLeftAlone (StartsAtZero) | a turn at millisecond 0 after the wrap marks every module late (watchdog_service.cpp:56) | 0 means never updated (watchdog_service.cpp:57) |
| Equipment: ShortCyclesAvoided (MaxBoots, Failures) | on_stop bypasses the guard, and a failed transfer is retried after the guard's clock has started (equipment_base.cpp:161, 262) | "compressor anti-short-cycle is enforced in EquipmentBase" (relay_driver.cpp:124) |
| Equipment: SafeModeReaches (Failures with late) | a relay left on by a late failure is believed off and not written again (pcf8574_relay_driver.cpp:52) | "ALL outputs stay forced OFF every cycle" (equipment_base.h:143) |
| Equipment: SafeModeHolds (NestedFatal) | the latch is looked at before the hook only (equipment_base.cpp:240) | the same |
| Equipment: NobodysOutputIsOff (ActiveHigh on the expander) | an active-high output is on at the initial byte (hal.cpp:362) | all HIGH = all OFF (hal.cpp:362) |
| Sensors: ContactsAreBoolean, HealthIsShown | a contact on an expander goes through the average; digital inputs publish no health (equipment_base.cpp:282, 290) | bool (pcf8574_input.md:47), `_ok` for every sensor (bindings.md:218) |
| Sensors: UnhealthyReadsZero | the last value is returned (equipment_base.cpp:120) | "0.0f if sensor not bound/unhealthy" (equipment_base.h:71) |
| Sensors: GoodIsRecent (Alternating) | one time for all fields of a beacon (ble_xiaomi_th_driver.cpp:71) | "is_healthy() = fresh within stale_ms" (ble_xiaomi_th_driver.h:18) |
| OneWireSearch: FindsAll (Clones) | a phantom conflict ends the scan before real ones (ds18b20_driver.cpp:573) | clones are found several times (ds18b20_driver.cpp:596) |
| Ota: BadIsRolledBack (Stuck) | an image that fails before the main loop is not timed (main.cpp:234) | 60 seconds, "Otherwise rollback" (architecture.md:246) |
| Ota: BoardMatches (ShortReads) | an upload whose first segment is short skips the board check (http_service.cpp:1288) | validates "magic + chip type" (ota.md:44) |
| Ota: InstallsWhatItChecked (Uploads) | the upload neither looks at nor takes the guard (http_service.cpp:1244) | "Only one OTA operation at a time" (ota_handler.h:10) |
| Ota: ReachingLoopValidates | only a connected station validates (main.cpp:415) | reaching `on_start` does (ota.md:54) |
| WifiService: ModeIsTrue (MaxScans) | a probe may begin during a scan, whose end restores the access point (wifi_service.cpp:228) | scans cancel the probe (CHANGELOG.md:249) |
| WifiService: IpIsTrue | the disconnection of a cancelled probe blanks the address (wifi_service.cpp:58) | "Current IP address." (modesp_net.md:66) |
| WifiService: NeverStranded (Nets with noip) | an associated station without a lease neither retries nor falls back (wifi_service.cpp:190) | "AP fallback: if STA fails after ~30 s" (modesp_net.md:50) |
| MqttService: AlarmsArrive (MaxFailures) | a failed enqueue is not retried before another key changes (mqtt_service.cpp:546) | "retried on the next tick" (modesp_mqtt.md:95) |
| MqttService: AlarmsArrive (Parallel) | the version is read after the keys (mqtt_service.cpp:546) | an alarm must not be lost (mqtt_service.cpp:496) |
| MqttService: AllArrives | the cache survives the reconnection (mqtt_service.cpp:388) | a full publication (mqtt_service.cpp:388) |
| MqttService: ConfigIsApplied (LoneCreds) | nothing arms a deferred reconnect (mqtt_service.cpp:759) | "deferred reconnect kicks in" (mqtt_service.cpp:704) |
| HttpAuth: LockoutPasses | the lockout's age is small again when the counter has wrapped (http_service.cpp:84) | 30 seconds (http_service.cpp:57) |
| HttpSettings: InRange (Literals with nan) | NaN passes both comparisons (mqtt_service.cpp:799) | min and max are validated (mqtt_service.cpp:798) |
| HttpSettings: AcceptedIsKept | a value stored under another type than declared is dropped by the flush (http_service.cpp:683) | "All routes consistent" (persistence.md:125) |
| ConfigWalk: AcceptedIsWhole (nested members of a row) | j += 2 goes into the value (config_service.cpp:1020) | the parser of devices.json "mirrors" its handling (config_service.cpp:855) |
| ConfigWalk: StopsWhereItBreaks (a member without a value) | skip_token goes one token too far (config_service.cpp:91) | "the walk stops and keeps the rows it has already read" (config_service.cpp:794) |
| ConfigWalk: SubscribedFits | nothing bounds the devices of board.json (config_service.cpp:886) | "the merged set fits" (http_service.cpp:449) |
| BringUp: PinsAreExclusive (one pin in two entries) | entries are set up as they come (hal.cpp:177) | "lets HAL handle conflicts" (modesp_hal.md:76) |
| AwsShadow: ReportedIsCurrent (MaxSets while reading) | the version is asked for after the keys were read (aws_iot_service.cpp:132) | writes mirror to the shadow (modesp_aws.md:86) |
| AwsShadow: DeltaClears (Wishes out of range) | a clamped wish is sent back for ever (aws_iot_service.cpp:608) | reported is updated to clear the delta (aws_iot_service.cpp:630) |
| AwsCloud: JobsEnd | no status follows IN_PROGRESS (aws_iot_service.cpp:453) | the id is kept for it (aws_iot_service.cpp:452) |
| BleLink: OneOutstanding (SlowAcks; Locks 0) | the wait gives up before the stack does; two first writers make a mutex each (ble_service.cpp:918, 938) | "one outstanding write at a time" (ble_service.cpp:895) |
| BleLink: TrueMeansWritten | the status of the completion is not looked at (ble_service.cpp:906) | "Returns false if not connected or the write failed" (central_link.h:56) |
| BleGatt: TelemetryArrives (MaxLost) | the cache is filled before the buffer is allocated (ble_service.cpp:1263) | "unchanged since last notify" (ble_service.cpp:1261) |
| BleObserver: RecognizedAreListed | no entry ever leaves the table (ble_service.cpp:624) | "recently-seen advertisers" (adv_decoder.h:95) |
| DataLogger: CountIsTrue | rotation does not subtract the dropped records (datalogger_module.cpp:382) | "records of temperature" (manifest.json:24) |
| DataLogger: RetentionKept (MaxCuts) | a cut between removal and renaming loses the whole file (datalogger_module.cpp:89) | the rest of the data is kept (datalogger_module.cpp:53) |
| DataLogger: NothingAskew (events, MaxCuts) | files of events are not truncated to whole records (datalogger_module.cpp:55) | the same |
| Ld2410Port: FreshIsRecent (WRAP) | the age of the last frame wraps (ld2410b_driver.cpp:95) | "within the last timeout_ms" (ld2410b_driver.cpp:93) |
| Display: BannerIsShown (MaxToggles) | enabling redraws the menu without the active banner (display_module.cpp:214) | it is restored on top (display_module.cpp:242) |
| Display: AlarmIsKept | a new ALARM is dropped when the queue is full of them (notification_queue.cpp:30) | a new ALARM is never dropped (notification_queue.h:6) |
| Display: EveryPressIsHandled | a second press between two updates has no edge (display_module.cpp:121) | keys are cleared "after handling" (display.md:47) |
| Display: FrameIsCurrent (Races) | the switch is read twice (display_module.cpp:201) | the frame is given again when busy falls (display_port.h:134) |
| Display: RailObeysPower (PowerIsInt FALSE) | read_int answers 1 for the bool the key holds (display_module.cpp:173) | "display.power=false cuts the rail" (display.md:102) |
| Display: MirrorCatchesUp | on_update returns before the mirror while disabled (display_module.cpp:217) | mirror of the active banner (display.md:79) |
| MenuEngine: UnknownIsKept | edit_known_ is of the value when the edit began (menu_engine.cpp:331) | an unknown value is not overwritten (menu_engine.cpp:330) |
| MenuEngine: LastIsBack (MAX_MENU_ITEMS children) | the clamp keeps the cursor off "back" (menu_engine.cpp:199) | select leaves whatever is shown (REVIEW-display-subsystem.md:115) |
| Player: StopReachesQueue (Hurried) | a Stop that finds the queue full is lost (player_module.cpp:181) | "Stop playback." (player.md:33) |
| Player: PlayIsTaken (Hurried) | a name written between reading and emptying is emptied unread (player_module.cpp:144) | "the module consumes them" (player.md:28) |
| Player: ClipIsCurrent | player.clip names a request that was then ignored (player_module.cpp:156) | "Current/last clip or tone." (player.md:51) |
| Player: CommandsReset | on_update returns before the command keys while disabled (player_module.cpp:125) | "self-resetting" (player.md:28) |

### 5.3 What the checked statements leave out, and why

- *Settings set during a restart.*  `POST /api/restore` flushes once and then waits for the stop
  of the modules and for its answer to be sent, up to 2.5 s in all
  (`http_service.cpp:1163-1180`); `POST /api/restart` flushes after the stop and waits 500 ms
  (`http_service.cpp:984-991`).  A command or module that sets a key then is answered as
  always; unless the debounced flush falls into the rest of the wait, the value is lost with
  the restart.  `TypedIsKept` excepts exactly these keys (`late`).
- *Jobs whose refusal is lost.*  IN_PROGRESS is published before `start_ota` is asked
  (`aws_iot_service.cpp:456-468`).  When the power or the link goes before FAILED is published,
  or the outbox gives it up, the cloud takes the job to be in progress although it never
  was; nothing repeats it.  `JobsAreToldTruly` excepts exactly these jobs (`hanging`).  The cloud is
  assumed to notify of a job once: a second notification of the job under way
  would make the device refuse, and tell FAILED of, the job it is carrying out.
- *Searches that are misled.*  A missed presence pulse or a pair read as 1/1 ends the search
  (`ds18b20_driver.cpp:516, 538-542, 573`) with passes to spare; a wrong pair whose address
  has a good checksum sends it past devices.  The list is then short, and neither the
  driver nor the handler knows.  `FindsAll` holds of the other searches (`~misled`).
- *Previews.*  The scan's previews take the bus from the driver; with five devices or more
  (of eight) the driver can fail as many tries in a row as it tolerates, and a working
  probe be taken out of service until its next good reading.  `PreviewsCostOneTry` says that it
  is never more than one try per preview.
- *Overlapping updates.*  `WhatWasCheckedIsInstalled` and the part `download` exclude uploads; the
  parts in which both run are about the fallback, the boot and the board.
- *Full outbox.*  The part of MqttService with alarms has no failing enqueue: with one,
  `AlarmsArrive` is broken (5.2).  *Shadow:* there is one desire, a newer one that meets a
  delta under way is not exercised.
- *Results not looked at.*  The handler of `POST /api/cloud` ignores what its writes to NVS
  return (`aws_iot_service.cpp:890-910`); the model's writes succeed, so that
  `AcknowledgedIsKept` is about power cuts only.  `ble_gap_terminate` is taken to succeed.
- *Time and grain.*  `on_stop` and `on_init` of a module that the watchdog restarts
  (`module_manager.cpp:150-174`) take no time in ModuleManager; the edges one tick has of one
  slot are told in one step in ScenarioRecovery; `KeptByRestart` of PersistService is about
  restart and factory reset, the restore being in HttpSettings.


## 6. What is not modelled

- *Continuous behaviours* are control laws in floating point; the *panel, presence
  and thermostat modules* are small loops over the shared state; the *mirror*, the
  *character grid* and the log service format; *code generators*, *recipe compiler*
  and *Web UI* do not run on the device.
- *In the modelled parts:* the byte layout, CRC and pools of recipes other than the
  pool of conditions; bit patterns of tokens; what actions do to shared state (their
  status is all the engine sees); `OwnerInfo.phase_idx` and the `exclusive` flag, which
  decide nothing; JSON as text (tokens and rows stand for it), bits on a bus, register
  protocols, samples, glyphs and volume; reasons and texts of errors.
- *Parts of components:* mDNS and RSSI of WiFi; Home Assistant discovery of MQTT; the
  error history; the choice of channels and periods of the logger; the building of
  the menu's views and three of the display's five parameters; configuration
  commands of the LD2410; the registry of discoveries; the error counts that are
  only published.
- ESP-IDF, FreeRTOS, NVS, esp-mqtt, NimBLE, jsmn and helix are external: modelled from
  how the code uses them.


## 7. Plan

1. Proofs: the links' invariant (`LinksAreTrue`), and the rest of `NetworkSteps`.
2. Proofs for the device's modules whose invariants are inductive or nearly so:
   `ScenarioRaces` (`NothingLeaks` when `Serialised`), `ScenarioRecovery`
   (`EdgesAreDurable`), `MenuEngine` (`CursorIsOnList`), and from those of `BoardProofs` the invariants of
   MCDevice they belong to.
3. Abstract specifications: a set of browsers that each see a prefix of the writes,
   above `WsService`; a map that is written in the end, above `PersistService`.
