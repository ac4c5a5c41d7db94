------------------------------ MODULE BringUp ------------------------------
(***************************************************************************)
(* From the files in flash to running drivers: on_init() of                *)
(* components/modesp_services/src/config_service.cpp, app_main() of        *)
(* main/main.cpp, hal.cpp, driver_manager.cpp and driver_registry.cpp of   *)
(* components/modesp_hal/src, and the handlers of http_service.cpp that    *)
(* write the files.                                                        *)
(*                                                                         *)
(* How a file is read token by token is ConfigWalk; here a file is what a  *)
(* walk makes of it: the rows before the place where it breaks, and        *)
(* whether it breaks.  A given entry of board.json is a record of the      *)
(* fields it names; what a section of the walk knows is the record of its  *)
(* fields with their defaults.                                             *)
(***************************************************************************)
EXTENDS Integers, Sequences, FiniteSets, SequencesExt

CONSTANTS
  Board,          \* the given entries of each section of board.json
  Order,          \* its sections in the order of the file
  BadSection,     \* the section the walk refuses, or "none"
  DeviceFiles, BindingFiles,   \* what clients send
  SensorTypes, ActuatorTypes, BackendTypes,
  Needs,          \* the section a driver of each type looks its hardware up in
  Limits,         \* capacity of each section, in the configuration and in the HAL
  MAX_SENSORS, MAX_ACTUATORS, MAX_BINDINGS, MAX_REMOTE_DEVICES,
  Fallible,       \* hardware that may not answer, by its id
  MaxCuts         \* bound on the losses of power

BringUpAssumption ==
  /\ Range(Order) = DOMAIN Board /\ DOMAIN Board \subseteq DOMAIN Limits
  /\ MAX_SENSORS \in Nat /\ MAX_ACTUATORS \in Nat /\ MAX_BINDINGS \in Nat
  /\ MAX_REMOTE_DEVICES \in Nat /\ MaxCuts \in Nat
  /\ DOMAIN Needs = SensorTypes \cup ActuatorTypes

VARIABLES
  devices, bindings,   \* the two files in flash
  post,         \* a file being written by a request
  pc, n,        \* the stage of the boot and its position in it
  config,       \* board_config_
  table,        \* binding_table_
  hal,          \* the initialised resources, by section
  level,        \* of each output pin
  expander,     \* the pins of each expander
  users,        \* the sections that configured each pin
  sensors, actuators,
  dead,         \* hardware that does not answer, since the last power-on
  posted,       \* the bindings the last request was told are saved
  cuts

boot == <<pc, n, config, table, hal, level, expander, users, sensors, actuators>>
files == <<devices, bindings, post, posted>>
vars == <<boot, files, dead, cuts>>

-----------------------------------------------------------------------------
(* The sections of board.json: their fields and defaults.                  *)

NC == -1
GpioOutputConfig  == [id |-> "", gpio |-> 0, active_high |-> FALSE]
OneWireBusConfig  == [id |-> "", gpio |-> 0]
GpioInputConfig   == [id |-> "", gpio |-> 0, pull_up |-> TRUE, invert |-> FALSE]
EncoderConfig     == [id |-> "", clk |-> 0, dt |-> 0, pull_up |-> TRUE]
AdcChannelConfig  == [id |-> "", gpio |-> 0, atten |-> 11]
I2CBusConfig      == [id |-> "", sda |-> 0, scl |-> 0, freq_hz |-> 100000]
UartBusConfig     == [id |-> "", port |-> 1, tx |-> NC, rx |-> NC, baud |-> 256000,
                      rx_buffer |-> 256]
I2SBusConfig      == [id |-> "", bclk |-> NC, ws |-> NC, dout |-> NC, sd |-> NC,
                      sample_rate |-> 16000]
I2CExpanderConfig == [id |-> "", bus |-> "", chip |-> "", address |-> 0, pins |-> 8]
ExpanderOutput    == [id |-> "", expander |-> "", pin |-> 0, active_high |-> FALSE]
ExpanderInput     == [id |-> "", expander |-> "", pin |-> 0, invert |-> FALSE]
I2CDisplayConfig  == [id |-> "", bus |-> "", chip |-> "", cols |-> 20, rows |-> 10,
                      cal_x |-> 0, cal_y |-> 0]
RemoteDevice      == [id |-> "", identity |-> "", name |-> "", transport |-> "ble"]

Fields(s) ==
  CASE s = "gpio_outputs" -> GpioOutputConfig [] s = "onewire_buses" -> OneWireBusConfig
    [] s = "gpio_inputs" -> GpioInputConfig   [] s = "encoders" -> EncoderConfig
    [] s = "adc_channels" -> AdcChannelConfig [] s = "i2c_buses" -> I2CBusConfig
    [] s = "uart_buses" -> UartBusConfig      [] s = "i2s_buses" -> I2SBusConfig
    [] s = "i2c_expanders" -> I2CExpanderConfig
    [] s = "expander_outputs" -> ExpanderOutput
    [] s = "expander_inputs" -> ExpanderInput
    [] s = "i2c_displays" -> I2CDisplayConfig
    [] s = "remote_devices" -> RemoteDevice

ReadEntry(d, g) == [f \in DOMAIN d |-> IF f \in DOMAIN g THEN g[f] ELSE d[f]]
FirstOf(s, max) == SubSeq(s, 1, IF Len(s) < max THEN Len(s) ELSE max)
ReadSection(s) == FirstOf([k \in DOMAIN Board[s] |-> ReadEntry(Fields(s), Board[s][k])], Limits[s])

(* parse_devices_json(): a row replaces the device of its id, or is added. *)
Merge(devs, r) ==
  IF \E k \in DOMAIN devs : devs[k].id = r.id
  THEN [k \in DOMAIN devs |-> IF devs[k].id = r.id THEN r ELSE devs[k]]
  ELSE IF Len(devs) < MAX_REMOTE_DEVICES THEN Append(devs, r) ELSE devs

-----------------------------------------------------------------------------

Sections == {"gpio_outputs", "onewire_buses", "gpio_inputs", "encoders", "adc_channels",
             "i2c_buses", "uart_buses", "i2s_buses", "i2c_expanders", "expander_outputs",
             "expander_inputs", "i2c_displays", "remote_devices"}
Nothing == [s \in Sections |-> <<>>]
Outputs == {ReadSection("gpio_outputs")[k] : k \in DOMAIN ReadSection("gpio_outputs")}
Pins    == {o.gpio : o \in Outputs}
            \cup {ReadSection("gpio_inputs")[k].gpio : k \in DOMAIN ReadSection("gpio_inputs")}
Expanders == {ReadSection("i2c_expanders")[k].id : k \in DOMAIN ReadSection("i2c_expanders")}
NoPost  == [file |-> "none"]

PowerOn ==
  /\ pc' = "board" /\ n' = 1 /\ config' = Nothing /\ table' = <<>> /\ hal' = Nothing
  /\ level' = [p \in Pins |-> "float"] /\ expander' = [x \in Expanders |-> "high"]
  /\ users' = [p \in Pins |-> {}]
  /\ sensors' = <<>> /\ actuators' = <<>>
  /\ post' = NoPost /\ dead' \in SUBSET Fallible

Init ==
  /\ devices \in DeviceFiles /\ bindings \in BindingFiles /\ post = NoPost
  /\ posted = bindings
  /\ pc = "board" /\ n = 1 /\ config = Nothing /\ table = <<>> /\ hal = Nothing
  /\ level = [p \in Pins |-> "float"] /\ expander = [x \in Expanders |-> "high"]
  /\ users = [p \in Pins |-> {}]
  /\ sensors = <<>> /\ actuators = <<>>
  /\ dead \in SUBSET Fallible /\ cuts = 0

Goto(stage) == pc' = stage /\ n' = 1
KeepFiles == UNCHANGED <<files, dead, cuts>>

-----------------------------------------------------------------------------
(* ConfigService::on_init(): its failure ends the reading, and main goes   *)
(* on with what was read.                                                  *)

ReadBoard ==
  /\ pc = "board" /\ n <= Len(Order) /\ Order[n] # BadSection
  /\ config' = [config EXCEPT ![Order[n]] = ReadSection(Order[n])]
  /\ n' = n + 1
  /\ UNCHANGED <<pc, table, hal, level, expander, users, sensors, actuators>> /\ KeepFiles
BoardBroken ==
  /\ pc = "board" /\ n <= Len(Order) /\ Order[n] = BadSection
  /\ Goto("gpio_outputs")
  /\ UNCHANGED <<config, table, hal, level, expander, users, sensors, actuators>> /\ KeepFiles
BoardRead ==
  /\ pc = "board" /\ n > Len(Order)
  /\ Goto("devices")
  /\ UNCHANGED <<config, table, hal, level, expander, users, sensors, actuators>> /\ KeepFiles

ReadDevices ==
  /\ pc = "devices"
  /\ config' = [config EXCEPT !.remote_devices = FoldLeft(Merge, @, devices.rows)]
  /\ Goto("bindings")
  /\ UNCHANGED <<table, hal, level, expander, users, sensors, actuators>> /\ KeepFiles

(* Whether or not bindings.json breaks, its rows before that stay.         *)
ReadBindings ==
  /\ pc = "bindings"
  /\ table' = FirstOf(bindings.rows, MAX_BINDINGS)
  /\ Goto("gpio_outputs")
  /\ UNCHANGED <<config, hal, level, expander, users, sensors, actuators>> /\ KeepFiles

-----------------------------------------------------------------------------
(* HAL::init(): section after section, entry after entry.  An entry whose  *)
(* hardware does not answer ends it, and app_main() with it.               *)

StageOrder == <<"gpio_outputs", "onewire_buses", "gpio_inputs", "adc_channels", "i2c_buses",
                "i2c_expanders", "expander_outputs", "expander_inputs", "i2c_displays",
                "uart_buses", "i2s_buses", "remote_devices">>
After(s) == LET k == SelectInSeq(StageOrder, LAMBDA t : t = s)
            IN  IF k = Len(StageOrder) THEN "create" ELSE StageOrder[k + 1]
BehindI2c == {"i2c_expanders", "expander_outputs", "expander_inputs", "i2c_displays"}
(* Without an I2C bus what hangs on one is not looked at.                  *)
Skipped(s) == s \in BehindI2c /\ config.i2c_buses = <<>>

AtEntry(s) == pc = s /\ ~Skipped(s) /\ n <= Len(config[s])
Off(o)     == IF o.active_high THEN "low" ELSE "high"
Level(o, on) == IF on = o.active_high THEN "high" ELSE "low"
Store(s)   == hal' = [hal EXCEPT ![s] = Append(@, config[s][n])] /\ n' = n + 1 /\ pc' = pc
Found(s, id) == \E k \in DOMAIN hal[s] : hal[s][k].id = id
Configures(s, p) == users' = [users EXCEPT ![p] = @ \cup {<<s, config[s][n].id>>}]
NotDrivers == UNCHANGED <<config, table, sensors, actuators>> /\ KeepFiles

InitOutput ==
  /\ AtEntry("gpio_outputs") /\ config.gpio_outputs[n].id \notin dead
  /\ level' = [level EXCEPT ![config.gpio_outputs[n].gpio] = Off(config.gpio_outputs[n])]
  /\ Configures("gpio_outputs", config.gpio_outputs[n].gpio)
  /\ Store("gpio_outputs") /\ UNCHANGED expander /\ NotDrivers

InitInput ==
  /\ AtEntry("gpio_inputs") /\ config.gpio_inputs[n].id \notin dead
  /\ level' = [level EXCEPT ![config.gpio_inputs[n].gpio] =
                 IF config.gpio_inputs[n].pull_up THEN "high" ELSE "low"]
  /\ Configures("gpio_inputs", config.gpio_inputs[n].gpio)
  /\ Store("gpio_inputs") /\ UNCHANGED expander /\ NotDrivers

InitI2c ==
  /\ AtEntry("i2c_buses") /\ config.i2c_buses[n].id \notin dead
  /\ Store("i2c_buses") /\ UNCHANGED <<level, expander, users>> /\ NotDrivers

(* All pins of an expander are written high.                               *)
InitExpander ==
  /\ AtEntry("i2c_expanders") /\ config.i2c_expanders[n].id \notin dead
  /\ Found("i2c_buses", config.i2c_expanders[n].bus)
  /\ expander' = [expander EXCEPT ![config.i2c_expanders[n].id] = "high"]
  /\ Store("i2c_expanders") /\ UNCHANGED <<level, users>> /\ NotDrivers

InitUart ==
  /\ AtEntry("uart_buses") /\ config.uart_buses[n].id \notin dead
  /\ Store("uart_buses") /\ UNCHANGED <<level, expander, users>> /\ NotDrivers

(* The others are only kept for the drivers.                               *)
Kept == {"onewire_buses", "adc_channels", "expander_outputs", "expander_inputs",
         "i2c_displays", "i2s_buses", "remote_devices"}
KeepEntry ==
  /\ pc \in Kept /\ AtEntry(pc)
  /\ Store(pc) /\ UNCHANGED <<level, expander, users>> /\ NotDrivers

Refused(s) == \/ s \notin Kept /\ config[s][n].id \in dead
              \/ s = "i2c_expanders" /\ ~Found("i2c_buses", config[s][n].bus)
HalFails ==
  /\ pc \in Range(StageOrder) /\ AtEntry(pc) /\ Refused(pc)
  /\ Goto("stopped")
  /\ UNCHANGED <<hal, level, expander, users>> /\ NotDrivers

NextStage ==
  /\ pc \in Range(StageOrder) /\ ~AtEntry(pc)
  /\ Goto(After(pc))
  /\ UNCHANGED <<hal, level, expander, users>> /\ NotDrivers

-----------------------------------------------------------------------------
(* DriverManager::init()                                                   *)

Known(b) == b.type \in SensorTypes \cup ActuatorTypes /\ b.type \notin BackendTypes
Makes(b) == Known(b) /\ Found(Needs[b.type], b.hardware)
AddSensor(b)   == sensors' = IF Len(sensors) < MAX_SENSORS THEN Append(sensors, b) ELSE sensors
AddActuator(b) ==
  actuators' = IF Len(actuators) < MAX_ACTUATORS THEN Append(actuators, b) ELSE actuators

CreateDriver ==
  /\ pc = "create" /\ n <= Len(table)
  /\ IF Makes(table[n]) /\ table[n].type \in SensorTypes
     THEN AddSensor(table[n]) /\ UNCHANGED actuators
     ELSE IF Makes(table[n]) THEN AddActuator(table[n]) /\ UNCHANGED sensors
     ELSE UNCHANGED <<sensors, actuators>>
  /\ n' = n + 1
  /\ UNCHANGED <<pc, config, table, hal, level, expander, users>> /\ KeepFiles
AllCreated ==
  /\ pc = "create" /\ n > Len(table)
  /\ Goto("sensors")
  /\ UNCHANGED <<config, table, hal, level, expander, users, sensors, actuators>> /\ KeepFiles

(* A driver that does not come up is taken out of its pool; the next one   *)
(* moves to its place.                                                     *)
Without(s, k) == SubSeq(s, 1, k - 1) \o SubSeq(s, k + 1, Len(s))
InitSensor ==
  /\ pc = "sensors" /\ n <= Len(sensors)
  /\ IF sensors[n].hardware \in dead THEN sensors' = Without(sensors, n) /\ n' = n
     ELSE n' = n + 1 /\ UNCHANGED sensors
  /\ UNCHANGED <<pc, config, table, hal, level, expander, users, actuators>> /\ KeepFiles
SensorsUp ==
  /\ pc = "sensors" /\ n > Len(sensors)
  /\ Goto("actuators")
  /\ UNCHANGED <<config, table, hal, level, expander, users, sensors, actuators>> /\ KeepFiles
InitActuator ==
  /\ pc = "actuators" /\ n <= Len(actuators)
  /\ IF actuators[n].hardware \in dead THEN actuators' = Without(actuators, n) /\ n' = n
     ELSE n' = n + 1 /\ UNCHANGED actuators
  /\ UNCHANGED <<pc, config, table, hal, level, expander, users, sensors>> /\ KeepFiles
(* Modules are bound and started, then HTTP; then the main loop.           *)
ActuatorsUp ==
  /\ pc = "actuators" /\ n > Len(actuators)
  /\ Goto("loop")
  /\ UNCHANGED <<config, table, hal, level, expander, users, sensors, actuators>> /\ KeepFiles

-----------------------------------------------------------------------------
(* The main loop, requests and power                                       *)

Drive(k, on) ==
  /\ pc = "loop" /\ Needs[actuators[k].type] = "gpio_outputs"
  /\ \E m \in DOMAIN hal.gpio_outputs :
       /\ hal.gpio_outputs[m].id = actuators[k].hardware
       /\ level' = [level EXCEPT ![hal.gpio_outputs[m].gpio] = Level(hal.gpio_outputs[m], on)]
  /\ UNCHANGED <<pc, n, config, table, hal, expander, users, sensors, actuators>> /\ KeepFiles

(* The file is opened for writing, which empties it, and then written.     *)
Empty == [ok |-> FALSE, rows |-> <<>>]
OpenBindings(f) ==
  /\ pc = "loop" /\ post = NoPost /\ bindings' = Empty
  /\ post' = [file |-> "bindings", new |-> f]
  /\ UNCHANGED <<boot, devices, posted, dead, cuts>>
OpenDevices(f) ==
  /\ pc = "loop" /\ post = NoPost /\ devices' = Empty
  /\ post' = [file |-> "devices", new |-> f]
  /\ UNCHANGED <<boot, bindings, posted, dead, cuts>>
WriteBindings ==
  /\ post.file = "bindings"
  /\ posted' = post.new /\ bindings' = post.new /\ post' = NoPost
  /\ UNCHANGED <<boot, devices, dead, cuts>>
WriteDevices ==
  /\ post.file = "devices"
  /\ devices' = post.new /\ post' = NoPost
  /\ UNCHANGED <<boot, bindings, posted, dead, cuts>>
WriteFails ==
  /\ post # NoPost /\ post' = NoPost
  /\ posted' = IF post.file = "bindings" THEN Empty ELSE posted
  /\ UNCHANGED <<boot, devices, bindings, dead, cuts>>

Restart == pc = "loop" /\ post = NoPost /\ PowerOn
           /\ UNCHANGED <<devices, bindings, posted, cuts>>
PowerLoss ==
  /\ cuts < MaxCuts /\ cuts' = cuts + 1
  /\ posted' = IF post # NoPost /\ post.file = "bindings" THEN Empty ELSE posted
  /\ PowerOn
  /\ UNCHANGED <<devices, bindings>>

BootStep ==
  \/ ReadBoard \/ BoardBroken \/ BoardRead \/ ReadDevices \/ ReadBindings
  \/ InitOutput \/ InitInput \/ InitI2c \/ InitExpander \/ InitUart \/ KeepEntry
  \/ HalFails \/ NextStage
  \/ CreateDriver \/ AllCreated \/ InitSensor \/ SensorsUp \/ InitActuator \/ ActuatorsUp
Requests ==
  \/ \E f \in BindingFiles : OpenBindings(f)
  \/ \E f \in DeviceFiles : OpenDevices(f)
Writes == WriteBindings \/ WriteDevices \/ WriteFails
Next ==
  \/ BootStep
  \/ \E k \in DOMAIN actuators, on \in BOOLEAN : Drive(k, on)
  \/ Requests \/ Writes \/ Restart \/ PowerLoss

Fairness == WF_vars(BootStep)
Spec == Init /\ [][Next]_vars /\ Fairness

-----------------------------------------------------------------------------
Stages == {"board", "devices", "bindings", "create", "sensors", "actuators", "loop", "stopped"}
            \cup Range(StageOrder)
Declared(s) == {ReadSection(s)[k] : k \in DOMAIN ReadSection(s)}

TypeOK ==
  /\ pc \in Stages /\ n \in Nat \ {0} /\ cuts \in 0..MaxCuts
  /\ bindings \in BindingFiles \cup {Empty} /\ devices \in DeviceFiles \cup {Empty}
  /\ \A s \in Sections : Len(hal[s]) <= Len(config[s])
  /\ Len(config.remote_devices) <= MAX_REMOTE_DEVICES
  /\ level \in [Pins -> {"float", "low", "high"}] /\ expander \in [Expanders -> {"high"}]
  /\ Len(sensors) <= MAX_SENSORS /\ Len(actuators) <= MAX_ACTUATORS

Ready == pc \in {"create", "sensors", "actuators", "loop"}

(* What the HAL has set up as an output stays off until a module drives    *)
(* it, whatever is set up after it and whatever fails.                     *)
OutputsOff ==
  pc # "loop" => \A k \in DOMAIN hal.gpio_outputs :
    level[hal.gpio_outputs[k].gpio] = Off(hal.gpio_outputs[k])

(* A role in the pools has its hardware: found by the HAL, and answering.  *)
RunningIsWhole ==
  pc = "loop" => \A b \in Range(sensors) \cup Range(actuators) :
    Found(Needs[b.type], b.hardware) /\ b.hardware \notin dead

(* One that fails costs no other: each binding whose hardware is there and *)
(* answers runs, while its pool has room for all that could be made.       *)
MadeOf(T) == SelectSeq(table, LAMBDA b : Makes(b) /\ b.type \in T)
NothingLost ==
  pc = "loop" =>
    /\ Len(MadeOf(SensorTypes)) <= MAX_SENSORS =>
         sensors = SelectSeq(MadeOf(SensorTypes), LAMBDA b : b.hardware \notin dead)
    /\ Len(MadeOf(ActuatorTypes)) <= MAX_ACTUATORS =>
         actuators = SelectSeq(MadeOf(ActuatorTypes), LAMBDA b : b.hardware \notin dead)

(* The files cannot keep the device from coming up: only hardware that     *)
(* does not answer does.  (A section that names a bus of a section after   *)
(* the broken one is not among the boards here.)                           *)
OnlyHardwareStops == pc = "stopped" => dead # {}

(* What the last request was told is saved is what a boot reads.           *)
SavedIsRead == pc = "create" /\ BadSection = "none" => table = FirstOf(posted.rows, MAX_BINDINGS)

(* A subscription of devices.json is there for the drivers, once, and the  *)
(* factory's devices of other ids are too, even if the file is broken.     *)
DevicesMerged ==
  Ready /\ BadSection = "none" =>
    LET ids == [k \in DOMAIN hal.remote_devices |-> hal.remote_devices[k].id]
    IN  /\ \A j, k \in DOMAIN ids : j # k => ids[j] # ids[k]
        /\ \A d \in Declared("remote_devices") : d.id \in Range(ids)

(* A boot ends: in the main loop, or stopped.                              *)
BootEnds == [](pc = "board" => <>(pc \in {"loop", "stopped"}))

(* "lets HAL handle conflicts": no pin is set up twice.                    *)
\* Broken by the code: an output and an input on one pin are both set up, the
\* later one winning.
PinsAreExclusive == \A p \in Pins : Cardinality(users[p]) <= 1
=============================================================================
