------------------------------- MODULE MCDevice -------------------------------
(***************************************************************************)
(* The parts of ModESP that make the device itself, on small instances:    *)
(* boot, modules, settings, drivers, outputs, log, scenarios, screen and   *)
(* sound.  One part runs in a behaviour, the others stand still: they      *)
(* share no state but SharedState, which each of their modules models as   *)
(* far as it uses it.                                                      *)
(***************************************************************************)
EXTENDS Integers, Sequences, FiniteSets

CONSTANTS
  Parts,       \* the parts that are run
  Calls,       \* "races": what the HTTP task may call of the engine
  Serialised,  \* "races": TRUE: the HTTP task's calls of the engine wait for the tick, which
               \* resource_arbiter.h asks for and nothing ensures
  Crossing     \* "persist": TRUE: flush_now() may run between two steps of the other flush

VARIABLES
  part,   \* the one of this behaviour
  kernel_phase, modules, state, last_update_ms, kernel_at, kernel_pos, clock, turn_start,
  since_reset, kernel_uptime, kernel_elapsed, check, restarts, reported, kernel_stop_requested,
  stop_done, asked, kernel_safe_mode, safe_mode_key,
  map, persist_nvs, legacy, nvs_ready, dirty, debounce_timer, persist_task, job,
  persist_stop_requested, stopped,
  devices, bindings, post, bring_pc, bring_n, config, table, hal, level, expander, users,
  sensors, actuators, dead, posted, cuts,
  outputs_phase, board, drivers, tried, req, published, outputs_safe_mode, guard, outputs_at,
  held, boots,
  sensors_kind, sensors_line, fault, drv, ema, pub, sensors_at, sensors_age, samples,
  probe, scratch, glitches, converting, probe_since, probe_elapsed, current, valid, errors,
  left, previews, collided,
  next, logger_buf, old, new, count, io, logger_main, snap, sampling, logger_http, logger_owed,
  dropped, gone, used,
  port_line, port_buf, latest, has_frame, port_uptime, last_frame, port_age, bound, sent, read,
  intact, length, lost, noisy,
  recovery_slots, told, recovery_since, owner, turn, recovery_queue, recovery_nvs, runs, losses,
  refused, failed, apart, worn, silent, recovery_ended,
  slot, track, races_owners, races_main, races_http,
  display_q, active, notifDirty, nextSeq, display_keys, mirror, display_pc, prevEnabled,
  wasBusy, last, prevButton, view, engineDirty, port, chip, glass, display_owed, display_budget,
  screen, menu_stack, menu_cursor, editNode, edit, editDirty, editKnown, idle, value, quiet,
  player_keys, shown, player_q, player_at, player_task, playing, dev, player_budget, heard,
  engine_slots, tracks, engine_owners, emitted_phase, engine_cursor, observed,
  pool, colour, cond_stack, cond_at, cond_verdict, visits,
  present, clone, families, prev_rom, last_discrepancy, found, passes, misled,
  search_ended, file, base, len, mp3_pos, eof, mp3_at, passed,
  doc, walk_at, walk_i, walk_j, elems, walk_keys, sets, walk_row, inventory, walk_verdict, rows,
  far

kernelVars == <<kernel_phase, modules, state, last_update_ms, kernel_at, kernel_pos, clock,
                turn_start, since_reset, kernel_uptime, kernel_elapsed, check, restarts,
                reported, kernel_stop_requested, stop_done, asked, kernel_safe_mode,
                safe_mode_key>>
persistVars == <<map, persist_nvs, legacy, nvs_ready, dirty, debounce_timer, persist_task, job,
                 persist_stop_requested, stopped>>
bringVars == <<devices, bindings, post, bring_pc, bring_n, config, table, hal, level, expander,
               users, sensors, actuators, dead, posted, cuts>>
outputsVars == <<outputs_phase, board, drivers, tried, req, published, outputs_safe_mode, guard,
                 outputs_at, held, boots>>
sensorsVars == <<sensors_kind, sensors_line, fault, drv, ema, pub, sensors_at, sensors_age,
                 samples>>
probeVars == <<probe, scratch, glitches, converting, probe_since, probe_elapsed, current, valid,
               errors, left, previews, collided>>
loggerVars == <<next, logger_buf, old, new, count, io, logger_main, snap, sampling, logger_http,
                logger_owed, dropped, gone, used>>
portVars == <<port_line, port_buf, latest, has_frame, port_uptime, last_frame, port_age, bound,
              sent, read, intact, length, lost, noisy>>
recoveryVars == <<recovery_slots, told, recovery_since, owner, turn, recovery_queue,
                  recovery_nvs, runs, losses, refused, failed, apart, worn, silent,
                  recovery_ended>>
racesVars == <<slot, track, races_owners, races_main, races_http>>
displayVars == <<display_q, active, notifDirty, nextSeq, display_keys, mirror, display_pc,
                 prevEnabled, wasBusy, last, prevButton, view, engineDirty, port, chip, glass,
                 display_owed, display_budget>>
menuVars == <<screen, menu_stack, menu_cursor, editNode, edit, editDirty, editKnown, idle,
              value, quiet>>
playerVars == <<player_keys, shown, player_q, player_at, player_task, playing, dev,
                player_budget, heard>>
engineVars == <<engine_slots, tracks, engine_owners, emitted_phase, engine_cursor, observed>>
condVars == <<pool, colour, cond_stack, cond_at, cond_verdict, visits>>
searchVars == <<present, clone, families, prev_rom, last_discrepancy, found, passes, misled,
                search_ended>>
mp3Vars == <<file, base, len, mp3_pos, eof, mp3_at, passed>>
walkVars == <<doc, walk_at, walk_i, walk_j, elems, walk_keys, sets, walk_row, inventory,
              walk_verdict, rows, far>>

vars == <<part, kernelVars, persistVars, bringVars, outputsVars, sensorsVars, probeVars, loggerVars,
          portVars, recoveryVars, racesVars, displayVars, menuVars, playerVars, engineVars,
          condVars, searchVars, mp3Vars, walkVars>>

(* As the constructors give them.                                          *)
Boot == <<<<"error", "watchdog">>, <<"wifi", "equipment">>, <<"http">>>>
Modules == {"error", "watchdog", "wifi", "equipment", "http"}
Priorities == [m \in Modules |-> CASE m = "wifi" -> 1 [] m = "http" -> 3 [] OTHER -> 0]
Timeouts == [p \in 0..3 |-> IF p = 0 THEN 4 ELSE 8]   \* CRITICAL as the hardware's
Slow == [m \in Modules |-> CASE m = "wifi" -> {0, 3} [] m = "error" -> {2} [] OTHER -> {0}]
Hanging == [m \in Modules |-> IF m = "wifi" THEN {0, 5} ELSE {0}]

(* What the elements of the lists of config files hold.                    *)
Rows(S)  == {[kind |-> "row", members |-> ms] : ms \in S} \cup {[kind |-> k, members |-> <<>>] : k \in {"text", "list"}}
A(v) == <<"a", v>>
B(v) == <<"b", v>>
X(v) == <<"x", v>>
Own(v) == <<"settings", v>>
Flat    == {<<A("p"), B("u")>>, <<B("u"), A("q")>>, <<A("q"), X("t"), B("v")>>, <<A("p")>>, <<>>,
            <<A("p"), B("u"), B("v")>>}
Valueless == {<<A("p"), B("none")>>, <<A("none"), B("u")>>, <<X("none")>>}
Nested  == {<<A("q"), X("nested"), B("v")>>, <<A("p"), B("u"), X("nested")>>}
RaggedRows == {<<A("q"), B("u"), X("ragged")>>, <<A("p"), X("ragged"), B("u")>>}
Settings == {<<A("p"), Own("nested"), B("u")>>, <<Own("ragged"), A("p")>>,
             <<A("p"), B("v"), Own("nested")>>, <<Own("t"), A("q")>>}
BoardEntries     == Rows(Flat)
DevicesEntries   == Rows(Flat \cup Valueless \cup Nested \cup RaggedRows)
BindingsEntries  == Rows(Flat \cup Valueless \cup Settings)
OneSeed == <<[a |-> "p", b |-> "w", settings |-> 0]>>

(* A board with an entry or two in most sections, and what clients send.   *)
MCOrder == <<"gpio_outputs", "onewire_buses", "gpio_inputs", "encoders", "adc_channels",
             "i2c_buses", "uart_buses", "i2s_buses", "i2c_expanders", "expander_outputs",
             "expander_inputs", "i2c_displays", "remote_devices">>
Sections == {MCOrder[k] : k \in DOMAIN MCOrder}
MCBoard ==
  [[s \in Sections |-> <<>>] EXCEPT
     !.gpio_outputs = <<[id |-> "relay_1", gpio |-> 1], [id |-> "relay_2", gpio |-> 2,
                                                         active_high |-> TRUE, note |-> 7]>>,
     !.gpio_inputs = <<[id |-> "din_1", gpio |-> 3]>>,
     !.onewire_buses = <<[id |-> "ow_1", gpio |-> 4], [id |-> "ow_2", gpio |-> 5]>>,
     !.i2c_buses = <<[id |-> "i2c_0", sda |-> 6, scl |-> 7]>>,
     !.i2c_expanders = <<[id |-> "exp", bus |-> "i2c_0"]>>,
     !.expander_outputs = <<[id |-> "relay_3", expander |-> "exp", pin |-> 1]>>,
     !.uart_buses = <<[id |-> "uart_1", rx |-> 8]>>,
     !.remote_devices = <<[id |-> "room"]>>]
MCLimits == [s \in Sections |-> IF s = "onewire_buses" THEN 1 ELSE 2]
MCNeeds == [ds18b20 |-> "onewire_buses", digital |-> "gpio_inputs", relay |-> "gpio_outputs",
            pcf_relay |-> "expander_outputs"]
Row(r, h, t) == [role |-> r, hardware |-> h, type |-> t]
MCBindingFiles ==
  {[ok |-> TRUE,  rows |-> <<Row("air", "ow_1", "ds18b20"), Row("door", "din_1", "digital"),
                             Row("fan", "relay_2", "relay"), Row("lamp", "relay_3", "pcf_relay")>>],
   [ok |-> FALSE, rows |-> <<Row("air", "ow_2", "ds18b20"), Row("screen", "disp", "amt630a"),
                             Row("fan", "relay_1", "relay")>>]}
MCDeviceFiles ==
  {[ok |-> TRUE,  rows |-> <<[id |-> "room", transport |-> "lora"], [id |-> "hall", transport |-> "ble"],
                             [id |-> "attic"]>>],
   [ok |-> FALSE, rows |-> <<>>]}

(* Recipes of two tracks of two phases.                                    *)
Defrost == [id |-> "defrost", phases |-> <<2, 1>>, rule |-> "all", claims |-> {}]

(* Pools of four nodes: leaves of both kinds and composites over any       *)
(* children, in any order, themselves and an index too far included.       *)
Node(kind, kids) == [kind |-> kind, children |-> kids]
One == {<<i>> : i \in 0..4}
Pairs == {<<i, j>> : i \in 1..3, j \in 0..4}
Lone == {Node("leaf", <<>>), Node("unknown", <<>>)} \cup {Node("not", c) : c \in {<<>>, <<0, 1>>} \cup One}
Wide == Lone \cup {Node("all", c) : c \in {<<>>} \cup Pairs} \cup {Node("any", c) : c \in Pairs}
AllPools == {[i \in 0..3 |-> CASE i = 0 -> a [] i = 1 -> b [] i = 2 -> c [] OTHER -> d] :
               a \in Lone, b \in Wide, c \in {Node("leaf", <<>>), Node("not", <<3>>), Node("not", <<0>>)},
               d \in {Node("leaf", <<>>), Node("not", <<1>>)}}

(* Notices of every level, limited or not.                                 *)
Mixed == {[level |-> 0, ttl |-> 0], [level |-> 1, ttl |-> 2], [level |-> 2, ttl |-> 1],
          [level |-> 2, ttl |-> 0]}

(* Submenus nested deeper than the stack, with items a plain backend hides before others. *)
Plain == [type |-> "value", cap |-> "none", kids |-> <<>>, low |-> 0, high |-> 0,
          step |-> 0, options |-> <<>>]
Submenu(kids) == [Plain EXCEPT !.type = "submenu", !.kids = kids]
Number == [Plain EXCEPT !.type = "int", !.low = 1, !.high = 4, !.step = 2]
Tree == [a |-> Submenu(<<"light", "c", "sp">>), b |-> Submenu(<<"lamp", "temp">>),
         c |-> Submenu(<<"mode", "e">>), e |-> Submenu(<<"lamp">>),
         temp |-> Plain, sp |-> Number, lamp |-> [Plain EXCEPT !.type = "bool"],
         mode |-> [Plain EXCEPT !.type = "enum", !.options = <<0, 2, 3>>],
         light |-> [Number EXCEPT !.cap = "backlight"]]
Foreign == [sp |-> {9}, mode |-> {7}]

(* Clips of up to seven bytes, sync (1) or not.                              *)
Clips == UNION {[1..n -> {0, 1}] : n \in 0..7}

(* Five relays, one of them more than the actuators' vector holds.           *)
MCRelays == <<"compressor", "valve", "lamp", "panel", "extra">>
MCOnExpander == {"compressor", "valve", "extra"}
MCActiveHigh == {"lamp", "panel"}
MCOurs == {"compressor", "valve", "lamp", "extra"}

(* Two scenarios that hold what the other one needs, and one that would    *)
(* circle for ever but for its cap.                                        *)
Phase(timeout, claims, exits, transitions) ==
  [timeout |-> timeout, phase_resources |-> claims, entry_action_n |-> 0, exit_action_n |-> exits,
   transitions |-> transitions]
ARecipe(rule, cap, default, resources, phases, main) ==
  [track_count |-> 1, tracks |-> [t \in {0} |-> [is_main |-> main, phase_count |-> Len(phases),
     initial_phase |-> 0, phases |-> [p \in 0..Len(phases) - 1 |-> phases[p + 1]]]],
   completion_rule |-> rule, scenario_timeout_max |-> cap, default_phase_timeout |-> default,
   resources |-> resources, global_transitions |-> <<>>]
Complete == 65535   \* MODR_TARGET_COMPLETE
To(kind, phase) == [kind |-> kind, time_threshold |-> 0, target_phase |-> phase]
Wants(own, other) == ARecipe("any_track", 0, 5, {own},
  <<Phase(0, {}, 0, <<To("unconditional", 1)>>), Phase(0, {other}, 1, <<To("cond", Complete)>>)>>, FALSE)
Circling == ARecipe("all_tracks", 5, 3, {}, <<Phase(0, {"valve"}, 0, <<To("unconditional", 0)>>)>>, TRUE)
LiveRecipes == {Wants("pump", "heater"), Wants("heater", "pump"), Circling}

------------------------------------------------------------------------------
Kernel == INSTANCE ModuleManager WITH
  Registered <- Boot, Priority <- Priorities, Timeout <- Timeouts, Watchdog <- "watchdog",
  ErrorService <- "error", Http <- "http", MAX_RESTARTS <- 1, CHECK_INTERVAL <- 2,
  WDT_TIMEOUT <- 4, STOP_WAIT <- 1, RESTART_TAIL <- 1, SLACK <- 1, UpdateTime <- Slow,
  StopTime <- Hanging, MayFail <- {"wifi"}, Subscribed <- TRUE, StartsAtZero <- FALSE,
  CLOCK_RANGE <- 17, phase <- kernel_phase, at <- kernel_at, pos <- kernel_pos,
  uptime <- kernel_uptime, elapsed <- kernel_elapsed, stop_requested <- kernel_stop_requested,
  safe_mode <- kernel_safe_mode

------------------------------------------------------------------------------
Persist == INSTANCE PersistService WITH
  KeyCount <- 2, Value <- {"a", "b"}, NoValue <- "none", Default <- "a", DEBOUNCE_MS <- 2,
  Setters <- {"main", "http"}, Jobs <- {"restart", "factory_reset"}, Crossing <- Crossing,
  Faults <- {}, nvs <- persist_nvs, task <- persist_task,
  stop_requested <- persist_stop_requested

PersistFaults == INSTANCE PersistService WITH
  KeyCount <- 2, Value <- {"a", "b"}, NoValue <- "none", Default <- "a", DEBOUNCE_MS <- 2,
  Setters <- {"main", "http"}, Jobs <- {"restart", "restore", "factory_reset", "ota"},
  Crossing <- FALSE, Faults <- {"nvs_busy", "stop_timeout", "power_loss"}, nvs <- persist_nvs,
  task <- persist_task, stop_requested <- persist_stop_requested

------------------------------------------------------------------------------
BringUp == INSTANCE BringUp WITH
  Board <- MCBoard, Order <- MCOrder, BadSection <- "none", DeviceFiles <- MCDeviceFiles,
  BindingFiles <- MCBindingFiles, SensorTypes <- {"ds18b20", "digital"},
  ActuatorTypes <- {"relay", "pcf_relay"}, BackendTypes <- {"amt630a"}, Needs <- MCNeeds,
  Limits <- MCLimits, MAX_SENSORS <- 2, MAX_ACTUATORS <- 2, MAX_BINDINGS <- 3,
  MAX_REMOTE_DEVICES <- 2, Fallible <- {"ow_1", "relay_2", "exp", "uart_1"},
  MaxCuts <- 2, pc <- bring_pc, n <- bring_n

BringUpBroken == INSTANCE BringUp WITH
  Board <- MCBoard, Order <- MCOrder, BadSection <- "adc_channels",
  DeviceFiles <- MCDeviceFiles, BindingFiles <- MCBindingFiles,
  SensorTypes <- {"ds18b20", "digital"}, ActuatorTypes <- {"relay", "pcf_relay"},
  BackendTypes <- {"amt630a"}, Needs <- MCNeeds, Limits <- MCLimits, MAX_SENSORS <- 2,
  MAX_ACTUATORS <- 2, MAX_BINDINGS <- 3, MAX_REMOTE_DEVICES <- 2,
  Fallible <- {"relay_2", "din_1"}, MaxCuts <- 1, pc <- bring_pc, n <- bring_n

------------------------------------------------------------------------------
Outputs == INSTANCE Equipment WITH
  Order <- MCRelays, OnExpander <- MCOnExpander, ActiveHigh <- MCActiveHigh,
  Ours <- MCOurs, Guarded <- {"compressor"},
  MAX_ACTUATORS <- 4, RolesLeft <- 3, MinOn <- 2, MinOff <- 2, TIMER_SATISFIED <- 3,
  Failures <- {"nak"}, MaxFaults <- 2, NestedFatal <- TRUE, MaxBoots <- 2,
  phase <- outputs_phase, safe_mode <- outputs_safe_mode, at <- outputs_at

OutputsGuard == INSTANCE Equipment WITH
  Order <- MCRelays, OnExpander <- MCOnExpander, ActiveHigh <- MCActiveHigh,
  Ours <- MCOurs, Guarded <- {"compressor"},
  MAX_ACTUATORS <- 4, RolesLeft <- 3, MinOn <- 2, MinOff <- 2, TIMER_SATISFIED <- 3,
  Failures <- {}, MaxFaults <- 2, NestedFatal <- FALSE, MaxBoots <- 1, phase <- outputs_phase,
  safe_mode <- outputs_safe_mode, at <- outputs_at

------------------------------------------------------------------------------
Sensor == INSTANCE Sensors WITH
  Kinds <- {"ntc", "digital_input", "pcf8574_input", "ble_xiaomi_th", "ble_nrf_tilt"},
  ReadInterval <- 2, MAX_CONSECUTIVE_ERRORS <- 3, ErrorMax <- 5, Debounce <- 3, Stale <- 3,
  Alternating <- FALSE, kind <- sensors_kind, line <- sensors_line, at <- sensors_at,
  age <- sensors_age

SensorLive == INSTANCE Sensors WITH
  Kinds <- {"ntc", "digital_input", "pcf8574_input", "ble_xiaomi_th", "ble_nrf_tilt"},
  ReadInterval <- 2, MAX_CONSECUTIVE_ERRORS <- 3, ErrorMax <- 5, Debounce <- 3, Stale <- 3,
  Alternating <- TRUE, kind <- sensors_kind, line <- sensors_line, at <- sensors_at,
  age <- sensors_age

------------------------------------------------------------------------------
Probe == INSTANCE Ds18b20 WITH
  Interval <- 10, Conversion <- 8, Hold <- 8, WaitConvert <- 2, WaitRead <- 5,
  MAX_CONSECUTIVE_ERRORS <- 5, Temps <- {20}, PowerOn <- 85, TimePerDegree <- 10, LongAgo <- 40,
  Devices <- 8, MaxGlitches <- 1, since <- probe_since, elapsed <- probe_elapsed

ProbeJumps == INSTANCE Ds18b20 WITH
  Interval <- 10, Conversion <- 8, Hold <- 8, WaitConvert <- 2, WaitRead <- 5,
  MAX_CONSECUTIVE_ERRORS <- 5, Temps <- {20, 23}, PowerOn <- 85, TimePerDegree <- 10,
  LongAgo <- 40, Devices <- 2, MaxGlitches <- 1, since <- probe_since, elapsed <- probe_elapsed

------------------------------------------------------------------------------
Logger == INSTANCE DataLogger WITH
  Streams <- {"temp"}, Capacity <- 2, MaxSize <- 2, MaxRecords <- 6, MaxReads <- 1,
  MaxCuts <- 0, MaxFailures <- 1, MaxReboots <- 0, buf <- logger_buf, main <- logger_main,
  http <- logger_http, owed <- logger_owed

LoggerCuts == INSTANCE DataLogger WITH
  Streams <- {"temp"}, Capacity <- 2, MaxSize <- 2, MaxRecords <- 4, MaxReads <- 1,
  MaxCuts <- 1, MaxFailures <- 0, MaxReboots <- 1, buf <- logger_buf, main <- logger_main,
  http <- logger_http, owed <- logger_owed

LoggerBoth == INSTANCE DataLogger WITH
  Streams <- {"temp", "event"}, Capacity <- 2, MaxSize <- 2, MaxRecords <- 3, MaxReads <- 1,
  MaxCuts <- 0, MaxFailures <- 0, MaxReboots <- 0, buf <- logger_buf, main <- logger_main,
  http <- logger_http, owed <- logger_owed

------------------------------------------------------------------------------
Port == INSTANCE Ld2410Port WITH
  Readings <- {<<91>>, <<81>>}, BUF_SIZE <- 12, MAX_PAYLOAD <- 3, TIMEOUT <- 1, WRAP <- 1,
  Drivers <- {"presence"}, Noise <- {91}, MaxFrames <- 2, MaxLosses <- 1, MaxNoise <- 1,
  line <- port_line, buf <- port_buf, uptime <- port_uptime, age <- port_age

PortLive == INSTANCE Ld2410Port WITH
  Readings <- {<<5>>}, BUF_SIZE <- 12, MAX_PAYLOAD <- 3, TIMEOUT <- 1, WRAP <- 1,
  Drivers <- {"presence", "moving"}, Noise <- {91}, MaxFrames <- 1, MaxLosses <- 1,
  MaxNoise <- 1, line <- port_line, buf <- port_buf, uptime <- port_uptime, age <- port_age

------------------------------------------------------------------------------
Recovery == INSTANCE ScenarioRecovery WITH
  MAX_SEQUENCES <- 1,
  Recipe <- [defrost |-> Defrost, updated |-> [Defrost EXCEPT !.phases = <<1, 1>>]],
  QUEUE_DEPTH <- 1, THROTTLE <- 1, Fallible <- FALSE, Calm <- TRUE, MaxRuns <- 2,
  MaxLosses <- 1, MaxEntries <- 0, slots <- recovery_slots, since <- recovery_since,
  queue <- recovery_queue, nvs <- recovery_nvs, ended <- recovery_ended

RecoveryFaults == INSTANCE ScenarioRecovery WITH
  MAX_SEQUENCES <- 1, Recipe <- [defrost |-> Defrost], QUEUE_DEPTH <- 1, THROTTLE <- 1,
  Fallible <- TRUE, Calm <- TRUE, MaxRuns <- 1, MaxLosses <- 1, MaxEntries <- 0,
  slots <- recovery_slots, since <- recovery_since, queue <- recovery_queue,
  nvs <- recovery_nvs, ended <- recovery_ended

RecoverySides == INSTANCE ScenarioRecovery WITH
  MAX_SEQUENCES <- 1,
  Recipe <- [brew |-> [id |-> "brew", phases |-> <<1, 2>>, rule |-> "main", claims |-> {}]],
  QUEUE_DEPTH <- 1, THROTTLE <- 2, Fallible <- FALSE, Calm <- TRUE, MaxRuns <- 1,
  MaxLosses <- 0, MaxEntries <- 0, slots <- recovery_slots, since <- recovery_since,
  queue <- recovery_queue, nvs <- recovery_nvs, ended <- recovery_ended

------------------------------------------------------------------------------
CallsAtOnce == INSTANCE ScenarioRaces WITH
  Resource <- {"pump", "valve"}, MAX_RESOURCES <- 2, MAX_SEQUENCES <- 2, MAX_TRACKS <- 2,
  Needs <- {"pump"}, Claims <- {"valve"}, RULE <- "all",
  Calls <- Calls, Serialised <- Serialised,
  owners <- races_owners, main <- races_main, http <- races_http

StartsAtOnce == INSTANCE ScenarioRaces WITH
  Resource <- {"pump", "valve"}, MAX_RESOURCES <- 2, MAX_SEQUENCES <- 2, MAX_TRACKS <- 2,
  Needs <- {"pump"}, Claims <- {"valve"}, RULE <- "main", Calls <- {"load", "start"},
  Serialised <- FALSE, owners <- races_owners, main <- races_main, http <- races_http

------------------------------------------------------------------------------
Screen == INSTANCE Display WITH
  CAP <- 2, Notices <- {[level |-> 1, ttl |-> 2]}, Views <- {"main", "menu"}, Lights <- {1},
  BOOT <- 1, TIMEOUT <- 2, CHUNKS <- 2, PowerIsInt <- TRUE, Races <- FALSE, Late <- FALSE,
  MaxPushes <- 1, MaxToggles <- 1, MaxPowers <- 2, MaxParams <- 1, MaxPresses <- 2,
  q <- display_q, keys <- display_keys, pc <- display_pc, owed <- display_owed,
  budget <- display_budget

Banners == INSTANCE Display WITH
  CAP <- 2, Notices <- Mixed, Views <- {"main", "menu"}, Lights <- {1}, BOOT <- 1, TIMEOUT <- 2,
  CHUNKS <- 2, PowerIsInt <- TRUE, Races <- FALSE, Late <- FALSE, MaxPushes <- 5,
  MaxToggles <- 0, MaxPowers <- 0, MaxParams <- 0, MaxPresses <- 0, q <- display_q,
  keys <- display_keys, pc <- display_pc, owed <- display_owed, budget <- display_budget

ScreenLive == INSTANCE Display WITH
  CAP <- 2, Notices <- {[level |-> 0, ttl |-> 2], [level |-> 1, ttl |-> 0]}, Views <- {"main"},
  Lights <- {1}, BOOT <- 1, TIMEOUT <- 2, CHUNKS <- 2, PowerIsInt <- TRUE, Races <- FALSE,
  Late <- TRUE, MaxPushes <- 2, MaxToggles <- 1, MaxPowers <- 2, MaxParams <- 0,
  MaxPresses <- 0, q <- display_q, keys <- display_keys, pc <- display_pc, owed <- display_owed,
  budget <- display_budget

------------------------------------------------------------------------------
Menu == INSTANCE MenuEngine WITH
  Nodes <- Tree, Root <- <<"a", "b">>, Caps <- {}, Writes <- Foreign, MAX_DEPTH <- 2,
  MAX_MENU_ITEMS <- 5, IDLE_TIMEOUT <- 2, stack <- menu_stack, cursor <- menu_cursor

MenuLive == INSTANCE MenuEngine WITH
  Nodes <- Tree, Root <- <<"a", "b">>, Caps <- {}, Writes <- [n \in {} |-> {}], MAX_DEPTH <- 2,
  MAX_MENU_ITEMS <- 5, IDLE_TIMEOUT <- 2, stack <- menu_stack, cursor <- menu_cursor

------------------------------------------------------------------------------
Playing == INSTANCE Player WITH
  Length <- [alarm |-> 3, beep |-> 1, clip |-> 2], Endless <- {}, QUEUE <- 2, MaxCommands <- 3,
  MaxSwitches <- 1, Hurried <- TRUE, keys <- player_keys, q <- player_q, at <- player_at,
  task <- player_task, budget <- player_budget

PlayingLive == INSTANCE Player WITH
  Length <- [alarm |-> 3, beep |-> 1, clip |-> 2], Endless <- {"clip"}, QUEUE <- 2,
  MaxCommands <- 2, MaxSwitches <- 2, Hurried <- TRUE, keys <- player_keys, q <- player_q,
  at <- player_at, task <- player_task, budget <- player_budget

PlayingSlow == INSTANCE Player WITH
  Length <- [alarm |-> 3, beep |-> 1, clip |-> 2], Endless <- {}, QUEUE <- 4, MaxCommands <- 4,
  MaxSwitches <- 1, Hurried <- FALSE, keys <- player_keys, q <- player_q, at <- player_at,
  task <- player_task, budget <- player_budget

------------------------------------------------------------------------------
Engine == INSTANCE ScenarioEngine WITH
  Resource <- {"pump", "heater", "valve"}, MAX_RESOURCES <- 3, MAX_SEQUENCES <- 2,
  MAX_TRACKS <- 2, Recipe <- LiveRecipes, UINT32_MAX <- 5, DT <- 3,
  NoRecipe <- [track_count |-> 0], slots <- engine_slots, owners <- engine_owners,
  cursor <- engine_cursor

------------------------------------------------------------------------------
Conditions == INSTANCE CondValidator WITH
  Pools <- AllPools, MAX_CONDITION_DEPTH <- 2, stack <- cond_stack, at <- cond_at,
  verdict <- cond_verdict

NoPool == INSTANCE CondValidator WITH
  Pools <- {[i \in {0} |-> Node("leaf", <<>>)]}, MAX_CONDITION_DEPTH <- 2, stack <- cond_stack,
  at <- cond_at, verdict <- cond_verdict

------------------------------------------------------------------------------
Search == INSTANCE OneWireSearch WITH
  Width <- 3, MaxDevices <- 4, MaxResults <- 3, MAX_SEARCH_PASSES <- 6, Clones <- FALSE,
  Noise <- TRUE, ended <- search_ended

NoBus == INSTANCE OneWireSearch WITH
  Width <- 3, MaxDevices <- 0, MaxResults <- 3, MAX_SEARCH_PASSES <- 6, Clones <- FALSE,
  Noise <- TRUE, ended <- search_ended

------------------------------------------------------------------------------
Clip == INSTANCE Mp3Decoder WITH
  Files <- Clips, IN_SZ <- 4, MP3_FRAME_MAX <- 3,
  ReadErrors <- TRUE, pos <- mp3_pos, at <- mp3_at

NoClip == INSTANCE Mp3Decoder WITH
  Files <- {<<>>}, IN_SZ <- 4, MP3_FRAME_MAX <- 3, ReadErrors <- TRUE, pos <- mp3_pos,
  at <- mp3_at

------------------------------------------------------------------------------
BoardFile == INSTANCE ConfigWalk WITH
  File <- "board", Lists <- {"array", "t"}, Entries <- BoardEntries,
  Others <- {"absent", "nested"}, MaxEntries <- 2, Capacity <- 1, MaxSettings <- 1,
  Seed <- <<>>, at <- walk_at, i <- walk_i, j <- walk_j, keys <- walk_keys, row <- walk_row,
  verdict <- walk_verdict

BindingsFile == INSTANCE ConfigWalk WITH
  File <- "bindings", Lists <- {"array", "t"}, Entries <- BindingsEntries,
  Others <- {"absent", "nested", "none"}, MaxEntries <- 2, Capacity <- 1, MaxSettings <- 1,
  Seed <- <<>>, at <- walk_at, i <- walk_i, j <- walk_j, keys <- walk_keys, row <- walk_row,
  verdict <- walk_verdict

DevicesFile == INSTANCE ConfigWalk WITH
  File <- "devices", Lists <- {"array", "t"}, Entries <- DevicesEntries,
  Others <- {"absent", "nested", "none"}, MaxEntries <- 2, Capacity <- 2, MaxSettings <- 1,
  Seed <- OneSeed, at <- walk_at, i <- walk_i, j <- walk_j, keys <- walk_keys, row <- walk_row,
  verdict <- walk_verdict

NoFile == INSTANCE ConfigWalk WITH
  File <- "board", Lists <- {"t"}, Entries <- BoardEntries, Others <- {"absent"},
  MaxEntries <- 0, Capacity <- 1, MaxSettings <- 1, Seed <- <<>>, at <- walk_at, i <- walk_i,
  j <- walk_j, keys <- walk_keys, row <- walk_row, verdict <- walk_verdict

------------------------------------------------------------------------------
(* What each part's constants are assumed to be. *)
ASSUME DeviceAssumption ==
  /\ Kernel!ManagerAssumption
  /\ Persist!PersistServiceAssumption
  /\ PersistFaults!PersistServiceAssumption
  /\ BringUp!BringUpAssumption
  /\ BringUpBroken!BringUpAssumption
  /\ Outputs!EquipmentAssumption
  /\ OutputsGuard!EquipmentAssumption
  /\ Sensor!SensorsAssumption
  /\ SensorLive!SensorsAssumption
  /\ Logger!DataLoggerAssumption
  /\ LoggerCuts!DataLoggerAssumption
  /\ LoggerBoth!DataLoggerAssumption
  /\ Recovery!RecoveryAssumption
  /\ RecoveryFaults!RecoveryAssumption
  /\ RecoverySides!RecoveryAssumption
  /\ CallsAtOnce!RacesAssumption
  /\ StartsAtOnce!RacesAssumption
  /\ Playing!PlayerAssumption
  /\ PlayingLive!PlayerAssumption
  /\ PlayingSlow!PlayerAssumption
  /\ Conditions!CondAssumption
  /\ Search!OneWireSearchAssumption
  /\ BoardFile!ConfigWalkAssumption
  /\ BindingsFile!ConfigWalkAssumption
  /\ DevicesFile!ConfigWalkAssumption
  /\ Probe!Ds18b20Assumption
  /\ ProbeJumps!Ds18b20Assumption
  /\ Port!Ld2410PortAssumption
  /\ PortLive!Ld2410PortAssumption
  /\ Clip!Mp3Assumption

Init ==
  /\ part \in Parts
  /\ Kernel!Init
  /\ CASE part = "persist_faults" -> PersistFaults!Init
       [] OTHER -> Persist!Init
  /\ part \notin {"persist", "persist_faults"} => legacy = [k \in Persist!Key |-> "none"]
  /\ CASE part = "bring_broken" -> BringUpBroken!Init
       [] OTHER -> BringUp!Init
  /\ part \notin {"bring_up", "bring_broken"} => dead = {} /\ devices.ok /\ bindings.ok
  /\ CASE part = "outputs_guard" -> OutputsGuard!Init
       [] OTHER -> Outputs!Init
  /\ CASE part = "sensors_live" -> SensorLive!Init
       [] OTHER -> Sensor!Init
  /\ part \notin {"sensors", "sensors_live"} => sensors_kind = "ntc" /\ sensors_line = 2 /\ fault = "none"
  /\ CASE part = "probe_jumps" -> ProbeJumps!Init
       [] OTHER -> Probe!Init
  /\ part \notin {"probe", "probe_jumps"} => probe = 20
  /\ CASE part = "logger_cuts" -> LoggerCuts!Init
       [] part = "logger_both" -> LoggerBoth!Init
       [] OTHER -> Logger!Init
  /\ CASE part = "port_live" -> PortLive!Init
       [] OTHER -> Port!Init
  /\ CASE part = "recovery_faults" -> RecoveryFaults!Init
       [] part = "recovery_sides" -> RecoverySides!Init
       [] OTHER -> Recovery!Init
  /\ CASE part = "races_start" -> StartsAtOnce!Init
       [] OTHER -> CallsAtOnce!Init
  /\ CASE part = "banners" -> Banners!Init
       [] part = "display_live" -> ScreenLive!Init
       [] OTHER -> Screen!Init
  /\ part \notin {"display", "banners", "display_live"} => display_keys.enabled /\ display_keys.backlight = 1 /\ display_keys.contrast = 1 /\ view = "main"
  /\ CASE part = "menu_live" -> MenuLive!Init
       [] OTHER -> Menu!Init
  /\ CASE part = "player_live" -> PlayingLive!Init
       [] part = "player_slow" -> PlayingSlow!Init
       [] OTHER -> Playing!Init
  /\ Engine!Init
  /\ CASE part = "conditions" -> Conditions!Init
       [] OTHER -> NoPool!Init
  /\ CASE part = "search" -> Search!Init
       [] OTHER -> NoBus!Init
  /\ CASE part = "mp3" -> Clip!Init
       [] OTHER -> NoClip!Init
  /\ CASE part = "walk_board" -> BoardFile!Init
       [] part = "walk_bindings" -> BindingsFile!Init
       [] part = "walk_devices" -> DevicesFile!Init
       [] OTHER -> NoFile!Init

(* All parts but one stand still.                                          *)
Only(key) ==
  /\ UNCHANGED part
  /\ IF key = "kernel" THEN TRUE ELSE UNCHANGED kernelVars
  /\ IF key = "persist" THEN TRUE ELSE UNCHANGED persistVars
  /\ IF key = "bring" THEN TRUE ELSE UNCHANGED bringVars
  /\ IF key = "outputs" THEN TRUE ELSE UNCHANGED outputsVars
  /\ IF key = "sensors" THEN TRUE ELSE UNCHANGED sensorsVars
  /\ IF key = "probe" THEN TRUE ELSE UNCHANGED probeVars
  /\ IF key = "logger" THEN TRUE ELSE UNCHANGED loggerVars
  /\ IF key = "port" THEN TRUE ELSE UNCHANGED portVars
  /\ IF key = "recovery" THEN TRUE ELSE UNCHANGED recoveryVars
  /\ IF key = "races" THEN TRUE ELSE UNCHANGED racesVars
  /\ IF key = "display" THEN TRUE ELSE UNCHANGED displayVars
  /\ IF key = "menu" THEN TRUE ELSE UNCHANGED menuVars
  /\ IF key = "player" THEN TRUE ELSE UNCHANGED playerVars
  /\ IF key = "engine" THEN TRUE ELSE UNCHANGED engineVars
  /\ IF key = "cond" THEN TRUE ELSE UNCHANGED condVars
  /\ IF key = "search" THEN TRUE ELSE UNCHANGED searchVars
  /\ IF key = "mp3" THEN TRUE ELSE UNCHANGED mp3Vars
  /\ IF key = "walk" THEN TRUE ELSE UNCHANGED walkVars

RunKernel == part = "kernel" /\ Kernel!Next /\ Only("kernel")
RunPersist ==
  /\ \/ part = "persist" /\ Persist!Next
     \/ part = "persist_faults" /\ PersistFaults!Next
  /\ Only("persist")
RunBring ==
  /\ \/ part = "bring_up" /\ BringUp!Next
     \/ part = "bring_broken" /\ BringUpBroken!Next
  /\ Only("bring")
RunOutputs ==
  /\ \/ part = "outputs" /\ Outputs!Next
     \/ part = "outputs_guard" /\ OutputsGuard!Next
  /\ Only("outputs")
RunSensors ==
  /\ \/ part = "sensors" /\ Sensor!Next
     \/ part = "sensors_live" /\ SensorLive!Next
  /\ Only("sensors")
RunProbe ==
  /\ \/ part = "probe" /\ Probe!Next
     \/ part = "probe_jumps" /\ ProbeJumps!Next
  /\ Only("probe")
RunLogger ==
  /\ \/ part = "logger" /\ Logger!Next
     \/ part = "logger_cuts" /\ LoggerCuts!Next
     \/ part = "logger_both" /\ LoggerBoth!Next
  /\ Only("logger")
RunPort ==
  /\ \/ part = "port" /\ Port!Next
     \/ part = "port_live" /\ PortLive!Next
  /\ Only("port")
RunRecovery ==
  /\ \/ part = "recovery" /\ Recovery!Next
     \/ part = "recovery_faults" /\ RecoveryFaults!Next
     \/ part = "recovery_sides" /\ RecoverySides!Next
  /\ Only("recovery")
RunRaces ==
  /\ \/ part = "races" /\ CallsAtOnce!Next
     \/ part = "races_start" /\ StartsAtOnce!Next
  /\ Only("races")
RunDisplay ==
  /\ \/ part = "display" /\ Screen!Next
     \/ part = "banners" /\ Banners!Next
     \/ part = "display_live" /\ ScreenLive!Next
  /\ Only("display")
RunMenu ==
  /\ \/ part = "menu" /\ Menu!Next
     \/ part = "menu_live" /\ MenuLive!Next
  /\ Only("menu")
RunPlayer ==
  /\ \/ part = "player" /\ Playing!Next
     \/ part = "player_live" /\ PlayingLive!Next
     \/ part = "player_slow" /\ PlayingSlow!Next
  /\ Only("player")
RunEngine == part = "engine" /\ Engine!Next /\ Only("engine")
RunCond == part = "conditions" /\ Conditions!Next /\ Only("cond")
RunSearch == part = "search" /\ Search!Next /\ Only("search")
RunMp3 == part = "mp3" /\ Clip!Next /\ Only("mp3")
RunWalk ==
  /\ \/ part = "walk_board" /\ BoardFile!Next
     \/ part = "walk_bindings" /\ BindingsFile!Next
     \/ part = "walk_devices" /\ DevicesFile!Next
  /\ Only("walk")

(* Those whose bounds or whose code let them come to an end.                *)
Rest == part \in {"bring_up", "bring_broken", "outputs", "outputs_guard",
                  "conditions", "search"} /\ UNCHANGED vars

Next ==
  \/ RunKernel
  \/ RunPersist
  \/ RunBring
  \/ RunOutputs
  \/ RunSensors
  \/ RunProbe
  \/ RunLogger
  \/ RunPort
  \/ RunRecovery
  \/ RunRaces
  \/ RunDisplay
  \/ RunMenu
  \/ RunPlayer
  \/ RunEngine
  \/ RunCond
  \/ RunSearch
  \/ RunMp3
  \/ RunWalk
  \/ Rest

Spec == Init /\ [][Next]_vars

------------------------------------------------------------------------------
(* The fairness of the parts, of the one that runs: what the Fairness of its *)
(* module says, and nothing of the parts that stand still.                   *)
PersistFair ==
  /\ WF_persistVars(part = "persist" /\ Persist!MainStep)
  /\ SF_persistVars(part = "persist" /\ Persist!OnUpdate)
  /\ WF_persistVars(part = "persist" /\ Persist!HttpStep)
BringUpFair ==
  /\ WF_bringVars(part = "bring_up" /\ BringUp!BootStep)
BringUpBrokenFair ==
  /\ WF_bringVars(part = "bring_broken" /\ BringUpBroken!BootStep)
OutputsFair ==
  /\ WF_outputsVars(part = "outputs" /\ Outputs!BringUp)
  /\ WF_outputsVars(part = "outputs" /\ Outputs!Turn)
  /\ WF_outputsVars(part = "outputs" /\ outputs_phase = "stopped" /\ Outputs!Reboot)
SensorLiveFair ==
  /\ WF_sensorsVars(part = "sensors_live" /\ SensorLive!Turn)
  /\ SF_sensorsVars(part = "sensors_live" /\ SensorLive!Frame)
ProbeJumpsFair ==
  /\ WF_probeVars(part = "probe_jumps" /\ ProbeJumps!Update)
LoggerCutsFair ==
  /\ WF_loggerVars(part = "logger_cuts" /\ LoggerCuts!OwnStep)
PortLiveFair ==
  /\ WF_portVars(part = "port_live" /\ PortLive!Bind)
  /\ WF_portVars(part = "port_live" /\ PortLive!TakeAll)
  /\ WF_portVars(part = "port_live" /\ PortLive!Send)
ScreenLiveFair ==
  /\ WF_displayVars(part = "display_live" /\ ScreenLive!MainTask)
MenuLiveFair ==
  /\ WF_menuVars(part = "menu_live" /\ MenuLive!Tick)
PlayingLiveFair ==
  /\ WF_playerVars(part = "player_live" /\ PlayingLive!MainTask)
  /\ WF_playerVars(part = "player_live" /\ PlayingLive!PlaybackTask)
ConditionsFair ==
  /\ WF_condVars(part = "conditions" /\ Conditions!Next)
ClipFair ==
  /\ WF_mp3Vars(part = "mp3" /\ (Clip!Search \/ Clip!Decode))
BindingsFileFair ==
  /\ WF_walkVars(part = "walk_bindings" /\ BindingsFile!Step /\ UNCHANGED doc)

EngineFair == WF_engineVars(part = "engine" /\ Engine!Tick)

(* Each part's variables have the values its code can give them.           *)
TypeOK ==
  /\ part = "kernel" => Kernel!TypeOK
  /\ part = "persist" => Persist!TypeOK
  /\ part = "persist_faults" => PersistFaults!TypeOK
  /\ part = "bring_up" => BringUp!TypeOK
  /\ part = "bring_broken" => BringUpBroken!TypeOK
  /\ part = "outputs" => Outputs!TypeOK
  /\ part = "outputs_guard" => OutputsGuard!TypeOK
  /\ part = "sensors" => Sensor!TypeOK
  /\ part = "sensors_live" => SensorLive!TypeOK
  /\ part = "probe" => Probe!TypeOK
  /\ part = "probe_jumps" => ProbeJumps!TypeOK
  /\ part = "logger" => Logger!TypeOK
  /\ part = "logger_cuts" => LoggerCuts!TypeOK
  /\ part = "logger_both" => LoggerBoth!TypeOK
  /\ part = "port" => Port!TypeOK
  /\ part = "port_live" => PortLive!TypeOK
  /\ part = "recovery" => Recovery!TypeOK
  /\ part = "recovery_faults" => RecoveryFaults!TypeOK
  /\ part = "recovery_sides" => RecoverySides!TypeOK
  /\ part = "races" => CallsAtOnce!TypeOK
  /\ part = "races_start" => StartsAtOnce!TypeOK
  /\ part = "display" => Screen!TypeOK
  /\ part = "banners" => Banners!TypeOK
  /\ part = "display_live" => ScreenLive!TypeOK
  /\ part = "menu" => Menu!TypeOK
  /\ part = "menu_live" => MenuLive!TypeOK
  /\ part = "player" => Playing!TypeOK
  /\ part = "player_live" => PlayingLive!TypeOK
  /\ part = "player_slow" => PlayingSlow!TypeOK
  /\ part = "engine" => Engine!TypeOK
  /\ part = "conditions" => Conditions!TypeOK
  /\ part = "search" => Search!TypeOK
  /\ part = "mp3" => Clip!TypeOK
  /\ part = "walk_board" => BoardFile!TypeOK
  /\ part = "walk_bindings" => BindingsFile!TypeOK
  /\ part = "walk_devices" => DevicesFile!TypeOK
(***************************************************************************)
(* ModuleManager and PersistService: what a settings write and a flush of  *)
(* two tasks leave out of flash is known not to be there, through          *)
(* restarts, a flash that is busy, a stop that takes too long and power    *)
(* cuts; and a module whose on_stop() is stuck is cut short by the         *)
(* restart, never by a panic of the hardware watchdog.                     *)
(***************************************************************************)
KernelIsSound ==
  /\ part = "kernel" => Kernel!PanicSparesStops
  /\ part = "persist" => Persist!NothingForgotten
  /\ part = "persist_faults" => PersistFaults!NothingForgotten

(***************************************************************************)
(* BUG-014: dirty keys are forced into NVS before a restart                *)
(* (persist_service.h:33): a flush leaves no newer value behind, also when *)
(* the two tasks flush at once.                                            *)
(* Broken by the code: the task that took the older value may write last.  *)
(***************************************************************************)
FlushesForgetNothing == part = "persist" => Persist!NothingForgotten

(***************************************************************************)
(* ConfigService and the boot: whatever a file holds, the walk over its    *)
(* tokens reads none past its end, keeps the rows before the one that      *)
(* breaks it, merges devices by id, and accepts only files it has read     *)
(* whole; the HAL then comes up with its outputs off and with every role   *)
(* whose hardware answers, only missing hardware stops a boot, and what a  *)
(* client was told is saved is what the next boot reads.                   *)
(***************************************************************************)
BootIsWhole ==
  /\ part = "walk_devices" =>
       /\ DevicesFile!InBounds /\ DevicesFile!RowsAreSaid
       /\ DevicesFile!RowsKept /\ DevicesFile!RuntimeWins
  /\ part = "walk_bindings" =>
       /\ BindingsFile!InBounds /\ BindingsFile!RowsAreSaid
       /\ BindingsFile!AcceptedIsWhole
  /\ part = "walk_board" => BoardFile!AcceptedIsWhole
  /\ part = "bring_up" =>
       /\ BringUp!OutputsOff /\ BringUp!RunningIsWhole /\ BringUp!NothingLost
       /\ BringUp!OnlyHardwareStops /\ BringUp!SavedIsRead /\ BringUp!DevicesMerged
  /\ part = "bring_broken" => BringUpBroken!OutputsOff /\ BringUpBroken!OnlyHardwareStops

(***************************************************************************)
(* EquipmentBase and the relay drivers: the byte of the expander is what   *)
(* each of its drivers believes of its relay, whichever of them failed to  *)
(* write and whichever initialisation was tried again; and a relay that no *)
(* role drives stays off.                                                  *)
(***************************************************************************)
OutputsAreTrue ==
  /\ part = "outputs" => Outputs!ByteIsBelief /\ Outputs!NobodysOutputIsOff
  /\ part = "outputs_guard" => OutputsGuard!ByteIsBelief /\ OutputsGuard!NobodysOutputIsOff

(***************************************************************************)
(* The sensor drivers: a role shown as good has a value no older than its  *)
(* driver's tolerance; probes of one bus never talk at once, show nothing  *)
(* but temperatures that were measured and lose one try at most to each    *)
(* preview of a scan; a ROM search finds every device, in order, unless a  *)
(* misread bit hid one or ended it; and the radar's last reading is the    *)
(* one its whole stream gives, however its bytes were cut.                 *)
(***************************************************************************)
ReadingsAreTrue ==
  /\ part = "sensors" => Sensor!GoodIsRecent
  /\ part = "probe" => Probe!OneOnTheBus /\ Probe!OnlyMeasured /\ Probe!PreviewsCostOneTry
  /\ part = "search" => Search!Ascending /\ Search!FindsAll
  /\ part = "port" => Port!ReadAtOnce /\ Port!IntactIsFound

(***************************************************************************)
(* The data logger: a download holds every record it owes, in order, the   *)
(* newest records survive the rotation of files, flash stays bounded, the  *)
(* files are freed after any download, and a power cut leaves no record    *)
(* that is read from the wrong place.                                      *)
(***************************************************************************)
LogIsWhole ==
  /\ part = "logger" =>
       /\ Logger!DownloadIsWhole /\ Logger!RetentionKept
       /\ Logger!FlashIsBounded /\ Logger!FilesAreFreed
  /\ part = "logger_cuts" =>
       /\ LoggerCuts!DownloadIsWhole /\ LoggerCuts!NothingAskew
       /\ LoggerCuts!FlashIsBounded
  /\ part = "logger_both" => LoggerBoth!DownloadIsWhole

(***************************************************************************)
(* Scenarios: the token of a run is durable at its edges and at every main *)
(* phase across power losses without wearing the flash; calls of the HTTP  *)
(* task that are serialised with the tick leave no resource with a track   *)
(* that is over and no run without what it needs; and a condition pool     *)
(* that was accepted has no cycle and means what it says.                  *)
(***************************************************************************)
RunsSurvive ==
  /\ part = "recovery" =>
       /\ Recovery!EdgesAreDurable /\ Recovery!MainPhaseIsKept
       /\ Recovery!FlashIsSpared
  /\ part = "recovery_faults" =>
       /\ RecoveryFaults!EdgesAreDurable
       /\ RecoveryFaults!MainPhaseIsKept
  /\ part = "recovery_sides" => RecoverySides!FlashIsSpared
  /\ part = "races" =>
       /\ CallsAtOnce!HeaderIsThere /\ CallsAtOnce!NothingLeaks
       /\ CallsAtOnce!ScenarioOwnsItsNeeds
  /\ part = "races_start" =>
       /\ StartsAtOnce!HeaderIsThere /\ StartsAtOnce!NothingLeaks
       /\ StartsAtOnce!ScenarioOwnsItsNeeds
  /\ part = "conditions" =>
       /\ Conditions!AcceptedIsSound /\ Conditions!StackIsBounded
       /\ Conditions!EachOnce /\ Conditions!ShallowIsExact

(***************************************************************************)
(* "Phase-scope resources released here so they don't leak"                *)
(* (instance.cpp:89): nothing stays owned by a track that is over, also    *)
(* when the HTTP task aborts the scenario in the middle of its tick.       *)
(* Broken by the code: the tick acquires the next phase's claims between   *)
(* the two steps of the abort.                                             *)
(***************************************************************************)
AbortLeaksNothing == part = "races" => CallsAtOnce!NothingLeaks

(***************************************************************************)
(* The display: through cold boots of its chip and switching off and on,   *)
(* the frame, the parameters and the banner on the glass are those the     *)
(* module believes it gave, a disabled display is dark and a press is      *)
(* handled; and the menu's cursor points at an entry, each level is left   *)
(* to the entry it was entered from, the last row is "back", and nothing   *)
(* the backend cannot do is offered.                                       *)
(***************************************************************************)
ScreenIsTrue ==
  /\ part = "display" =>
       /\ Screen!FrameIsCurrent /\ Screen!ParamsAreCurrent /\ Screen!DarkWhenDisabled
       /\ Screen!MirrorIsActive /\ Screen!SlowPressIsHandled
  /\ part = "banners" => Banners!BannerIsShown
  /\ part = "menu" =>
       /\ Menu!CursorIsOnList /\ Menu!BackLandsOnEntry
       /\ Menu!NothingHidden /\ Menu!LastIsBack

(***************************************************************************)
(* The player: whatever fails to open and whatever cuts a sound short, a   *)
(* silent task has muted the amplifier and closed its file; and the MP3    *)
(* decoder passes no sync word over, wherever its buffer ends, and shows   *)
(* helix whole frames.                                                     *)
(***************************************************************************)
SoundIsTrue ==
  /\ part = "player" => Playing!NothingLeftOpen
  /\ part = "player_live" => PlayingLive!NothingLeftOpen
  /\ part = "player_slow" => PlayingSlow!NothingLeftOpen
  /\ part = "mp3" => Clip!NoSyncIsMissed /\ Clip!FramesAreWhole

(***************************************************************************)
(* What no step may do: stop a module before what depends on it, restart   *)
(* one for what another did, lose settings in a restart, move a relay      *)
(* nobody asked to move or show what it is not, cycle a compressor too     *)
(* early or switch a relay on in safe mode, show a bounce, drop a sample   *)
(* nobody's download is in the way of, write tokens for a run that waits,  *)
(* bring a run back that is over, lose a notice for a lesser one, write an *)
(* illegal setting from the menu, cut an alarm off, or lose a Stop or a    *)
(* Play.                                                                   *)
(***************************************************************************)
DeviceSteps ==
  /\ Kernel!StopsInReverse /\ Kernel!OnlyCriticalAreRestarted
  /\ [][part = "persist" => Persist!KeptByRestart]_persistVars
  /\ Outputs!NoForeignMove /\ Outputs!ShownIsReal
  /\ [][part = "outputs_guard" => OutputsGuard!HeldLongEnough /\ OutputsGuard!NothingTurnsOn]_outputsVars
  /\ Sensor!BouncesAreHidden
  /\ Logger!LostOnlyWhileRead
  /\ Recovery!RecoveredIsQuiet /\ CallsAtOnce!OverIsOver
  /\ Banners!LosesTheLeast /\ Banners!EqualsWait
  /\ Menu!WritesLegal /\ Menu!UnknownIsKeptQuietly
  /\ Playing!AlarmStands
  /\ [][part = "player_slow" => PlayingSlow!StopIsQueued /\ PlayingSlow!PlayIsHeard]_playerVars

(***************************************************************************)
(* What the main task begins comes to its end: every walk over a file, the *)
(* boot, which reaches the loop or stops for hardware that is dead, the    *)
(* writing of a dirty setting, however often others are set, a turn of the *)
(* logger, the verdict on a condition pool, and a scenario that is ticked, *)
(* even if two wait for each other's resources.                            *)
(***************************************************************************)
MainTaskGetsThrough ==
  /\ part = "walk_bindings" => (BindingsFileFair => BindingsFile!WalkEnds)
  /\ part = "bring_up" => (BringUpFair => BringUp!BootEnds)
  /\ part = "bring_broken" => (BringUpBrokenFair => BringUpBroken!BootEnds)
  /\ part = "persist" => (PersistFair => Persist!DirtyIsFlushed)
  /\ part = "logger_cuts" => (LoggerCutsFair => LoggerCuts!MainNeverStalls)
  /\ part = "conditions" => (ConditionsFair => Conditions!Decides)
  /\ part = "engine" => (EngineFair => Engine!RunsEnd)

(***************************************************************************)
(* The drivers follow what they drive: a sensor that works is shown as     *)
(* good and one that has failed as bad, a probe's reading is its           *)
(* temperature in the end, all the radar says is read, and safe mode       *)
(* switches every relay off.                                               *)
(***************************************************************************)
DriversFollow ==
  /\ part = "sensors_live" =>
       (SensorLiveFair =>
          SensorLive!WorkingIsGood /\ SensorLive!FailedIsBad)
  /\ part = "probe_jumps" => (ProbeJumpsFair => ProbeJumps!FollowsTheProbe)
  /\ part = "port_live" => (PortLiveFair => PortLive!AllIsRead)
  /\ part = "outputs" => (OutputsFair => Outputs!SafeModeReaches)

(***************************************************************************)
(* The screen and the speaker come to rest: a limited banner leaves, a     *)
(* recovery of the chip ends and the rail obeys the power switch, a menu   *)
(* left alone returns to the main screen, a player switched off falls      *)
(* silent and every sound and clip ends.                                   *)
(***************************************************************************)
PanelAndSound ==
  /\ part = "display_live" =>
       (ScreenLiveFair =>
          ScreenLive!LimitedExpires /\ ScreenLive!RecoveryIsFinite /\ ScreenLive!RailObeysPower)
  /\ part = "menu_live" => (MenuLiveFair => MenuLive!ReturnsToMain)
  /\ part = "player_live" =>
       (PlayingLiveFair =>
          PlayingLive!OffIsSilent /\ PlayingLive!EverySoundEnds)
  /\ part = "mp3" => (ClipFair => Clip!EveryClipEnds)
==============================================================================
