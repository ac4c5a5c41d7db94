--------------------------- MODULE ModuleManager ---------------------------
(***************************************************************************)
(* The modules of the firmware and who runs them: module_manager.cpp of    *)
(* components/modesp_core, the watchdog and the error service of           *)
(* components/modesp_services, the boot phases and the loop of             *)
(* main/main.cpp, and the stop that the HTTP task asks for before it       *)
(* restarts the device (http_service.cpp).                                 *)
(*                                                                         *)
(* A module is what the manager sees of it: its state, when it was last    *)
(* updated, how long its callbacks take and whether its on_init succeeds.  *)
(* The clock counts modulo CLOCK_RANGE, like the 32-bit milliseconds of    *)
(* the code, and passes while a callback runs or between two turns.        *)
(***************************************************************************)
EXTENDS Naturals, Sequences, SequencesExt, FiniteSets

CONSTANTS
  Registered,           \* per boot phase, the modules in order of registration
  Priority,             \* of each module, 0 (CRITICAL) to 3 (LOW)
  Timeout,              \* of each priority
  Watchdog, ErrorService, Http,
  MAX_RESTARTS, CHECK_INTERVAL,
  WDT_TIMEOUT,          \* of the hardware watchdog
  STOP_WAIT, RESTART_TAIL,
  SLACK,                \* at most, the wait for the next period and the drivers' update
  UpdateTime, StopTime, \* what on_update and on_stop of a module may take
  MayFail,              \* modules whose on_init may fail
  Subscribed,           \* was the main task added to the hardware watchdog?
  StartsAtZero,         \* may a turn start just when the clock reads 0?
  CLOCK_RANGE           \* 2^32 ms in the code

Module == UNION {Range(Registered[p]) : p \in DOMAIN Registered}

ManagerAssumption ==
  /\ \A p \in 1..3 : Registered[p] \in Seq(Module)
  /\ Priority \in [Module -> 0..3] /\ Timeout \in [0..3 -> Nat]
  /\ {Watchdog, ErrorService, Http} \subseteq Module /\ MayFail \subseteq Module
  /\ \A p \in 0..3 : 2 * Timeout[p] < CLOCK_RANGE
  /\ {STOP_WAIT, RESTART_TAIL, SLACK, WDT_TIMEOUT} \subseteq Nat
  /\ STOP_WAIT + RESTART_TAIL + SLACK < WDT_TIMEOUT  \* the code's static_assert, without slack

VARIABLES
  phase,           \* of the boot; 4 in the main loop
  modules,         \* the manager's list
  state, last_update_ms,
  at, pos,         \* where the main task is, and at which module
  clock, turn_start,
  since_reset,     \* time since the hardware watchdog was reset
  uptime, elapsed, \* of the watchdog service
  check,           \* the watchdog's walk: the clock when it began, and its place
  restarts, reported,
  stop_requested, stop_done,
  asked,           \* time since the HTTP task asked for the stop
  safe_mode, safe_mode_key  \* the latch, and what the shared state shows

dogs  == <<uptime, elapsed, check, restarts, reported>>
safe  == <<safe_mode, safe_mode_key>>
time  == <<clock, since_reset, asked>>
vars  == <<phase, modules, state, last_update_ms, at, pos, turn_start, time, dogs,
           stop_requested, stop_done, safe>>

Largest(s) == CHOOSE x \in s : \A y \in s : y <= x
Least(a, b) == IF a < b THEN a ELSE b
UptimeCap == Largest({Timeout[p] : p \in 0..3})   \* nothing looks beyond
NoCheck == [now |-> 0, pos |-> 0]

TypeOK ==
  /\ phase \in 1..4 /\ modules \in Seq(Module) /\ IsInjective(modules)
  /\ state \in [Module -> {"created", "initialized", "running", "stopped", "error"}]
  /\ last_update_ms \in [Module -> 0..(CLOCK_RANGE - 1)]
  /\ at \in {"register", "init", "start", "idle", "turn", "check", "stop"}
  /\ pos \in 0..(Cardinality(Module) + 1)
  /\ clock \in 0..(CLOCK_RANGE - 1) /\ turn_start \in 0..(CLOCK_RANGE - 1)
  /\ since_reset \in 0..CLOCK_RANGE /\ asked \in 0..(STOP_WAIT + RESTART_TAIL)
  /\ uptime \in 0..UptimeCap /\ elapsed \in 0..CHECK_INTERVAL
  /\ check \in [now : 0..(CLOCK_RANGE - 1), pos : 0..(Cardinality(Module) + 1)]
  /\ restarts \in [Module -> 0..MAX_RESTARTS] /\ reported \in [Module -> BOOLEAN]
  /\ {stop_requested, stop_done, safe_mode, safe_mode_key} \subseteq BOOLEAN

Init ==
  /\ phase = 1 /\ modules = <<>> /\ at = "register" /\ pos = 0
  /\ state = [m \in Module |-> "created"]
  /\ last_update_ms = [m \in Module |-> 0]
  /\ clock = 1 /\ turn_start = 0 /\ since_reset = 0 /\ asked = 0
  /\ uptime = 0 /\ elapsed = 0 /\ check = NoCheck
  /\ restarts = [m \in Module |-> 0] /\ reported = [m \in Module |-> FALSE]
  /\ stop_requested = FALSE /\ stop_done = FALSE
  /\ safe_mode = FALSE /\ safe_mode_key = FALSE

Reboot ==
  /\ phase' = 1 /\ modules' = <<>> /\ at' = "register" /\ pos' = 0
  /\ state' = [m \in Module |-> "created"]
  /\ last_update_ms' = [m \in Module |-> 0]
  /\ clock' = 1 /\ turn_start' = 0 /\ since_reset' = 0 /\ asked' = 0
  /\ uptime' = 0 /\ elapsed' = 0 /\ check' = NoCheck
  /\ restarts' = [m \in Module |-> 0] /\ reported' = [m \in Module |-> FALSE]
  /\ stop_requested' = FALSE /\ stop_done' = FALSE
  /\ safe_mode' = FALSE /\ safe_mode_key' = FALSE

(***************************************************************************)
(* Time passes.  The hardware watchdog ends it with a panic, and a task    *)
(* that has waited long enough for a stop with a restart.                  *)
(***************************************************************************)
Deadline == STOP_WAIT + RESTART_TAIL

Spend(t) ==
  /\ t \in Nat
  /\ Subscribed /\ phase = 4 => since_reset + t < WDT_TIMEOUT
  /\ stop_requested => asked + t <= Deadline
  /\ clock' = (clock + t) % CLOCK_RANGE
  /\ since_reset' = IF phase = 4 /\ Subscribed THEN since_reset + t ELSE 0
  /\ asked' = IF stop_requested THEN asked + t ELSE 0

Same == UNCHANGED <<phase, modules>>

(***************************************************************************)
(* Boot: three times, register some modules and init_all.                  *)
(***************************************************************************)
Swap(s, i, j) == [s EXCEPT ![i] = s[j], ![j] = s[i]]
Pairs(n) == SelectSeq([k \in 1..(n * n) |-> <<((k - 1) \div n) + 1, ((k - 1) % n) + 1>>],
                      LAMBDA p : p[1] < p[2])

Ordered(s, i, j) == IF Priority[s[j]] < Priority[s[i]] THEN Swap(s, i, j) ELSE s
sort_by_priority(s) ==
  LET p == Pairs(Len(s))
      after[n \in 0..Len(p)] == IF n = 0 THEN s ELSE Ordered(after[n - 1], p[n][1], p[n][2])
  IN  after[Len(p)]

RegisterPhase ==
  /\ at = "register"
  /\ modules' = sort_by_priority(modules \o Registered[phase])
  /\ at' = "init" /\ pos' = 1
  /\ UNCHANGED <<phase, state, last_update_ms, turn_start, time, dogs, stop_requested,
                 stop_done, safe>>

(* on_init() of the error service shows that there is no safe mode.        *)
ShownAfterInit(m) == IF m = ErrorService THEN FALSE ELSE safe_mode_key
InitOutcome(m) == IF m \in MayFail THEN {"initialized", "error"} ELSE {"initialized"}

InitModule ==
  /\ at = "init" /\ pos <= Len(modules)
  /\ LET m == modules[pos] IN
     IF state[m] = "created"
       THEN /\ \E s \in InitOutcome(m) : state' = [state EXCEPT ![m] = s]
            /\ safe_mode_key' = ShownAfterInit(m)
       ELSE UNCHANGED <<state, safe_mode_key>>
  /\ pos' = pos + 1
  /\ Same /\ UNCHANGED <<last_update_ms, at, turn_start, time, dogs, stop_requested,
                         stop_done, safe_mode>>

(* main.cpp goes on whatever init_all() returned.                          *)
StartModules ==
  /\ at = "init" /\ pos > Len(modules)
  /\ state' = [m \in Module |-> IF state[m] = "initialized" THEN "running" ELSE state[m]]
  /\ phase' = phase + 1 /\ pos' = 0
  /\ at' = IF phase = 3 THEN "idle" ELSE "register"
  /\ UNCHANGED <<modules, last_update_ms, turn_start, time, dogs, stop_requested,
                 stop_done, safe>>

(***************************************************************************)
(* A turn of the main loop: the drivers, update_all(), the hardware        *)
(* watchdog, and the wait for the next period, which is left out while the *)
(* loop catches up.                                                        *)
(***************************************************************************)
BeginTurn ==
  /\ at = "idle" /\ ~stop_requested
  /\ at' = "turn" /\ pos' = 1 /\ turn_start' = clock
  /\ Same /\ UNCHANGED <<state, last_update_ms, time, dogs, stop_requested, stop_done, safe>>

Current == modules[pos]
Updated(m) == last_update_ms' = [last_update_ms EXCEPT ![m] = turn_start]

SkipModule ==
  /\ at = "turn" /\ pos <= Len(modules) /\ state[Current] # "running"
  /\ pos' = pos + 1
  /\ Same /\ UNCHANGED <<state, last_update_ms, at, turn_start, time, dogs, stop_requested,
                         stop_done, safe>>

(* report() of the error service, with FATAL or with anything less.        *)
Report ==
  \/ UNCHANGED safe
  \/ ~safe_mode /\ safe_mode' = TRUE /\ safe_mode_key' = TRUE

(* A module may report an error on the way.                                *)
UpdateModule ==
  /\ at = "turn" /\ pos <= Len(modules)
  /\ state[Current] = "running" /\ Current # Watchdog
  /\ \E t \in UpdateTime[Current] : Spend(t)
  /\ Report
  /\ Updated(Current)
  /\ pos' = pos + 1
  /\ Same /\ UNCHANGED <<state, at, turn_start, dogs, stop_requested, stop_done>>

EndTurn ==
  /\ at = "turn" /\ pos > Len(modules)
  /\ at' = "idle" /\ pos' = 0
  /\ \E t \in 0..SLACK :
       /\ StartsAtZero \/ (clock + t) % CLOCK_RANGE # 0
       /\ stop_requested => asked + t <= Deadline
       /\ clock' = (clock + t) % CLOCK_RANGE
       /\ since_reset' = IF Subscribed THEN t ELSE 0
       /\ asked' = IF stop_requested THEN asked + t ELSE 0
  /\ Same /\ UNCHANGED <<state, last_update_ms, turn_start, dogs, stop_requested, stop_done, safe>>

(* A callback that takes longer than the hardware watchdog allows.         *)
Callback ==
  CASE at = "turn" /\ pos <= Len(modules) /\ state[Current] = "running" -> UpdateTime[Current]
    [] at = "stop" /\ pos > 0 /\ state[Current] = "running" -> StopTime[Current]
    [] OTHER -> {}

Panic ==
  /\ Subscribed /\ phase = 4
  /\ \E t \in Callback : since_reset + t >= WDT_TIMEOUT
  /\ stop_requested => WDT_TIMEOUT - since_reset <= Deadline - asked
  /\ Reboot

(***************************************************************************)
(* The watchdog service.                                                   *)
(***************************************************************************)
WatchdogUpdate ==
  /\ at = "turn" /\ pos <= Len(modules)
  /\ Current = Watchdog /\ state[Watchdog] = "running"
  /\ uptime' = Least(uptime + 1, UptimeCap)
  /\ IF elapsed + 1 < CHECK_INTERVAL
       THEN /\ elapsed' = elapsed + 1
            /\ Updated(Watchdog)
            /\ pos' = pos + 1
            /\ UNCHANGED <<at, check>>
       ELSE /\ elapsed' = 0
            /\ at' = "check" /\ check' = [now |-> clock, pos |-> 1]
            /\ UNCHANGED <<pos, last_update_ms>>
  /\ Same /\ UNCHANGED <<state, turn_start, time, restarts, reported, stop_requested,
                         stop_done, safe>>

Late(m) ==
  LET timeout == Timeout[Priority[m]]  last == last_update_ms[m] IN
  /\ state[m] = "running" /\ m # Watchdog
  /\ IF last = 0 THEN uptime >= timeout
                 ELSE (check.now + CLOCK_RANGE - last) % CLOCK_RANGE >= timeout

Checked == modules[check.pos]

CheckPasses ==
  /\ at = "check" /\ check.pos <= Len(modules) /\ ~Late(Checked)
  /\ check' = [check EXCEPT !.pos = @ + 1]
  /\ Same /\ UNCHANGED <<state, last_update_ms, at, pos, turn_start, time, uptime, elapsed,
                         restarts, reported, stop_requested, stop_done, safe>>

(* restart_module(): one that fails is in error, where nothing looks at it *)
(* again.                                                                  *)
RestartModule ==
  /\ at = "check" /\ check.pos <= Len(modules) /\ Late(Checked)
  /\ restarts[Checked] < MAX_RESTARTS
  /\ restarts' = [restarts EXCEPT ![Checked] = @ + 1]
  /\ \E s \in InitOutcome(Checked) :
       /\ state' = [state EXCEPT ![Checked] = IF s = "error" THEN s ELSE "running"]
       /\ last_update_ms' = IF s = "error" THEN last_update_ms
                            ELSE [last_update_ms EXCEPT ![Checked] = clock]
  /\ safe_mode_key' = ShownAfterInit(Checked)
  /\ check' = [check EXCEPT !.pos = @ + 1]
  /\ Same /\ UNCHANGED <<at, pos, turn_start, time, uptime, elapsed, reported,
                         stop_requested, stop_done, safe_mode>>

(* Out of restarts: the module is reported once and left as it is.         *)
GiveUp ==
  /\ at = "check" /\ check.pos <= Len(modules) /\ Late(Checked)
  /\ restarts[Checked] = MAX_RESTARTS
  /\ reported' = [reported EXCEPT ![Checked] = TRUE]
  /\ check' = [check EXCEPT !.pos = @ + 1]
  /\ Same /\ UNCHANGED <<state, last_update_ms, at, pos, turn_start, time, uptime, elapsed,
                         restarts, stop_requested, stop_done, safe>>

EndCheck ==
  /\ at = "check" /\ check.pos > Len(modules)
  /\ Updated(Watchdog)
  /\ at' = "turn" /\ pos' = pos + 1 /\ check' = NoCheck
  /\ Same /\ UNCHANGED <<state, turn_start, time, uptime, elapsed, restarts, reported,
                         stop_requested, stop_done, safe>>

(***************************************************************************)
(* The stop.  The HTTP task asks, any time after its server was started;   *)
(* update_all() stops the modules in place of a turn.                      *)
(***************************************************************************)
RequestStop ==
  /\ state[Http] \in {"initialized", "running"} /\ ~stop_requested
  /\ stop_requested' = TRUE
  /\ Same /\ UNCHANGED <<state, last_update_ms, at, pos, turn_start, time, dogs, stop_done, safe>>

BeginStop ==
  /\ at = "idle" /\ stop_requested /\ ~stop_done
  /\ at' = "stop" /\ pos' = Len(modules)
  /\ Same /\ UNCHANGED <<state, last_update_ms, turn_start, time, dogs, stop_requested,
                         stop_done, safe>>

StopModule ==
  /\ at = "stop" /\ pos > 0
  /\ IF state[Current] = "running"
       THEN /\ \E t \in StopTime[Current] : Spend(t)
            /\ state' = [state EXCEPT ![Current] = "stopped"]
       ELSE UNCHANGED <<state, time>>
  /\ pos' = pos - 1
  /\ Same /\ UNCHANGED <<last_update_ms, at, turn_start, dogs, stop_requested, stop_done, safe>>

EndStop ==
  /\ at = "stop" /\ pos = 0
  /\ stop_done' = TRUE /\ at' = "idle"
  /\ since_reset' = 0
  /\ Same /\ UNCHANGED <<state, last_update_ms, pos, turn_start, clock, asked, dogs,
                         stop_requested, safe>>

(* The HTTP task restarts the device when the stop is done, or is not done *)
(* in time.                                                                *)
Stuck == asked >= STOP_WAIT \/ \E t \in Callback : asked + t > STOP_WAIT

Restart == stop_requested /\ (stop_done \/ Stuck) /\ Reboot

MainStep ==
  \/ RegisterPhase \/ InitModule \/ StartModules
  \/ BeginTurn \/ SkipModule \/ UpdateModule \/ WatchdogUpdate \/ EndTurn
  \/ CheckPasses \/ RestartModule \/ GiveUp \/ EndCheck
  \/ BeginStop \/ StopModule \/ EndStop

Next == MainStep \/ Panic \/ RequestStop \/ Restart

Spec == Init /\ [][Next]_vars

-----------------------------------------------------------------------------
Restarted(m) == restarts'[m] > restarts[m]

(***************************************************************************)
(* The modules are stopped from LOW to CRITICAL: what a module depends on  *)
(* outlives it, whatever order the phases registered them in.              *)
(***************************************************************************)
StopsInReverse ==
  [][\A m \in Module : state[m] = "running" /\ state'[m] = "stopped" =>
       \A n \in Module : state[n] = "running" => Priority[n] <= Priority[m]]_vars

(***************************************************************************)
(* While the hardware watchdog guards the main task, no turn takes longer  *)
(* than it allows, so that only CRITICAL modules, whose software timeout   *)
(* is as short, can be found late: a HIGH, NORMAL or LOW one is never      *)
(* restarted for what another module did.                                  *)
(***************************************************************************)
OnlyCriticalAreRestarted ==
  [][\A m \in Module : Restarted(m) => Priority[m] = 0]_vars

(***************************************************************************)
(* http_service.cpp:945-948: an on_stop() that is stuck is cut short by    *)
(* the restart, never by a panic of the hardware watchdog.                 *)
(***************************************************************************)
PanicSparesStops ==
  at = "stop" /\ Subscribed => since_reset + (Deadline - asked) < WDT_TIMEOUT

(***************************************************************************)
(* watchdog_service.cpp:47, "we skip ourselves and ErrorService": the      *)
(* latch of the safe mode is what the shared state shows.                  *)
(***************************************************************************)
\* Broken by the code: the watchdog restarts the error service, whose on_init
\* shows that there is no safe mode while the latch is set.
SafeModeIsShown == phase = 4 => safe_mode = safe_mode_key

(***************************************************************************)
(* watchdog_service.h:8-11: a module is given up after MAX_RESTARTS        *)
(* attempts, and not before.                                               *)
(***************************************************************************)
\* Broken by the code: a module whose first restart fails is never tried or
\* reported again.
GivenUpAfterAll ==
  \A m \in Module : state[m] = "error" /\ restarts[m] > 0 => restarts[m] = MAX_RESTARTS

(***************************************************************************)
(* architecture.md:124: within a phase the order is that of registration.  *)
(***************************************************************************)
\* Broken by the code: the exchange sort turns two modules of one priority
\* round.
RegistrationOrder ==
  phase = 4 => \A p \in 1..3 : \A i, j \in DOMAIN Registered[p] : \A k, l \in DOMAIN modules :
    i < j /\ Priority[Registered[p][i]] = Priority[Registered[p][j]]
      /\ modules[k] = Registered[p][i] /\ modules[l] = Registered[p][j] => k < l

(***************************************************************************)
(* watchdog_service.cpp:57: a module that no callback has delayed is not   *)
(* restarted.                                                              *)
(***************************************************************************)
\* Broken by the code: a turn that starts just when the clock reads zero
\* makes every module look as if it had never been updated.
HealthyAreLeftAlone ==
  [][\A m \in Module : Restarted(m) => \E n \in Module : UpdateTime[n] # {0}]_vars
=============================================================================
