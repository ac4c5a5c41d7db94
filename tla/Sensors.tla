------------------------------- MODULE Sensors -------------------------------
(***************************************************************************)
(* A sensor from the wire to the shared state: the drivers for an NTC on   *)
(* the ADC, a contact on a GPIO pin, a contact on an expander and a        *)
(* Bluetooth beacon, and EquipmentBase, which reads, filters and publishes *)
(* the value and its health once per turn.                                 *)
(*                                                                         *)
(* Values are 0 .. 4: a contact is 0 or 4, a temperature 2 or 4, and 0 is  *)
(* what everything is initialised to.  The filter is a float; the model    *)
(* keeps of it that every turn takes it some way towards the reading.      *)
(* One step of time is one turn; the intervals are in turns.               *)
(***************************************************************************)
EXTENDS Integers, Sequences, SequencesExt

CONSTANTS
    Kinds,
    ReadInterval,            \* read_interval_ms, POLL_INTERVAL_MS
    MAX_CONSECUTIVE_ERRORS,
    ErrorMax,                \* where the NTC's counter saturates (255 in the code)
    Debounce,                \* DEBOUNCE_MS
    Stale,                   \* stale_ms
    Alternating              \* whether a beacon's frames alternate their fields (BTHome)

SensorsAssumption ==
    /\ Kinds \subseteq {"ntc", "digital_input", "pcf8574_input", "ble_xiaomi_th", "ble_nrf_tilt"}
    /\ {ReadInterval, MAX_CONSECUTIVE_ERRORS, Debounce, Stale} \subseteq Nat \ {0}
    /\ ErrorMax \in Nat /\ ErrorMax >= MAX_CONSECUTIVE_ERRORS
    /\ Alternating \in BOOLEAN

VARIABLES
    kind, line, fault,       \* the sensor, what it measures, and what is wrong with it
    drv,                     \* the driver
    ema,                     \* ema_value, ema_init
    pub,                     \* the keys <module>.<role> and <module>.<role>_ok
    at,                      \* whose turn it is: the driver manager's or the module's
    age, samples             \* turns since data last came in; the last samples of the pin

vars == <<kind, line, fault, drv, ema, pub, at, age, samples>>

Beacons == {"ble_xiaomi_th", "ble_nrf_tilt"}
Binary(k) == k \in {"digital_input", "pcf8574_input"}
Values(k) == IF Binary(k) THEN {0, 4} ELSE {2, 4}
Faults(k) == CASE k = "ntc" -> {"none", "error", "rail"}
               [] k = "digital_input" -> {"none"}
               [] OTHER -> {"none", "error"}

\* The longest time for which data may be old and still be called healthy.
Bound == IF kind \in Beacons THEN Stale ELSE ReadInterval * (MAX_CONSECUTIVE_ERRORS + 1)
Window == Debounce + 1

Least(a, b) == IF a < b THEN a ELSE b

\* The drivers as init() leaves them.
NtcInit == [value |-> 0, raw |-> 0, stable |-> 0,
            has_valid |-> FALSE, errors |-> 0, since |-> 0, last |-> Stale]
Pcf8574InputInit == [NtcInit EXCEPT !.has_valid = TRUE]
DigitalInputInit(level) ==
    [Pcf8574InputInit EXCEPT !.value = level, !.raw = level, !.stable = Debounce]
BeaconInit == NtcInit

Init ==
    /\ kind \in Kinds /\ line \in Values(kind) /\ fault \in Faults(kind)
    /\ drv = CASE kind = "ntc" -> NtcInit
               [] kind = "pcf8574_input" -> Pcf8574InputInit
               [] kind = "digital_input" -> DigitalInputInit(line)
               [] OTHER -> BeaconInit
    /\ ema = [value |-> 0, init |-> FALSE]
    /\ pub = [value |-> 0, type |-> "float", ok |-> "none"]
    /\ at = "drivers" /\ age = 0 /\ samples = <<>>

-----------------------------------------------------------------------------
(* The world outside. *)

World ==
    /\ \/ \E v \in Values(kind): line' = v /\ UNCHANGED fault
       \/ \E f \in Faults(kind): fault' = f /\ UNCHANGED line
    /\ UNCHANGED <<kind, drv, ema, pub, at, age, samples>>

Heard(k, d) ==
    /\ kind = k /\ fault = "none" /\ drv' = d
    /\ UNCHANGED <<kind, line, fault, ema, pub, at, samples>>

\* A decoder, on the NimBLE host task, writes the fields of a frame into the
\* cache, and the time of the frame, which is one for all fields.
XiaomiFrame == /\ Heard("ble_xiaomi_th", [drv EXCEPT !.value = line, !.has_valid = TRUE, !.last = 0])
               /\ age' = 0
TiltFrame == /\ Heard("ble_nrf_tilt", [drv EXCEPT !.value = line, !.has_valid = TRUE, !.last = 0])
             /\ age' = 0

\* A BTHome frame with the other fields only.
OtherFrame == /\ Alternating /\ Heard("ble_xiaomi_th", [drv EXCEPT !.last = 0])
              /\ UNCHANGED age

Frame == XiaomiFrame \/ TiltFrame

-----------------------------------------------------------------------------
(* The drivers' update(). *)

Old(a) == Least(a + 1, Bound + 1)

UpdateTail == /\ at = "drivers" /\ at' = "module"
              /\ UNCHANGED <<kind, line, fault, ema, pub>>

CountUnreset(d) == [d EXCEPT !.since = 0, !.value = line, !.has_valid = TRUE]
Good(d) == [d EXCEPT !.since = 0, !.value = line, !.has_valid = TRUE, !.errors = 0]
Bad(d, max) == [d EXCEPT !.since = 0, !.errors = Least(@ + 1, max)]

\* A driver that reads once per interval; max is where its error count stops.
Poll(max) ==
    /\ UpdateTail
    /\ drv' = CASE drv.since + 1 < ReadInterval -> [drv EXCEPT !.since = @ + 1]
                [] drv.since + 1 >= ReadInterval /\ fault = "none" -> Good(drv)
                [] OTHER -> Bad(drv, max)
    /\ age' = IF drv.since + 1 >= ReadInterval /\ fault = "none" THEN 0 ELSE Old(age)
    /\ UNCHANGED samples

NtcUpdate == kind = "ntc" /\ Poll(ErrorMax)
Pcf8574InputUpdate == kind = "pcf8574_input" /\ Poll(MAX_CONSECUTIVE_ERRORS)

\* A pin's level counts once it has been the same for Debounce.
DebounceStep(d) ==
    LET stable == Least(d.stable + 1, Debounce)
    IN  IF line = d.raw
        THEN [d EXCEPT !.stable = stable, !.value = IF stable >= Debounce THEN line ELSE @]
        ELSE [d EXCEPT !.raw = line, !.stable = 0]

DigitalInputUpdate ==
    /\ kind = "digital_input" /\ UpdateTail
    /\ drv' = DebounceStep(drv) /\ age' = 0
    /\ samples' = IF Len(samples) = Window THEN Append(Tail(samples), line) ELSE Append(samples, line)

\* A beacon's driver has nothing to do; its cache only grows older.  A working
\* beacon is heard before its last frame goes stale.
BeaconUpdate ==
    /\ kind \in Beacons /\ UpdateTail
    /\ fault = "none" => drv.last + 1 < Stale
    /\ drv' = [drv EXCEPT !.last = Least(@ + 1, Stale)]
    /\ age' = Old(age)
    /\ UNCHANGED samples

-----------------------------------------------------------------------------
(* EquipmentBase::read_all_sensors. *)

FewErrors == drv.errors < MAX_CONSECUTIVE_ERRORS
Fresh == drv.last < Stale
is_healthy == IF kind \in Beacons THEN Fresh ELSE FewErrors
ReadSucceeds == drv.has_valid /\ (kind \in Beacons => Fresh)

\* The filter's next value: the reading itself at first, then some way nearer.
Filtered(reading) ==
    IF ~ema.init \/ ema.value = reading THEN {reading}
    ELSE IF ema.value < reading THEN (ema.value + 1) .. reading ELSE reading .. (ema.value - 1)

read_sensor_value ==
    IF ReadSucceeds
    THEN \E v \in Filtered(drv.value): ema' = [value |-> v, init |-> TRUE]
    ELSE UNCHANGED ema

read_all_sensors ==
    /\ at = "module" /\ at' = "drivers"
    /\ IF kind = "digital_input"
       THEN pub' = [pub EXCEPT !.value = drv.value, !.type = "bool"] /\ UNCHANGED ema
       ELSE /\ read_sensor_value
            /\ pub' = [value |-> ema'.value, type |-> "float",
                       ok |-> IF is_healthy THEN "good" ELSE "bad"]
    /\ UNCHANGED <<kind, line, fault, drv, age, samples>>

Turn == NtcUpdate \/ Pcf8574InputUpdate \/ DigitalInputUpdate \/ BeaconUpdate \/ read_all_sensors
Next == World \/ Frame \/ OtherFrame \/ Turn

Fairness == WF_vars(Turn) /\ SF_vars(Frame)
Spec == Init /\ [][Next]_vars /\ Fairness

-----------------------------------------------------------------------------
(* Properties. *)

\* The types of the state.
TypeOK ==
    /\ kind \in Kinds /\ line \in Values(kind) /\ fault \in Faults(kind)
    /\ drv \in [value: 0 .. 4, raw: 0 .. 4, stable: 0 .. Debounce, has_valid: BOOLEAN,
                errors: 0 .. ErrorMax, since: 0 .. ReadInterval, last: 0 .. Stale]
    /\ ema \in [value: 0 .. 4, init: BOOLEAN]
    /\ pub \in [value: 0 .. 4, type: {"bool", "float"}, ok: {"good", "bad", "none"}]
    /\ at \in {"drivers", "module"} /\ age \in 0 .. Bound + 1 /\ Len(samples) <= Window

\* A value shown as good comes from data no older than the errors or the
\* staleness the driver lets pass; before the first data, age counts from boot.
GoodIsRecent == pub.ok = "good" /\ at = "drivers" => age <= Bound

\* A sensor that works again is shown as good again, for good: error counts
\* neither stick nor wrap.
WorkingIsGood ==
    (kind # "digital_input" /\ <>[](fault = "none")) => <>[](pub.ok = "good")

\* A sensor that has failed for good ends up shown as bad, and stays so.
FailedIsBad == <>[](fault # "none") => <>[](pub.ok = "bad")

\* A contact's published value changes only to a level that every sample of the
\* debounce window has shown.
BouncesAreHidden ==
    [][kind = "digital_input" /\ pub.type = "bool" /\ pub'.value # pub.value =>
        Len(samples) = Window /\ ToSet(samples) = {pub'.value}]_vars

\* pcf8574_input.md: a contact is published as a Boolean, the contact's state.
\* Broken by the code: an expander's contact is published as a filtered
\* number, since only the type digital_input takes the Boolean branch.
ContactsAreBoolean == Binary(kind) /\ at = "drivers" /\ pub.type = "float" => ~ema.init

\* bindings.md: each sensor has a health key beside its value.
HealthIsShown == at = "drivers" /\ pub.type = "bool" => pub.ok # "none"

\* equipment_base.h: a sensor that is not healthy reads as 0.
\* Broken by the code: an unhealthy sensor goes on reading as its last
\* filtered value.
UnhealthyReadsZero == pub.ok = "bad" => pub.value = 0
=============================================================================
