------------------------------- MODULE Ds18b20 -------------------------------
(***************************************************************************)
(* One DS18B20 driver on the main task and the bus scan of the HTTP task   *)
(* on the same OneWire bus, with the mutex between them: the driver starts *)
(* a conversion every Interval and reads the scratchpad Conversion later,  *)
(* waiting for the bus at most WaitConvert and WaitRead; the scan's        *)
(* preview of each device holds the bus for Hold.  A try that gets no bus, *)
(* no presence pulse or a bad scratchpad counts as an error.               *)
(*                                                                         *)
(* One step of time is a turn of the main loop, in units of 100 ms; a wait *)
(* stops the main loop, and its time arrives with the next turn.           *)
(***************************************************************************)
EXTENDS Integers

CONSTANTS
    Interval, Conversion, Hold, WaitConvert, WaitRead,
    MAX_CONSECUTIVE_ERRORS,
    Temps,               \* what the probe may measure
    PowerOn,             \* the scratchpad after power-on, +85 degrees
    TimePerDegree,       \* 1 / MAX_RATE_PER_SEC
    LongAgo,             \* where the time since the last valid reading is cut off
    Devices,             \* previews in one scan
    MaxGlitches          \* power glitches and bad transfers of the probe

Ds18b20Assumption ==
    /\ {Interval, Conversion, Hold, MAX_CONSECUTIVE_ERRORS, LongAgo} \subseteq Nat \ {0}
    /\ {WaitConvert, WaitRead, TimePerDegree, Devices, MaxGlitches} \subseteq Nat
    /\ Temps \subseteq Int /\ PowerOn \in Int \ Temps

VARIABLES
    probe, scratch, glitches,    \* the probe's temperature, its scratchpad, what went wrong so far
    converting, since, elapsed,  \* conversion_started_, ms_since_read_, time since last_valid_reading_ms_
    current, valid, errors,      \* current_temp_, has_valid_reading_, consecutive_errors_
    left, previews,              \* for how long the scan still holds the bus, and how often it will
    collided                     \* two tasks have driven the bus at once

vars == <<probe, scratch, glitches, converting, since, elapsed, current, valid, errors,
          left, previews, collided>>

Init ==
    /\ probe \in Temps /\ scratch = PowerOn /\ glitches = 0
    /\ converting = FALSE /\ since = 0 /\ elapsed = 0
    /\ current = 0 /\ valid = FALSE /\ errors = 0
    /\ left = 0 /\ previews = Devices /\ collided = FALSE

Less(t, d) == IF t > d THEN t - d ELSE 0
Distance(a, b) == IF a < b THEN b - a ELSE a - b
Later(d) == IF elapsed + d < LongAgo THEN elapsed + d ELSE LongAgo

-----------------------------------------------------------------------------
(* The probe, and the HTTP task. *)

Warm == /\ \E t \in Temps: probe' = t
        /\ UNCHANGED <<scratch, glitches, converting, since, elapsed, current, valid, errors,
                       left, previews, collided>>

PowerGlitch ==
    /\ glitches < MaxGlitches /\ glitches' = glitches + 1
    /\ scratch' = PowerOn
    /\ UNCHANGED <<probe, converting, since, elapsed, current, valid, errors,
                   left, previews, collided>>

\* read_temp_by_address: a conversion of its own, holding the mutex throughout.
Preview ==
    /\ left = 0 /\ previews > 0
    /\ left' = Hold /\ previews' = previews - 1
    /\ scratch' \in {scratch, probe}
    /\ UNCHANGED <<probe, glitches, converting, since, elapsed, current, valid, errors, collided>>

-----------------------------------------------------------------------------
(* DS18B20Driver::update on the main task. *)

\* What a wait for the bus comes to: whether it was got, and the time it took.
Take(held, patience) ==
    IF held <= patience THEN [got |-> TRUE, waited |-> held]
    ELSE [got |-> FALSE, waited |-> patience]

\* Whether a probe answers the reset, and whether its scratchpad comes over the
\* wire whole; the bits and their timing are left out.
Outcomes == IF glitches < MaxGlitches THEN BOOLEAN ELSE {TRUE}
onewire_reset == Outcomes
read_scratchpad == Outcomes

note_error(n) == IF n < MAX_CONSECUTIVE_ERRORS THEN n + 1 ELSE n

ReadableScratch(t) == t # PowerOn

\* validate_reading: no faster than MAX_RATE_PER_SEC since the last valid one.
validate_reading(t) == valid => Distance(t, current) * TimePerDegree <= Later(1)

Idle ==
    /\ since + 1 < Interval + (IF converting THEN Conversion ELSE 0)
    /\ since' = since + 1 /\ elapsed' = Later(1) /\ left' = Less(left, 1)
    /\ UNCHANGED <<probe, scratch, glitches, converting, current, valid, errors,
                   previews, collided>>

\* The time a wait took reaches the counters with the next turn's dt.
Waited(take, base) ==
    /\ since' = base + take.waited
    /\ left' = Less(left, 1 + take.waited)
    /\ collided' = (collided \/ (take.got /\ Less(left, 1) > take.waited))

Started(done) == done

StartConversion ==
    /\ ~converting /\ since + 1 >= Interval
    /\ LET take == Take(Less(left, 1), WaitConvert) IN
        \E present \in onewire_reset:
            /\ glitches' = IF present THEN glitches ELSE glitches + 1
            /\ converting' = Started(take.got /\ present)
            /\ IF take.got /\ present
               THEN scratch' = probe /\ UNCHANGED errors /\ Waited(take, since + 1)
               ELSE errors' = note_error(errors) /\ UNCHANGED scratch /\ Waited(take, 0)
            /\ elapsed' = Later(1 + take.waited)
    /\ UNCHANGED <<probe, current, valid, previews>>

SinceValid(take) == Later(1 + take.waited)

ReadScratchpad ==
    /\ converting /\ since + 1 >= Interval + Conversion
    /\ converting' = FALSE
    /\ LET take == Take(Less(left, 1), WaitRead) IN
        \E whole \in read_scratchpad:
            /\ glitches' = IF whole THEN glitches ELSE glitches + 1
            /\ IF take.got /\ whole /\ ReadableScratch(scratch) /\ validate_reading(scratch)
               THEN /\ current' = scratch /\ valid' = TRUE /\ errors' = 0
                    /\ elapsed' = take.waited
               ELSE /\ errors' = note_error(errors) /\ UNCHANGED <<current, valid>>
                    /\ elapsed' = SinceValid(take)
            /\ Waited(take, 0)
    /\ UNCHANGED <<probe, scratch, previews>>

Update == Idle \/ StartConversion \/ ReadScratchpad
Next == Warm \/ PowerGlitch \/ Preview \/ Update

Fairness == WF_vars(Update)
Spec == Init /\ [][Next]_vars /\ Fairness

is_healthy == errors < MAX_CONSECUTIVE_ERRORS

-----------------------------------------------------------------------------
(* Properties. *)

\* The types of the state; the error count stays where it saturates.
TypeOK ==
    /\ probe \in Temps /\ scratch \in Temps \cup {PowerOn} /\ glitches \in 0 .. MaxGlitches
    /\ converting \in BOOLEAN /\ elapsed \in 0 .. LongAgo
    /\ since \in 0 .. Interval + Conversion + WaitConvert
    /\ current \in Temps \cup {0, PowerOn} /\ valid \in BOOLEAN
    /\ errors \in 0 .. MAX_CONSECUTIVE_ERRORS
    /\ left \in 0 .. Hold /\ previews \in 0 .. Devices /\ collided \in BOOLEAN

\* The main task and the scan never drive the bus at the same time.
OneOnTheBus == ~collided

\* A value the driver gives out is one the probe has measured, never the
\* power-on content of the scratchpad.
OnlyMeasured == valid => current \in Temps

\* The preview of one device costs the driver one try at most, however it falls
\* on its tries: a scan of fewer devices than the errors the driver tolerates takes
\* no working probe out of service.
PreviewsCostOneTry == errors <= (Devices - previews) + glitches

\* A probe whose temperature comes to rest is followed in the end, even after a
\* jump that the rate check refuses at first.
FollowsTheProbe ==
    \A t \in Temps: <>[](probe = t) => <>[](current = t /\ is_healthy)
=============================================================================
