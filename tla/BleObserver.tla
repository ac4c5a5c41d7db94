----------------------------- MODULE BleObserver -----------------------------
(***************************************************************************)
(* The observer of modesp_ble: gap_scan_event offers every advertisement   *)
(* to the decoders the drivers registered; what they report reaches the    *)
(* slot of a bound device and the table of devices seen, from which the    *)
(* HTTP task lists what can be subscribed. Devices are bound by the main   *)
(* task while advertisements already come in.                              *)
(***************************************************************************)
EXTENDS Naturals, FiniteSets

CONSTANTS
  Sensors,       \* devices a decoder recognises; some frames of theirs it cannot parse
  Panels,        \* named devices a connect matcher recognises
  Strangers,     \* recognised by a decoder's service UUID only: logged raw
  Fields,        \* what a frame may carry a part of
  Values,
  MAX_SEEN, MAX_DEVICES,
  MaxFrames      \* advertisements heard (bound)

Devices == Sensors \cup Panels \cup Strangers
ConstantsAssumption ==
  /\ MAX_SEEN \in Nat \ {0} /\ MAX_DEVICES \in Nat
  /\ Sensors \cap Panels = {} /\ Strangers \cap (Sensors \cup Panels) = {}

Absent == "absent"
NoReading == [f \in Fields |-> Absent]

VARIABLES
  slots,      \* BleCentral: bound device -> its merged reading
  seen,       \* s_seen: device -> its type and merged fields
  count,      \* s_sensor_count
  published,  \* ble.sensors_seen, as on_update last set it
  binding,    \* a device whose slot is taken but not cleared yet
  heard,      \* what each sensor really sent last, field by field
  since,      \* the same, since its device was bound
  frames

vars == <<slots, seen, count, published, binding, heard, since, frames>>

Unknown == "unknown"

Init ==
  /\ slots = [d \in {} |-> NoReading] /\ seen = [d \in {} |-> NoReading]
  /\ count = 0 /\ published = 0 /\ binding = {}
  /\ heard = [d \in Sensors |-> NoReading] /\ since = heard
  /\ frames = 0

Put(f, d, x) == [e \in DOMAIN f \cup {d} |-> IF e = d THEN x ELSE f[e]]

(***************************************************************************)
(* The tables.                                                             *)
(***************************************************************************)
Replace(reading, frame) == frame

(* A frame carries some of the fields; the others keep what came before.   *)
Merge(reading, frame) ==
  [f \in Fields |-> IF frame[f] = Absent THEN reading[f] ELSE frame[f]]

Entry(kind, reading) == [type |-> kind, reading |-> reading]

HasSeenIndex(d) == d \in DOMAIN seen \/ Cardinality(DOMAIN seen) < MAX_SEEN

Recorded(d) == IF d \in DOMAIN seen THEN seen[d].reading ELSE NoReading
TypeOf(d) == IF d \in DOMAIN seen THEN seen[d].type ELSE Unknown

See(d, kind, reading) ==
  IF HasSeenIndex(d)
  THEN /\ seen' = Put(seen, d, Entry(kind, reading))
       /\ count' = IF d \in DOMAIN seen THEN count ELSE count + 1
  ELSE UNCHANGED <<seen, count>>

Dispatch(d, frame) ==
  slots' = IF d \in DOMAIN slots THEN [slots EXCEPT ![d] = Merge(@, frame)] ELSE slots

(***************************************************************************)
(* gap_scan_event, on the NimBLE host task.                                *)
(***************************************************************************)
Hear == frames < MaxFrames /\ frames' = frames + 1

UpdateSensor(d, frame) ==
  /\ Hear
  /\ Dispatch(d, frame)
  /\ See(d, "sensor", Merge(Recorded(d), frame))
  /\ heard' = [heard EXCEPT ![d] = Merge(@, frame)]
  /\ since' = [since EXCEPT ![d] = Merge(@, frame)]
  /\ UNCHANGED <<published, binding>>

LogRaw(d) ==                           \* the entry has no type unless it had one
  /\ Hear
  /\ See(d, TypeOf(d), Recorded(d))
  /\ UNCHANGED <<slots, published, binding, heard, since>>

MatchConnectable(d) ==
  /\ Hear
  /\ See(d, "panel", NoReading)
  /\ UNCHANGED <<slots, published, binding, heard, since>>

Frames == {fr \in [Fields -> Values \cup {Absent}] : fr # NoReading}

GapScanEvent ==
  \/ \E d \in Sensors, frame \in Frames : UpdateSensor(d, frame)
  \/ \E d \in Sensors \cup Strangers : LogRaw(d)
  \/ \E d \in Panels : MatchConnectable(d)

(***************************************************************************)
(* The main task.                                                          *)
(***************************************************************************)
(* A slot is claimed and then cleared: a frame may come between.           *)
ClaimSlot(d) ==
  /\ d \notin DOMAIN slots
  /\ Cardinality(DOMAIN slots) < MAX_DEVICES
  /\ slots' = Put(slots, d, NoReading)
  /\ binding' = binding \cup {d}
  /\ since' = [since EXCEPT ![d] = NoReading]
  /\ UNCHANGED <<seen, count, published, heard, frames>>

ClearSlot(d) ==
  /\ d \in binding
  /\ slots' = [slots EXCEPT ![d] = NoReading]
  /\ binding' = binding \ {d}
  /\ since' = [since EXCEPT ![d] = NoReading]      \* that frame is lost
  /\ UNCHANGED <<seen, count, published, heard, frames>>

OnUpdate ==
  /\ published # count
  /\ published' = count
  /\ UNCHANGED <<slots, seen, count, binding, heard, since, frames>>

RegisterMac(d) == ClaimSlot(d) \/ ClearSlot(d)

Next == GapScanEvent \/ OnUpdate \/ \E d \in Sensors : RegisterMac(d)
Spec == Init /\ [][Next]_vars

(* ble_scan_all: the identified devices of list_seen.                      *)
Listed == {d \in DOMAIN seen : seen[d].type # Unknown}

(***************************************************************************)
(* Properties.                                                             *)
(***************************************************************************)
TypeOK ==
  /\ DOMAIN slots \subseteq Sensors /\ Cardinality(DOMAIN slots) <= MAX_DEVICES
  /\ DOMAIN seen \subseteq Devices /\ Cardinality(DOMAIN seen) <= MAX_SEEN
  /\ \A d \in DOMAIN seen :
       /\ seen[d].type \in {"sensor", "panel", Unknown}
       /\ seen[d].reading \in [Fields -> Values \cup {Absent}]
  /\ {count, published} \subseteq 0..MAX_SEEN
  /\ binding \subseteq DOMAIN slots /\ frames \in 0..MaxFrames

(* A bound driver reads, field by field, the last value its own device sent
   since it was bound: partial frames do not blank each other, other devices
   do not get in, and a full table of devices seen does not matter.        *)
BoundIsHeard == \A d \in DOMAIN slots \ binding : slots[d] = since[d]

(* A raw frame of a device that was identified does not take its identity
   or its reading away (log_raw_frame, update_sensor).                     *)
IdentityIsKept ==
  [][\A d \in DOMAIN seen :
       /\ d \in DOMAIN seen'
       /\ seen[d].type # Unknown => seen'[d].type = seen[d].type
       /\ \A f \in Fields : seen[d].reading[f] # Absent => seen'[d].reading[f] # Absent]_vars

(* The list for the UI holds "every device a registered decoder recognized,
   bound or not" (adv_decoder.h).                                          *)
\* Broken by the code: a recognised device that comes after the table is full
\* is never listed.
RecognizedAreListed == \A d \in Sensors : heard[d] # NoReading => d \in Listed
==============================================================================
