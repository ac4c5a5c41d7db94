---------------------------- MODULE HttpSettings ----------------------------
(***************************************************************************)
(* Settings from outside: POST /api/settings, GET /api/backup and POST     *)
(* /api/restore of components/modesp_net/src/http_service.cpp and the MQTT *)
(* command of components/modesp_mqtt/src/mqtt_service.cpp, over the typed  *)
(* values of the shared state and the typed flash of persist_service.cpp.  *)
(*                                                                         *)
(* A value is its type and its number.  Numbers count the finest step of a *)
(* float; SHOWN of them are one step of "%.2f", WHOLE of them are 1.  How  *)
(* and when keys are written to flash is PersistService; here a key is     *)
(* written in one step, at any time after it was set.                      *)
(***************************************************************************)
EXTENDS Integers, FiniteSets

CONSTANTS
  FloatKeys, IntKeys, BoolKeys,   \* persisted keys by their declared type
  ReadOnly,                       \* those that are not writable
  MinVal, MaxVal, DefaultVal,
  SHOWN, WHOLE,
  Literals,    \* what clients send, by its kind
  Changes      \* bound on the values set in all

HttpSettingsAssumption ==
  /\ FloatKeys \cap IntKeys = {} /\ (FloatKeys \cup IntKeys) \cap BoolKeys = {}
  /\ {MinVal, MaxVal, DefaultVal, Changes} \subseteq Nat
  /\ MinVal <= DefaultVal /\ DefaultVal <= MaxVal
  /\ SHOWN \in Nat \ {0} /\ WHOLE \in Nat \ {0} /\ WHOLE % SHOWN = 0
  /\ MinVal % WHOLE = 0 /\ MaxVal % WHOLE = 0 /\ DefaultVal % WHOLE = 0
  /\ Literals \subseteq {"number", "true", "null", "nan"}

VARIABLES
  map,       \* the shared state
  flash,     \* the value stored for each key, or NoValue
  dirty,
  backup,    \* the file that GET /api/backup gave last
  job,       \* a restore or a restart: its step, the keys to do, and those set meanwhile
  accepted,  \* what the last request that set a key was told it had set
  late,      \* keys set after the last flush of such a job, which its restart loses
  changes

vars == <<map, flash, dirty, backup, job, accepted, late, changes>>

Keys     == FloatKeys \cup IntKeys \cup BoolKeys
Type(k)  == IF k \in FloatKeys THEN "float" ELSE IF k \in IntKeys THEN "int" ELSE "bool"
Val(t, n) == [type |-> t, num |-> n]
NoValue  == Val("none", 0)
Numbers  == MinVal..MaxVal+WHOLE   \* what clients send
NaN      == MaxVal + WHOLE + 1
Bool(b)  == Val("bool", IF b THEN WHOLE ELSE 0)
Whole(n) == n - (n % WHOLE)
Default(k) == IF k \in BoolKeys THEN Bool(DefaultVal # 0) ELSE Val(Type(k), DefaultVal)
Declared(k) == IF k \in FloatKeys THEN [type : {"float"}, num : MinVal..MaxVal]
               ELSE IF k \in IntKeys
                    THEN [type : {"int"}, num : {n \in MinVal..MaxVal : n % WHOLE = 0}]
                    ELSE {Bool(TRUE), Bool(FALSE)}

Values  == [type : {"float", "int", "bool", "none"}, num : 0..NaN]
NoFile  == [k \in {} |-> NoValue]
NoJob   == [at |-> "none", todo |-> {}, touched |-> {}]

TypeOK ==
  /\ map \in [Keys -> Values] /\ flash \in [Keys -> Values] /\ accepted \in [Keys -> Values]
  /\ \A k \in Keys : map[k].type # "none"
  /\ dirty \subseteq Keys
  /\ DOMAIN backup \subseteq Keys /\ \A k \in DOMAIN backup : backup[k] \in Values
  /\ late \subseteq Keys
  /\ job \in [at : {"none", "keys", "restored", "stopping", "stopped"}, todo : SUBSET Keys,
              touched : SUBSET Keys]
  /\ changes \in 0..Changes

Init ==
  /\ map = [k \in Keys |-> Default(k)] /\ flash = [k \in Keys |-> NoValue]
  /\ dirty = {} /\ backup = NoFile /\ job = NoJob
  /\ accepted = map /\ late = {} /\ changes = 0

(* The job has flushed for the last time and waits for the stop of the     *)
(* modules or for the answer to be sent; nothing else waits with it.       *)
Restarting == job.at \in {"restored", "stopped"}

Set(k, v) ==
  /\ map' = [map EXCEPT ![k] = v] /\ dirty' = dirty \cup {k}
  /\ accepted' = [accepted EXCEPT ![k] = v]
  /\ late' = IF Restarting THEN late \cup {k} ELSE late \ {k}

-----------------------------------------------------------------------------
(* What a literal is to each route *)

Clamp(n) == IF n < MinVal THEN MinVal ELSE IF n > MaxVal /\ n # NaN THEN MaxVal ELSE n
(* atof() and atoi() of a literal: null reads as 0, and so does nan for    *)
(* atoi(), while atof() gives a NaN, which no comparison clamps.           *)
AsFloat(lit, n) == IF lit = "nan" THEN NaN ELSE IF lit = "null" THEN 0 ELSE n
AsInt(lit, n)   == IF lit = "number" THEN Whole(n) ELSE 0

(* true and false are a bool whatever the key is declared as, and a number *)
(* for a bool key, whose bounds are generated as 0 and 0, is the int 0.    *)
JsonValue(k, lit, n) ==
  IF lit = "true" THEN Bool(n # 0)
  ELSE IF k \in FloatKeys THEN Val("float", Clamp(AsFloat(lit, n)))
  ELSE Val("int", IF k \in BoolKeys THEN 0 ELSE Clamp(AsInt(lit, n)))

(* MQTT: by the declared type; text that is no number is refused.          *)
TextAccepted(k, lit) == k \in BoolKeys \/ lit = "number" \/ (lit = "nan" /\ k \in FloatKeys)
TextValue(k, lit, n) ==
  IF k \in BoolKeys THEN Bool(IF lit = "true" THEN n # 0 ELSE lit = "number" /\ n = WHOLE)
  ELSE IF k \in FloatKeys THEN Val("float", Clamp(AsFloat(lit, n)))
  ELSE Val("int", Clamp(AsInt(lit, n)))

Counted == changes < Changes /\ changes' = changes + 1

(* The HTTP task serves one request at a time: none during a job.          *)
PostSettings(k, lit, n) ==
  /\ job = NoJob /\ Counted /\ k \notin ReadOnly
  /\ Set(k, JsonValue(k, lit, n))
  /\ UNCHANGED <<flash, backup, job>>

(* The other tasks set keys at any time, also while a job waits for its    *)
(* restart.                                                                *)
Touch(k) == job' = IF job = NoJob THEN job ELSE [job EXCEPT !.touched = @ \cup {k}]

Command(k, lit, n) ==
  /\ Counted /\ k \notin ReadOnly /\ TextAccepted(k, lit)
  /\ Set(k, TextValue(k, lit, n)) /\ Touch(k)
  /\ UNCHANGED <<flash, backup>>

(* A module stores a value of its own, of the declared type.               *)
ModuleSets(k, v) ==
  /\ Counted
  /\ Set(k, v) /\ Touch(k)
  /\ UNCHANGED <<flash, backup>>

-----------------------------------------------------------------------------
(* Flash *)

(* What flush_to_nvs() writes for a value: numbers are converted, anything *)
(* else of another type is logged and dropped.                             *)
Storable(k, v) ==
  IF k \in FloatKeys /\ v.type \in {"float", "int"} THEN Val("float", v.num)
  ELSE IF k \in IntKeys /\ v.type \in {"int", "float"} THEN Val("int", Whole(v.num))
  ELSE IF k \in BoolKeys /\ v.type = "bool" THEN v
  ELSE NoValue
Flushed(S) == [k \in Keys |-> IF k \in S /\ Storable(k, map[k]) # NoValue
                              THEN Storable(k, map[k]) ELSE flash[k]]

Flush(k) ==
  /\ k \in dirty
  /\ flash' = Flushed({k}) /\ dirty' = dirty \ {k} /\ late' = late \ {k}
  /\ UNCHANGED <<map, backup, job, accepted, changes>>

FlushNow == flash' = Flushed(dirty) /\ dirty' = {} /\ late' = late \ dirty

Loaded == [k \in Keys |-> IF flash[k] # NoValue THEN flash[k] ELSE Default(k)]
Reboot == map' = Loaded /\ dirty' = {} /\ job' = NoJob

(* POST /api/restart flushes before the stop of the modules and after it.  *)
PostRestart ==
  /\ job = NoJob
  /\ FlushNow /\ job' = [job EXCEPT !.at = "stopping"]
  /\ UNCHANGED <<map, backup, accepted, changes>>
FlushStopped ==
  /\ job.at = "stopping"
  /\ FlushNow /\ job' = [job EXCEPT !.at = "stopped"]
  /\ UNCHANGED <<map, backup, accepted, changes>>

Restart ==
  /\ Restarting
  /\ Reboot
  /\ UNCHANGED <<flash, backup, accepted, late, changes>>
(* A loss of power loses what was not flushed, and only that.              *)
PowerLoss ==
  /\ Reboot
  /\ accepted' = [k \in Keys |-> IF k \in dirty THEN Loaded[k] ELSE accepted[k]]
  /\ late' = late \ dirty
  /\ UNCHANGED <<flash, backup, changes>>

-----------------------------------------------------------------------------
(* Backup and restore *)

(* "%.2f" rounds to the nearest step it shows, a tie either way.           *)
Shown(v, up) ==
  IF v.type # "float" \/ v.num = NaN THEN v
  ELSE LET rest == v.num % SHOWN
       IN  Val("float", IF 2 * rest > SHOWN \/ (2 * rest = SHOWN /\ up)
                        THEN v.num - rest + SHOWN ELSE v.num - rest)
GetBackup ==
  /\ job = NoJob
  /\ \E up \in BOOLEAN :
       backup' = [k \in {x \in Keys : map[x].type = Type(x)} |-> Shown(map[k], up)]
  /\ UNCHANGED <<map, flash, dirty, job, accepted, late, changes>>

PostRestore ==
  /\ job = NoJob /\ backup # NoFile
  /\ job' = [at |-> "keys", todo |-> DOMAIN backup, touched |-> {}]
  /\ UNCHANGED <<map, flash, dirty, backup, accepted, late, changes>>

(* The file holds numbers and booleans as it was written; a read-only key  *)
(* is restored too.                                                        *)
FromFile(k) == JsonValue(k, IF k \in BoolKeys THEN "true" ELSE "number", backup[k].num)
RestoreKey ==
  /\ job.at = "keys"
  /\ \E k \in job.todo :
       /\ Set(k, FromFile(k))
       /\ job' = [job EXCEPT !.todo = @ \ {k}, !.touched = @ \ {k}]
  /\ UNCHANGED <<flash, backup, changes>>
RestoreNoFlush ==   \* seeded fault: the device restarts before the keys are in flash
  /\ job.at = "keys" /\ job.todo = {}
  /\ job' = [job EXCEPT !.at = "restored"]
  /\ UNCHANGED <<map, flash, dirty, backup, accepted, late, changes>>
RestoreFlush ==
  /\ job.at = "keys" /\ job.todo = {}
  /\ FlushNow /\ job' = [job EXCEPT !.at = "restored"]
  /\ UNCHANGED <<map, backup, accepted, changes>>

Next ==
  \/ \E k \in Keys, lit \in Literals, n \in Numbers :
       PostSettings(k, lit, n) \/ Command(k, lit, n)
  \/ \E k \in Keys : (\E v \in Declared(k) : ModuleSets(k, v)) \/ Flush(k)
  \/ PostRestart \/ FlushStopped \/ Restart \/ PowerLoss
  \/ GetBackup \/ PostRestore \/ RestoreKey \/ RestoreFlush

Spec == Init /\ [][Next]_vars

-----------------------------------------------------------------------------
(* Flash holds each key in its declared type, whatever a client sent and   *)
(* however the value came into the state: a restart reads it by that type. *)
FlashTyped == \A k \in Keys : flash[k] = NoValue \/ flash[k].type = Type(k)

(* "min/max validation": a number in the state is within the range of its  *)
(* key, by every route, a restore and a restart included; the range of a   *)
(* bool key is generated as 0 to 0.                                        *)
Bounds(k) == IF k \in BoolKeys THEN 0..0 ELSE MinVal..MaxVal
InRange == \A k \in Keys :
  map[k].type \in {"float", "int"} => map[k].num \in Bounds(k)

(* A restore leaves in flash, when it restarts the device, what the backup *)
(* shows for every key no module or command has set since.                 *)
RestoreFaithful ==
  job.at = "restored" => \A k \in DOMAIN backup \ job.touched : flash[k] = backup[k]

(* A value accepted in the declared type is, once it is no longer dirty,   *)
(* the value the next start loads, whatever starts came between: but for   *)
(* the keys set after the last flush of a restore or a restart, and not    *)
(* set or flushed again, whose values went with it.                        *)
TypedIsKept ==
  \A k \in Keys \ (dirty \cup late) : accepted[k].type = Type(k) => Loaded[k] = accepted[k]

(* "All routes consistent": whatever was accepted is what a restart loads. *)
\* Broken by the code: a request that sends true for a number is told it was
\* accepted, and the value is gone after a restart.
AcceptedIsKept == \A k \in Keys \ dirty : Loaded[k] = accepted[k]
=============================================================================
