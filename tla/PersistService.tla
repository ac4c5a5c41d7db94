--------------------------- MODULE PersistService ---------------------------
(***************************************************************************)
(* Settings in flash: components/modesp_services/src/persist_service.cpp,  *)
(* over the NVS wrappers of nvs_helper.cpp, with the handlers of           *)
(* components/modesp_net/src/http_service.cpp that restart the device.     *)
(*                                                                         *)
(* set() of the shared state runs the persist callback after it has given  *)
(* the mutex back; the callback marks the key dirty.  The main task writes *)
(* dirty keys to flash some time later, the HTTP task at once before it    *)
(* restarts the device.  Nothing keeps the two flushes apart.              *)
(*                                                                         *)
(* A key is its index in STATE_META.  The hashed NVS names are taken to be *)
(* distinct.                                                               *)
(***************************************************************************)
EXTENDS Naturals, FiniteSets

CONSTANTS
  KeyCount,     \* STATE_META_COUNT
  Value, NoValue, Default,
  DEBOUNCE_MS,  \* in ticks of the main loop
  Setters,      \* tasks that set persisted keys
  Jobs,         \* requests the HTTP task may get
  Crossing,     \* may two flushes overlap?
  Faults        \* what may go wrong

PersistServiceAssumption ==
  /\ KeyCount \in Nat /\ DEBOUNCE_MS \in Nat
  /\ NoValue \notin Value /\ Default \in Value
  /\ Setters \subseteq {"main", "http"}
  /\ Jobs \subseteq {"restart", "restore", "factory_reset", "ota"}
  /\ Crossing \in BOOLEAN
  /\ Faults \subseteq {"nvs_error", "nvs_busy", "stop_timeout", "power_loss"}

VARIABLES
  map,             \* the shared state's values
  nvs, legacy,     \* flash, under the hashed and under the positional names
  nvs_ready,       \* FALSE from a factory reset to the reboot
  dirty, debounce_timer,
  task,            \* where each task is in set() or in flush_to_nvs()
  job,             \* the HTTP task's request and how far it is
  stop_requested, stopped

flash    == <<nvs, legacy, nvs_ready>>
stopVars == <<stop_requested, stopped>>
vars     == <<map, flash, dirty, debounce_timer, task, job, stopVars>>

Key  == 1..KeyCount
Task == {"main", "http"}
Free  == [at |-> "free", key |-> 0, val |-> NoValue]
NoJob == [kind |-> "none", at |-> "none"]

Flushing(t) == task[t].at \in {"scan", "write"}
Stored(k)   == IF nvs[k] # NoValue THEN nvs[k] ELSE Default

TypeOK ==
  /\ map \in [Key -> Value]
  /\ nvs \in [Key -> Value \cup {NoValue}] /\ legacy \in [Key -> Value \cup {NoValue}]
  /\ nvs_ready \in BOOLEAN /\ stop_requested \in BOOLEAN /\ stopped \in BOOLEAN
  /\ dirty \in [Key -> BOOLEAN] /\ debounce_timer \in 0..DEBOUNCE_MS
  /\ task \in [Task -> [at : {"free", "callback", "scan", "write"},
                        key : 0..KeyCount, val : Value \cup {NoValue}]]
  /\ job \in [kind : Jobs \cup {"none"},
              at : {"none", "flush", "stop", "last_flush", "reboot"}]

(***************************************************************************)
(* restore_from_nvs(), before the callback is registered.  A value under a *)
(* positional name is moved: written under its new name, then erased under *)
(* the old one, whatever became of the write.                              *)
(***************************************************************************)
Migrating == {k \in Key : nvs[k] = NoValue /\ legacy[k] # NoValue}
Restored  == [k \in Key |-> IF k \in Migrating THEN legacy[k] ELSE Stored(k)]

Boot ==
  \E failed \in IF "nvs_error" \in Faults THEN SUBSET Migrating ELSE {{}} :
    /\ map' = Restored
    /\ nvs' = [k \in Key |-> IF k \in Migrating \ failed THEN legacy[k] ELSE nvs[k]]
    /\ legacy' = [k \in Key |-> IF k \in Migrating THEN NoValue ELSE legacy[k]]
    /\ nvs_ready' = TRUE
    /\ dirty' = [k \in Key |-> FALSE] /\ debounce_timer' = 0
    /\ task' = [t \in Task |-> Free] /\ job' = NoJob
    /\ stop_requested' = FALSE /\ stopped' = FALSE

(* The first boot after an update may find values under positional names.  *)
Init ==
  /\ nvs = [k \in Key |-> NoValue]
  /\ legacy \in [Key -> {Default, NoValue}] \cup [Key -> Value]
  /\ map = [k \in Key |-> Default]
  /\ nvs_ready = FALSE /\ dirty = [k \in Key |-> FALSE] /\ debounce_timer = 0
  /\ task = [t \in Task |-> Free]
  /\ job = [kind |-> "none", at |-> "reboot"]
  /\ stop_requested = FALSE /\ stopped = FALSE

Running == job.at # "reboot"

PowerLoss == "power_loss" \in Faults /\ Boot

Reboot == job.at = "reboot" /\ Boot

(***************************************************************************)
(* set() of a persisted key, then its callback.                            *)
(***************************************************************************)
SetKey(t, k, v) ==
  /\ Running /\ t \in Setters /\ task[t] = Free /\ map[k] # v
  /\ t = "main" => ~stop_requested
  /\ t = "http" => job = NoJob
  /\ map' = [map EXCEPT ![k] = v]
  /\ task' = [task EXCEPT ![t] = [at |-> "callback", key |-> k, val |-> v]]
  /\ UNCHANGED <<flash, dirty, debounce_timer, job, stopVars>>

(* Seeded fault (DirtyIsFlushed): every change starts the wait afresh.      *)
OnStateChangedAfresh(t) ==
  /\ Running /\ task[t].at = "callback"
  /\ dirty' = [dirty EXCEPT ![task[t].key] = TRUE]
  /\ task' = [task EXCEPT ![t] = Free]
  /\ debounce_timer' = 0
  /\ UNCHANGED <<map, flash, job, stopVars>>

OnStateChanged(t) ==
  /\ Running /\ task[t].at = "callback"
  /\ dirty' = [dirty EXCEPT ![task[t].key] = TRUE]
  /\ task' = [task EXCEPT ![t] = Free]
  /\ UNCHANGED <<map, flash, debounce_timer, job, stopVars>>

(***************************************************************************)
(* flush_to_nvs(): the walk over the keys in the order of their indices.   *)
(***************************************************************************)
MayFlush(t) == Crossing \/ \A u \in Task \ {t} : ~Flushing(u)

StartFlush(t) ==
  task' = [task EXCEPT ![t] = [at |-> "scan", key |-> 0, val |-> NoValue]]

DirtyAfter(i) == {k \in Key : k > i /\ dirty[k]}
Least(s) == CHOOSE k \in s : \A j \in s : k <= j

(* Seeded fault (NothingForgotten): a flush clears all flags when it starts.*)
TakeDirtyAll(t) ==
  /\ Running /\ task[t].at = "scan" /\ DirtyAfter(task[t].key) # {}
  /\ LET k == Least(DirtyAfter(task[t].key)) IN
     /\ dirty' = [j \in Key |-> FALSE]
     /\ task' = [task EXCEPT ![t] = [at |-> "write", key |-> k, val |-> map[k]]]
  /\ UNCHANGED <<map, flash, debounce_timer, job, stopVars>>

TakeDirty(t) ==
  /\ Running /\ task[t].at = "scan" /\ DirtyAfter(task[t].key) # {}
  /\ LET k == Least(DirtyAfter(task[t].key)) IN
     /\ dirty' = [dirty EXCEPT ![k] = FALSE]
     /\ task' = [task EXCEPT ![t] = [at |-> "write", key |-> k, val |-> map[k]]]
  /\ UNCHANGED <<map, flash, debounce_timer, job, stopVars>>

(* A write that fails is logged and forgotten.                             *)
Write(t) ==
  /\ Running /\ task[t].at = "write"
  /\ \/ nvs_ready /\ nvs' = [nvs EXCEPT ![task[t].key] = task[t].val]
     \/ (~nvs_ready \/ "nvs_error" \in Faults) /\ UNCHANGED nvs
  /\ task' = [task EXCEPT ![t].at = "scan"]
  /\ UNCHANGED <<map, legacy, nvs_ready, dirty, debounce_timer, job, stopVars>>

(* The step of the HTTP handler that follows a flush.                      *)
AfterFlush == CASE job.at = "flush" -> [job EXCEPT !.at = "stop"]
                [] job.at = "last_flush" -> [job EXCEPT !.at = "reboot"]

EndFlush(t) ==
  /\ Running /\ task[t].at = "scan" /\ DirtyAfter(task[t].key) = {}
  /\ task' = [task EXCEPT ![t] = Free]
  /\ debounce_timer' = 0
  /\ job' = IF t = "http" THEN AfterFlush ELSE job
  /\ UNCHANGED <<map, flash, dirty, stopVars>>

(***************************************************************************)
(* on_update() on the main task.  When NVS cannot be opened the dirty      *)
(* flags stay and the wait starts again.                                   *)
(***************************************************************************)
OnUpdate ==
  /\ Running /\ task["main"] = Free /\ ~stop_requested
  /\ \E k \in Key : dirty[k]
  /\ \/ /\ debounce_timer + 1 < DEBOUNCE_MS
        /\ debounce_timer' = debounce_timer + 1
        /\ UNCHANGED task
     \/ /\ debounce_timer + 1 >= DEBOUNCE_MS
        /\ \/ /\ nvs_ready /\ MayFlush("main")
              /\ StartFlush("main")
              /\ UNCHANGED debounce_timer
           \/ /\ ~nvs_ready \/ "nvs_busy" \in Faults
              /\ debounce_timer' = 0
              /\ UNCHANGED task
  /\ UNCHANGED <<map, flash, dirty, job, stopVars>>

(* update_all() finds a stop requested.                                    *)
StopModules ==
  /\ Running /\ stop_requested /\ ~stopped /\ task["main"] = Free
  /\ stopped' = TRUE
  /\ UNCHANGED <<map, flash, dirty, debounce_timer, task, job, stop_requested>>

(***************************************************************************)
(* The HTTP task's requests: restart flushes before and after the modules  *)
(* are stopped, restore before, OTA and factory reset not at all.          *)
(***************************************************************************)
FirstStage(kind) == IF kind \in {"restart", "restore"} THEN "flush" ELSE "stop"
LastStage(kind)  == IF kind = "restart" THEN "last_flush" ELSE "reboot"

Request(kind) ==
  /\ Running /\ job = NoJob /\ task["http"] = Free /\ kind \in Jobs
  /\ job' = [kind |-> kind, at |-> FirstStage(kind)]
  /\ IF kind = "factory_reset"    \* nvs_flash_erase() also takes NVS out of service
       THEN /\ nvs' = [k \in Key |-> NoValue] /\ legacy' = nvs' /\ nvs_ready' = FALSE
       ELSE UNCHANGED flash
  /\ UNCHANGED <<map, dirty, debounce_timer, task, stopVars>>

FlushNow ==
  /\ job.at \in {"flush", "last_flush"} /\ task["http"] = Free
  /\ \/ /\ nvs_ready /\ MayFlush("http")
        /\ StartFlush("http")
        /\ UNCHANGED <<debounce_timer, job>>
     \/ /\ "nvs_busy" \in Faults
        /\ debounce_timer' = 0
        /\ job' = AfterFlush
        /\ UNCHANGED task
  /\ UNCHANGED <<map, flash, dirty, stopVars>>

RequestStop ==
  /\ job.at = "stop" /\ ~stop_requested
  /\ stop_requested' = TRUE
  /\ UNCHANGED <<map, flash, dirty, debounce_timer, task, job, stopped>>

AwaitStop ==
  /\ job.at = "stop" /\ stop_requested
  /\ stopped \/ "stop_timeout" \in Faults
  /\ job' = [job EXCEPT !.at = LastStage(job.kind)]
  /\ UNCHANGED <<map, flash, dirty, debounce_timer, task, stopVars>>

MainStep ==
  \/ OnUpdate \/ StopModules
  \/ OnStateChanged("main") \/ TakeDirty("main") \/ Write("main") \/ EndFlush("main")

HttpStep ==
  \/ FlushNow \/ RequestStop \/ AwaitStop \/ Reboot
  \/ OnStateChanged("http") \/ TakeDirty("http") \/ Write("http") \/ EndFlush("http")

Next ==
  \/ \E t \in Task, k \in Key, v \in Value : SetKey(t, k, v)
  \/ \E kind \in Jobs : Request(kind)
  \/ MainStep \/ HttpStep \/ PowerLoss

(* The main task goes on and calls on_update in every turn of its loop,    *)
(* between whatever else it does; the HTTP task finishes its request.      *)
Fairness == WF_vars(MainStep) /\ SF_vars(OnUpdate) /\ WF_vars(HttpStep)
Spec == Init /\ [][Next]_vars
LiveSpec == Spec /\ Fairness

-----------------------------------------------------------------------------
(***************************************************************************)
(* A value that is not in flash is known not to be: its key is dirty, or   *)
(* its callback is yet to run, or a flush is about to write it.            *)
(***************************************************************************)
NothingForgotten ==
  Running /\ nvs_ready => \A k \in Key :
    \/ Stored(k) = map[k]
    \/ dirty[k]
    \/ \E t \in Task : task[t].at \in {"callback", "write"} /\ task[t].key = k
                         /\ task[t].val = map[k]

(***************************************************************************)
(* persist_service.h:33: what is set when the device is restarted on       *)
(* request is found in flash by the boot that follows.                     *)
(***************************************************************************)
KeptByRestart ==
  job.at = "reboot" /\ job.kind # "factory_reset" /\ task["http"] = Free /\ nvs_ready
    /\ job' = NoJob => map' = map

\* Broken by the code: the restart after an upload does not flush.
RestartKeepsSettings == [][KeptByRestart]_vars

(* The automatic migration moves the settings it finds; none is lost.      *)
\* Broken by the code: a positional key is erased although its new name could
\* not be written.
MigrationKeepsSettings ==
  [][\A k \in Migrating : legacy'[k] = NoValue /\ nvs_ready' => nvs'[k] = legacy[k]]_vars

(***************************************************************************)
(* BUG-025: a key does not stay dirty for ever, however often others are   *)
(* set.                                                                    *)
(***************************************************************************)
DirtyIsFlushed == \A k \in Key : dirty[k] ~> ~dirty[k]
=============================================================================
