-------------------------- MODULE ScenarioLifecycle --------------------------
(***************************************************************************)
(* What the scenario engine promises its callers and its observers about   *)
(* each of its slots (engine.h and i_engine_observer.h): the order of the  *)
(* states of a run, and that the end of a run is told exactly once, with   *)
(* the state it ended in, and before anything else happens.                *)
(***************************************************************************)
CONSTANT Handle

VARIABLES
  state,  \* the state of each slot
  told    \* the last thing the observers were told about each slot's run

vars == <<state, told>>

Init ==
  /\ state = [h \in Handle |-> "IDLE"]
  /\ told = [h \in Handle |-> "nothing"]

Ended == {"COMPLETED", "FAILED"}

(* The runs that have ended and whose observers still think them started.  *)
Unreported == {h \in Handle : state[h] \in Ended /\ told[h] = "started"}

Move(h, from, to) ==
  /\ Unreported = {}
  /\ state[h] \in from
  /\ state' = [state EXCEPT ![h] = to]

Load(h)   == Move(h, {"IDLE"}, "LOADED") /\ UNCHANGED told
Start(h)  == Move(h, {"LOADED"}, "RUNNING") /\ told' = [told EXCEPT ![h] = "started"]
Pause(h)  == Move(h, {"RUNNING"}, "PAUSED") /\ UNCHANGED told
Resume(h) == Move(h, {"PAUSED"}, "RUNNING") /\ UNCHANGED told

(* By a caller, by the scenario's cap or by one of its global transitions. *)
Abort(h)  == Move(h, {"RUNNING", "PAUSED"}, "ABORTING") /\ UNCHANGED told

Complete(h) == Move(h, {"RUNNING"}, "COMPLETED") /\ UNCHANGED told
Fail(h)     == Move(h, {"RUNNING", "ABORTING"}, "FAILED") /\ UNCHANGED told

Report(h) ==
  /\ h \in Unreported
  /\ told' = [told EXCEPT ![h] = state[h]]
  /\ UNCHANGED state

(* A slot can be unloaded whatever its state; the observers are not told.  *)
Unload(h) ==
  /\ Unreported = {}
  /\ state' = [state EXCEPT ![h] = "IDLE"]
  /\ UNCHANGED told

Restart ==
  /\ Unreported = {}
  /\ state' = [h \in Handle |-> "IDLE"]
  /\ UNCHANGED told

Next ==
  \/ \E h \in Handle :
       \/ Load(h) \/ Start(h) \/ Pause(h) \/ Resume(h) \/ Abort(h)
       \/ Complete(h) \/ Fail(h) \/ Report(h) \/ Unload(h)
  \/ Restart

Spec == Init /\ [][Next]_vars

=============================================================================
