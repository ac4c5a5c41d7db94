--------------------------- MODULE ScenarioEngine ----------------------------
(***************************************************************************)
(* The scenario engine: components/modesp_scenario/src/core/engine.cpp,    *)
(* instance.cpp and track.cpp over the arbiter of ResourceArbiter.tla.     *)
(*                                                                         *)
(* Two activities share the slots.                                         *)
(*   - The main task runs Engine::on_update every tick.  The tick is       *)
(*     modelled in the steps the code takes: for each slot the prologue of *)
(*     instance_tick, one track_tick per track in declaration order, the   *)
(*     completion check, and the observer dispatch.  cursor says which of  *)
(*     these comes next.                                                   *)
(*   - Callers (the HTTP handlers, or a module) load, start, pause,        *)
(*     resume, abort and unload a scenario.  As engine.h requires, callers *)
(*     are serialised with on_update: they run between ticks.              *)
(*                                                                         *)
(* What the environment decides is chosen freely: the status an action     *)
(* returns, the truth of a condition, when a caller calls what.            *)
(***************************************************************************)
EXTENDS ScenarioRecipe

CONSTANT NoRecipe   \* the recipe of a slot whose buffer is empty

ASSUME NoRecipeAssumption == NoRecipe \notin Recipe

VARIABLES
  slots,          \* SequenceRuntime of each handle, but for its tracks
  tracks,         \* the TrackRuntime array of each slot
  owners,         \* the arbiter's map
  emitted_phase,  \* last_emitted_phase_, per slot and track
  cursor,         \* where on_update is
  observed        \* what the observers were last told about each slot's run

vars == <<slots, tracks, owners, emitted_phase, cursor, observed>>

(***************************************************************************)
(* Types and initial values.                                               *)
(***************************************************************************)
ScenarioState ==
  {"IDLE", "LOADED", "RUNNING", "PAUSED", "ABORTING", "COMPLETED", "FAILED"}

TrackState ==
  {"IDLE", "RUNNING", "WAITING_FOR_RESOURCE", "ABORTING", "COMPLETED", "FAILED"}

EndState == {"COMPLETED", "FAILED"}

ActionStatus == {"OK", "PENDING", "FAILED_RECOVERABLE", "FAILED_ABORT"}

NoPhase == 255      \* 0xFF in last_emitted_phase_

SlotType ==
  [recipe : Recipe \cup {NoRecipe}, state : ScenarioState, elapsed : Time]

(* A transition that has fired: running_exit_actions, pending_target_phase *)
(* and exit_action_progress.                                               *)
PhaseTarget == 0..254 \cup {MODR_TARGET_COMPLETE, MODR_TARGET_ABORT}

LatchType == [exiting : BOOLEAN, target : PhaseTarget, exit : 0..255]

(* action_pending_ticks is left out: it is only ever counted.              *)
TrackType ==
  [state : TrackState, phase_idx : 0..254, elapsed : Time, entry : 0..255, latch : LatchType]

EmptySlot  == [recipe |-> NoRecipe, state |-> "IDLE", elapsed |-> 0]

NoLatch == [exiting |-> FALSE, target |-> 0, exit |-> 0]

FreshTrack ==
  [state |-> "IDLE", phase_idx |-> 0, elapsed |-> 0, entry |-> 0, latch |-> NoLatch]

CursorType ==
  [at : {"slot", "track", "completion", "observe"}, h : Handle, t : Track,
   prev : ScenarioState]

AtSlot(h) == [at |-> "slot", h |-> h, t |-> 0, prev |-> "IDLE"]

(* The main task is between two calls of on_update.                        *)
BetweenTicks == cursor = AtSlot(1)

Init ==
  /\ slots = [h \in Handle |-> EmptySlot]
  /\ tracks = [h \in Handle |-> [t \in Track |-> FreshTrack]]
  /\ owners = NoOwners
  /\ emitted_phase = [h \in Handle |-> [t \in Track |-> NoPhase]]
  /\ cursor = AtSlot(1)
  /\ observed = [h \in Handle |-> "nothing"]

Loaded(h)   == slots[h].recipe # NoRecipe
RecipeOf(h) == slots[h].recipe
Tracks(h)   == TracksOf(RecipeOf(h))
Ticking(h)  == slots[h].state \in {"RUNNING", "ABORTING"}

(* The current phase of a track.                                           *)
Phase(h, t)   == PhaseOf(RecipeOf(h), t, tracks[h][t].phase_idx)
Timeout(h, t) == PhaseTimeout(RecipeOf(h), t, tracks[h][t].phase_idx)

(***************************************************************************)
(* Callers.  A call that returns an error changes nothing and is no action.*)
(***************************************************************************)

(* load_buffer and load_path into the slot find_free_slot returns.         *)
Load(h, r) ==
  /\ BetweenTicks
  /\ ~ Loaded(h) /\ \A g \in 1..(h - 1) : Loaded(g)
  /\ slots' = [slots EXCEPT ![h] = [recipe |-> r, state |-> "LOADED", elapsed |-> 0]]
  /\ tracks' = [tracks EXCEPT ![h] = [t \in Track |-> FreshTrack]]
  /\ emitted_phase' = [emitted_phase EXCEPT ![h] = [t \in Track |-> NoPhase]]
  /\ UNCHANGED <<owners, cursor, observed>>

StartedTrack(r, t) ==
  [FreshTrack EXCEPT !.state = "RUNNING", !.phase_idx = r.tracks[t].initial_phase]

(* start: the scenario's resources, then instance_start, then the event.   *)
Start(h) ==
  /\ BetweenTicks
  /\ slots[h].state = "LOADED"
  /\ CanAcquire(owners, <<h, TRACK_IDX_SCENARIO>>, RecipeOf(h).resources)
  /\ owners' = Acquire(owners, <<h, TRACK_IDX_SCENARIO>>, RecipeOf(h).resources)
  /\ slots' = [slots EXCEPT ![h].state = "RUNNING", ![h].elapsed = 0]
  /\ tracks' = [tracks EXCEPT ![h] =
       [t \in Track |-> IF t \in Tracks(h) THEN StartedTrack(RecipeOf(h), t) ELSE @[t]]]
  /\ observed' = [observed EXCEPT ![h] = "started"]
  /\ UNCHANGED <<emitted_phase, cursor>>

Pause(h) ==
  /\ BetweenTicks
  /\ slots[h].state = "RUNNING"
  /\ slots' = [slots EXCEPT ![h].state = "PAUSED"]
  /\ UNCHANGED <<tracks, owners, emitted_phase, cursor, observed>>

(* Seeded fault: everything that does not run is resumed.                  *)
ResumeAny(h) ==
  /\ BetweenTicks
  /\ slots[h].state \in {"PAUSED", "ABORTING"}
  /\ slots' = [slots EXCEPT ![h].state = "RUNNING"]
  /\ UNCHANGED <<tracks, owners, emitted_phase, cursor, observed>>

Resume(h) ==
  /\ BetweenTicks
  /\ slots[h].state = "PAUSED"
  /\ slots' = [slots EXCEPT ![h].state = "RUNNING"]
  /\ UNCHANGED <<tracks, owners, emitted_phase, cursor, observed>>

(* Seeded fault: a track that waits for a resource is forgotten.           *)
RunningTracks(h) == {t \in Tracks(h) : tracks[h][t].state \in {"RUNNING", "ABORTING"}}

(* instance_abort: every track that has not ended fails at once and gives  *)
(* its phase-scope resources back.                                         *)
LiveTracks(h) == {t \in Tracks(h) : tracks[h][t].state \notin EndState}

AbortedTracks(h) ==
  [t \in Track |-> IF t \in LiveTracks(h) THEN [tracks[h][t] EXCEPT !.state = "FAILED"]
                   ELSE tracks[h][t]]

(* Seeded fault: the tracks fail but keep what they claimed.               *)
InstanceAbortUnreleased(h) ==
  /\ tracks' = [tracks EXCEPT ![h] = AbortedTracks(h)]
  /\ UNCHANGED owners

InstanceAbort(h) ==
  /\ tracks' = [tracks EXCEPT ![h] = AbortedTracks(h)]
  /\ owners' = Release(owners, {<<h, t>> : t \in LiveTracks(h)})

(* Seeded fault: the state is not looked at.                               *)
AbortAnyState(h) ==
  /\ BetweenTicks
  /\ Loaded(h)
  /\ slots' = [slots EXCEPT ![h].state = "ABORTING"]
  /\ InstanceAbort(h)
  /\ UNCHANGED <<emitted_phase, cursor, observed>>

Abort(h) ==
  /\ BetweenTicks
  /\ slots[h].state \in {"RUNNING", "PAUSED"}
  /\ slots' = [slots EXCEPT ![h].state = "ABORTING"]
  /\ InstanceAbort(h)
  /\ UNCHANGED <<emitted_phase, cursor, observed>>

(* Everything a slot can own, in both scopes.                              *)
ClaimantsOf(h) == {<<h, t>> : t \in Tracks(h) \cup {TRACK_IDX_SCENARIO}}

(* Seeded fault: the tracks of the last run stay in the slot.              *)
UnloadKeepingTracks(h) ==
  /\ BetweenTicks
  /\ Loaded(h)
  /\ owners' = Release(owners, ClaimantsOf(h))
  /\ slots' = [slots EXCEPT ![h] = EmptySlot]
  /\ UNCHANGED <<tracks, emitted_phase, cursor, observed>>

Unload(h) ==
  /\ BetweenTicks
  /\ Loaded(h)
  /\ owners' = Release(owners, ClaimantsOf(h))
  /\ slots' = [slots EXCEPT ![h] = EmptySlot]
  /\ tracks' = [tracks EXCEPT ![h] = [t \in Track |-> FreshTrack]]
  /\ UNCHANGED <<emitted_phase, cursor, observed>>

(* The module manager's restart of the engine: on_stop unloads every       *)
(* slot and on_init then starts from scratch.  It runs on the main task.   *)
Restart ==
  /\ BetweenTicks
  /\ slots' = [h \in Handle |-> EmptySlot]
  /\ tracks' = [h \in Handle |-> [t \in Track |-> FreshTrack]]
  /\ owners' = NoOwners
  /\ emitted_phase' = [h \in Handle |-> [t \in Track |-> NoPhase]]
  /\ UNCHANGED <<cursor, observed>>

Caller ==
  \/ \E h \in Handle :
       \/ \E r \in Recipe : Load(h, r)
       \/ Start(h) \/ Pause(h) \/ Resume(h) \/ Abort(h) \/ Unload(h)
  \/ Restart

(***************************************************************************)
(* on_update, slot by slot.  prev_state is read before the slot is ticked. *)
(***************************************************************************)
AfterSlot(h) == IF h < MAX_SEQUENCES THEN AtSlot(h + 1) ELSE AtSlot(1)

AtObserve(h, prev) == [at |-> "observe", h |-> h, t |-> 0, prev |-> prev]

SkipEmptySlot(h) ==
  /\ cursor = AtSlot(h)
  /\ ~ Loaded(h)
  /\ cursor' = AfterSlot(h)
  /\ UNCHANGED <<slots, tracks, owners, emitted_phase, observed>>

SkipDormantSlot(h) ==
  /\ cursor = AtSlot(h)
  /\ Loaded(h) /\ ~ Ticking(h)
  /\ cursor' = AtObserve(h, slots[h].state)
  /\ UNCHANGED <<slots, tracks, owners, emitted_phase, observed>>

(***************************************************************************)
(* The prologue of instance_tick: the scenario's clock, its hard cap, and  *)
(* its global transitions.  In an aborting scenario only the clock moves.  *)
(***************************************************************************)
Prologue(h) ==
  /\ cursor = AtSlot(h)
  /\ Loaded(h) /\ Ticking(h)
  /\ cursor' = [at |-> "track", h |-> h, t |-> 0, prev |-> slots[h].state]
  /\ UNCHANGED <<emitted_phase, observed>>

SlotTicked(h, state) ==
  slots' = [slots EXCEPT ![h].state = state, ![h].elapsed = Elapse(@)]

(* Seeded fault: the cap is compared with > instead of >=.                 *)
CapPassed(h) ==
  /\ slots[h].state = "RUNNING"
  /\ RecipeOf(h).scenario_timeout_max # 0
  /\ Elapse(slots[h].elapsed) > RecipeOf(h).scenario_timeout_max

CapReached(h) ==
  /\ slots[h].state = "RUNNING"
  /\ RecipeOf(h).scenario_timeout_max # 0
  /\ Elapse(slots[h].elapsed) >= RecipeOf(h).scenario_timeout_max

HitCap(h) ==
  /\ Prologue(h)
  /\ CapReached(h)
  /\ SlotTicked(h, "ABORTING")
  /\ InstanceAbort(h)

(* process_global_transitions: the first one that fires decides; holds is  *)
(* the set of indices whose condition is true.                             *)
FirstGlobal(h, holds) ==
  LET gs    == RecipeOf(h).global_transitions
      fires == {i \in DOMAIN gs : GlobalFires(gs[i], i \in holds)}
  IN  IF fires = {} THEN 0 ELSE CHOOSE i \in fires : \A j \in fires : i <= j

GlobalTransition(h) ==
  /\ Prologue(h)
  /\ slots[h].state = "RUNNING" /\ ~ CapReached(h)
  /\ \E holds \in SUBSET DOMAIN RecipeOf(h).global_transitions :
       LET i    == FirstGlobal(h, holds)
           main == MainTrack(RecipeOf(h))
       IN  /\ i # 0
           /\ \/ /\ RecipeOf(h).global_transitions[i].scope = "scenario"
                 /\ SlotTicked(h, "ABORTING")
                 /\ InstanceAbort(h)
              \/ /\ RecipeOf(h).global_transitions[i].scope = "main_track"
                 /\ SlotTicked(h, "RUNNING")
                 /\ tracks' = [tracks EXCEPT ![h][main].state = "FAILED"]
                 /\ owners' = ReleasePhase(owners, h, main)

PlainPrologue(h) ==
  /\ Prologue(h)
  /\ \/ slots[h].state = "ABORTING"
     \/ /\ ~ CapReached(h)
        /\ \E holds \in SUBSET DOMAIN RecipeOf(h).global_transitions :
             FirstGlobal(h, holds) = 0
  /\ SlotTicked(h, slots[h].state)
  /\ UNCHANGED <<tracks, owners>>

(***************************************************************************)
(* track_tick.  tick is the track after its clock has advanced.            *)
(***************************************************************************)
TrackTurn(h, t) ==
  /\ cursor.at = "track" /\ cursor.h = h /\ cursor.t = t
  /\ cursor' = IF t + 1 \in Tracks(h) THEN [cursor EXCEPT !.t = t + 1]
               ELSE [cursor EXCEPT !.at = "completion", !.t = 0]
  /\ UNCHANGED <<slots, emitted_phase, observed>>

SetTrack(h, t, tr) == tracks' = [tracks EXCEPT ![h][t] = tr]

Clocked(h, t) == [tracks[h][t] EXCEPT !.elapsed = Elapse(@)]

TimedOut(h, t) ==
  /\ Timeout(h, t) # 0
  /\ Elapse(tracks[h][t].elapsed) >= Timeout(h, t)

(* The track gives up and returns what its phase claimed.                  *)
FailTrack(h, t) ==
  /\ SetTrack(h, t, [Clocked(h, t) EXCEPT !.state = "FAILED"])
  /\ owners' = ReleasePhase(owners, h, t)

TrackDormant(h, t) ==
  /\ TrackTurn(h, t)
  /\ tracks[h][t].state \in EndState \cup {"IDLE"}
  /\ UNCHANGED <<tracks, owners>>

(* The phase timeout is evaluated before anything else a live track does.  *)
TrackTimeout(h, t) ==
  /\ TrackTurn(h, t)
  /\ tracks[h][t].state \in {"RUNNING", "ABORTING"}
  /\ TimedOut(h, t)
  /\ FailTrack(h, t)

ClaimGranted(h, t) == CanAcquire(owners, <<h, t>>, Phase(h, t).phase_resources)

(* A waiting track retries its claim first and looks at its timeout only   *)
(* when the claim is refused.                                              *)
TrackWaits(h, t) ==
  /\ TrackTurn(h, t)
  /\ tracks[h][t].state = "WAITING_FOR_RESOURCE"
  /\ ~ ClaimGranted(h, t)
  /\ SetTrack(h, t, [Clocked(h, t) EXCEPT !.state = IF TimedOut(h, t) THEN "FAILED" ELSE @])
  /\ UNCHANGED owners

(***************************************************************************)
(* A track that gets to work this tick, either because it was running or   *)
(* aborting in time, or because its claim has just been granted.           *)
(***************************************************************************)
Works(h, t) ==
  /\ TrackTurn(h, t)
  /\ \/ tracks[h][t].state \in {"RUNNING", "ABORTING"} /\ ~ TimedOut(h, t)
     \/ tracks[h][t].state = "WAITING_FOR_RESOURCE" /\ ClaimGranted(h, t)

Working(h, t) ==
  [Clocked(h, t) EXCEPT !.state = IF @ = "WAITING_FOR_RESOURCE" THEN "RUNNING" ELSE @]

WorkingOwners(h, t) ==
  IF tracks[h][t].state = "WAITING_FOR_RESOURCE"
  THEN Acquire(owners, <<h, t>>, Phase(h, t).phase_resources)
  ELSE owners

(* One exit action; whatever it returns but PENDING, the next one follows. *)
ExitAction(h, t) ==
  /\ Works(h, t)
  /\ tracks[h][t].latch.exiting
  /\ tracks[h][t].latch.exit < Phase(h, t).exit_action_n
  /\ \E s \in ActionStatus :
       SetTrack(h, t, [Working(h, t) EXCEPT !.latch.exit = IF s = "PENDING" THEN @ ELSE @ + 1])
  /\ owners' = WorkingOwners(h, t)

ExitsDone(h, t) ==
  /\ Works(h, t)
  /\ tracks[h][t].latch.exiting
  /\ tracks[h][t].latch.exit >= Phase(h, t).exit_action_n

(* A latched $abort ends here.                                             *)
FinishAbort(h, t) ==
  /\ ExitsDone(h, t)
  /\ tracks[h][t].state = "ABORTING"
  /\ FailTrack(h, t)

(***************************************************************************)
(* apply_transition_target: the old phase's resources go back first, then  *)
(* the new phase claims its own, all of them or none.                      *)
(* What the code leaves in pending_target_phase is read only while exits   *)
(* run, after it has been written anew: it is 0 here in between.           *)
(***************************************************************************)
EndTrack(h, t) ==
  /\ ExitsDone(h, t)
  /\ tracks[h][t].state # "ABORTING"
  /\ tracks[h][t].latch.target \in {MODR_TARGET_COMPLETE, MODR_TARGET_ABORT}
  /\ SetTrack(h, t, [Working(h, t) EXCEPT
       !.state = IF tracks[h][t].latch.target = MODR_TARGET_COMPLETE THEN "COMPLETED" ELSE "FAILED"])
  /\ owners' = ReleasePhase(owners, h, t)

AdvancePhase(h, t) ==
  LET p      == tracks[h][t].latch.target
      claims == PhaseOf(RecipeOf(h), t, p).phase_resources
      freed  == ReleasePhase(owners, h, t)
      moved  == [FreshTrack EXCEPT !.phase_idx = p]
  IN  /\ ExitsDone(h, t)
      /\ tracks[h][t].state # "ABORTING"
      /\ p \notin {MODR_TARGET_COMPLETE, MODR_TARGET_ABORT}
      /\ \/ /\ CanAcquire(freed, <<h, t>>, claims)
            /\ SetTrack(h, t, [moved EXCEPT !.state = "RUNNING"])
            /\ owners' = Acquire(freed, <<h, t>>, claims)
         \/ /\ ~ CanAcquire(freed, <<h, t>>, claims)
            /\ SetTrack(h, t, [moved EXCEPT !.state = "WAITING_FOR_RESOURCE"])
            /\ owners' = freed

(* One entry action.                                                       *)
EntryAction(h, t) ==
  /\ Works(h, t)
  /\ ~ tracks[h][t].latch.exiting
  /\ tracks[h][t].entry < Phase(h, t).entry_action_n
  /\ \/ /\ \E s \in ActionStatus \ {"FAILED_ABORT"} :
             SetTrack(h, t, [Working(h, t) EXCEPT
               !.entry = CASE s = "OK"                 -> @ + 1
                           [] s = "PENDING"            -> @
                           [] s = "FAILED_RECOVERABLE" -> Phase(h, t).entry_action_n])
        /\ owners' = WorkingOwners(h, t)
     \/ FailTrack(h, t)    \* FAILED_ABORT

EntriesDone(h, t) ==
  /\ Works(h, t)
  /\ ~ tracks[h][t].latch.exiting
  /\ tracks[h][t].entry >= Phase(h, t).entry_action_n
  /\ owners' = WorkingOwners(h, t)

(* The transitions of the current phase that fire this tick.               *)
Firing(h, t, holds) ==
  LET trans == Phase(h, t).transitions
  IN  {i \in DOMAIN trans : TransitionFires(trans[i], Clocked(h, t).elapsed, i \in holds)}

(* The first one in declaration order latches its target.                  *)
TakeTransition(h, t) ==
  /\ EntriesDone(h, t)
  /\ \E holds \in SUBSET DOMAIN Phase(h, t).transitions :
       \E i \in Firing(h, t, holds) :
         /\ \A j \in Firing(h, t, holds) : i <= j
         /\ LET target == Phase(h, t).transitions[i].target_phase
            IN  SetTrack(h, t, [Working(h, t) EXCEPT
                  !.latch = [exiting |-> TRUE, target |-> target, exit |-> 0],
                  !.state = IF target = MODR_TARGET_ABORT THEN "ABORTING" ELSE @])

Dwell(h, t) ==
  /\ EntriesDone(h, t)
  /\ \E holds \in SUBSET DOMAIN Phase(h, t).transitions : Firing(h, t, holds) = {}
  /\ SetTrack(h, t, Working(h, t))

TrackTick(h, t) ==
  \/ TrackDormant(h, t) \/ TrackTimeout(h, t) \/ TrackWaits(h, t)
  \/ ExitAction(h, t) \/ FinishAbort(h, t) \/ EndTrack(h, t) \/ AdvancePhase(h, t)
  \/ EntryAction(h, t) \/ TakeTransition(h, t) \/ Dwell(h, t)

(***************************************************************************)
(* The completion check that ends instance_tick.                           *)
(***************************************************************************)
CompletionSatisfied(h) ==
  LET r == RecipeOf(h) IN
  CASE r.completion_rule = "all_tracks" -> \A t \in Tracks(h) : tracks[h][t].state = "COMPLETED"
    [] r.completion_rule = "any_track"  -> \E t \in Tracks(h) : tracks[h][t].state = "COMPLETED"
    [] r.completion_rule = "main_track" -> tracks[h][MainTrack(r)].state = "COMPLETED"

FailureDecided(h) ==
  \/ tracks[h][MainTrack(RecipeOf(h))].state = "FAILED"
  \/ /\ RecipeOf(h).completion_rule = "all_tracks"
     /\ \E t \in Tracks(h) : tracks[h][t].state = "FAILED"

(* The scenario's state after the check, main-track failure first.         *)
Verdict(h) ==
  CASE slots[h].state = "RUNNING" /\ FailureDecided(h) -> "FAILED"
    [] slots[h].state = "RUNNING" /\ ~ FailureDecided(h) /\ CompletionSatisfied(h) -> "COMPLETED"
    [] slots[h].state = "ABORTING" /\ LiveTracks(h) = {} -> "FAILED"
    [] OTHER -> slots[h].state

CheckCompletion(h) ==
  /\ cursor.at = "completion" /\ cursor.h = h
  /\ cursor' = AtObserve(h, cursor.prev)
  /\ slots' = [slots EXCEPT ![h].state = Verdict(h)]
  /\ owners' = IF Verdict(h) \in EndState THEN ReleaseScenario(owners, h) ELSE owners
  /\ UNCHANGED <<tracks, emitted_phase, observed>>

(***************************************************************************)
(* Observer dispatch: an event per track whose phase differs from the last *)
(* one emitted, then the terminal event on the edge into an end state.     *)
(* The observers' view of a run goes from started to its end state; a      *)
(* terminal event for a run they do not know as started is unexpected.     *)
(***************************************************************************)

(* Seeded fault: the end of an aborted run is not reported.                *)
TerminalEdgeOfRunning(h, prev) == slots[h].state \in EndState /\ prev = "RUNNING"

TerminalEdge(h, prev) == slots[h].state \in EndState /\ prev \notin EndState

Observe(h) ==
  /\ cursor.at = "observe" /\ cursor.h = h
  /\ cursor' = AfterSlot(h)
  /\ emitted_phase' = [emitted_phase EXCEPT ![h] =
       [t \in Track |-> IF t \in Tracks(h) THEN tracks[h][t].phase_idx ELSE @[t]]]
  /\ observed' = IF TerminalEdge(h, cursor.prev)
                 THEN [observed EXCEPT ![h] =
                        IF @ = "started" THEN slots[h].state ELSE "unexpected"]
                 ELSE observed
  /\ UNCHANGED <<slots, tracks, owners>>

Tick ==
  \E h \in Handle :
    \/ SkipEmptySlot(h) \/ SkipDormantSlot(h)
    \/ HitCap(h) \/ GlobalTransition(h) \/ PlainPrologue(h)
    \/ \E t \in Track : TrackTick(h, t)
    \/ CheckCompletion(h) \/ Observe(h)

Next == Caller \/ Tick

Spec == Init /\ [][Next]_vars

(* The main loop never stops calling on_update; callers owe nothing.       *)
FairSpec == Spec /\ WF_vars(Tick)

(***************************************************************************)
(* Properties.                                                             *)
(***************************************************************************)
TypeOK ==
  /\ slots \in [Handle -> SlotType]
  /\ tracks \in [Handle -> [Track -> TrackType]]
  /\ owners \in Ownership
  /\ emitted_phase \in [Handle -> [Track -> 0..255]]
  /\ cursor \in CursorType
  /\ observed \in [Handle -> {"nothing", "started", "COMPLETED", "FAILED", "unexpected"}]

(***************************************************************************)
(* What the code relies on from one call to the next: a slot has a state   *)
(* exactly when it has a recipe; its tracks are untouched until start;     *)
(* phase indices and latched targets stay inside the recipe's tables,      *)
(* which are read without a bounds check; and, since callers keep out of a *)
(* tick, the slot whose tick is under way stays loaded and ticking.        *)
(***************************************************************************)
SlotsAreWhole == \A h \in Handle : Loaded(h) <=> slots[h].state # "IDLE"

FreshUntilStarted ==
  \A h \in Handle : slots[h].state \in {"IDLE", "LOADED"} =>
    \A t \in Track : tracks[h][t] = FreshTrack

InRange(r, t, tr) ==
  LET phases == 0..(r.tracks[t].phase_count - 1) IN
  /\ tr.phase_idx \in phases
  /\ tr.latch.exiting =>
       tr.latch.target \in phases \cup {MODR_TARGET_COMPLETE, MODR_TARGET_ABORT}

IndicesInRange ==
  \A h \in Handle : Loaded(h) =>
    \A t \in Tracks(h) : InRange(RecipeOf(h), t, tracks[h][t])

TickIsUndisturbed ==
  /\ cursor.at \in {"track", "completion"} => Ticking(cursor.h)
  /\ cursor.at = "track" => cursor.t \in Tracks(cursor.h)
  /\ cursor.at = "observe" => Loaded(cursor.h)

WellFormed == SlotsAreWhole /\ FreshUntilStarted /\ IndicesInRange /\ TickIsUndisturbed

(***************************************************************************)
(* Every entry of the arbiter's map has someone who will give it back: a   *)
(* scenario-scope entry belongs to a scenario under way, a phase-scope one *)
(* to a track that is still working in a phase that claims the resource.   *)
(* An ended or waiting track holds nothing (releases in track.cpp,         *)
(* instance.cpp and Engine::unload).                                       *)
(***************************************************************************)
ScenarioScopeIsLive ==
  \A h \in Handle, r \in Resource :
    owners[r] = <<h, TRACK_IDX_SCENARIO>> =>
      /\ slots[h].state \in {"RUNNING", "PAUSED", "ABORTING"}
      /\ r \in RecipeOf(h).resources

PhaseScopeIsLive ==
  \A h \in Handle, t \in Track, r \in Resource :
    owners[r] = <<h, t>> =>
      /\ Loaded(h) /\ t \in Tracks(h)
      /\ tracks[h][t].state \in {"RUNNING", "ABORTING"}
      /\ r \in Phase(h, t).phase_resources

OwnershipIsLive == ScenarioScopeIsLive /\ PhaseScopeIsLive

(***************************************************************************)
(* A scenario under way holds all of its scenario-scope resources, and a   *)
(* working track all that its phase claims, whatever the other scenarios   *)
(* do.  The second holds of phases a transition led to; the initial phase  *)
(* is started without asking (instance_start), see ClaimedAtPhaseEntry.    *)
(***************************************************************************)
HeldBy(x) == {r \in Resource : owners[r] = x}

InitialPhaseClaims(r, t) == PhaseOf(r, t, r.tracks[t].initial_phase).phase_resources # {}

UnderWay(h) == slots[h].state \in {"RUNNING", "PAUSED"}

AtWork(h, t) ==
  /\ UnderWay(h)
  /\ t \in Tracks(h)
  /\ tracks[h][t].state \in {"RUNNING", "ABORTING"}

WorkHoldsItsClaims ==
  \A h \in Handle :
    /\ UnderWay(h) => HeldBy(<<h, TRACK_IDX_SCENARIO>>) = RecipeOf(h).resources
    /\ \A t \in Track :
         AtWork(h, t) /\ ~ InitialPhaseClaims(RecipeOf(h), t) =>
           HeldBy(<<h, t>>) = Phase(h, t).phase_resources

(* What 06_resource_arbitration.md says: phase-scope resources are claimed *)
(* at phase entry, for every phase.                                        *)
ClaimedAtPhaseEntry ==
  \A h \in Handle, t \in Track :
    AtWork(h, t) => HeldBy(<<h, t>>) = Phase(h, t).phase_resources

(* A scenario that has ended holds nothing in either scope, so that no     *)
(* other scenario waits for a track that is never ticked again.            *)
EndedHoldsNothing ==
  \A h \in Handle :
    slots[h].state \in EndState => \A r \in Resource : owners[r] \notin ClaimantsOf(h)

(***************************************************************************)
(* Timeouts dominate.  Between ticks, a live track of a running scenario   *)
(* is less than one tick past its phase timeout (a waiting track that is   *)
(* granted its claim on the very tick it times out gets that tick), and a  *)
(* running scenario has not reached its cap, whatever its actions return   *)
(* (track.cpp: the safety cap must win over a PENDING action).             *)
(***************************************************************************)
TimeoutsDominate ==
  BetweenTicks =>
    \A h \in Handle : slots[h].state = "RUNNING" =>
      /\ RecipeOf(h).scenario_timeout_max # 0 =>
           slots[h].elapsed < RecipeOf(h).scenario_timeout_max
      /\ \A t \in Tracks(h) :
           /\ tracks[h][t].state \in {"RUNNING", "ABORTING", "WAITING_FOR_RESOURCE"}
           /\ Timeout(h, t) # 0
           => tracks[h][t].elapsed < Timeout(h, t) + DT

(***************************************************************************)
(* Between ticks the observers have been told exactly what is true: a run  *)
(* they know as started and no more is still under way, an ended one was   *)
(* reported once and with its final state, and the phase events have       *)
(* caught up with every track of a slot the tick has seen.                 *)
(***************************************************************************)
ObserversAreCurrent ==
  BetweenTicks => \A h \in Handle :
    /\ slots[h].state \in {"RUNNING", "PAUSED", "ABORTING"} => observed[h] = "started"
    /\ slots[h].state \in EndState =>
         /\ observed[h] = slots[h].state
         /\ \A t \in Tracks(h) : emitted_phase[h][t] = tracks[h][t].phase_idx

(***************************************************************************)
(* The verdict stays true for as long as the slot is loaded: COMPLETED     *)
(* means the recipe's completion rule holds and the main track has not     *)
(* failed, FAILED means that a track failed.                               *)
(***************************************************************************)
VerdictIsTrue ==
  \A h \in Handle :
    /\ slots[h].state = "COMPLETED" =>
         CompletionSatisfied(h) /\ tracks[h][MainTrack(RecipeOf(h))].state # "FAILED"
    /\ slots[h].state = "FAILED" => \E t \in Tracks(h) : tracks[h][t].state = "FAILED"

(* A resource never changes hands in one step: it is given back, by its    *)
(* owner's own step, before another can take it.                           *)
NoTheft ==
  [][\A r \in Resource :
       owners[r] # Unowned => owners'[r] \in {owners[r], Unowned}]_vars

(* An ended scenario stays as it ended until it is unloaded; only a load   *)
(* brings the slot back to life.                                           *)
EndIsFinal ==
  [][\A h \in Handle : slots[h].state \in EndState =>
       \/ slots'[h] = slots[h] /\ tracks'[h] = tracks[h]
       \/ slots'[h] = EmptySlot]_vars

(* Every scenario that is being ticked ends, is paused or is unloaded: the *)
(* phase timeouts and the scenario cap break every wait, also that of two  *)
(* scenarios for each other's resources.                                   *)
RunsEnd ==
  \A h \in Handle :
    slots[h].state \in {"RUNNING", "ABORTING"} ~> slots[h].state \notin {"RUNNING", "ABORTING"}

(***************************************************************************)
(* The engine implements the lifecycle of ScenarioLifecycle.tla: its steps *)
(* within a tick, with their clocks, tracks and claims, add nothing to     *)
(* what callers and observers may see of a slot.                           *)
(***************************************************************************)
StateOf == [h \in Handle |-> slots[h].state]

Lifecycle == INSTANCE ScenarioLifecycle WITH state <- StateOf, told <- observed

LifecycleSpec == Lifecycle!Spec

=============================================================================
