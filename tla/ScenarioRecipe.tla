--------------------------- MODULE ScenarioRecipe ----------------------------
(***************************************************************************)
(* What the engine executes: a validated .modr recipe, as the structures   *)
(* of modr_format.h give it and as modr_validate                           *)
(* (components/modesp_scenario/src/core/modr_loader.cpp) accepts it.  The  *)
(* byte layout, the offsets and the CRC are not modelled; what remains is  *)
(* the graph of tracks, phases and transitions the tick walks.             *)
(*                                                                         *)
(* Time is counted in the unit of dt_ms; 0 means "no timeout".             *)
(***************************************************************************)
EXTENDS ResourceArbiter, Sequences

CONSTANTS
  Recipe,      \* the recipes that can be loaded
  UINT32_MAX,  \* where the elapsed counters saturate
  DT           \* dt_ms, the length of a tick

MODR_TARGET_COMPLETE == 65535
MODR_TARGET_ABORT    == 65534

TransKind == {"time", "cond", "time_or_cond", "time_and_cond", "unconditional"}
Time      == 0..UINT32_MAX

(* validate_transition: a known kind, and a target that is a phase of the  *)
(* track or one of the two sentinels.                                      *)
TransitionsOf(phase_count) ==
  [kind           : TransKind,
   time_threshold : Time,
   target_phase   : 0..(phase_count - 1) \cup {MODR_TARGET_COMPLETE, MODR_TARGET_ABORT}]

(* validate_phase.  An action pool slice is represented by its length.     *)
PhasesOf(phase_count) ==
  [timeout         : Time,
   phase_resources : SUBSET Resource,
   entry_action_n  : 0..255,
   exit_action_n   : 0..255,
   transitions     : Seq(TransitionsOf(phase_count))]

(* validate_track *)
TrackOK(tr) ==
  /\ tr.is_main \in BOOLEAN
  /\ tr.phase_count \in 1..255
  /\ tr.initial_phase \in 0..(tr.phase_count - 1)
  /\ tr.phases \in [0..(tr.phase_count - 1) -> PhasesOf(tr.phase_count)]

(* modr_validate, validate_global_transitions and validate_resources.      *)
RecipeOK(r) ==
  /\ r.track_count \in 1..MAX_TRACKS
  /\ \A t \in 0..(r.track_count - 1) : TrackOK(r.tracks[t])
  /\ r.completion_rule \in {"all_tracks", "any_track", "main_track"}
  /\ r.scenario_timeout_max \in Time
  /\ r.default_phase_timeout \in Time
  /\ r.resources \in SUBSET Resource
  /\ r.global_transitions \in Seq([kind : TransKind, scope : {"scenario", "main_track"}])

ASSUME RecipeAssumption ==
  /\ UINT32_MAX \in Nat
  /\ DT \in 1..UINT32_MAX
  /\ \A r \in Recipe : RecipeOK(r)

TracksOf(r) == 0..(r.track_count - 1)

PhaseOf(r, t, p) == r.tracks[t].phases[p]

(* The phase's own timeout, or the recipe's default for its phases.        *)
PhaseTimeout(r, t, p) ==
  IF PhaseOf(r, t, p).timeout # 0 THEN PhaseOf(r, t, p).timeout ELSE r.default_phase_timeout

(* find_main_track: the first track flagged main, or track 0.              *)
MainTrack(r) ==
  IF \E t \in TracksOf(r) : r.tracks[t].is_main
  THEN CHOOSE t \in TracksOf(r) :
         r.tracks[t].is_main /\ \A u \in 0..(t - 1) : ~ r.tracks[u].is_main
  ELSE 0

(* Seeded faults: the addition without the saturation, as Z and as uint32. *)
ElapseUnbounded(x) == x + DT

(* The saturating addition of instance_tick and track_tick.                *)
Elapse(x) == IF UINT32_MAX - DT < x THEN UINT32_MAX ELSE x + DT

(* transition_fires; cond says whether the transition's condition holds.   *)
TransitionFires(tr, elapsed, cond) ==
  CASE tr.kind = "unconditional" -> TRUE
    [] tr.kind = "time"          -> elapsed >= tr.time_threshold
    [] tr.kind = "cond"          -> cond
    [] tr.kind = "time_or_cond"  -> elapsed >= tr.time_threshold \/ cond
    [] tr.kind = "time_and_cond" -> elapsed >= tr.time_threshold /\ cond

(* A global transition has no time threshold: its time part never holds.   *)
GlobalFires(g, cond) ==
  \/ g.kind = "unconditional"
  \/ g.kind \in {"cond", "time_or_cond"} /\ cond

=============================================================================
