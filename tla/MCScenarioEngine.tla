-------------------------- MODULE MCScenarioEngine ---------------------------
(***************************************************************************)
(* Small recipes for TLC.  Each exercises what the others do not; together *)
(* they reach every branch of the tick.                                    *)
(***************************************************************************)
EXTENDS ScenarioEngine

Go(kind, time, target) == [kind |-> kind, time_threshold |-> time, target_phase |-> target]

APhase(timeout, claims, entries, exits, transitions) ==
  [timeout |-> timeout, phase_resources |-> claims, entry_action_n |-> entries,
   exit_action_n |-> exits, transitions |-> transitions]

ATrack(main, phases) ==
  [is_main |-> main, phase_count |-> Len(phases), initial_phase |-> 0,
   phases |-> [p \in 0..(Len(phases) - 1) |-> phases[p + 1]]]

ARecipe(rule, cap, default, resources, globals, trs) ==
  [track_count |-> Len(trs), tracks |-> [t \in 0..(Len(trs) - 1) |-> trs[t + 1]],
   completion_rule |-> rule, scenario_timeout_max |-> cap,
   default_phase_timeout |-> default, resources |-> resources,
   global_transitions |-> globals]

Complete == MODR_TARGET_COMPLETE
AbortIt  == MODR_TARGET_ABORT

(* One track: an idle phase, then one that needs two resources at once and *)
(* runs an entry and an exit action.                                       *)
Watering == ARecipe("all_tracks", 0, 3, {}, <<>>, <<
  ATrack(TRUE, <<
    APhase(0, {}, 0, 0, <<Go("unconditional", 0, 1)>>),
    APhase(5, {"pump", "valve"}, 1, 1, <<Go("cond", 0, AbortIt), Go("time", 1, Complete)>>)>>)>>)

(* Two tracks, the second one main; the first competes for the pump and    *)
(* loops until the main track, or the scenario's cap, ends it.             *)
Batch == ARecipe("main_track", 5, 4, {"heater"},
  <<[kind |-> "cond", scope |-> "main_track"]>>, <<
  ATrack(FALSE, <<
    APhase(0, {}, 0, 0, <<Go("cond", 0, 1)>>),
    APhase(3, {"pump"}, 0, 0, <<Go("time_or_cond", 2, 0)>>)>>),
  ATrack(TRUE, <<
    APhase(6, {}, 0, 0, <<Go("time_and_cond", 1, Complete)>>)>>)>>)

(* Holds the pump throughout and needs the heater on the way: with Batch,  *)
(* each can come to wait for the other.  No track is flagged main.         *)
Crossed == ARecipe("any_track", 0, 3, {"pump"},
  <<[kind |-> "time_and_cond", scope |-> "scenario"],
    [kind |-> "time_or_cond", scope |-> "scenario"]>>, <<
  ATrack(FALSE, <<
    APhase(0, {}, 0, 0, <<Go("unconditional", 0, 1)>>),
    APhase(0, {"heater"}, 0, 0, <<Go("cond", 0, Complete)>>)>>)>>)

(* For the claims of an initial phase.                                     *)
Eager == ARecipe("all_tracks", 0, 5, {}, <<>>, <<
  ATrack(TRUE, <<
    APhase(0, {"pump"}, 1, 0, <<Go("time", 1, 1)>>),
    APhase(0, {"pump", "valve"}, 0, 0, <<Go("time", 1, Complete)>>)>>)>>)

EagerRecipes == {Eager}

(* For what a scenario still owns when one of its tracks has decided it.   *)
Racing == ARecipe("any_track", 0, 6, {"heater"}, <<>>, <<
  ATrack(TRUE, <<
    APhase(0, {}, 0, 0, <<Go("cond", 0, Complete)>>)>>),
  ATrack(FALSE, <<
    APhase(0, {}, 0, 0, <<Go("unconditional", 0, 1)>>),
    APhase(0, {"pump"}, 0, 0, <<Go("cond", 0, Complete)>>)>>)>>)

RacingRecipes == {Racing}

MCResource == {"pump", "heater", "valve"}
CoreRecipes == {Watering, Batch, Crossed}

=============================================================================
