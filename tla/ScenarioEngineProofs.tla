------------------------ MODULE ScenarioEngineProofs -------------------------
(***************************************************************************)
(* Proofs about ScenarioEngine.tla for every set of recipes, resources,    *)
(* slots and tracks.                                                       *)
(***************************************************************************)
EXTENDS ScenarioEngine, TLAPS, FiniteSetTheorems

(***************************************************************************)
(* Lemmas about the recipe.                                                *)
(***************************************************************************)

(* A saturated clock stays a clock.                                        *)
LEMMA ElapseType ==
  ASSUME NEW x \in Time
  PROVE  Elapse(x) \in Time
BY RecipeAssumption DEF Elapse, Time

(* A set of natural numbers that is not empty has a least member: among    *)
(* its initial segments, one has no proper part that is a segment too.     *)
LEMMA LeastMember ==
  ASSUME NEW n \in Nat, NEW T \in SUBSET (0..n), T # {}
  PROVE  \E x \in T : \A y \in T : ~ (y < x)
<1> DEFINE upto(x) == {y \in T : y <= x}
           Segments == {upto(x) : x \in T}
<1>1. Segments \subseteq FiniteSubsetsOf(T) /\ Segments # {}
  <2>1. IsFiniteSet(T)
    <3>1. IsFiniteSet(0..n)
      BY FS_Interval, 0 \in Int, n \in Int
    <3> QED
      BY <3>1, FS_Subset
  <2>2. \A x \in T : upto(x) \in SUBSET T /\ IsFiniteSet(upto(x))
    BY <2>1, FS_Subset
  <2> QED
    BY <2>2 DEF FiniteSubsetsOf
<1>2. PICK S \in Segments :
        \A R \in Segments : ~ (<<R, S>> \in StrictSubsetOrdering(T))
  BY <1>1, FS_StrictSubsetOrderingWellFounded, WFMin
<1>3. PICK x \in T : S = upto(x)
  OBVIOUS
<1>4. ASSUME NEW y \in T, y < x
      PROVE  FALSE
  <2>1. \A z \in T : z \in Int
    OBVIOUS
  <2>2. upto(y) \subseteq upto(x) /\ x \in upto(x) /\ x \notin upto(y)
    <3>1. x \in Int /\ y \in Int
      BY <2>1
    <3>2. x <= x /\ ~ (x <= y)
      BY <1>4, <3>1
    <3>3. \A z \in T : z <= y => z <= x
      BY <1>4, <3>1, <2>1
    <3> QED
      BY <3>2, <3>3
  <2>3. <<upto(y), upto(x)>> \in StrictSubsetOrdering(T)
    BY <2>2 DEF StrictSubsetOrdering
  <2> QED
    BY <1>2, <1>3, <2>3
<1> QED
  BY <1>4

(* find_main_track returns a track of the recipe.                          *)
LEMMA MainTrackInRange ==
  ASSUME NEW r \in Recipe
  PROVE  MainTrack(r) \in TracksOf(r)
<1> DEFINE T == {t \in TracksOf(r) : r.tracks[t].is_main}
<1>1. 0 \in TracksOf(r) /\ TracksOf(r) \subseteq Nat
  BY RecipeAssumption, ArbiterAssumption DEF RecipeOK, TracksOf
<1>2. CASE T = {}
  BY <1>1, <1>2 DEF MainTrack
<1>3. CASE T # {}
  <2>1. PICK x \in T : \A y \in T : ~ (y < x)
    <3>1. r.track_count - 1 \in Nat /\ T \in SUBSET (0..(r.track_count - 1))
      BY RecipeAssumption, ArbiterAssumption DEF RecipeOK, TracksOf
    <3> HIDE DEF T
    <3> QED
      BY <3>1, <1>3, LeastMember
  <2>2. \A u \in 0..(x - 1) : u \in TracksOf(r) /\ ~ r.tracks[u].is_main
    BY <2>1, RecipeAssumption, ArbiterAssumption DEF RecipeOK, TracksOf
  <2>3. \E t \in TracksOf(r) : r.tracks[t].is_main /\ \A u \in 0..(t - 1) : ~ r.tracks[u].is_main
    BY <2>1, <2>2
  <2> QED
    BY <2>3, <1>3 DEF MainTrack
<1> QED
  BY <1>2, <1>3

(***************************************************************************)
(* Lemmas about the arbiter's map.                                         *)
(***************************************************************************)

(* acquire and release keep the map a map.                                 *)
LEMMA AcquireType ==
  ASSUME NEW own \in Ownership, NEW who \in OwnerInfo, NEW claims
  PROVE  Acquire(own, who, claims) \in Ownership
BY DEF Acquire, Ownership

(* Letting some owners go leaves an ownership map behind.                  *)
LEMMA ReleaseType ==
  ASSUME NEW own \in Ownership, NEW leaving
  PROVE  Release(own, leaving) \in Ownership
BY DEF Release, Ownership

(***************************************************************************)
(* Updates of a track, one field at a time.                                *)
(***************************************************************************)
LEMMA UpdateTrack ==
  ASSUME NEW f \in TrackType
  PROVE  /\ \A x \in TrackState : [f EXCEPT !.state = x] \in TrackType
         /\ \A x \in 0..254 : [f EXCEPT !.phase_idx = x] \in TrackType
         /\ \A x \in Time : [f EXCEPT !.elapsed = x] \in TrackType
         /\ \A x \in 0..255 : [f EXCEPT !.entry = x] \in TrackType
         /\ \A x \in LatchType : [f EXCEPT !.latch = x] \in TrackType
<1>1. \A x \in TrackState : [f EXCEPT !.state = x] \in TrackType
  BY DEF TrackType
<1>2. \A x \in 0..254 : [f EXCEPT !.phase_idx = x] \in TrackType
  BY DEF TrackType
<1>3. \A x \in Time : [f EXCEPT !.elapsed = x] \in TrackType
  BY DEF TrackType
<1>4. \A x \in 0..255 : [f EXCEPT !.entry = x] \in TrackType
  BY DEF TrackType
<1>5. \A x \in LatchType : [f EXCEPT !.latch = x] \in TrackType
  BY DEF TrackType
<1> QED
  BY <1>1, <1>2, <1>3, <1>4, <1>5

(* Writing one slot of the array writes that slot and no other.            *)
LEMMA UpdateSlot ==
  ASSUME NEW f \in SlotType, NEW s \in ScenarioState
  PROVE  /\ [f EXCEPT !.state = s] \in SlotType
         /\ [f EXCEPT !.state = s].recipe = f.recipe
         /\ [f EXCEPT !.state = s].state = s
BY DEF SlotType

(***************************************************************************)
(* What is always true of a loaded slot.                                   *)
(***************************************************************************)
IInv == TypeOK /\ WellFormed

(* Handles and track indices are natural numbers; the first slot and the   *)
(* first track exist.                                                      *)
LEMMA HandlesAndTracks ==
  /\ 1 \in Handle /\ 0 \in Track /\ Handle \subseteq Nat /\ Track \subseteq 0..253
  /\ \A h \in Handle : AtSlot(h) \in CursorType /\ AfterSlot(h) \in CursorType
  /\ FreshTrack \in TrackType
  /\ \A h \in Handle, t \in Track : <<h, t>> \in OwnerInfo
  /\ \A h \in Handle : <<h, TRACK_IDX_SCENARIO>> \in OwnerInfo
<1>1. 1 \in Handle /\ 0 \in Track /\ Handle \subseteq Nat /\ Track \subseteq 0..253
  BY ArbiterAssumption DEF Handle, Track
<1>2. \A h \in Handle : h < MAX_SEQUENCES => h + 1 \in Handle
  BY ArbiterAssumption DEF Handle
<1>3. \A h \in Handle : AtSlot(h) \in CursorType
  BY <1>1 DEF AtSlot, CursorType, ScenarioState
<1>4. \A h \in Handle : AfterSlot(h) \in CursorType
  BY <1>1, <1>2, <1>3 DEF AfterSlot
<1>5. FreshTrack \in TrackType
  BY RecipeAssumption DEF FreshTrack, NoLatch, TrackType, LatchType, PhaseTarget, TrackState, Time
<1> QED
  BY <1>1, <1>3, <1>4, <1>5 DEF OwnerInfo

(* The tracks of a recipe are validated and fit into a slot.               *)
LEMMA RecipeTracks ==
  ASSUME NEW r \in Recipe
  PROVE  /\ RecipeOK(r)
         /\ TracksOf(r) \subseteq Track /\ 0 \in TracksOf(r)
         /\ \A t \in TracksOf(r) : TrackOK(r.tracks[t])
<1>1. RecipeOK(r)
  BY RecipeAssumption
<1>2. r.track_count \in 1..MAX_TRACKS /\ \A t \in 0..(r.track_count - 1) : TrackOK(r.tracks[t])
  BY <1>1 DEF RecipeOK
<1> QED
  BY <1>1, <1>2, ArbiterAssumption DEF TracksOf, Track

(* A loaded slot holds one of the recipes, and the tracks of that recipe   *)
(* are among the tracks of the slot.                                       *)
LEMMA LoadedSlot ==
  ASSUME IInv, NEW h \in Handle, Loaded(h)
  PROVE  /\ RecipeOf(h) \in Recipe /\ RecipeOK(RecipeOf(h))
         /\ Tracks(h) \subseteq Track /\ 0 \in Tracks(h)
         /\ MainTrack(RecipeOf(h)) \in Tracks(h)
         /\ \A t \in Tracks(h) : TrackOK(RecipeOf(h).tracks[t])
<1>1. RecipeOf(h) \in Recipe
  BY DEF IInv, TypeOK, SlotType, Loaded, RecipeOf
<1>2. RecipeOK(RecipeOf(h))
  BY <1>1, RecipeTracks
<1>3. /\ Tracks(h) \subseteq Track /\ 0 \in Tracks(h)
      /\ \A t \in Tracks(h) : TrackOK(RecipeOf(h).tracks[t])
  BY <1>1, RecipeTracks DEF Tracks
<1> QED
  BY <1>1, <1>2, <1>3, MainTrackInRange DEF Tracks

(* The action counters of a phase fit a byte.                              *)
LEMMA PhaseCounters ==
  ASSUME NEW n, NEW ph \in PhasesOf(n)
  PROVE  ph.exit_action_n \in 0..255 /\ ph.entry_action_n \in 0..255
BY DEF PhasesOf

(* The current phase of a track is a phase of its table.                   *)
LEMMA CurrentPhase ==
  ASSUME IInv, NEW h \in Handle, Loaded(h), NEW t \in Tracks(h)
  PROVE  /\ RecipeOf(h).tracks[t].phase_count \in 1..255
         /\ tracks[h][t] \in TrackType
         /\ tracks[h][t].phase_idx \in 0..(RecipeOf(h).tracks[t].phase_count - 1)
         /\ \A p \in 0..(RecipeOf(h).tracks[t].phase_count - 1) :
              PhaseOf(RecipeOf(h), t, p) \in PhasesOf(RecipeOf(h).tracks[t].phase_count)
         /\ Phase(h, t) \in PhasesOf(RecipeOf(h).tracks[t].phase_count)
<1>1. TrackOK(RecipeOf(h).tracks[t]) /\ t \in Track
  BY LoadedSlot
<1>2. tracks[h][t] \in TrackType
  BY <1>1 DEF IInv, TypeOK
<1>3. tracks[h][t].phase_idx \in 0..(RecipeOf(h).tracks[t].phase_count - 1)
  BY DEF IInv, WellFormed, IndicesInRange, InRange
<1> QED
  BY <1>1, <1>2, <1>3 DEF TrackOK, Phase, PhaseOf

(***************************************************************************)
(* Every step preserves IInv.  A call first.                               *)
(***************************************************************************)

(* Between ticks nothing is promised about the cursor's slot.              *)
LEMMA CallKeepsCursor ==
  ASSUME BetweenTicks, UNCHANGED cursor
  PROVE  TickIsUndisturbed'
BY DEF BetweenTicks, AtSlot, TickIsUndisturbed

(* A step that works on a slot that is started, and only on that one.      *)
LEMMA SlotStep ==
  ASSUME IInv, NEW h \in Handle, Loaded(h),
         NEW slot \in SlotType, slots' = [slots EXCEPT ![h] = slot],
         slot.recipe = RecipeOf(h), slot.state \notin {"IDLE", "LOADED"},
         NEW trs \in [Track -> TrackType], tracks' = [tracks EXCEPT ![h] = trs],
         \A t \in Tracks(h) : InRange(RecipeOf(h), t, trs[t])
  PROVE  /\ slots' \in [Handle -> SlotType]
         /\ tracks' \in [Handle -> [Track -> TrackType]]
         /\ SlotsAreWhole' /\ FreshUntilStarted' /\ IndicesInRange'
         /\ Loaded(h)' /\ RecipeOf(h)' = RecipeOf(h) /\ Tracks(h)' = Tracks(h)
<1>1. /\ slots' \in [Handle -> SlotType]
      /\ tracks' \in [Handle -> [Track -> TrackType]]
  BY DEF IInv, TypeOK
<1>2. slots'[h] = slot /\ tracks'[h] = trs
  BY DEF IInv, TypeOK
<1>3. \A g \in Handle : g # h => slots'[g] = slots[g] /\ tracks'[g] = tracks[g]
  BY DEF IInv, TypeOK
<1>4. \A g \in Handle : RecipeOf(g)' = RecipeOf(g) /\ Loaded(g)' = Loaded(g)
                       /\ Tracks(g)' = Tracks(g)
  BY <1>2, <1>3 DEF RecipeOf, Loaded, Tracks
<1>5. SlotsAreWhole'
  BY <1>2, <1>3, <1>4 DEF IInv, WellFormed, SlotsAreWhole
<1>6. FreshUntilStarted'
  BY <1>2, <1>3 DEF IInv, WellFormed, FreshUntilStarted
<1>7. IndicesInRange'
  BY <1>2, <1>3, <1>4 DEF IInv, WellFormed, IndicesInRange
<1> QED
  BY <1>1, <1>4, <1>5, <1>6, <1>7

(* load_buffer and load_path keep the inductive invariant.                 *)
LEMMA LoadStep ==
  ASSUME IInv, NEW h \in Handle, NEW r \in Recipe, Load(h, r)
  PROVE  IInv'
<1>1. TypeOK'
  <2>1. [recipe |-> r, state |-> "LOADED", elapsed |-> 0] \in SlotType
    BY RecipeAssumption DEF SlotType, ScenarioState, Time
  <2> QED
    BY <2>1, HandlesAndTracks DEF IInv, TypeOK, Load, NoPhase
<1>2. SlotsAreWhole'
  BY NoRecipeAssumption DEF IInv, TypeOK, WellFormed, SlotsAreWhole, Load, Loaded
<1>3. FreshUntilStarted'
  BY DEF IInv, TypeOK, WellFormed, FreshUntilStarted, Load
<1>4. IndicesInRange'
  <2> SUFFICES ASSUME NEW g \in Handle, Loaded(g)', NEW t \in Tracks(g)'
               PROVE  InRange(RecipeOf(g)', t, tracks'[g][t])
    BY DEF IndicesInRange
  <2>1. CASE g = h
    <3>1. RecipeOf(g)' = r /\ t \in TracksOf(r)
      BY <2>1 DEF IInv, TypeOK, Load, RecipeOf, Tracks
    <3>2. t \in Track /\ r.tracks[t].phase_count \in 1..255
      <4>1. t \in Track /\ TrackOK(r.tracks[t])
        BY <3>1, RecipeTracks
      <4> QED
        BY <4>1 DEF TrackOK
    <3>3. tracks'[g][t] = FreshTrack
      BY <2>1, <3>2 DEF IInv, TypeOK, Load
    <3> QED
      BY <3>1, <3>2, <3>3 DEF FreshTrack, NoLatch, InRange
  <2>2. CASE g # h
    BY <2>2 DEF IInv, TypeOK, WellFormed, IndicesInRange, Load, Loaded, RecipeOf, Tracks
  <2> QED
    BY <2>1, <2>2
<1> QED
  BY <1>1, <1>2, <1>3, <1>4, CallKeepsCursor DEF IInv, WellFormed, Load

(* The tracks as instance_start leaves them.                               *)
LEMMA StartedTrackType ==
  ASSUME NEW r \in Recipe, NEW t \in TracksOf(r)
  PROVE  StartedTrack(r, t) \in TrackType /\ InRange(r, t, StartedTrack(r, t))
<1> DEFINE n == r.tracks[t].phase_count
           p == r.tracks[t].initial_phase
<1>1. n \in 1..255 /\ p \in 0..(n - 1)
  BY RecipeAssumption DEF RecipeOK, TracksOf, TrackOK
<1>2. p \in 0..254
  <2> HIDE DEF n, p
  <2> QED
    BY <1>1
<1>3. [FreshTrack EXCEPT !.state = "RUNNING"] \in TrackType
  BY HandlesAndTracks, UpdateTrack DEF TrackState
<1>4. [[FreshTrack EXCEPT !.state = "RUNNING"] EXCEPT !.phase_idx = p] \in TrackType
  <2> HIDE DEF p
  <2> QED
    BY <1>2, <1>3, UpdateTrack
<1>5. StartedTrack(r, t) \in TrackType
  BY <1>4 DEF StartedTrack
<1> QED
  BY <1>1, <1>5 DEF StartedTrack, FreshTrack, NoLatch, InRange

(* start keeps the inductive invariant.                                    *)
LEMMA StartStep ==
  ASSUME IInv, NEW h \in Handle, Start(h)
  PROVE  IInv'
<1> DEFINE slot == [slots[h] EXCEPT !.state = "RUNNING", !.elapsed = 0]
           trs == [t \in Track |-> IF t \in Tracks(h) THEN StartedTrack(RecipeOf(h), t)
                                   ELSE tracks[h][t]]
<1>1. Loaded(h)
  BY DEF IInv, WellFormed, SlotsAreWhole, Start
<1>2. slot \in SlotType /\ slot.recipe = RecipeOf(h) /\ slot.state = "RUNNING"
  <2>1. slots[h] \in SlotType /\ 0 \in Time /\ "RUNNING" \in ScenarioState
    BY RecipeAssumption DEF IInv, TypeOK, ScenarioState, Time
  <2> QED
    BY <2>1 DEF SlotType, RecipeOf
<1>3. slots' = [slots EXCEPT ![h] = slot] /\ tracks' = [tracks EXCEPT ![h] = trs]
  BY DEF Start, IInv, TypeOK
<1>4. trs \in [Track -> TrackType] /\ \A t \in Tracks(h) : InRange(RecipeOf(h), t, trs[t])
  BY <1>1, LoadedSlot, StartedTrackType DEF IInv, TypeOK, Tracks
<1>5. owners' \in Ownership
  BY AcquireType, HandlesAndTracks DEF IInv, TypeOK, Start
<1> HIDE DEF slot, trs
<1>6. /\ slots' \in [Handle -> SlotType]
      /\ tracks' \in [Handle -> [Track -> TrackType]]
      /\ SlotsAreWhole' /\ FreshUntilStarted' /\ IndicesInRange'
  BY <1>1, <1>2, <1>3, <1>4, SlotStep
<1> QED
  BY <1>5, <1>6, CallKeepsCursor DEF IInv, TypeOK, WellFormed, Start

(* pause and resume only set the state.                                    *)
LEMMA PauseResumeStep ==
  ASSUME IInv, NEW h \in Handle, Pause(h) \/ Resume(h)
  PROVE  IInv'
<1>1. Loaded(h)
  BY DEF IInv, WellFormed, SlotsAreWhole, Pause, Resume
<1>2. PICK s \in {"RUNNING", "PAUSED"} : slots' = [slots EXCEPT ![h].state = s]
  BY DEF Pause, Resume
<1> DEFINE slot == [slots[h] EXCEPT !.state = s]
<1>3. slot \in SlotType /\ slot.recipe = RecipeOf(h) /\ slot.state = s
  <2>1. slots[h] \in SlotType /\ s \in ScenarioState
    BY DEF IInv, TypeOK, ScenarioState
  <2> QED
    BY <2>1, UpdateSlot DEF RecipeOf
<1>4. slots' = [slots EXCEPT ![h] = slot] /\ tracks' = [tracks EXCEPT ![h] = tracks[h]]
  BY <1>2 DEF IInv, TypeOK, Pause, Resume
<1>5. /\ tracks[h] \in [Track -> TrackType]
      /\ \A t \in Tracks(h) : InRange(RecipeOf(h), t, tracks[h][t])
  BY <1>1 DEF IInv, TypeOK, WellFormed, IndicesInRange
<1> HIDE DEF slot
<1>6. /\ slots' \in [Handle -> SlotType]
      /\ tracks' \in [Handle -> [Track -> TrackType]]
      /\ SlotsAreWhole' /\ FreshUntilStarted' /\ IndicesInRange'
  BY <1>1, <1>3, <1>4, <1>5, SlotStep
<1> QED
  BY <1>6, CallKeepsCursor DEF IInv, TypeOK, WellFormed, Pause, Resume

(* What instance_abort leaves behind.                                      *)
LEMMA AbortedTracksType ==
  ASSUME IInv, NEW h \in Handle, Loaded(h)
  PROVE  /\ AbortedTracks(h) \in [Track -> TrackType]
         /\ \A t \in Tracks(h) : InRange(RecipeOf(h), t, AbortedTracks(h)[t])
<1> SUFFICES ASSUME NEW t \in Track
             PROVE  /\ AbortedTracks(h)[t] \in TrackType
                    /\ t \in Tracks(h) => InRange(RecipeOf(h), t, AbortedTracks(h)[t])
  BY LoadedSlot DEF AbortedTracks
<1>1. tracks[h][t] \in TrackType
      /\ (t \in Tracks(h) => InRange(RecipeOf(h), t, tracks[h][t]))
  BY DEF IInv, TypeOK, WellFormed, IndicesInRange
<1> DEFINE failed == [tracks[h][t] EXCEPT !.state = "FAILED"]
<1>2. failed \in TrackType
  BY <1>1, UpdateTrack DEF TrackState
<1>3. failed.phase_idx = tracks[h][t].phase_idx /\ failed.latch = tracks[h][t].latch
  BY <1>1 DEF TrackType
<1>4. AbortedTracks(h)[t] \in {failed, tracks[h][t]}
  BY DEF AbortedTracks
<1> HIDE DEF failed
<1> QED
  BY <1>1, <1>2, <1>3, <1>4 DEF InRange

(* abort keeps the inductive invariant.                                    *)
LEMMA AbortStep ==
  ASSUME IInv, NEW h \in Handle, Abort(h)
  PROVE  IInv'
<1> DEFINE slot == [slots[h] EXCEPT !.state = "ABORTING"]
<1>1. Loaded(h)
  BY DEF IInv, WellFormed, SlotsAreWhole, Abort
<1>2. slot \in SlotType /\ slot.recipe = RecipeOf(h) /\ slot.state = "ABORTING"
  <2>1. slots[h] \in SlotType /\ "ABORTING" \in ScenarioState
    BY DEF IInv, TypeOK, ScenarioState
  <2> QED
    BY <2>1, UpdateSlot DEF RecipeOf
<1>3. slots' = [slots EXCEPT ![h] = slot] /\ tracks' = [tracks EXCEPT ![h] = AbortedTracks(h)]
  BY DEF Abort, InstanceAbort, IInv, TypeOK
<1>4. owners' \in Ownership
  BY ReleaseType DEF IInv, TypeOK, Abort, InstanceAbort
<1> HIDE DEF slot
<1>5. /\ slots' \in [Handle -> SlotType]
      /\ tracks' \in [Handle -> [Track -> TrackType]]
      /\ SlotsAreWhole' /\ FreshUntilStarted' /\ IndicesInRange'
  BY <1>1, <1>2, <1>3, AbortedTracksType, SlotStep
<1> QED
  BY <1>4, <1>5, CallKeepsCursor DEF IInv, TypeOK, WellFormed, Abort

(* unload keeps the inductive invariant.                                   *)
LEMMA UnloadStep ==
  ASSUME IInv, NEW h \in Handle, Unload(h)
  PROVE  IInv'
<1>1. EmptySlot \in SlotType /\ EmptySlot.recipe = NoRecipe /\ EmptySlot.state = "IDLE"
  BY RecipeAssumption DEF EmptySlot, SlotType, ScenarioState, Time
<1>2. TypeOK'
  BY <1>1, ReleaseType, HandlesAndTracks DEF IInv, TypeOK, Unload
<1>3. /\ slots'[h] = EmptySlot /\ tracks'[h] = [t \in Track |-> FreshTrack]
      /\ \A g \in Handle : g # h => slots'[g] = slots[g] /\ tracks'[g] = tracks[g]
  BY DEF IInv, TypeOK, Unload
<1>4. SlotsAreWhole'
  BY <1>1, <1>3 DEF IInv, WellFormed, SlotsAreWhole, Loaded
<1>5. FreshUntilStarted'
  BY <1>3 DEF IInv, WellFormed, FreshUntilStarted
<1>6. IndicesInRange'
  BY <1>1, <1>3 DEF IInv, WellFormed, IndicesInRange, Loaded, RecipeOf, Tracks
<1> QED
  BY <1>2, <1>4, <1>5, <1>6, CallKeepsCursor DEF IInv, WellFormed, Unload

(* on_stop followed by on_init keeps the inductive invariant.              *)
LEMMA RestartStep ==
  ASSUME IInv, Restart
  PROVE  IInv'
<1>1. EmptySlot \in SlotType /\ EmptySlot.recipe = NoRecipe /\ EmptySlot.state = "IDLE"
  BY RecipeAssumption DEF EmptySlot, SlotType, ScenarioState, Time
<1>2. NoOwners \in Ownership
  BY DEF NoOwners, Ownership
<1>3. TypeOK'
  BY <1>1, <1>2, HandlesAndTracks DEF IInv, TypeOK, Restart, NoPhase
<1>4. SlotsAreWhole' /\ FreshUntilStarted' /\ IndicesInRange'
  BY <1>1 DEF Restart, SlotsAreWhole, FreshUntilStarted, IndicesInRange, Loaded
<1> QED
  BY <1>3, <1>4, CallKeepsCursor DEF IInv, WellFormed, Restart

(***************************************************************************)
(* The steps of a tick.                                                    *)
(***************************************************************************)
LEMMA SkipStep ==
  ASSUME IInv, NEW h \in Handle, SkipEmptySlot(h) \/ SkipDormantSlot(h) \/ Observe(h)
  PROVE  IInv'
<1>1. UNCHANGED <<slots, tracks, owners>>
  BY DEF SkipEmptySlot, SkipDormantSlot, Observe
<1>2. cursor' = AfterSlot(h) \/ (cursor' = AtObserve(h, slots[h].state) /\ Loaded(h))
  BY DEF SkipEmptySlot, SkipDormantSlot, Observe
<1>3. AtObserve(h, slots[h].state) \in CursorType
  BY HandlesAndTracks DEF IInv, TypeOK, SlotType, AtObserve, CursorType
<1>4. cursor' \in CursorType
  BY <1>2, <1>3, HandlesAndTracks
<1>5. emitted_phase' \in [Handle -> [Track -> 0..255]]
  <2>1. CASE Observe(h)
    <3>1. Loaded(h)
      BY <2>1 DEF IInv, WellFormed, TickIsUndisturbed, Observe
    <3>2. \A t \in Tracks(h) : tracks[h][t].phase_idx \in 0..255
      <4> SUFFICES ASSUME NEW t \in Tracks(h) PROVE tracks[h][t].phase_idx \in 0..255
        OBVIOUS
      <4>1. tracks[h][t] \in TrackType
        BY <3>1, CurrentPhase
      <4> QED
        BY <4>1 DEF TrackType
    <3>3. emitted_phase \in [Handle -> [Track -> 0..255]]
      BY DEF IInv, TypeOK
    <3> DEFINE seen == [t \in Track |-> IF t \in Tracks(h) THEN tracks[h][t].phase_idx
                                        ELSE emitted_phase[h][t]]
    <3>4. seen \in [Track -> 0..255]
      BY <3>2, <3>3
    <3>5. emitted_phase' = [emitted_phase EXCEPT ![h] = seen]
      BY <2>1 DEF Observe
    <3> HIDE DEF seen
    <3> QED
      BY <3>3, <3>4, <3>5
  <2>2. CASE SkipEmptySlot(h) \/ SkipDormantSlot(h)
    BY <2>2 DEF IInv, TypeOK, SkipEmptySlot, SkipDormantSlot
  <2> QED
    BY <2>1, <2>2
<1>6. observed' \in [Handle -> {"nothing", "started", "COMPLETED", "FAILED", "unexpected"}]
  BY DEF IInv, TypeOK, SkipEmptySlot, SkipDormantSlot, Observe, TerminalEdge, EndState
<1>7. TickIsUndisturbed'
  BY <1>1, <1>2 DEF TickIsUndisturbed, AfterSlot, AtSlot, AtObserve, Loaded
<1>8. SlotsAreWhole' /\ FreshUntilStarted' /\ IndicesInRange'
  BY <1>1 DEF IInv, WellFormed, SlotsAreWhole, FreshUntilStarted, IndicesInRange,
              Loaded, RecipeOf, Tracks
<1> QED
  BY <1>1, <1>4, <1>5, <1>6, <1>7, <1>8 DEF IInv, TypeOK, WellFormed

(* The prologue leaves the slot ticking and hands over to its first track. *)
LEMMA PrologueStep ==
  ASSUME IInv, NEW h \in Handle, Prologue(h),
         NEW s \in {"RUNNING", "ABORTING"}, SlotTicked(h, s),
         NEW trs \in [Track -> TrackType], tracks' = [tracks EXCEPT ![h] = trs],
         \A t \in Tracks(h) : InRange(RecipeOf(h), t, trs[t]),
         owners' \in Ownership
  PROVE  IInv'
<1> DEFINE slot == [slots[h] EXCEPT !.state = s, !.elapsed = Elapse(slots[h].elapsed)]
<1>1. Loaded(h) /\ Ticking(h)
  BY DEF Prologue
<1>2. slots[h] \in SlotType /\ Elapse(slots[h].elapsed) \in Time
  <2>1. slots[h] \in SlotType
    BY DEF IInv, TypeOK
  <2> QED
    BY <2>1, ElapseType DEF SlotType
<1>3. slot \in SlotType /\ slot.recipe = RecipeOf(h) /\ slot.state = s
  BY <1>2 DEF SlotType, ScenarioState, RecipeOf
<1>4. slots' = [slots EXCEPT ![h] = slot]
  BY DEF SlotTicked, IInv, TypeOK
<1> HIDE DEF slot
<1>5. /\ slots' \in [Handle -> SlotType]
      /\ tracks' \in [Handle -> [Track -> TrackType]]
      /\ SlotsAreWhole' /\ FreshUntilStarted' /\ IndicesInRange'
      /\ Loaded(h)' /\ Tracks(h)' = Tracks(h)
  BY <1>1, <1>3, <1>4, SlotStep
<1>6. cursor' = [at |-> "track", h |-> h, t |-> 0, prev |-> slots[h].state]
  BY DEF Prologue
<1>7. cursor' \in CursorType
  BY <1>2, <1>6, HandlesAndTracks DEF CursorType, SlotType
<1>8. Ticking(h)'
  BY <1>3, <1>4 DEF Ticking, IInv, TypeOK
<1>9. TickIsUndisturbed'
  BY <1>1, <1>5, <1>6, <1>8, LoadedSlot DEF TickIsUndisturbed
<1> QED
  BY <1>5, <1>7, <1>9 DEF IInv, TypeOK, WellFormed, Prologue

(* A slot whose tracks stay as they are still has its indices in range.    *)
LEMMA TracksUntouched ==
  ASSUME IInv, NEW h \in Handle, Loaded(h)
  PROVE  /\ tracks[h] \in [Track -> TrackType] /\ tracks = [tracks EXCEPT ![h] = tracks[h]]
         /\ \A t \in Tracks(h) : InRange(RecipeOf(h), t, tracks[h][t])
BY DEF IInv, TypeOK, WellFormed, IndicesInRange

(* A prologue that only moves the clock keeps the inductive invariant.     *)
LEMMA PlainPrologueStep ==
  ASSUME IInv, NEW h \in Handle, PlainPrologue(h)
  PROVE  IInv'
<1>1. slots[h].state \in {"RUNNING", "ABORTING"} /\ Loaded(h)
  BY DEF PlainPrologue, Prologue, Ticking
<1> QED
  BY <1>1, TracksUntouched, PrologueStep DEF PlainPrologue, IInv, TypeOK

(* A prologue that aborts the scenario keeps the inductive invariant.      *)
LEMMA AbortingPrologueStep ==
  ASSUME IInv, NEW h \in Handle, Prologue(h), SlotTicked(h, "ABORTING"), InstanceAbort(h)
  PROVE  IInv'
<1>1. Loaded(h)
  BY DEF Prologue
<1>2. tracks' = [tracks EXCEPT ![h] = AbortedTracks(h)] /\ owners' \in Ownership
  BY ReleaseType DEF IInv, TypeOK, InstanceAbort
<1> QED
  BY <1>1, <1>2, AbortedTracksType, PrologueStep

(* A global transition keeps the inductive invariant, in either scope.     *)
LEMMA GlobalTransitionStep ==
  ASSUME IInv, NEW h \in Handle, GlobalTransition(h)
  PROVE  IInv'
<1> DEFINE main == MainTrack(RecipeOf(h))
           failed == [tracks[h][main] EXCEPT !.state = "FAILED"]
           trs == [tracks[h] EXCEPT ![main] = failed]
<1>1. CASE SlotTicked(h, "ABORTING") /\ InstanceAbort(h)
  BY <1>1, AbortingPrologueStep DEF GlobalTransition
<1>2. CASE /\ SlotTicked(h, "RUNNING")
           /\ tracks' = [tracks EXCEPT ![h][main].state = "FAILED"]
           /\ owners' = ReleasePhase(owners, h, main)
  <2>1. Prologue(h) /\ Loaded(h)
    BY DEF GlobalTransition, Prologue
  <2>2. main \in Tracks(h) /\ main \in Track
    BY <2>1, LoadedSlot
  <2>3. tracks' = [tracks EXCEPT ![h] = trs]
    BY <1>2, <2>2 DEF IInv, TypeOK
  <2>4. tracks[h] \in [Track -> TrackType] /\ tracks[h][main] \in TrackType
    BY <2>2 DEF IInv, TypeOK
  <2>5. failed \in TrackType
    BY <2>4, UpdateTrack DEF TrackState
  <2>6. failed.phase_idx = tracks[h][main].phase_idx /\ failed.latch = tracks[h][main].latch
    BY <2>4 DEF TrackType
  <2> HIDE DEF failed, main
  <2>7. trs \in [Track -> TrackType]
    BY <2>4, <2>5
  <2>8. \A t \in Tracks(h) : InRange(RecipeOf(h), t, trs[t])
    BY <2>1, <2>2, <2>4, <2>6, TracksUntouched, LoadedSlot DEF InRange
  <2>9. owners' \in Ownership
    BY <1>2, ReleaseType DEF ReleasePhase, IInv, TypeOK
  <2> HIDE DEF trs
  <2> QED
    BY <1>2, <2>1, <2>3, <2>7, <2>8, <2>9, PrologueStep
<1> QED
  BY <1>1, <1>2 DEF GlobalTransition

(***************************************************************************)
(* The tick of a track.                                                    *)
(***************************************************************************)
LEMMA TrackTurnFacts ==
  ASSUME IInv, NEW h \in Handle, NEW t \in Track, TrackTurn(h, t)
  PROVE  /\ Loaded(h) /\ Ticking(h) /\ t \in Tracks(h)
         /\ tracks[h][t] \in TrackType
         /\ InRange(RecipeOf(h), t, tracks[h][t])
BY DEF IInv, TypeOK, WellFormed, SlotsAreWhole, IndicesInRange, TickIsUndisturbed,
       TrackTurn, Ticking

(* Whatever a turn makes of its own track, as long as it is a track of the *)
(* recipe, the rest stays as it was.                                       *)
LEMMA TrackStep ==
  ASSUME IInv, NEW h \in Handle, NEW t \in Track, TrackTurn(h, t),
         NEW tr \in TrackType, InRange(RecipeOf(h), t, tr), SetTrack(h, t, tr),
         owners' \in Ownership
  PROVE  IInv'
<1> DEFINE trs == [tracks[h] EXCEPT ![t] = tr]
<1>1. Loaded(h) /\ Ticking(h) /\ t \in Tracks(h)
  BY TrackTurnFacts
<1>2. tracks[h] \in [Track -> TrackType] /\ trs \in [Track -> TrackType]
  BY DEF IInv, TypeOK
<1>3. \A u \in Tracks(h) : InRange(RecipeOf(h), u, trs[u])
  BY <1>1, <1>2, TracksUntouched, LoadedSlot
<1>4. tracks' = [tracks EXCEPT ![h] = trs]
  BY DEF SetTrack, IInv, TypeOK
<1>5. /\ slots[h] \in SlotType /\ slots' = [slots EXCEPT ![h] = slots[h]]
      /\ slots[h].recipe = RecipeOf(h) /\ slots[h].state \notin {"IDLE", "LOADED"}
  BY <1>1 DEF TrackTurn, IInv, TypeOK, RecipeOf, Ticking
<1> HIDE DEF trs
<1>6. /\ slots' \in [Handle -> SlotType]
      /\ tracks' \in [Handle -> [Track -> TrackType]]
      /\ SlotsAreWhole' /\ FreshUntilStarted' /\ IndicesInRange'
  BY <1>1, <1>2, <1>3, <1>4, <1>5, SlotStep
<1>7. cursor' \in CursorType
  <2>1. cursor \in CursorType /\ Tracks(h) \subseteq Track /\ 0 \in Track
    BY <1>1, LoadedSlot, HandlesAndTracks DEF IInv, TypeOK
  <2> QED
    BY <2>1 DEF TrackTurn, CursorType
<1>8. TickIsUndisturbed'
  <2>1. cursor.h = h /\ cursor'.h = h /\ cursor'.at \in {"track", "completion"}
        /\ (cursor'.at = "track" => cursor'.t \in Tracks(h))
    BY DEF TrackTurn, IInv, TypeOK, CursorType
  <2>2. Ticking(h)' /\ Tracks(h)' = Tracks(h)
    BY <1>1 DEF TrackTurn, Ticking, Tracks, RecipeOf
  <2> QED
    BY <2>1, <2>2 DEF TickIsUndisturbed, Ticking, Tracks, RecipeOf
<1> QED
  BY <1>6, <1>7, <1>8 DEF IInv, TypeOK, WellFormed, TrackTurn

(* A track whose clock has advanced is still a track in range of its       *)
(* recipe.                                                                 *)
LEMMA ClockedTrack ==
  ASSUME NEW h, NEW t, tracks[h][t] \in TrackType
  PROVE  /\ Clocked(h, t) \in TrackType
         /\ Clocked(h, t).state = tracks[h][t].state
         /\ Clocked(h, t).phase_idx = tracks[h][t].phase_idx
         /\ Clocked(h, t).entry = tracks[h][t].entry
         /\ Clocked(h, t).latch = tracks[h][t].latch
<1>1. tracks[h][t].elapsed \in Time
  BY DEF TrackType
<1>2. Elapse(tracks[h][t].elapsed) \in Time
  BY <1>1, ElapseType
<1>3. Clocked(h, t) \in TrackType
  BY <1>2, UpdateTrack DEF Clocked
<1> QED
  BY <1>3 DEF Clocked, TrackType

(* The clocked track in another state: as it waits, works, fails or ends.  *)
LEMMA ClockedInState ==
  ASSUME NEW h, NEW t, tracks[h][t] \in TrackType, NEW s \in TrackState
  PROVE  /\ [Clocked(h, t) EXCEPT !.state = s] \in TrackType
         /\ [Clocked(h, t) EXCEPT !.state = s].state = s
         /\ [Clocked(h, t) EXCEPT !.state = s].phase_idx = tracks[h][t].phase_idx
         /\ [Clocked(h, t) EXCEPT !.state = s].entry = tracks[h][t].entry
         /\ [Clocked(h, t) EXCEPT !.state = s].latch = tracks[h][t].latch
<1>1. Clocked(h, t) \in TrackType
  BY ClockedTrack
<1>2. [Clocked(h, t) EXCEPT !.state = s] \in TrackType
  BY <1>1, UpdateTrack
<1>3. /\ [Clocked(h, t) EXCEPT !.state = s].state = s
      /\ [Clocked(h, t) EXCEPT !.state = s].phase_idx = Clocked(h, t).phase_idx
      /\ [Clocked(h, t) EXCEPT !.state = s].entry = Clocked(h, t).entry
      /\ [Clocked(h, t) EXCEPT !.state = s].latch = Clocked(h, t).latch
  BY <1>1 DEF TrackType
<1> QED
  BY <1>2, <1>3, ClockedTrack

(* A track that gets to work is in range of its recipe.                    *)
LEMMA WorkingTrack ==
  ASSUME NEW h, NEW t, tracks[h][t] \in TrackType
  PROVE  /\ Working(h, t) \in TrackType
         /\ Working(h, t).state = IF tracks[h][t].state = "WAITING_FOR_RESOURCE" THEN "RUNNING"
                                  ELSE tracks[h][t].state
         /\ Working(h, t).phase_idx = tracks[h][t].phase_idx
         /\ Working(h, t).entry = tracks[h][t].entry
         /\ Working(h, t).latch = tracks[h][t].latch
<1> DEFINE s == IF tracks[h][t].state = "WAITING_FOR_RESOURCE" THEN "RUNNING"
                ELSE tracks[h][t].state
<1>1. s \in TrackState
  BY DEF TrackType, TrackState
<1>2. Working(h, t) = [Clocked(h, t) EXCEPT !.state = s]
  BY ClockedTrack DEF Working
<1> HIDE DEF s
<1>3. /\ Working(h, t) \in TrackType /\ Working(h, t).state = s
      /\ Working(h, t).phase_idx = tracks[h][t].phase_idx
      /\ Working(h, t).entry = tracks[h][t].entry
      /\ Working(h, t).latch = tracks[h][t].latch
  BY <1>1, <1>2, ClockedInState
<1> QED
  BY <1>3 DEF s

(* What a working track owns is an ownership map again.                    *)
LEMMA OwnersType ==
  ASSUME IInv, NEW h \in Handle, NEW t \in Track
  PROVE  /\ owners \in Ownership
         /\ WorkingOwners(h, t) \in Ownership
         /\ ReleasePhase(owners, h, t) \in Ownership
BY AcquireType, ReleaseType, HandlesAndTracks
DEF IInv, TypeOK, WorkingOwners, ReleasePhase

(* A turn that leaves its track alone keeps the inductive invariant.       *)
LEMMA TrackDormantStep ==
  ASSUME IInv, NEW h \in Handle, NEW t \in Track, TrackDormant(h, t)
  PROVE  IInv'
<1>1. TrackTurn(h, t) /\ UNCHANGED <<tracks, owners>>
  BY DEF TrackDormant
<1>2. SetTrack(h, t, tracks[h][t])
  BY <1>1 DEF SetTrack, IInv, TypeOK
<1> QED
  BY <1>1, <1>2, TrackTurnFacts, OwnersType, TrackStep

(* A track fails in one of its turns.                                      *)
LEMMA FailTrackStep ==
  ASSUME IInv, NEW h \in Handle, NEW t \in Track, TrackTurn(h, t), FailTrack(h, t)
  PROVE  IInv'
<1> DEFINE tr == [Clocked(h, t) EXCEPT !.state = "FAILED"]
<1>1. tracks[h][t] \in TrackType /\ InRange(RecipeOf(h), t, tracks[h][t])
  BY TrackTurnFacts
<1>2. "FAILED" \in TrackState
  BY DEF TrackState
<1>3. /\ tr \in TrackType
      /\ tr.phase_idx = tracks[h][t].phase_idx /\ tr.latch = tracks[h][t].latch
  BY <1>1, <1>2, ClockedInState
<1>4. SetTrack(h, t, tr) /\ owners' = ReleasePhase(owners, h, t)
  BY DEF FailTrack
<1> HIDE DEF tr
<1>5. InRange(RecipeOf(h), t, tr)
  BY <1>1, <1>3 DEF InRange
<1> QED
  BY <1>3, <1>4, <1>5, OwnersType, TrackStep

(* A turn of a track that waits on keeps the inductive invariant.          *)
LEMMA TrackWaitsStep ==
  ASSUME IInv, NEW h \in Handle, NEW t \in Track, TrackWaits(h, t)
  PROVE  IInv'
<1> DEFINE s == IF TimedOut(h, t) THEN "FAILED" ELSE tracks[h][t].state
           tr == [Clocked(h, t) EXCEPT !.state = s]
<1>1. TrackTurn(h, t) /\ tracks[h][t] \in TrackType
  BY TrackTurnFacts DEF TrackWaits
<1>2. s \in TrackState
  BY <1>1 DEF TrackType, TrackState
<1>3. SetTrack(h, t, tr)
  BY <1>1, ClockedTrack DEF TrackWaits
<1> HIDE DEF s
<1>4. tr \in TrackType /\ InRange(RecipeOf(h), t, tr)
  BY <1>1, <1>2, TrackTurnFacts, ClockedInState DEF InRange
<1> QED
  BY <1>1, <1>3, <1>4, OwnersType, TrackStep DEF TrackWaits

(* Counting an exit action leaves the rest of the latch alone.             *)
LEMMA LatchCounts ==
  ASSUME NEW l \in LatchType, NEW x \in 0..255
  PROVE  /\ [l EXCEPT !.exit = x] \in LatchType
         /\ [l EXCEPT !.exit = x].exiting = l.exiting
         /\ [l EXCEPT !.exit = x].target = l.target
BY DEF LatchType

(* The exit counter moves only below the phase's number of exit actions.   *)
LEMMA ExitActionStep ==
  ASSUME IInv, NEW h \in Handle, NEW t \in Track, ExitAction(h, t)
  PROVE  IInv'
<1>1. TrackTurn(h, t) /\ owners' = WorkingOwners(h, t)
  BY DEF ExitAction, Works
<1>2. /\ Loaded(h) /\ t \in Tracks(h) /\ tracks[h][t] \in TrackType
      /\ InRange(RecipeOf(h), t, tracks[h][t])
  BY <1>1, TrackTurnFacts
<1>3. Phase(h, t).exit_action_n \in 0..255 /\ tracks[h][t].latch.exit < Phase(h, t).exit_action_n
  BY <1>2, CurrentPhase, PhaseCounters DEF ExitAction
<1>4. PICK s \in ActionStatus :
        SetTrack(h, t, [Working(h, t) EXCEPT !.latch.exit = IF s = "PENDING" THEN @ ELSE @ + 1])
  BY DEF ExitAction
<1> DEFINE old == tracks[h][t].latch
           x == IF s = "PENDING" THEN old.exit ELSE old.exit + 1
           new == [old EXCEPT !.exit = x]
           tr == [Working(h, t) EXCEPT !.latch = new]
<1>5. old \in LatchType /\ old.exit \in 0..255
  <2>1. old \in LatchType
    BY <1>2 DEF TrackType
  <2> QED
    BY <2>1 DEF LatchType
<1>6. x \in 0..255
  <2>1. \A e, n \in 0..255 : e < n => e + 1 \in 0..255
    OBVIOUS
  <2>2. old.exit + 1 \in 0..255
    BY <1>3, <1>5, <2>1
  <2> HIDE DEF old
  <2> QED
    BY <1>5, <2>2
<1>7. new \in LatchType /\ new.exiting = old.exiting /\ new.target = old.target
  <2> HIDE DEF x, old
  <2> QED
    BY <1>5, <1>6, LatchCounts
<1>8. Working(h, t) \in TrackType /\ Working(h, t).latch = old
      /\ Working(h, t).phase_idx = tracks[h][t].phase_idx
  BY <1>2, WorkingTrack
<1>9. SetTrack(h, t, tr)
  BY <1>4, <1>8 DEF TrackType
<1> HIDE DEF new
<1>10. tr \in TrackType
  BY <1>7, <1>8, UpdateTrack
<1>11. tr.phase_idx = tracks[h][t].phase_idx /\ tr.latch = new
  BY <1>8 DEF TrackType
<1>12. InRange(RecipeOf(h), t, tr)
  BY <1>2, <1>7, <1>11 DEF InRange
<1> HIDE DEF tr
<1> QED
  BY <1>1, <1>9, <1>10, <1>12, OwnersType, TrackStep

(* $complete and $abort keep the inductive invariant.                      *)
LEMMA EndTrackStep ==
  ASSUME IInv, NEW h \in Handle, NEW t \in Track, EndTrack(h, t)
  PROVE  IInv'
<1> DEFINE s == IF tracks[h][t].latch.target = MODR_TARGET_COMPLETE THEN "COMPLETED" ELSE "FAILED"
           tr == [Working(h, t) EXCEPT !.state = s]
<1>1. TrackTurn(h, t) /\ tracks[h][t] \in TrackType /\ InRange(RecipeOf(h), t, tracks[h][t])
  BY TrackTurnFacts DEF EndTrack, ExitsDone, Works
<1>2. s \in TrackState
  BY DEF TrackState
<1>3. SetTrack(h, t, tr) /\ owners' = ReleasePhase(owners, h, t)
  BY DEF EndTrack
<1> HIDE DEF s
<1>4. Working(h, t) \in TrackType /\ Working(h, t).latch = tracks[h][t].latch
      /\ Working(h, t).phase_idx = tracks[h][t].phase_idx
  BY <1>1, WorkingTrack
<1>5. tr \in TrackType
  BY <1>2, <1>4, UpdateTrack
<1>6. tr.phase_idx = tracks[h][t].phase_idx /\ tr.latch = tracks[h][t].latch
  BY <1>4 DEF TrackType
<1>7. InRange(RecipeOf(h), t, tr)
  BY <1>1, <1>6 DEF InRange
<1> HIDE DEF tr
<1> QED
  BY <1>1, <1>3, <1>5, <1>7, OwnersType, TrackStep

(* A phase index that a latch or a transition of the recipe holds.         *)
LEMMA PhaseTargetInRange ==
  ASSUME NEW n \in 1..255, NEW p \in 0..(n - 1)
  PROVE  p \in 0..254 /\ p \in PhaseTarget
BY DEF PhaseTarget

(* The step into the next phase keeps the inductive invariant: the target  *)
(* it takes from the latch is a phase of the track.                        *)
LEMMA AdvancePhaseStep ==
  ASSUME IInv, NEW h \in Handle, NEW t \in Track, AdvancePhase(h, t)
  PROVE  IInv'
<1> DEFINE p == tracks[h][t].latch.target
           n == RecipeOf(h).tracks[t].phase_count
           claims == PhaseOf(RecipeOf(h), t, p).phase_resources
           freed == ReleasePhase(owners, h, t)
           moved == [FreshTrack EXCEPT !.phase_idx = p]
<1>1. TrackTurn(h, t) /\ tracks[h][t].latch.exiting
  BY DEF AdvancePhase, ExitsDone, Works
<1>2. Loaded(h) /\ t \in Tracks(h) /\ InRange(RecipeOf(h), t, tracks[h][t])
  BY <1>1, TrackTurnFacts
<1>3. p \notin {MODR_TARGET_COMPLETE, MODR_TARGET_ABORT}
  BY DEF AdvancePhase
<1>4. n \in 1..255 /\ p \in 0..(n - 1)
  BY <1>1, <1>2, <1>3, CurrentPhase DEF InRange
<1>5. p \in 0..254 /\ p \in PhaseTarget
  <2> HIDE DEF n, p
  <2> QED
    BY <1>4, PhaseTargetInRange
<1>6. freed \in Ownership /\ Acquire(freed, <<h, t>>, claims) \in Ownership
  BY OwnersType, AcquireType, HandlesAndTracks
<1>7. PICK s \in {"RUNNING", "WAITING_FOR_RESOURCE"} :
        SetTrack(h, t, [moved EXCEPT !.state = s]) /\ owners' \in Ownership
  BY <1>6 DEF AdvancePhase
<1> DEFINE tr == [moved EXCEPT !.state = s]
<1>8. moved \in TrackType
  <2> HIDE DEF p
  <2> QED
    BY <1>5, HandlesAndTracks, UpdateTrack
<1>9. tr \in TrackType
  <2> HIDE DEF moved
  <2>1. s \in TrackState
    BY DEF TrackState
  <2> QED
    BY <1>8, <2>1, UpdateTrack
<1>10. tr.phase_idx = p /\ tr.latch = NoLatch
  <2> HIDE DEF p
  <2> QED
    BY DEF FreshTrack
<1>11. InRange(RecipeOf(h), t, tr)
  <2> HIDE DEF tr, p
  <2> QED
    BY <1>4, <1>10 DEF InRange, NoLatch
<1> HIDE DEF tr
<1> QED
  BY <1>1, <1>7, <1>9, <1>11, TrackStep DEF tr

(* The entry counter moves only below the phase's number of entry actions. *)
LEMMA EntryActionStep ==
  ASSUME IInv, NEW h \in Handle, NEW t \in Track, EntryAction(h, t)
  PROVE  IInv'
<1>1. TrackTurn(h, t)
  BY DEF EntryAction, Works
<1>2. CASE FailTrack(h, t)
  BY <1>1, <1>2, FailTrackStep
<1>3. CASE /\ \E s \in ActionStatus \ {"FAILED_ABORT"} :
                SetTrack(h, t, [Working(h, t) EXCEPT
                  !.entry = CASE s = "OK"                 -> @ + 1
                              [] s = "PENDING"            -> @
                              [] s = "FAILED_RECOVERABLE" -> Phase(h, t).entry_action_n])
           /\ owners' = WorkingOwners(h, t)
  <2>1. /\ Loaded(h) /\ t \in Tracks(h) /\ tracks[h][t] \in TrackType
        /\ InRange(RecipeOf(h), t, tracks[h][t])
    BY <1>1, TrackTurnFacts
  <2>2. Phase(h, t).entry_action_n \in 0..255 /\ tracks[h][t].entry < Phase(h, t).entry_action_n
    BY <2>1, CurrentPhase, PhaseCounters DEF EntryAction
  <2>3. Working(h, t) \in TrackType /\ Working(h, t).entry = tracks[h][t].entry
        /\ Working(h, t).phase_idx = tracks[h][t].phase_idx
        /\ Working(h, t).latch = tracks[h][t].latch
    BY <2>1, WorkingTrack
  <2>4. tracks[h][t].entry \in 0..255
    BY <2>1 DEF TrackType
  <2>5. PICK x \in 0..255 : SetTrack(h, t, [Working(h, t) EXCEPT !.entry = x])
    <3>1. PICK s \in {"OK", "PENDING", "FAILED_RECOVERABLE"} :
            SetTrack(h, t, [Working(h, t) EXCEPT
              !.entry = CASE s = "OK"                 -> @ + 1
                          [] s = "PENDING"            -> @
                          [] s = "FAILED_RECOVERABLE" -> Phase(h, t).entry_action_n])
      BY <1>3 DEF ActionStatus
    <3>2. CASE s = "OK"
      <4>1. \A e \in 0..255, m \in 0..255 : e < m => e + 1 \in 0..255
        OBVIOUS
      <4>2. tracks[h][t].entry + 1 \in 0..255
        BY <2>2, <2>4, <4>1
      <4> QED
        BY <3>1, <3>2, <4>2, <2>3
    <3>3. CASE s = "PENDING"
      BY <3>1, <3>3, <2>3, <2>4
    <3>4. CASE s = "FAILED_RECOVERABLE"
      BY <3>1, <3>4, <2>2
    <3> QED
      BY <3>2, <3>3, <3>4
  <2> DEFINE tr == [Working(h, t) EXCEPT !.entry = x]
  <2>6. tr \in TrackType
    BY <2>3, UpdateTrack
  <2>7. tr.phase_idx = tracks[h][t].phase_idx /\ tr.latch = tracks[h][t].latch
    BY <2>3 DEF TrackType
  <2>8. InRange(RecipeOf(h), t, tr)
    BY <2>1, <2>7 DEF InRange
  <2>9. owners' \in Ownership
    BY <1>3, OwnersType
  <2> QED
    BY <1>1, <2>5, <2>6, <2>8, <2>9, TrackStep
<1> QED
  BY <1>2, <1>3 DEF EntryAction

(* A turn in which no transition fires keeps the inductive invariant.      *)
LEMMA DwellStep ==
  ASSUME IInv, NEW h \in Handle, NEW t \in Track, Dwell(h, t)
  PROVE  IInv'
<1>1. TrackTurn(h, t) /\ owners' = WorkingOwners(h, t) /\ SetTrack(h, t, Working(h, t))
  BY DEF Dwell, EntriesDone, Works
<1>2. Working(h, t) \in TrackType /\ InRange(RecipeOf(h), t, Working(h, t))
  BY <1>1, TrackTurnFacts, WorkingTrack DEF InRange
<1> QED
  BY <1>1, <1>2, OwnersType, TrackStep

(* A transition latches a target of its own table.                         *)
LEMMA TakeTransitionStep ==
  ASSUME IInv, NEW h \in Handle, NEW t \in Track, TakeTransition(h, t)
  PROVE  IInv'
<1> DEFINE n == RecipeOf(h).tracks[t].phase_count
<1>1. TrackTurn(h, t) /\ owners' = WorkingOwners(h, t)
  BY DEF TakeTransition, EntriesDone, Works
<1>2. /\ Loaded(h) /\ t \in Tracks(h) /\ tracks[h][t] \in TrackType
      /\ InRange(RecipeOf(h), t, tracks[h][t])
  BY <1>1, TrackTurnFacts
<1>3. PICK i \in DOMAIN Phase(h, t).transitions :
        LET target == Phase(h, t).transitions[i].target_phase
        IN  SetTrack(h, t, [Working(h, t) EXCEPT
              !.latch = [exiting |-> TRUE, target |-> target, exit |-> 0],
              !.state = IF target = MODR_TARGET_ABORT THEN "ABORTING" ELSE @])
  BY DEF TakeTransition, Firing
<1> DEFINE target == Phase(h, t).transitions[i].target_phase
           latch == [exiting |-> TRUE, target |-> target, exit |-> 0]
           s == IF target = MODR_TARGET_ABORT THEN "ABORTING" ELSE Working(h, t).state
           tr == [[Working(h, t) EXCEPT !.latch = latch] EXCEPT !.state = s]
<1>4. n \in 1..255 /\ target \in 0..(n - 1) \cup {MODR_TARGET_COMPLETE, MODR_TARGET_ABORT}
  <2>1. n \in 1..255 /\ Phase(h, t) \in PhasesOf(n)
    BY <1>2, CurrentPhase
  <2>2. Phase(h, t).transitions \in Seq(TransitionsOf(n))
    BY <2>1 DEF PhasesOf
  <2>3. Phase(h, t).transitions[i] \in TransitionsOf(n)
    BY <2>2
  <2> QED
    BY <2>1, <2>3 DEF TransitionsOf
<1>5. latch \in LatchType
  <2> HIDE DEF n, target
  <2>1. target \in PhaseTarget
    BY <1>4, PhaseTargetInRange DEF PhaseTarget
  <2> QED
    BY <2>1 DEF LatchType
<1>6. Working(h, t) \in TrackType /\ Working(h, t).phase_idx = tracks[h][t].phase_idx
  BY <1>2, WorkingTrack
<1>7. s \in TrackState
  BY <1>6 DEF TrackType, TrackState
<1>8. SetTrack(h, t, tr)
  BY <1>3, <1>6 DEF TrackType
<1>9. tr \in TrackType /\ tr.phase_idx = tracks[h][t].phase_idx /\ tr.latch = latch
  <2> HIDE DEF latch, s
  <2>1. [Working(h, t) EXCEPT !.latch = latch] \in TrackType
    BY <1>5, <1>6, UpdateTrack
  <2>2. tr \in TrackType
    BY <1>7, <2>1, UpdateTrack
  <2> QED
    BY <1>6, <2>2 DEF TrackType
<1>10. InRange(RecipeOf(h), t, tr)
  <2>1. latch.target = target
    OBVIOUS
  <2> HIDE DEF tr, latch, target
  <2> QED
    BY <1>2, <1>4, <1>9, <2>1 DEF InRange
<1> HIDE DEF tr
<1> QED
  BY <1>1, <1>8, <1>9, <1>10, OwnersType, TrackStep

(* Every branch of track_tick keeps the inductive invariant.               *)
LEMMA TrackTickStep ==
  ASSUME IInv, NEW h \in Handle, NEW t \in Track, TrackTick(h, t)
  PROVE  IInv'
<1>1. CASE TrackTimeout(h, t) \/ FinishAbort(h, t)
  BY <1>1, FailTrackStep DEF TrackTimeout, FinishAbort, ExitsDone, Works
<1> QED
  BY <1>1, TrackDormantStep, TrackWaitsStep, ExitActionStep, EndTrackStep, AdvancePhaseStep,
     EntryActionStep, TakeTransitionStep, DwellStep DEF TrackTick

(* The completion check keeps the inductive invariant.                     *)
LEMMA CheckCompletionStep ==
  ASSUME IInv, NEW h \in Handle, CheckCompletion(h)
  PROVE  IInv'
<1> DEFINE slot == [slots[h] EXCEPT !.state = Verdict(h)]
<1>1. Loaded(h) /\ Ticking(h)
  BY DEF IInv, WellFormed, TickIsUndisturbed, SlotsAreWhole, CheckCompletion, Ticking
<1>2. Verdict(h) \in {"RUNNING", "ABORTING", "COMPLETED", "FAILED"}
  BY <1>1 DEF Verdict, Ticking
<1>3. slot \in SlotType /\ slot.recipe = RecipeOf(h) /\ slot.state = Verdict(h)
  <2>1. slots[h] \in SlotType /\ Verdict(h) \in ScenarioState
    BY <1>2 DEF IInv, TypeOK, ScenarioState
  <2> QED
    BY <2>1, UpdateSlot DEF RecipeOf
<1>4. slots' = [slots EXCEPT ![h] = slot] /\ UNCHANGED tracks
  BY DEF CheckCompletion, IInv, TypeOK
<1> HIDE DEF slot
<1>5. /\ slots' \in [Handle -> SlotType]
      /\ tracks' \in [Handle -> [Track -> TrackType]]
      /\ SlotsAreWhole' /\ FreshUntilStarted' /\ IndicesInRange'
      /\ Loaded(h)'
  BY <1>1, <1>2, <1>3, <1>4, TracksUntouched, SlotStep
<1>6. cursor' = AtObserve(h, cursor.prev)
  BY DEF CheckCompletion
<1>7. cursor' \in CursorType
  BY <1>6, HandlesAndTracks DEF IInv, TypeOK, AtObserve, CursorType
<1>8. TickIsUndisturbed'
  BY <1>5, <1>6 DEF TickIsUndisturbed, AtObserve
<1>9. owners' \in Ownership
  BY ReleaseType DEF IInv, TypeOK, CheckCompletion, ReleaseScenario
<1> QED
  BY <1>5, <1>7, <1>8, <1>9 DEF IInv, TypeOK, WellFormed, CheckCompletion

(***************************************************************************)
(* Type correctness, and what the code relies on from one call to the      *)
(* next, for every set of recipes: the tables of a recipe are never read   *)
(* out of range and no call disturbs a tick.                               *)
(***************************************************************************)
LEMMA InitIInv == Init => IInv
<1> SUFFICES ASSUME Init PROVE IInv
  OBVIOUS
<1>1. EmptySlot \in SlotType /\ EmptySlot.recipe = NoRecipe /\ EmptySlot.state = "IDLE"
  BY RecipeAssumption DEF EmptySlot, SlotType, ScenarioState, Time
<1>2. NoOwners \in Ownership
  BY DEF NoOwners, Ownership
<1>3. TypeOK
  BY <1>1, <1>2, HandlesAndTracks DEF Init, TypeOK, NoPhase
<1>4. SlotsAreWhole /\ FreshUntilStarted /\ IndicesInRange
  BY <1>1 DEF Init, SlotsAreWhole, FreshUntilStarted, IndicesInRange, Loaded
<1>5. TickIsUndisturbed
  BY DEF Init, TickIsUndisturbed, AtSlot
<1> QED
  BY <1>3, <1>4, <1>5 DEF IInv, WellFormed

(* Every step, of a caller or of the tick, keeps the inductive invariant.  *)
LEMMA NextIInv == IInv /\ [Next]_vars => IInv'
<1> SUFFICES ASSUME IInv, [Next]_vars PROVE IInv'
  OBVIOUS
<1>1. CASE Caller
  BY <1>1, LoadStep, StartStep, PauseResumeStep, AbortStep, UnloadStep, RestartStep DEF Caller
<1>2. CASE Tick
  <2> SUFFICES ASSUME NEW h \in Handle,
                      \/ SkipEmptySlot(h) \/ SkipDormantSlot(h)
                      \/ HitCap(h) \/ GlobalTransition(h) \/ PlainPrologue(h)
                      \/ \E t \in Track : TrackTick(h, t)
                      \/ CheckCompletion(h) \/ Observe(h)
               PROVE  IInv'
    BY <1>2 DEF Tick
  <2>1. CASE HitCap(h)
    BY <2>1, AbortingPrologueStep DEF HitCap
  <2> QED
    BY <2>1, SkipStep, GlobalTransitionStep, PlainPrologueStep, TrackTickStep, CheckCompletionStep
<1>3. CASE UNCHANGED vars
  BY <1>3 DEF vars, IInv, TypeOK, WellFormed, SlotsAreWhole, FreshUntilStarted, IndicesInRange,
              TickIsUndisturbed, Loaded, RecipeOf, Tracks, Ticking
<1> QED
  BY <1>1, <1>2, <1>3 DEF Next

(* The types hold, and no call and no tick ever reads a phase or a         *)
(* transition outside the recipe of its slot: phase_idx and the latched    *)
(* target, which track_tick uses without a bounds check, stay inside the   *)
(* tables that modr_validate has checked.                                  *)
THEOREM TypesAndTables == Spec => [](TypeOK /\ WellFormed)
<1>1. Spec => []IInv
  BY InitIInv, NextIInv, PTL DEF Spec
<1> QED
  BY <1>1, PTL DEF IInv

(***************************************************************************)
(* Ownership.  First what the arbiter's two operations do to the entries.  *)
(***************************************************************************)

(* Acquire enters the claims for who and touches nothing else; when it is  *)
(* allowed, nobody loses an entry.                                         *)
LEMMA AcquireEntries ==
  ASSUME NEW own, NEW who, NEW claims, NEW r \in Resource
  PROVE  /\ Acquire(own, who, claims)[r] = IF r \in claims THEN who ELSE own[r]
         /\ CanAcquire(own, who, claims) /\ own[r] # Unowned =>
              Acquire(own, who, claims)[r] = own[r]
BY DEF Acquire, CanAcquire, CanGrant

(* After a release the owners that left have no entry and the others keep  *)
(* theirs.                                                                 *)
LEMMA ReleaseEntries ==
  ASSUME NEW own, NEW leaving, NEW r \in Resource
  PROVE  Release(own, leaving)[r] = IF own[r] \in leaving THEN Unowned ELSE own[r]
BY DEF Release

(* A claimant is never the absent owner, and two tracks, or a track and    *)
(* its scenario, are two claimants.                                        *)
LEMMA OwnersAreDistinct ==
  ASSUME NEW h \in Handle, NEW t \in Track
  PROVE  /\ <<h, t>> # Unowned /\ <<h, TRACK_IDX_SCENARIO>> # Unowned
         /\ <<h, t>> # <<h, TRACK_IDX_SCENARIO>>
BY ArbiterAssumption DEF Handle, Track, Unowned, TRACK_IDX_SCENARIO

(* The entries of one slot have someone who will give them back.           *)
EntriesAreLive(h) ==
  \A r \in Resource :
    /\ owners[r] = <<h, TRACK_IDX_SCENARIO>> =>
         /\ slots[h].state \in {"RUNNING", "PAUSED", "ABORTING"}
         /\ r \in RecipeOf(h).resources
    /\ \A t \in Track : owners[r] = <<h, t>> =>
         /\ Loaded(h) /\ t \in Tracks(h)
         /\ tracks[h][t].state \in {"RUNNING", "ABORTING"}
         /\ r \in Phase(h, t).phase_resources

(* The invariant is a conjunction over the slots.                          *)
LEMMA OwnershipBySlot == OwnershipIsLive <=> \A h \in Handle : EntriesAreLive(h)
BY DEF OwnershipIsLive, ScenarioScopeIsLive, PhaseScopeIsLive, EntriesAreLive

(* A slot that a step leaves alone keeps its entries alive, as long as it  *)
(* gets no new ones.                                                       *)
LEMMA OtherSlotsStayLive ==
  ASSUME NEW g \in Handle, EntriesAreLive(g),
         slots'[g] = slots[g], tracks'[g] = tracks[g],
         \A r \in Resource, x \in Track \cup {TRACK_IDX_SCENARIO} :
           owners'[r] = <<g, x>> => owners[r] = <<g, x>>
  PROVE  EntriesAreLive(g)'
BY DEF EntriesAreLive, RecipeOf, Loaded, Tracks, Phase

(* One slot changes: it is enough to look at that one.                     *)
LEMMA OneSlotStep ==
  ASSUME OwnershipIsLive, NEW h \in Handle,
         \A g \in Handle \ {h} : slots'[g] = slots[g] /\ tracks'[g] = tracks[g],
         \A g \in Handle \ {h}, r \in Resource, x \in Track \cup {TRACK_IDX_SCENARIO} :
           owners'[r] = <<g, x>> => owners[r] = <<g, x>>,
         EntriesAreLive(h)'
  PROVE  OwnershipIsLive'
<1>1. \A g \in Handle \ {h} : EntriesAreLive(g)'
  <2> SUFFICES ASSUME NEW g \in Handle \ {h} PROVE EntriesAreLive(g)'
    OBVIOUS
  <2>1. EntriesAreLive(g)
    BY OwnershipBySlot
  <2> QED
    BY <2>1, OtherSlotsStayLive
<1>2. \A g \in Handle : EntriesAreLive(g)'
  BY <1>1
<1> QED
  BY <1>2 DEF OwnershipIsLive, ScenarioScopeIsLive, PhaseScopeIsLive, EntriesAreLive

(* A slot's scenario-scope entries are untouched by what its tracks do.    *)
LEMMA TrackOwnership ==
  ASSUME IInv, OwnershipIsLive, NEW h \in Handle, NEW t \in Track, TrackTurn(h, t),
         NEW tr, SetTrack(h, t, tr),
         \A r \in Resource, o \in OwnerInfo :
           o # <<h, t>> /\ owners'[r] = o => owners[r] = o,
         \A r \in Resource : owners'[r] = <<h, t>> =>
           /\ tr.state \in {"RUNNING", "ABORTING"}
           /\ r \in PhaseOf(RecipeOf(h), t, tr.phase_idx).phase_resources
  PROVE  OwnershipIsLive'
<1>1. Loaded(h) /\ t \in Tracks(h)
  BY TrackTurnFacts
<1>2. slots' = slots /\ RecipeOf(h)' = RecipeOf(h) /\ Tracks(h)' = Tracks(h) /\ Loaded(h)'
  BY <1>1 DEF TrackTurn, RecipeOf, Tracks, Loaded
<1>3. /\ tracks'[h][t] = tr
      /\ \A u \in Track \ {t} : tracks'[h][u] = tracks[h][u]
      /\ \A g \in Handle \ {h} : tracks'[g] = tracks[g]
  BY DEF SetTrack, IInv, TypeOK
<1>4. \A g \in Handle \ {h}, r \in Resource, x \in Track \cup {TRACK_IDX_SCENARIO} :
        owners'[r] = <<g, x>> => owners[r] = <<g, x>>
  BY DEF OwnerInfo
<1>5. EntriesAreLive(h)
  BY OwnershipBySlot
<1>6. \A r \in Resource : owners'[r] = <<h, TRACK_IDX_SCENARIO>> =>
        owners[r] = <<h, TRACK_IDX_SCENARIO>>
  BY OwnersAreDistinct, HandlesAndTracks
<1>7. \A r \in Resource, u \in Track \ {t} : owners'[r] = <<h, u>> => owners[r] = <<h, u>>
  BY HandlesAndTracks
<1>8. EntriesAreLive(h)'
  <2> SUFFICES ASSUME NEW r \in Resource
               PROVE  /\ owners'[r] = <<h, TRACK_IDX_SCENARIO>> =>
                           /\ slots'[h].state \in {"RUNNING", "PAUSED", "ABORTING"}
                           /\ r \in RecipeOf(h)'.resources
                      /\ \A u \in Track : owners'[r] = <<h, u>> =>
                           /\ Loaded(h)' /\ u \in Tracks(h)'
                           /\ tracks'[h][u].state \in {"RUNNING", "ABORTING"}
                           /\ r \in Phase(h, u)'.phase_resources
    BY DEF EntriesAreLive
  <2>1. owners'[r] = <<h, TRACK_IDX_SCENARIO>> =>
          /\ slots'[h].state \in {"RUNNING", "PAUSED", "ABORTING"}
          /\ r \in RecipeOf(h)'.resources
    BY <1>2, <1>5, <1>6 DEF EntriesAreLive
  <2>2. ASSUME NEW u \in Track, owners'[r] = <<h, u>>
        PROVE  /\ Loaded(h)' /\ u \in Tracks(h)'
               /\ tracks'[h][u].state \in {"RUNNING", "ABORTING"}
               /\ r \in Phase(h, u)'.phase_resources
    <3>1. CASE u = t
      BY <1>1, <1>2, <1>3, <2>2, <3>1 DEF Phase
    <3>2. CASE u # t
      <4>1. owners[r] = <<h, u>> /\ tracks'[h][u] = tracks[h][u]
        BY <1>3, <1>7, <2>2, <3>2
      <4> QED
        BY <1>2, <1>5, <4>1 DEF EntriesAreLive, Phase
    <3> QED
      BY <3>1, <3>2
  <2> QED
    BY <2>1, <2>2
<1> QED
  BY <1>2, <1>3, <1>4, <1>8, OneSlotStep

(* What a working track owns after its claim, if it had to make one.       *)
LEMMA WorkingOwnership ==
  ASSUME IInv, OwnershipIsLive, NEW h \in Handle, NEW t \in Track, Works(h, t)
  PROVE  /\ Working(h, t).state \in {"RUNNING", "ABORTING"}
         /\ \A r \in Resource, o \in OwnerInfo :
              o # <<h, t>> /\ WorkingOwners(h, t)[r] = o => owners[r] = o
         /\ \A r \in Resource : WorkingOwners(h, t)[r] = <<h, t>> =>
              r \in Phase(h, t).phase_resources
<1>1. TrackTurn(h, t) /\ tracks[h][t] \in TrackType
  BY TrackTurnFacts DEF Works
<1>2. Working(h, t).state \in {"RUNNING", "ABORTING"}
  BY <1>1, WorkingTrack DEF Works
<1>3. \A r \in Resource : owners[r] = <<h, t>> => r \in Phase(h, t).phase_resources
  BY DEF OwnershipIsLive, PhaseScopeIsLive
<1> QED
  BY <1>2, <1>3, AcquireEntries DEF WorkingOwners

(* After release_phase nobody but the track has lost an entry.             *)
LEMMA ReleasePhaseOwnership ==
  ASSUME NEW own, NEW h \in Handle, NEW t \in Track
  PROVE  \A r \in Resource :
           /\ ReleasePhase(own, h, t)[r] # <<h, t>>
           /\ \A o : o # Unowned /\ ReleasePhase(own, h, t)[r] = o => own[r] = o
<1> SUFFICES ASSUME NEW r \in Resource
             PROVE  /\ ReleasePhase(own, h, t)[r] # <<h, t>>
                    /\ \A o : o # Unowned /\ ReleasePhase(own, h, t)[r] = o => own[r] = o
  OBVIOUS
<1>1. ReleasePhase(own, h, t)[r] = IF own[r] \in {<<h, t>>} THEN Unowned ELSE own[r]
  BY ReleaseEntries DEF ReleasePhase
<1> QED
  BY <1>1, OwnersAreDistinct

(* Who holds an entry is not the absent owner.                             *)
LEMMA OwnerIsNotUnowned ==
  \A o \in OwnerInfo : o # Unowned
BY ArbiterAssumption DEF OwnerInfo, Handle, Unowned

(* The turns in which a track lets go of everything.                       *)
LEMMA LettingGo ==
  ASSUME IInv, OwnershipIsLive, NEW h \in Handle, NEW t \in Track, TrackTurn(h, t),
         NEW tr, SetTrack(h, t, tr), owners' = ReleasePhase(owners, h, t)
  PROVE  OwnershipIsLive'
<1>1. \A r \in Resource : owners'[r] # <<h, t>>
  BY ReleasePhaseOwnership
<1>2. \A r \in Resource, o \in OwnerInfo : o # <<h, t>> /\ owners'[r] = o => owners[r] = o
  BY ReleasePhaseOwnership, OwnerIsNotUnowned
<1> QED
  BY <1>1, <1>2, TrackOwnership

(* The turns in which a track goes on working in its phase.                *)
LEMMA GoingOn ==
  ASSUME IInv, OwnershipIsLive, NEW h \in Handle, NEW t \in Track, Works(h, t),
         NEW tr, SetTrack(h, t, tr), owners' = WorkingOwners(h, t),
         tr.state \in {"RUNNING", "ABORTING"}, tr.phase_idx = tracks[h][t].phase_idx
  PROVE  OwnershipIsLive'
<1>1. TrackTurn(h, t)
  BY DEF Works
<1>2. \A r \in Resource : owners'[r] = <<h, t>> =>
        r \in PhaseOf(RecipeOf(h), t, tr.phase_idx).phase_resources
  BY WorkingOwnership DEF Phase
<1>3. \A r \in Resource, o \in OwnerInfo : o # <<h, t>> /\ owners'[r] = o => owners[r] = o
  BY WorkingOwnership
<1> QED
  BY <1>1, <1>2, <1>3, TrackOwnership

(* A turn of a track that has ended, or waits on, or times out keeps every *)
(* entry live.                                                             *)
LEMMA DormantOwnership ==
  ASSUME IInv, OwnershipIsLive, NEW h \in Handle, NEW t \in Track,
         TrackDormant(h, t) \/ TrackWaits(h, t)
  PROVE  OwnershipIsLive'
<1>1. PICK tr : SetTrack(h, t, tr)
  <2>1. CASE TrackDormant(h, t)
    <3>1. SetTrack(h, t, tracks[h][t])
      BY <2>1 DEF TrackDormant, SetTrack, IInv, TypeOK
    <3> QED
      BY <3>1
  <2>2. CASE TrackWaits(h, t)
    BY <2>2 DEF TrackWaits
  <2> QED
    BY <2>1, <2>2
<1>2. tracks[h][t].state \notin {"RUNNING", "ABORTING"}
  BY DEF TrackDormant, TrackWaits, EndState
<1>3. \A r \in Resource : owners[r] # <<h, t>>
  BY <1>2 DEF OwnershipIsLive, PhaseScopeIsLive
<1> QED
  BY <1>1, <1>3, TrackOwnership DEF TrackDormant, TrackWaits

(* Entry and exit actions and the choice of a transition keep every entry  *)
(* live.                                                                   *)
LEMMA ActionOwnership ==
  ASSUME IInv, OwnershipIsLive, NEW h \in Handle, NEW t \in Track,
         ExitAction(h, t) \/ EntryAction(h, t) \/ Dwell(h, t) \/ TakeTransition(h, t)
  PROVE  OwnershipIsLive'
<1>1. Works(h, t) /\ TrackTurn(h, t)
  BY DEF ExitAction, EntryAction, Dwell, TakeTransition, EntriesDone, Works
<1>2. tracks[h][t] \in TrackType
  BY <1>1, TrackTurnFacts
<1>3. /\ Working(h, t) \in TrackType
      /\ Working(h, t).phase_idx = tracks[h][t].phase_idx
      /\ Working(h, t).state \in {"RUNNING", "ABORTING"}
  BY <1>1, <1>2, WorkingTrack, WorkingOwnership
<1>4. CASE FailTrack(h, t)
  BY <1>1, <1>4, LettingGo DEF FailTrack
<1>5. ASSUME NEW tr, SetTrack(h, t, tr), owners' = WorkingOwners(h, t),
             \/ \E x : tr = [Working(h, t) EXCEPT !.latch.exit = x]
             \/ \E x : tr = [Working(h, t) EXCEPT !.entry = x]
             \/ \E x : tr = [Working(h, t) EXCEPT !.latch = x]
             \/ \E x : tr = [Working(h, t) EXCEPT !.latch = x, !.state = "ABORTING"]
             \/ tr = Working(h, t)
      PROVE  OwnershipIsLive'
  <2>1. tr.state \in {"RUNNING", "ABORTING"} /\ tr.phase_idx = tracks[h][t].phase_idx
    BY <1>3, <1>5 DEF TrackType
  <2> QED
    BY <1>1, <1>5, <2>1, GoingOn
<1>6. CASE ExitAction(h, t)
  <2>1. PICK x : SetTrack(h, t, [Working(h, t) EXCEPT !.latch.exit = x])
    BY <1>6 DEF ExitAction
  <2> QED
    BY <1>5, <1>6, <2>1 DEF ExitAction
<1>7. CASE EntryAction(h, t)
  <2>1. CASE owners' = WorkingOwners(h, t) /\ ~ FailTrack(h, t)
    <3>1. PICK x : SetTrack(h, t, [Working(h, t) EXCEPT !.entry = x])
      BY <1>7, <2>1 DEF EntryAction
    <3> QED
      BY <1>5, <2>1, <3>1
  <2> QED
    BY <1>4, <1>7, <2>1 DEF EntryAction
<1>8. CASE Dwell(h, t)
  BY <1>5, <1>8 DEF Dwell, EntriesDone
<1>9. CASE TakeTransition(h, t)
  <2>1. PICK target : SetTrack(h, t, [Working(h, t) EXCEPT
          !.latch = [exiting |-> TRUE, target |-> target, exit |-> 0],
          !.state = IF target = MODR_TARGET_ABORT THEN "ABORTING" ELSE @])
    BY <1>9 DEF TakeTransition
  <2> DEFINE latch == [exiting |-> TRUE, target |-> target, exit |-> 0]
             tr == [Working(h, t) EXCEPT !.latch = latch,
                      !.state = IF target = MODR_TARGET_ABORT THEN "ABORTING" ELSE @]
  <2>2. tr.state \in {"RUNNING", "ABORTING"} /\ tr.phase_idx = tracks[h][t].phase_idx
    <3> HIDE DEF latch
    <3> QED
      BY <1>3 DEF TrackType
  <2>3. SetTrack(h, t, tr) /\ owners' = WorkingOwners(h, t)
    BY <1>9, <2>1 DEF TakeTransition, EntriesDone
  <2> HIDE DEF tr
  <2> QED
    BY <1>1, <2>2, <2>3, GoingOn
<1> QED
  BY <1>6, <1>7, <1>8, <1>9

(* The step into the next phase keeps every entry live: the claims of the  *)
(* old phase are gone, those of the new one are there or the track waits.  *)
LEMMA AdvanceOwnership ==
  ASSUME IInv, OwnershipIsLive, NEW h \in Handle, NEW t \in Track, AdvancePhase(h, t)
  PROVE  OwnershipIsLive'
<1> DEFINE p == tracks[h][t].latch.target
           claims == PhaseOf(RecipeOf(h), t, p).phase_resources
           freed == ReleasePhase(owners, h, t)
           moved == [FreshTrack EXCEPT !.phase_idx = p]
<1>1. TrackTurn(h, t)
  BY DEF AdvancePhase, ExitsDone, Works
<1>2. CASE /\ SetTrack(h, t, [moved EXCEPT !.state = "RUNNING"])
           /\ owners' = Acquire(freed, <<h, t>>, claims)
  <2> DEFINE tr == [moved EXCEPT !.state = "RUNNING"]
  <2>1. tr.state = "RUNNING" /\ tr.phase_idx = p
    BY DEF FreshTrack
  <2>2. \A r \in Resource, o \in OwnerInfo :
          o # <<h, t>> /\ owners'[r] = o => owners[r] = o
    BY <1>2, AcquireEntries, ReleasePhaseOwnership, OwnerIsNotUnowned
  <2>3. \A r \in Resource : owners'[r] = <<h, t>> => r \in claims
    <3>1. \A r \in Resource : freed[r] # <<h, t>>
      BY ReleasePhaseOwnership
    <3> HIDE DEF freed, claims
    <3> QED
      BY <1>2, <3>1, AcquireEntries
  <2> HIDE DEF tr
  <2> QED
    BY <1>1, <1>2, <2>1, <2>2, <2>3, TrackOwnership DEF tr
<1>3. CASE /\ SetTrack(h, t, [moved EXCEPT !.state = "WAITING_FOR_RESOURCE"])
           /\ owners' = freed
  BY <1>1, <1>3, LettingGo
<1> QED
  BY <1>2, <1>3 DEF AdvancePhase

(* Every branch of track_tick keeps every entry live.                      *)
LEMMA TrackTickOwnership ==
  ASSUME IInv, OwnershipIsLive, NEW h \in Handle, NEW t \in Track, TrackTick(h, t)
  PROVE  OwnershipIsLive'
<1>1. CASE TrackTimeout(h, t) \/ FinishAbort(h, t)
  BY <1>1, LettingGo DEF TrackTimeout, FinishAbort, ExitsDone, Works, FailTrack
<1>2. CASE EndTrack(h, t)
  BY <1>2, LettingGo DEF EndTrack, ExitsDone, Works
<1> QED
  BY <1>1, <1>2, DormantOwnership, ActionOwnership, AdvanceOwnership DEF TrackTick

(***************************************************************************)
(* Ownership, the calls and the scenario's own steps.                      *)
(***************************************************************************)

(* A slot that has no entries at all satisfies the invariant trivially.    *)
LEMMA NoEntries ==
  ASSUME NEW h \in Handle,
         \A r \in Resource, x \in Track \cup {TRACK_IDX_SCENARIO} : owners'[r] # <<h, x>>
  PROVE  EntriesAreLive(h)'
BY DEF EntriesAreLive

(* A load into an empty slot keeps every entry live.                       *)
LEMMA LoadOwnership ==
  ASSUME IInv, OwnershipIsLive, NEW h \in Handle, NEW r \in Recipe, Load(h, r)
  PROVE  OwnershipIsLive'
<1>1. slots[h].state = "IDLE" /\ ~ Loaded(h)
  BY DEF IInv, WellFormed, SlotsAreWhole, Load
<1>2. \A q \in Resource, x \in Track \cup {TRACK_IDX_SCENARIO} : owners'[q] # <<h, x>>
  BY <1>1 DEF OwnershipIsLive, ScenarioScopeIsLive, PhaseScopeIsLive, Load
<1>3. \A g \in Handle \ {h} : slots'[g] = slots[g] /\ tracks'[g] = tracks[g]
  BY DEF IInv, TypeOK, Load
<1> QED
  BY <1>2, <1>3, NoEntries, OneSlotStep DEF Load

(* start adds live scenario-scope entries and touches no other.            *)
LEMMA StartOwnership ==
  ASSUME IInv, OwnershipIsLive, NEW h \in Handle, Start(h)
  PROVE  OwnershipIsLive'
<1> DEFINE me == <<h, TRACK_IDX_SCENARIO>>
           claims == RecipeOf(h).resources
<1>1. \A r \in Resource, x \in Track \cup {TRACK_IDX_SCENARIO} : owners[r] # <<h, x>>
  <2>1. \A t \in Track : tracks[h][t].state = "IDLE"
    BY DEF IInv, WellFormed, FreshUntilStarted, Start, FreshTrack
  <2> QED
    BY <2>1 DEF OwnershipIsLive, ScenarioScopeIsLive, PhaseScopeIsLive, Start
<1>2. slots'[h].state = "RUNNING" /\ RecipeOf(h)' = RecipeOf(h)
  BY DEF IInv, TypeOK, SlotType, Start, RecipeOf
<1>3. \A g \in Handle \ {h} : slots'[g] = slots[g] /\ tracks'[g] = tracks[g]
  BY DEF IInv, TypeOK, Start
<1>4. \A r \in Resource : owners'[r] = IF r \in claims THEN me ELSE owners[r]
  BY AcquireEntries DEF Start
<1>5. \A g \in Handle \ {h}, r \in Resource, x \in Track \cup {TRACK_IDX_SCENARIO} :
        owners'[r] = <<g, x>> => owners[r] = <<g, x>>
  BY <1>4
<1>6. EntriesAreLive(h)'
  BY <1>1, <1>2, <1>4, OwnersAreDistinct DEF EntriesAreLive
<1> QED
  BY <1>3, <1>5, <1>6, OneSlotStep

(* pause and resume keep every entry live.                                 *)
LEMMA PauseResumeOwnership ==
  ASSUME IInv, OwnershipIsLive, NEW h \in Handle, Pause(h) \/ Resume(h)
  PROVE  OwnershipIsLive'
<1>1. /\ slots'[h].state \in {"RUNNING", "PAUSED"} /\ RecipeOf(h)' = RecipeOf(h)
      /\ UNCHANGED <<tracks, owners>>
      /\ \A g \in Handle \ {h} : slots'[g] = slots[g]
  BY DEF IInv, TypeOK, SlotType, Pause, Resume, RecipeOf
<1>2. EntriesAreLive(h)
  BY OwnershipBySlot
<1>3. EntriesAreLive(h)'
  BY <1>1, <1>2 DEF EntriesAreLive, Loaded, RecipeOf, Tracks, Phase
<1> QED
  BY <1>1, <1>3, OneSlotStep

(* instance_abort, called by abort(), the cap or a global transition: the  *)
(* scenario keeps its own entries and its tracks keep none.                *)
LEMMA InstanceAbortOwnership ==
  ASSUME IInv, OwnershipIsLive, NEW h \in Handle, Loaded(h), InstanceAbort(h),
         slots'[h].state = "ABORTING", slots'[h].recipe = slots[h].recipe,
         \A g \in Handle \ {h} : slots'[g] = slots[g]
  PROVE  OwnershipIsLive'
<1> DEFINE leaving == {<<h, t>> : t \in LiveTracks(h)}
<1>1. \A r \in Resource : owners'[r] = IF owners[r] \in leaving THEN Unowned ELSE owners[r]
  BY ReleaseEntries DEF InstanceAbort
<1>2. \A r \in Resource, t \in Track : owners'[r] # <<h, t>>
  <2> SUFFICES ASSUME NEW r \in Resource, NEW t \in Track, owners'[r] = <<h, t>>
               PROVE  FALSE
    OBVIOUS
  <2>1. owners[r] = <<h, t>> /\ t \notin LiveTracks(h)
    BY <1>1, OwnersAreDistinct
  <2>2. t \in LiveTracks(h)
    BY <2>1 DEF OwnershipIsLive, PhaseScopeIsLive, LiveTracks, EndState
  <2> QED
    BY <2>1, <2>2
<1>3. \A g \in Handle, r \in Resource, x \in Track \cup {TRACK_IDX_SCENARIO} :
        owners'[r] = <<g, x>> => owners[r] = <<g, x>>
  <2>1. \A g \in Handle : \A x : <<g, x>> # Unowned
    BY ArbiterAssumption DEF Handle, Unowned
  <2> HIDE DEF leaving
  <2> QED
    BY <1>1, <2>1
<1>4. EntriesAreLive(h)'
  BY <1>2, <1>3 DEF EntriesAreLive, RecipeOf, OwnershipIsLive, ScenarioScopeIsLive
<1>5. \A g \in Handle \ {h} : tracks'[g] = tracks[g]
  BY DEF InstanceAbort, IInv, TypeOK
<1> QED
  BY <1>3, <1>4, <1>5, OneSlotStep

(* unload leaves no entry of the slot behind.                              *)
LEMMA UnloadOwnership ==
  ASSUME IInv, OwnershipIsLive, NEW h \in Handle, Unload(h)
  PROVE  OwnershipIsLive'
<1>1. \A r \in Resource :
        owners'[r] = IF owners[r] \in ClaimantsOf(h) THEN Unowned ELSE owners[r]
  BY ReleaseEntries DEF Unload
<1>2. \A g \in Handle : \A x : <<g, x>> # Unowned
  BY ArbiterAssumption DEF Handle, Unowned
<1>3. \A r \in Resource, x \in Track \cup {TRACK_IDX_SCENARIO} :
        owners[r] = <<h, x>> => owners[r] \in ClaimantsOf(h)
  BY DEF OwnershipIsLive, PhaseScopeIsLive, ClaimantsOf
<1>4. \A r \in Resource, x \in Track \cup {TRACK_IDX_SCENARIO} : owners'[r] # <<h, x>>
  BY <1>1, <1>2, <1>3
<1>5. \A g \in Handle, r \in Resource, x \in Track \cup {TRACK_IDX_SCENARIO} :
        owners'[r] = <<g, x>> => owners[r] = <<g, x>>
  BY <1>1, <1>2
<1>6. \A g \in Handle \ {h} : slots'[g] = slots[g] /\ tracks'[g] = tracks[g]
  BY DEF IInv, TypeOK, Unload
<1> QED
  BY <1>4, <1>5, <1>6, NoEntries, OneSlotStep

(* release_scenario after the completion check: an ended scenario has no   *)
(* scenario-scope entry; its tracks' entries stay with its live tracks.    *)
LEMMA CompletionOwnership ==
  ASSUME IInv, OwnershipIsLive, NEW h \in Handle, CheckCompletion(h)
  PROVE  OwnershipIsLive'
<1> DEFINE me == <<h, TRACK_IDX_SCENARIO>>
<1>1. /\ slots'[h].state = Verdict(h) /\ RecipeOf(h)' = RecipeOf(h) /\ UNCHANGED tracks
      /\ \A g \in Handle \ {h} : slots'[g] = slots[g]
  BY DEF IInv, TypeOK, SlotType, CheckCompletion, RecipeOf
<1>2. EntriesAreLive(h)
  BY OwnershipBySlot
<1>3. \A g \in Handle : \A x : <<g, x>> # Unowned
  BY ArbiterAssumption DEF Handle, Unowned
<1>4. CASE Verdict(h) \in EndState
  <2>1. \A r \in Resource : owners'[r] = IF owners[r] \in {me} THEN Unowned ELSE owners[r]
    BY <1>4, ReleaseEntries DEF CheckCompletion, ReleaseScenario
  <2>2. /\ \A r \in Resource : owners'[r] # me
        /\ \A g \in Handle, r \in Resource, x \in Track \cup {TRACK_IDX_SCENARIO} :
             owners'[r] = <<g, x>> => owners[r] = <<g, x>>
    BY <1>3, <2>1
  <2>3. EntriesAreLive(h)'
    BY <1>1, <1>2, <2>2 DEF EntriesAreLive, Loaded, RecipeOf, Tracks, Phase
  <2> QED
    BY <1>1, <2>2, <2>3, OneSlotStep
<1>5. CASE Verdict(h) \notin EndState
  <2>1. UNCHANGED owners /\ Verdict(h) = slots[h].state
    BY <1>5 DEF CheckCompletion, Verdict, EndState
  <2>2. EntriesAreLive(h)'
    BY <1>1, <1>2, <2>1 DEF EntriesAreLive, Loaded, RecipeOf, Tracks, Phase
  <2> QED
    BY <1>1, <2>1, <2>2, OneSlotStep
<1> QED
  BY <1>4, <1>5

(* The prologue when it only moves the clock or fails the main track.      *)
LEMMA PlainPrologueOwnership ==
  ASSUME IInv, OwnershipIsLive, NEW h \in Handle, PlainPrologue(h)
  PROVE  OwnershipIsLive'
<1>1. /\ slots'[h].state = slots[h].state /\ RecipeOf(h)' = RecipeOf(h)
      /\ UNCHANGED <<tracks, owners>>
      /\ \A g \in Handle \ {h} : slots'[g] = slots[g]
  BY DEF IInv, TypeOK, SlotType, PlainPrologue, SlotTicked, RecipeOf
<1>2. EntriesAreLive(h)
  BY OwnershipBySlot
<1>3. EntriesAreLive(h)'
  BY <1>1, <1>2 DEF EntriesAreLive, Loaded, RecipeOf, Tracks, Phase
<1> QED
  BY <1>1, <1>3, OneSlotStep

(* A global transition keeps every entry live, in either scope.            *)
LEMMA GlobalTransitionOwnership ==
  ASSUME IInv, OwnershipIsLive, NEW h \in Handle, GlobalTransition(h)
  PROVE  OwnershipIsLive'
<1> DEFINE main == MainTrack(RecipeOf(h))
<1>1. Loaded(h) /\ slots[h].state = "RUNNING"
  BY DEF GlobalTransition, Prologue
<1>2. CASE SlotTicked(h, "ABORTING") /\ InstanceAbort(h)
  <2>1. slots'[h].state = "ABORTING" /\ slots'[h].recipe = slots[h].recipe
        /\ \A g \in Handle \ {h} : slots'[g] = slots[g]
    BY <1>2 DEF IInv, TypeOK, SlotType, SlotTicked
  <2> QED
    BY <1>1, <1>2, <2>1, InstanceAbortOwnership
<1>3. CASE /\ SlotTicked(h, "RUNNING")
           /\ tracks' = [tracks EXCEPT ![h][main].state = "FAILED"]
           /\ owners' = ReleasePhase(owners, h, main)
  <2>1. /\ slots'[h].state = "RUNNING" /\ slots'[h].recipe = slots[h].recipe
        /\ \A g \in Handle \ {h} : slots'[g] = slots[g]
    BY <1>3 DEF IInv, TypeOK, SlotType, SlotTicked
  <2>2. main \in Track
    BY <1>1, LoadedSlot
  <2>3. /\ \A u \in Track \ {main} : tracks'[h][u] = tracks[h][u]
        /\ \A g \in Handle \ {h} : tracks'[g] = tracks[g]
    BY <1>3 DEF IInv, TypeOK
  <2>4. \A r \in Resource : owners'[r] # <<h, main>>
    BY <1>3, <2>2, ReleasePhaseOwnership
  <2>5. \A g \in Handle, r \in Resource, x \in Track \cup {TRACK_IDX_SCENARIO} :
          owners'[r] = <<g, x>> => owners[r] = <<g, x>>
    <3>1. \A g \in Handle : \A x : <<g, x>> # Unowned
      BY ArbiterAssumption DEF Handle, Unowned
    <3>2. \A r \in Resource :
            owners'[r] = IF owners[r] \in {<<h, main>>} THEN Unowned ELSE owners[r]
      BY <1>3, ReleaseEntries DEF ReleasePhase
    <3> HIDE DEF main
    <3> QED
      BY <3>1, <3>2
  <2>6. EntriesAreLive(h)
    BY OwnershipBySlot
  <2> HIDE DEF main
  <2>7. EntriesAreLive(h)'
    BY <2>1, <2>3, <2>4, <2>5, <2>6 DEF EntriesAreLive, Loaded, RecipeOf, Tracks, Phase
  <2> QED
    BY <2>1, <2>3, <2>5, <2>7, OneSlotStep
<1> QED
  BY <1>2, <1>3 DEF GlobalTransition

(***************************************************************************)
(* Every entry of the arbiter's map has someone who will give it back,     *)
(* whatever the recipes, the calls and the answers of the actions are: no  *)
(* resource is leaked by an abort, a timeout, a failure or an unload.      *)
(***************************************************************************)
THEOREM NothingLeaks == Spec => []OwnershipIsLive
<1>1. Init => OwnershipIsLive
  <2>1. \A h \in Handle : \A x : <<h, x>> # Unowned
    BY ArbiterAssumption DEF Handle, Unowned
  <2> QED
    BY <2>1 DEF Init, NoOwners, OwnershipIsLive, ScenarioScopeIsLive, PhaseScopeIsLive
<1>2. IInv /\ OwnershipIsLive /\ [Next]_vars => OwnershipIsLive'
  <2> SUFFICES ASSUME IInv, OwnershipIsLive, [Next]_vars
               PROVE  OwnershipIsLive'
    OBVIOUS
  <2>1. ASSUME NEW h \in Handle, Abort(h)
        PROVE  OwnershipIsLive'
    <3>1. /\ slots'[h].state = "ABORTING" /\ slots'[h].recipe = slots[h].recipe
          /\ \A g \in Handle \ {h} : slots'[g] = slots[g]
      BY <2>1 DEF IInv, TypeOK, SlotType, Abort
    <3>2. Loaded(h) /\ InstanceAbort(h)
      BY <2>1 DEF IInv, WellFormed, SlotsAreWhole, Abort
    <3> QED
      BY <3>1, <3>2, InstanceAbortOwnership
  <2>2. ASSUME Restart
        PROVE  OwnershipIsLive'
    <3>1. \A h \in Handle : \A x : <<h, x>> # Unowned
      BY ArbiterAssumption DEF Handle, Unowned
    <3> QED
      BY <2>2, <3>1 DEF Restart, NoOwners, OwnershipIsLive, ScenarioScopeIsLive, PhaseScopeIsLive
  <2>3. ASSUME NEW h \in Handle, HitCap(h)
        PROVE  OwnershipIsLive'
    <3>1. /\ slots'[h].state = "ABORTING" /\ slots'[h].recipe = slots[h].recipe
          /\ \A g \in Handle \ {h} : slots'[g] = slots[g]
      BY <2>3 DEF IInv, TypeOK, SlotType, HitCap, SlotTicked
    <3>2. Loaded(h) /\ InstanceAbort(h)
      BY <2>3 DEF HitCap, Prologue
    <3> QED
      BY <3>1, <3>2, InstanceAbortOwnership
  <2>4. ASSUME UNCHANGED <<slots, tracks, owners>>
        PROVE  OwnershipIsLive'
    BY <2>4 DEF OwnershipIsLive, ScenarioScopeIsLive, PhaseScopeIsLive,
                Loaded, RecipeOf, Tracks, Phase
  <2>5. CASE Caller
    BY <2>1, <2>2, <2>5, LoadOwnership, StartOwnership, PauseResumeOwnership, UnloadOwnership
    DEF Caller
  <2>6. CASE Tick
    <3> SUFFICES ASSUME NEW h \in Handle,
                        \/ SkipEmptySlot(h) \/ SkipDormantSlot(h)
                        \/ HitCap(h) \/ GlobalTransition(h) \/ PlainPrologue(h)
                        \/ \E t \in Track : TrackTick(h, t)
                        \/ CheckCompletion(h) \/ Observe(h)
                 PROVE  OwnershipIsLive'
      BY <2>6 DEF Tick
    <3>1. CASE SkipEmptySlot(h) \/ SkipDormantSlot(h) \/ Observe(h)
      BY <2>4, <3>1 DEF SkipEmptySlot, SkipDormantSlot, Observe
    <3> QED
      BY <2>3, <3>1, GlobalTransitionOwnership, PlainPrologueOwnership, TrackTickOwnership,
         CompletionOwnership
  <2>7. CASE UNCHANGED vars
    BY <2>4, <2>7 DEF vars
  <2> QED
    BY <2>5, <2>6, <2>7 DEF Next
<1> QED
  BY <1>1, <1>2, InitIInv, NextIInv, PTL DEF Spec

(***************************************************************************)
(* A resource never changes hands in one step, whichever of its two        *)
(* scopes and whichever scenarios are involved.                            *)
(***************************************************************************)
LEMMA AcquireIsNoTheft ==
  ASSUME NEW who, NEW claims, CanAcquire(owners, who, claims),
         owners' = Acquire(owners, who, claims), NEW r \in Resource, owners[r] # Unowned
  PROVE  owners'[r] = owners[r]
BY AcquireEntries

(* A release takes entries away and gives none to another owner.           *)
LEMMA ReleaseIsNoTheft ==
  ASSUME NEW leaving, owners' = Release(owners, leaving), NEW r \in Resource
  PROVE  owners'[r] \in {owners[r], Unowned}
BY ReleaseEntries

(* No branch of track_tick takes a resource from its owner for another.    *)
LEMMA TrackTickIsNoTheft ==
  ASSUME NEW h \in Handle, NEW t \in Track, TrackTick(h, t),
         NEW r \in Resource, owners[r] # Unowned
  PROVE  owners'[r] \in {owners[r], Unowned}
<1>1. CASE owners' = ReleasePhase(owners, h, t)
  BY <1>1, ReleaseIsNoTheft DEF ReleasePhase
<1>2. CASE owners' = WorkingOwners(h, t) /\ Works(h, t)
  BY <1>2, AcquireIsNoTheft DEF WorkingOwners, Works, ClaimGranted
<1>3. CASE AdvancePhase(h, t)
  <2> DEFINE claims == PhaseOf(RecipeOf(h), t, tracks[h][t].latch.target).phase_resources
             freed == ReleasePhase(owners, h, t)
  <2>1. freed[r] = IF owners[r] \in {<<h, t>>} THEN Unowned ELSE owners[r]
    BY ReleaseEntries DEF ReleasePhase
  <2>2. \/ owners' = freed
        \/ CanAcquire(freed, <<h, t>>, claims) /\ owners' = Acquire(freed, <<h, t>>, claims)
    BY <1>3 DEF AdvancePhase
  <2> HIDE DEF freed, claims
  <2> QED
    BY <2>1, <2>2, AcquireEntries
<1>4. CASE UNCHANGED owners
  BY <1>4
<1> QED
  BY <1>1, <1>2, <1>3, <1>4 DEF TrackTick, TrackDormant, TrackTimeout, TrackWaits, ExitAction,
     FinishAbort, EndTrack, EntryAction, TakeTransition, Dwell, FailTrack, EntriesDone

(* A resource never changes hands in one step (can_grant, and the release  *)
(* before the claim in apply_transition_target): whoever holds it keeps it *)
(* until it is given back.                                                 *)
THEOREM ResourcesAreNeverTaken == Spec => NoTheft
<1>1. ASSUME Next, NEW r \in Resource, owners[r] # Unowned
      PROVE  owners'[r] \in {owners[r], Unowned}
  <2>1. CASE Caller
    <3>1. ASSUME NEW h \in Handle, Start(h)
          PROVE  owners'[r] \in {owners[r], Unowned}
      BY <1>1, <3>1, AcquireIsNoTheft DEF Start
    <3>2. ASSUME NEW h \in Handle, Abort(h) \/ Unload(h)
          PROVE  owners'[r] \in {owners[r], Unowned}
      BY <3>2, ReleaseIsNoTheft DEF Abort, Unload, InstanceAbort
    <3>3. CASE Restart
      BY <3>3 DEF Restart, NoOwners
    <3> QED
      BY <2>1, <3>1, <3>2, <3>3 DEF Caller, Load, Pause, Resume
  <2>2. CASE Tick
    <3> SUFFICES ASSUME NEW h \in Handle,
                        \/ SkipEmptySlot(h) \/ SkipDormantSlot(h)
                        \/ HitCap(h) \/ GlobalTransition(h) \/ PlainPrologue(h)
                        \/ \E t \in Track : TrackTick(h, t)
                        \/ CheckCompletion(h) \/ Observe(h)
                 PROVE  owners'[r] \in {owners[r], Unowned}
      BY <2>2 DEF Tick
    <3>1. CASE HitCap(h) \/ GlobalTransition(h) \/ CheckCompletion(h)
      BY <3>1, ReleaseIsNoTheft
      DEF HitCap, GlobalTransition, CheckCompletion, InstanceAbort, ReleasePhase, ReleaseScenario
    <3>2. CASE SkipEmptySlot(h) \/ SkipDormantSlot(h) \/ PlainPrologue(h) \/ Observe(h)
      BY <3>2 DEF SkipEmptySlot, SkipDormantSlot, PlainPrologue, Observe
    <3> QED
      BY <1>1, <3>1, <3>2, TrackTickIsNoTheft
  <2> QED
    BY <1>1, <2>1, <2>2 DEF Next
<1>2. [Next]_vars =>
        [\A r \in Resource : owners[r] # Unowned => owners'[r] \in {owners[r], Unowned}]_vars
  BY <1>1
<1> QED
  BY <1>2, PTL DEF Spec, NoTheft

(***************************************************************************)
(* A scenario that has ended: no caller's guard accepts an end state, and  *)
(* the tick works only on the slots that are ticking.                      *)
(***************************************************************************)
LEMMA EndedStays ==
  ASSUME TypeOK, WellFormed, Next, NEW h \in Handle, slots[h].state \in EndState
  PROVE  (slots'[h] = slots[h] /\ tracks'[h] = tracks[h]) \/ slots'[h] = EmptySlot
<1>1. slots[h].state \notin {"IDLE", "LOADED", "RUNNING", "PAUSED", "ABORTING"}
  BY DEF EndState
<1>2. Loaded(h) /\ ~ Ticking(h)
  BY <1>1 DEF WellFormed, SlotsAreWhole, Ticking
<1>3. slots \in [Handle -> SlotType] /\ tracks \in [Handle -> [Track -> TrackType]]
  BY DEF TypeOK
<1>4. CASE Caller
  <2>1. ASSUME NEW g \in Handle, NEW r \in Recipe, Load(g, r)
        PROVE  slots'[h] = slots[h] /\ tracks'[h] = tracks[h]
    BY <1>2, <1>3, <2>1 DEF Load
  <2>2. ASSUME NEW g \in Handle, Start(g) \/ Pause(g) \/ Resume(g) \/ Abort(g)
        PROVE  slots'[h] = slots[h] /\ tracks'[h] = tracks[h]
    <3>1. g # h
      BY <1>1, <2>2 DEF Start, Pause, Resume, Abort
    <3> QED
      BY <1>3, <2>2, <3>1 DEF Start, Pause, Resume, Abort, InstanceAbort
  <2>3. ASSUME NEW g \in Handle, Unload(g)
        PROVE  (slots'[h] = slots[h] /\ tracks'[h] = tracks[h]) \/ slots'[h] = EmptySlot
    BY <1>3, <2>3 DEF Unload
  <2>4. CASE Restart
    BY <2>4 DEF Restart
  <2> QED
    BY <1>4, <2>1, <2>2, <2>3, <2>4 DEF Caller
<1>5. CASE Tick
  <2> SUFFICES ASSUME NEW g \in Handle,
                      \/ SkipEmptySlot(g) \/ SkipDormantSlot(g)
                      \/ HitCap(g) \/ GlobalTransition(g) \/ PlainPrologue(g)
                      \/ \E t \in Track : TrackTick(g, t)
                      \/ CheckCompletion(g) \/ Observe(g)
               PROVE  slots'[h] = slots[h] /\ tracks'[h] = tracks[h]
    BY <1>5 DEF Tick
  <2>1. CASE SkipEmptySlot(g) \/ SkipDormantSlot(g) \/ Observe(g)
    BY <2>1 DEF SkipEmptySlot, SkipDormantSlot, Observe
  <2>2. CASE HitCap(g) \/ GlobalTransition(g) \/ PlainPrologue(g)
    <3>1. g # h
      BY <1>2, <2>2 DEF HitCap, GlobalTransition, PlainPrologue, Prologue
    <3> QED
      BY <1>3, <2>2, <3>1
      DEF HitCap, GlobalTransition, PlainPrologue, SlotTicked, InstanceAbort
  <2>3. ASSUME NEW t \in Track, TrackTick(g, t)
        PROVE  slots'[h] = slots[h] /\ tracks'[h] = tracks[h]
    <3>1. TrackTurn(g, t)
      BY <2>3 DEF TrackTick, TrackDormant, TrackTimeout, TrackWaits, ExitAction, FinishAbort,
         EndTrack, AdvancePhase, EntryAction, TakeTransition, Dwell, EntriesDone, ExitsDone, Works
    <3>2. g # h
      BY <1>2, <3>1 DEF TrackTurn, WellFormed, TickIsUndisturbed
    <3> SUFFICES tracks'[h] = tracks[h]
      BY <3>1 DEF TrackTurn
    <3>3. ASSUME NEW tr, SetTrack(g, t, tr)  PROVE  tracks'[h] = tracks[h]
      BY <1>3, <3>2, <3>3 DEF SetTrack
    <3>4. CASE TrackDormant(g, t)
      BY <3>4 DEF TrackDormant
    <3>5. CASE TrackTimeout(g, t) \/ FinishAbort(g, t)
      BY <3>3, <3>5, Zenon DEF TrackTimeout, FinishAbort, FailTrack
    <3>6. CASE TrackWaits(g, t) \/ EndTrack(g, t) \/ Dwell(g, t)
      BY <3>3, <3>6, Zenon DEF TrackWaits, EndTrack, Dwell
    <3>7. CASE ExitAction(g, t) \/ TakeTransition(g, t)
      BY <3>3, <3>7, Zenon DEF ExitAction, TakeTransition
    <3>8. CASE AdvancePhase(g, t)
      BY <3>3, <3>8, Zenon DEF AdvancePhase
    <3>9. CASE EntryAction(g, t)
      BY <3>3, <3>9, Zenon DEF EntryAction, FailTrack
    <3> QED
      BY <2>3, <3>4, <3>5, <3>6, <3>7, <3>8, <3>9 DEF TrackTick
  <2>4. CASE CheckCompletion(g)
    <3>1. g # h
      BY <1>2, <2>4 DEF CheckCompletion, WellFormed, TickIsUndisturbed
    <3> QED
      BY <1>3, <2>4, <3>1 DEF CheckCompletion
  <2> QED
    BY <2>1, <2>2, <2>3, <2>4
<1> QED
  BY <1>4, <1>5 DEF Next

(* A scenario that has ended keeps its state and its tracks until unload   *)
(* or a restart of the engine empties the slot.                            *)
THEOREM EndsAreFinal == Spec => EndIsFinal
<1>1. TypeOK /\ WellFormed /\ [Next]_vars =>
        [\A h \in Handle : slots[h].state \in EndState =>
           \/ slots'[h] = slots[h] /\ tracks'[h] = tracks[h]
           \/ slots'[h] = EmptySlot]_vars
  BY EndedStays
<1> QED
  BY <1>1, TypesAndTables, PTL DEF Spec, EndIsFinal


(* Every variable of the engine keeps the values of its type: no slot,     *)
(* track or claim is ever left half made.                                  *)
COROLLARY EngineTypesAreKept == Spec => []TypeOK
BY TypesAndTables, PTL

(***************************************************************************)
(* From here on: the engine implements ScenarioLifecycle, for every set of *)
(* recipes, resources, slots and tracks; and what holds of every run in    *)
(* that life: its clocks stay within their timeouts, its verdict is true,  *)
(* and its work holds the resources it has claimed.                        *)
(***************************************************************************)

(***************************************************************************)
(* The invariant that links the engine's state to what its observers know. *)
(* The gap between the two is open only while the tick is about to         *)
(* dispatch the events of the very slot that has ended.                    *)
(***************************************************************************)
UnderWayIsStarted ==
  \A h \in Handle :
    slots[h].state \in {"RUNNING", "PAUSED", "ABORTING"} => observed[h] = "started"

AboutToReport(h) ==
  cursor.at = "observe" /\ cursor.h = h /\ TerminalEdge(h, cursor.prev)

EndsAreTold ==
  \A h \in Handle : slots[h].state \in EndState =>
    observed[h] = IF AboutToReport(h) THEN "started" ELSE slots[h].state

PrevWasTicking ==
  cursor.at \in {"track", "completion"} => cursor.prev \in {"RUNNING", "ABORTING"}

ViewInv == UnderWayIsStarted /\ EndsAreTold /\ PrevWasTicking

(* A step as the lifecycle sees it.                                        *)
View == Lifecycle!Next \/ (StateOf' = StateOf /\ observed' = observed)

(***************************************************************************)
(* Facts about the refinement mapping.                                     *)
(***************************************************************************)

(* The state of a slot, and its change when one slot is written.           *)
LEMMA StateOfSlots ==
  /\ StateOf \in [Handle -> {slots[h].state : h \in Handle}]
  /\ \A h \in Handle : StateOf[h] = slots[h].state
BY DEF StateOf

LEMMA SlotWritten ==
  ASSUME TypeOK, NEW h \in Handle, NEW x, slots' = [slots EXCEPT ![h] = x]
  PROVE  StateOf' = [StateOf EXCEPT ![h] = x.state]
BY DEF StateOf, TypeOK

(* Outside the dispatch every end has been reported.                       *)
LEMMA NoneUnreported ==
  ASSUME ViewInv, cursor.at # "observe"
  PROVE  Lifecycle!Unreported = {}
BY DEF ViewInv, EndsAreTold, AboutToReport, EndState, StateOf, Lifecycle!Unreported,
       Lifecycle!Ended

(* A step that only changes the state of one slot is a move.               *)
LEMMA MoveOf ==
  ASSUME TypeOK, ViewInv, cursor.at # "observe",
         NEW h \in Handle, NEW x, slots' = [slots EXCEPT ![h] = x],
         NEW from, slots[h].state \in from
  PROVE  Lifecycle!Move(h, from, x.state)
BY SlotWritten, NoneUnreported, StateOfSlots DEF Lifecycle!Move

(***************************************************************************)
(* Callers.                                                                *)
(***************************************************************************)

(* Callers find the main task between two ticks, with nothing to report.   *)
LEMMA CallerView ==
  ASSUME TypeOK, ViewInv, BetweenTicks
  PROVE  cursor.at = "slot" /\ ~ \E h \in Handle : AboutToReport(h)
BY DEF BetweenTicks, AtSlot, AboutToReport

(* Each call is the step of the lifecycle that has its name.               *)
LEMMA CallerStep ==
  ASSUME TypeOK, WellFormed, ViewInv, Caller
  PROVE  ViewInv' /\ View
<1> USE DEF TypeOK
<1>0. BetweenTicks /\ UNCHANGED cursor
  BY DEF Caller, Load, Start, Pause, Resume, Abort, Unload, Restart
<1>a. cursor.at = "slot" /\ cursor'.at = "slot" /\ Lifecycle!Unreported = {}
  BY <1>0, CallerView, NoneUnreported
<1>b. ASSUME NEW h \in Handle, NEW x, slots' = [slots EXCEPT ![h] = x],
             observed' = observed, x.state \notin EndState,
             x.state \in {"RUNNING", "PAUSED", "ABORTING"} => observed[h] = "started"
      PROVE  ViewInv'
  BY <1>a, <1>b DEF ViewInv, UnderWayIsStarted, EndsAreTold, PrevWasTicking, AboutToReport
<1>1. ASSUME NEW h \in Handle, NEW r \in Recipe, Load(h, r)  PROVE ViewInv' /\ View
  <2> DEFINE x == [recipe |-> r, state |-> "LOADED", elapsed |-> 0]
  <2>1. slots' = [slots EXCEPT ![h] = x] /\ observed' = observed /\ x.state = "LOADED"
    BY <1>1 DEF Load
  <2>2. slots[h].state \in {"IDLE"}
    BY <1>1 DEF Load, WellFormed, SlotsAreWhole
  <2> HIDE DEF x
  <2>3. ViewInv'
    BY <1>b, <2>1 DEF EndState
  <2>4. Lifecycle!Move(h, {"IDLE"}, "LOADED")
    BY <1>a, <2>1, <2>2, MoveOf
  <2> QED
    BY <2>1, <2>3, <2>4 DEF View, Lifecycle!Next, Lifecycle!Load
<1>2. ASSUME NEW h \in Handle, Start(h)  PROVE ViewInv' /\ View
  <2> DEFINE x == [slots[h] EXCEPT !.state = "RUNNING", !.elapsed = 0]
  <2>1. /\ slots' = [slots EXCEPT ![h] = x] /\ slots[h].state \in {"LOADED"}
        /\ observed' = [observed EXCEPT ![h] = "started"]
    BY <1>2 DEF Start
  <2>2. x.state = "RUNNING"
    BY DEF SlotType
  <2> HIDE DEF x
  <2>3. ViewInv'
    BY <1>a, <2>1, <2>2
    DEF ViewInv, UnderWayIsStarted, EndsAreTold, PrevWasTicking, AboutToReport, EndState
  <2>4. Lifecycle!Move(h, {"LOADED"}, "RUNNING")
    BY <1>a, <2>1, <2>2, MoveOf
  <2> QED
    BY <2>1, <2>3, <2>4 DEF View, Lifecycle!Next, Lifecycle!Start
<1>3. ASSUME NEW h \in Handle, NEW s \in ScenarioState, NEW from,
             slots[h].state \in from, from \subseteq {"RUNNING", "PAUSED"},
             s \in {"RUNNING", "PAUSED", "ABORTING"},
             slots' = [slots EXCEPT ![h].state = s], observed' = observed
      PROVE  ViewInv' /\ Lifecycle!Move(h, from, s)
  <2> DEFINE x == [slots[h] EXCEPT !.state = s]
  <2>1. slots' = [slots EXCEPT ![h] = x] /\ x.state = s
    BY <1>3, UpdateSlot
  <2>2. observed[h] = "started"
    BY <1>3 DEF ViewInv, UnderWayIsStarted
  <2> HIDE DEF x
  <2> QED
    BY <1>a, <1>b, <1>3, <2>1, <2>2, MoveOf DEF EndState
<1>4. ASSUME NEW h \in Handle, Pause(h)  PROVE ViewInv' /\ View
  <2>1. ViewInv' /\ Lifecycle!Move(h, {"RUNNING"}, "PAUSED") /\ UNCHANGED observed
    BY <1>3, <1>4 DEF Pause, ScenarioState
  <2> QED
    BY <2>1 DEF View, Lifecycle!Next, Lifecycle!Pause
<1>5. ASSUME NEW h \in Handle, Resume(h)  PROVE ViewInv' /\ View
  <2>1. ViewInv' /\ Lifecycle!Move(h, {"PAUSED"}, "RUNNING") /\ UNCHANGED observed
    BY <1>3, <1>5 DEF Resume, ScenarioState
  <2> QED
    BY <2>1 DEF View, Lifecycle!Next, Lifecycle!Resume
<1>6. ASSUME NEW h \in Handle, Abort(h)  PROVE ViewInv' /\ View
  <2>1. ViewInv' /\ Lifecycle!Move(h, {"RUNNING", "PAUSED"}, "ABORTING") /\ UNCHANGED observed
    BY <1>3, <1>6 DEF Abort, ScenarioState
  <2> QED
    BY <2>1 DEF View, Lifecycle!Next, Lifecycle!Abort
<1>7. ASSUME NEW h \in Handle, Unload(h)  PROVE ViewInv' /\ View
  <2>1. slots' = [slots EXCEPT ![h] = EmptySlot] /\ observed' = observed /\ EmptySlot.state = "IDLE"
    BY <1>7 DEF Unload, EmptySlot
  <2>2. ViewInv'
    BY <1>b, <2>1 DEF EndState
  <2>3. StateOf' = [StateOf EXCEPT ![h] = "IDLE"]
    BY <2>1, SlotWritten
  <2> QED
    BY <1>a, <2>1, <2>2, <2>3 DEF View, Lifecycle!Next, Lifecycle!Unload
<1>8. ASSUME Restart  PROVE ViewInv' /\ View
  <2>1. slots' = [h \in Handle |-> EmptySlot] /\ observed' = observed /\ EmptySlot.state = "IDLE"
    BY <1>8 DEF Restart, EmptySlot
  <2>2. StateOf' = [h \in Handle |-> "IDLE"]
    BY <2>1 DEF StateOf
  <2>3. ViewInv'
    BY <1>a, <2>1 DEF ViewInv, UnderWayIsStarted, EndsAreTold, PrevWasTicking, EndState
  <2> QED
    BY <1>a, <2>1, <2>2, <2>3 DEF View, Lifecycle!Next, Lifecycle!Restart
<1> QED
  BY <1>1, <1>2, <1>4, <1>5, <1>6, <1>7, <1>8 DEF Caller

(***************************************************************************)
(* The tick.  Most of its steps the lifecycle does not see.                *)
(***************************************************************************)

(* A step that keeps the state of every slot and what the observers know,  *)
(* with nothing to report before it or after it.                           *)
LEMMA UnseenStep ==
  ASSUME ViewInv, cursor.at # "observe",
         UNCHANGED <<slots, observed>>,
         ~ \E h \in Handle : AboutToReport(h)',
         PrevWasTicking'
  PROVE  ViewInv' /\ View
BY DEF ViewInv, UnderWayIsStarted, EndsAreTold, AboutToReport, View, StateOf

(* A slot that is not ticked has no new end to report.                     *)
LEMMA SkipView ==
  ASSUME TypeOK, WellFormed, ViewInv, NEW h \in Handle, SkipEmptySlot(h) \/ SkipDormantSlot(h)
  PROVE  ViewInv' /\ View
<1>1. cursor.at = "slot" /\ UNCHANGED <<slots, observed>>
  BY DEF SkipEmptySlot, SkipDormantSlot, AtSlot
<1>2. cursor'.at = "slot" \/ cursor' = AtObserve(h, slots[h].state)
  BY DEF SkipEmptySlot, SkipDormantSlot, AfterSlot, AtSlot
<1>3. ~ \E g \in Handle : AboutToReport(g)'
  BY <1>1, <1>2 DEF AboutToReport, TerminalEdge, AtObserve
<1>4. PrevWasTicking'
  BY <1>2 DEF PrevWasTicking, AtObserve
<1> QED
  BY <1>1, <1>3, <1>4, UnseenStep

(* The prologue: a slot that is ticked stays under way, or is aborted.     *)
LEMMA PrologueView ==
  ASSUME TypeOK, WellFormed, ViewInv, NEW h \in Handle,
         HitCap(h) \/ GlobalTransition(h) \/ PlainPrologue(h)
  PROVE  ViewInv' /\ View
<1> USE DEF TypeOK
<1>1. /\ cursor.at = "slot" /\ cursor'.at = "track" /\ cursor'.prev = slots[h].state
      /\ slots[h].state \in {"RUNNING", "ABORTING"} /\ observed' = observed
  BY DEF HitCap, GlobalTransition, PlainPrologue, Prologue, AtSlot, Ticking
<1>2. PICK s \in {"RUNNING", "ABORTING"} :
        /\ SlotTicked(h, s)
        /\ s = slots[h].state \/ (slots[h].state = "RUNNING" /\ s = "ABORTING")
  <2>1. CASE HitCap(h)
    BY <2>1 DEF HitCap, CapReached
  <2>2. CASE GlobalTransition(h)
    BY <2>2 DEF GlobalTransition
  <2>3. CASE PlainPrologue(h)
    BY <1>1, <2>3 DEF PlainPrologue
  <2> QED
    BY <2>1, <2>2, <2>3
<1> DEFINE x == [slots[h] EXCEPT !.state = s, !.elapsed = Elapse(@)]
<1>3. slots' = [slots EXCEPT ![h] = x]
  BY <1>2 DEF SlotTicked
<1>4. x.state = s
  BY DEF SlotType
<1> HIDE DEF x
<1>5. observed[h] = "started"
  BY <1>1 DEF ViewInv, UnderWayIsStarted
<1>6. ViewInv'
  BY <1>1, <1>2, <1>3, <1>4, <1>5
  DEF ViewInv, UnderWayIsStarted, EndsAreTold, PrevWasTicking, AboutToReport, EndState
<1>7. CASE s = slots[h].state
  <2>1. StateOf' = [StateOf EXCEPT ![h] = s]
    BY <1>3, <1>4, SlotWritten
  <2>2. StateOf' = StateOf
    BY <1>7, <2>1, StateOfSlots
  <2> QED
    BY <1>1, <1>6, <2>2 DEF View
<1>8. CASE slots[h].state = "RUNNING" /\ s = "ABORTING"
  <2>1. Lifecycle!Move(h, {"RUNNING", "PAUSED"}, x.state)
    BY <1>1, <1>3, <1>8, MoveOf
  <2> QED
    BY <1>1, <1>4, <1>6, <1>8, <2>1 DEF View, Lifecycle!Next, Lifecycle!Abort
<1> QED
  BY <1>2, <1>7, <1>8

(* The turn of a track: only the cursor moves, and it keeps prev.          *)
LEMMA TrackView ==
  ASSUME ViewInv, NEW h \in Handle, NEW t \in Track, TrackTick(h, t)
  PROVE  ViewInv' /\ View
<1>1. TrackTurn(h, t)
  BY DEF TrackTick, TrackDormant, TrackTimeout, TrackWaits, ExitAction, FinishAbort,
     EndTrack, AdvancePhase, EntryAction, TakeTransition, Dwell, EntriesDone, ExitsDone, Works
<1>2. cursor.at = "track" /\ UNCHANGED <<slots, observed>>
  BY <1>1 DEF TrackTurn
<1>3. cursor'.at \in {"track", "completion"} /\ cursor'.prev = cursor.prev
  BY <1>1, <1>2 DEF TrackTurn, ViewInv
<1>4. PrevWasTicking' /\ ~ \E g \in Handle : AboutToReport(g)'
  BY <1>2, <1>3 DEF ViewInv, PrevWasTicking, AboutToReport
<1> QED
  BY <1>2, <1>4, UnseenStep

(* The completion check ends a run or leaves it as it is.                  *)
LEMMA CompletionView ==
  ASSUME TypeOK, WellFormed, ViewInv, NEW h \in Handle, CheckCompletion(h)
  PROVE  ViewInv' /\ View
<1> USE DEF TypeOK
<1>1. /\ cursor.at = "completion" /\ cursor.h = h /\ observed' = observed
      /\ cursor' = AtObserve(h, cursor.prev)
  BY DEF CheckCompletion
<1>2. slots[h].state \in {"RUNNING", "ABORTING"} /\ cursor.prev \in {"RUNNING", "ABORTING"}
  BY <1>1 DEF WellFormed, TickIsUndisturbed, Ticking, ViewInv, PrevWasTicking
<1>3. \/ Verdict(h) = slots[h].state
      \/ slots[h].state = "RUNNING" /\ Verdict(h) = "COMPLETED"
      \/ Verdict(h) = "FAILED"
  BY <1>2 DEF Verdict
<1> DEFINE x == [slots[h] EXCEPT !.state = Verdict(h)]
<1>4. slots' = [slots EXCEPT ![h] = x]
  BY DEF CheckCompletion
<1>5. x.state = Verdict(h)
  BY DEF SlotType
<1> HIDE DEF x
<1>6. observed[h] = "started"
  BY <1>2 DEF ViewInv, UnderWayIsStarted
<1>7. UnderWayIsStarted' /\ PrevWasTicking'
  BY <1>1, <1>4, <1>5, <1>6 DEF ViewInv, UnderWayIsStarted, PrevWasTicking, AtObserve
<1>8. EndsAreTold'
  <2>1. /\ \A g \in Handle \ {h} : slots'[g] = slots[g] /\ ~ AboutToReport(g) /\ ~ AboutToReport(g)'
        /\ ~ AboutToReport(h)
    BY <1>1, <1>4 DEF AboutToReport, AtObserve
  <2>2. slots'[h].state \in EndState => AboutToReport(h)'
    BY <1>1, <1>2 DEF AboutToReport, AtObserve, TerminalEdge, EndState
  <2> QED
    BY <1>1, <1>6, <2>1, <2>2 DEF ViewInv, EndsAreTold
<1>9. View
  <2>1. CASE Verdict(h) = slots[h].state
    <3>1. StateOf' = [StateOf EXCEPT ![h] = slots[h].state]
      BY <1>4, <1>5, <2>1, SlotWritten
    <3> QED
      BY <1>1, <3>1, StateOfSlots DEF View
  <2>2. CASE slots[h].state = "RUNNING" /\ Verdict(h) = "COMPLETED"
    <3>1. Lifecycle!Move(h, {"RUNNING"}, x.state)
      BY <1>1, <1>4, <2>2, MoveOf
    <3> QED
      BY <1>1, <1>5, <2>2, <3>1 DEF View, Lifecycle!Next, Lifecycle!Complete
  <2>3. CASE Verdict(h) = "FAILED"
    <3>1. Lifecycle!Move(h, {"RUNNING", "ABORTING"}, x.state)
      BY <1>1, <1>2, <1>4, MoveOf
    <3> QED
      BY <1>1, <1>5, <2>3, <3>1 DEF View, Lifecycle!Next, Lifecycle!Fail
  <2> QED
    BY <1>3, <2>1, <2>2, <2>3
<1> QED
  BY <1>7, <1>8, <1>9 DEF ViewInv

(* The dispatch reports an end, exactly when there is one to report.       *)
LEMMA ObserveView ==
  ASSUME TypeOK, ViewInv, NEW h \in Handle, Observe(h)
  PROVE  ViewInv' /\ View
<1> USE DEF TypeOK
<1>1. /\ cursor.at = "observe" /\ cursor.h = h /\ slots' = slots
      /\ cursor'.at = "slot" /\ StateOf' = StateOf
  BY DEF Observe, AfterSlot, AtSlot, StateOf
<1>2. UnderWayIsStarted /\ EndsAreTold
  BY DEF ViewInv
<1>3. CASE TerminalEdge(h, cursor.prev)
  <2>1. AboutToReport(h) /\ slots[h].state \in EndState
    BY <1>1, <1>3 DEF AboutToReport, TerminalEdge
  <2>2. observed[h] = "started"
    BY <1>2, <2>1 DEF EndsAreTold
  <2>3. observed' = [observed EXCEPT ![h] = slots[h].state]
    BY <1>3, <2>2 DEF Observe
  <2>4. ViewInv'
    BY <1>1, <1>2, <2>1, <2>3
    DEF ViewInv, UnderWayIsStarted, EndsAreTold, PrevWasTicking, AboutToReport, EndState
  <2>5. h \in Lifecycle!Unreported
    BY <2>1, <2>2, StateOfSlots DEF Lifecycle!Unreported, Lifecycle!Ended, EndState
  <2> QED
    BY <1>1, <2>3, <2>4, <2>5, StateOfSlots DEF View, Lifecycle!Next, Lifecycle!Report
<1>4. CASE ~ TerminalEdge(h, cursor.prev)
  <2>1. observed' = observed
    BY <1>4 DEF Observe
  <2>2. ~ \E g \in Handle : AboutToReport(g) \/ AboutToReport(g)'
    BY <1>1, <1>4 DEF AboutToReport
  <2>3. ViewInv'
    BY <1>1, <1>2, <2>1, <2>2 DEF ViewInv, UnderWayIsStarted, EndsAreTold, PrevWasTicking
  <2> QED
    BY <1>1, <2>1, <2>3 DEF View
<1> QED
  BY <1>3, <1>4

(***************************************************************************)
(* The refinement.                                                         *)
(***************************************************************************)

(* The initial states are those of the lifecycle.                          *)
LEMMA InitView == Init => ViewInv /\ Lifecycle!Init
<1> SUFFICES ASSUME Init
             PROVE  ViewInv /\ Lifecycle!Init
  OBVIOUS
<1>1. \A h \in Handle : slots[h].state = "IDLE"
  BY DEF Init, EmptySlot
<1>2. cursor.at = "slot" /\ observed = [h \in Handle |-> "nothing"]
  BY DEF Init, AtSlot
<1>3. ViewInv
  BY <1>1, <1>2 DEF ViewInv, UnderWayIsStarted, EndsAreTold, PrevWasTicking, EndState
<1> QED
  BY <1>1, <1>2, <1>3 DEF Lifecycle!Init, StateOf

(* Every step of the engine is a step of the lifecycle or unseen by it.    *)
LEMMA NextView ==
  ASSUME TypeOK, WellFormed, ViewInv, [Next]_vars
  PROVE  ViewInv' /\ View
<1>1. CASE Caller
  BY <1>1, CallerStep
<1>2. CASE Tick
  BY <1>2, SkipView, PrologueView, TrackView, CompletionView, ObserveView DEF Tick
<1>3. CASE UNCHANGED vars
  BY <1>3 DEF vars, ViewInv, UnderWayIsStarted, EndsAreTold, PrevWasTicking, AboutToReport,
     TerminalEdge, View, StateOf
<1> QED
  BY <1>1, <1>2, <1>3 DEF Next

(* The engine implements the lifecycle: whatever the recipes, the calls,   *)
(* the conditions and the answers of the actions are, the state of a slot  *)
(* moves as the lifecycle says, and the end of a run is reported once,     *)
(* with its state, before any caller or any other slot gets its turn       *)
(* (on_update dispatches slot by slot).                                    *)
THEOREM EngineImplementsLifecycle == Spec => LifecycleSpec
<1>1. Spec => [](TypeOK /\ WellFormed)
  BY TypesAndTables
<1>2. TypeOK /\ WellFormed /\ ViewInv /\ [Next]_vars => ViewInv' /\ View
  BY NextView
<1>3. View => [Lifecycle!Next]_(Lifecycle!vars)
  BY DEF View, Lifecycle!vars
<1>4. Init => ViewInv /\ Lifecycle!Init
  BY InitView
<1> QED
  BY <1>1, <1>2, <1>3, <1>4, PTL DEF Spec, LifecycleSpec, Lifecycle!Spec

(***************************************************************************)
(* The phase events have caught up with every ended slot, but for the one  *)
(* whose events are about to be dispatched.                                *)
(***************************************************************************)
PhasesAreTold ==
  \A h \in Handle : slots[h].state \in EndState =>
    \/ \A t \in Tracks(h) : emitted_phase[h][t] = tracks[h][t].phase_idx
    \/ cursor.at = "observe" /\ cursor.h = h

(* Writing one slot's state writes that state or leaves a slot as it was.  *)
LEMMA StateWritten ==
  ASSUME TypeOK, NEW g \in Handle, NEW h \in Handle, NEW s, NEW e,
         \/ slots' = [slots EXCEPT ![g].state = s]
         \/ slots' = [slots EXCEPT ![g].state = s, ![g].elapsed = e]
  PROVE  slots'[h].state \in {slots[h].state, s}
<1>1. slots \in [Handle -> SlotType] /\ slots[g] \in SlotType
  BY DEF TypeOK
<1>2. \/ slots'[h] = slots[h]
      \/ slots'[h] = [slots[g] EXCEPT !.state = s]
      \/ slots'[h] = [slots[g] EXCEPT !.state = s, !.elapsed = e]
  BY <1>1
<1>3. /\ [slots[g] EXCEPT !.state = s].state = s
      /\ [slots[g] EXCEPT !.state = s, !.elapsed = e].state = s
  BY <1>1 DEF SlotType
<1> QED
  BY <1>2, <1>3

(* Whatever a track does, it does in its turn.                             *)
LEMMA TickIsTurn ==
  ASSUME NEW g, NEW t, TrackTick(g, t)
  PROVE  TrackTurn(g, t)
<1>1. TrackDormant(g, t) \/ TrackTimeout(g, t) \/ TrackWaits(g, t) => TrackTurn(g, t)
  BY DEF TrackDormant, TrackTimeout, TrackWaits
<1>2. ExitAction(g, t) \/ EntryAction(g, t) => Works(g, t)
  BY DEF ExitAction, EntryAction
<1>3. FinishAbort(g, t) \/ EndTrack(g, t) \/ AdvancePhase(g, t) => Works(g, t)
  BY DEF FinishAbort, EndTrack, AdvancePhase, ExitsDone
<1>4. TakeTransition(g, t) \/ Dwell(g, t) => Works(g, t)
  BY DEF TakeTransition, Dwell, EntriesDone
<1>5. Works(g, t) => TrackTurn(g, t)
  BY DEF Works
<1> QED
  BY <1>1, <1>2, <1>3, <1>4, <1>5 DEF TrackTick

(* Only the completion check ends a run.                                   *)
LEMMA OnlyCompletionEnds ==
  ASSUME TypeOK, WellFormed, Next, NEW h \in Handle,
         slots[h].state \notin EndState, slots'[h].state \in EndState
  PROVE  CheckCompletion(h)
<1> USE DEF TypeOK
<1>1. CASE Caller
  <2>1. ASSUME NEW g \in Handle, NEW r \in Recipe, Load(g, r)  PROVE FALSE
    BY <2>1 DEF Load, EndState
  <2>2. ASSUME NEW g \in Handle, Start(g) \/ Pause(g) \/ Resume(g) \/ Abort(g)  PROVE FALSE
    <3>1. PICK s \in {"RUNNING", "PAUSED", "ABORTING"} :
            \/ slots' = [slots EXCEPT ![g].state = s]
            \/ slots' = [slots EXCEPT ![g].state = s, ![g].elapsed = 0]
      BY <2>2 DEF Start, Pause, Resume, Abort
    <3>2. slots'[h].state \in {slots[h].state, s}
      BY <3>1, StateWritten
    <3> QED
      BY <3>2 DEF EndState
  <2>3. ASSUME NEW g \in Handle, Unload(g)  PROVE FALSE
    BY <2>3 DEF Unload, EmptySlot, EndState
  <2>4. CASE Restart
    BY <2>4 DEF Restart, EmptySlot, EndState
  <2> QED
    BY <1>1, <2>1, <2>2, <2>3, <2>4 DEF Caller
<1>2. CASE Tick
  <2>1. PICK g \in Handle :
          \/ SkipEmptySlot(g) \/ SkipDormantSlot(g)
          \/ HitCap(g) \/ GlobalTransition(g) \/ PlainPrologue(g)
          \/ \E t \in Track : TrackTick(g, t)
          \/ CheckCompletion(g) \/ Observe(g)
    BY <1>2 DEF Tick
  <2>2. ~ (SkipEmptySlot(g) \/ SkipDormantSlot(g) \/ Observe(g))
    BY DEF SkipEmptySlot, SkipDormantSlot, Observe
  <2>3. ~ (HitCap(g) \/ GlobalTransition(g) \/ PlainPrologue(g))
    <3> SUFFICES ASSUME HitCap(g) \/ GlobalTransition(g) \/ PlainPrologue(g)
                 PROVE  FALSE
      OBVIOUS
    <3> DEFINE e == Elapse(slots[g].elapsed)
    <3>1. PICK s \in {"RUNNING", "ABORTING"} :
            slots' = [slots EXCEPT ![g].state = s, ![g].elapsed = e]
      BY DEF HitCap, GlobalTransition, PlainPrologue, Prologue, Ticking, SlotTicked
    <3> HIDE DEF e
    <3>2. slots'[h].state \in {slots[h].state, s}
      BY <3>1, StateWritten
    <3> QED
      BY <3>2 DEF EndState
  <2>4. ~ \E t \in Track : TrackTick(g, t)
    BY TickIsTurn DEF TrackTurn
  <2>5. CheckCompletion(g)
    BY <2>1, <2>2, <2>3, <2>4
  <2> QED
    BY <2>5 DEF CheckCompletion
<1> QED
  BY <1>1, <1>2 DEF Next

(* What a step does to the events of a slot that has ended and stays.      *)
LEMMA EndedEvents ==
  ASSUME TypeOK, WellFormed, Next, NEW h \in Handle,
         slots[h].state \in EndState, slots'[h].state \in EndState
  PROVE  \/ Observe(h)
         \/ /\ emitted_phase'[h] = emitted_phase[h]
            /\ ~ (cursor.at = "observe" /\ cursor.h = h)
<1> USE DEF TypeOK
<1>1. Loaded(h)
  BY DEF WellFormed, SlotsAreWhole, EndState
<1>2. CASE Caller
  <2>1. cursor.at = "slot"
    <3>1. BetweenTicks
      BY <1>2 DEF Caller, Load, Start, Pause, Resume, Abort, Unload, Restart
    <3> QED
      BY <3>1 DEF BetweenTicks, AtSlot
  <2>2. ASSUME NEW g \in Handle, NEW r \in Recipe, Load(g, r)
        PROVE  emitted_phase'[h] = emitted_phase[h]
    BY <1>1, <2>2 DEF Load
  <2>3. ASSUME NEW g \in Handle,
               Start(g) \/ Pause(g) \/ Resume(g) \/ Abort(g) \/ Unload(g)
        PROVE  emitted_phase'[h] = emitted_phase[h]
    BY <2>3 DEF Start, Pause, Resume, Abort, Unload
  <2>4. ~ Restart
    BY DEF Restart, EmptySlot, EndState
  <2> QED
    BY <1>2, <2>1, <2>2, <2>3, <2>4 DEF Caller
<1>3. CASE Tick
  <2> SUFFICES ASSUME NEW g \in Handle,
                      \/ SkipEmptySlot(g) \/ SkipDormantSlot(g)
                      \/ HitCap(g) \/ GlobalTransition(g) \/ PlainPrologue(g)
                      \/ \E t \in Track : TrackTick(g, t)
                      \/ CheckCompletion(g) \/ Observe(g)
               PROVE  \/ Observe(h)
                      \/ /\ emitted_phase'[h] = emitted_phase[h]
                         /\ ~ (cursor.at = "observe" /\ cursor.h = h)
    BY <1>3 DEF Tick
  <2>1. CASE SkipEmptySlot(g) \/ SkipDormantSlot(g)
    BY <2>1 DEF SkipEmptySlot, SkipDormantSlot, AtSlot
  <2>2. CASE HitCap(g) \/ GlobalTransition(g) \/ PlainPrologue(g)
    BY <2>2 DEF HitCap, GlobalTransition, PlainPrologue, Prologue, AtSlot
  <2>3. CASE \E t \in Track : TrackTick(g, t)
    BY <2>3, TickIsTurn DEF TrackTurn
  <2>4. CASE CheckCompletion(g)
    BY <2>4 DEF CheckCompletion
  <2>5. CASE Observe(g)
    BY <2>5 DEF Observe
  <2> QED
    BY <2>1, <2>2, <2>3, <2>4, <2>5
<1> QED
  BY <1>2, <1>3 DEF Next

(* Every step keeps the phase events current.                              *)
LEMMA NextPhasesAreTold ==
  ASSUME TypeOK, WellFormed, PhasesAreTold, [Next]_vars
  PROVE  PhasesAreTold'
<1>1. CASE UNCHANGED vars
  BY <1>1 DEF vars, PhasesAreTold, Tracks, RecipeOf
<1>2. CASE Next
  <2> SUFFICES ASSUME NEW h \in Handle, slots'[h].state \in EndState
               PROVE  \/ \A t \in Tracks(h)' : emitted_phase'[h][t] = tracks'[h][t].phase_idx
                      \/ cursor'.at = "observe" /\ cursor'.h = h
    BY DEF PhasesAreTold
  <2>1. CASE slots[h].state \notin EndState
    BY <1>2, <2>1, OnlyCompletionEnds DEF CheckCompletion, AtObserve
  <2>2. CASE slots[h].state \in EndState
    <3>1. slots'[h] = slots[h] /\ tracks'[h] = tracks[h]
      BY <1>2, <2>2, EndedStays DEF EmptySlot, EndState
    <3>2. Tracks(h)' = Tracks(h) /\ Tracks(h) \subseteq Track
      <4>1. Loaded(h)
        BY <2>2 DEF WellFormed, SlotsAreWhole, EndState
      <4> QED
        BY <3>1, <4>1, LoadedSlot DEF Tracks, RecipeOf, IInv
    <3>3. CASE Observe(h)
      <4>1. emitted_phase'[h] =
              [t \in Track |-> IF t \in Tracks(h) THEN tracks[h][t].phase_idx
                               ELSE emitted_phase[h][t]]
        BY <3>3 DEF Observe, TypeOK
      <4> QED
        BY <3>1, <3>2, <4>1
    <3>4. CASE /\ emitted_phase'[h] = emitted_phase[h]
               /\ ~ (cursor.at = "observe" /\ cursor.h = h)
      BY <2>2, <3>1, <3>2, <3>4 DEF PhasesAreTold
    <3> QED
      BY <1>2, <2>2, <3>3, <3>4, EndedEvents
  <2> QED
    BY <2>1, <2>2
<1> QED
  BY <1>1, <1>2

(* Between ticks the observers know which runs are under way, how each     *)
(* ended run ended and which phases its tracks reached (on_update and the  *)
(* two edge memories it keeps).                                            *)
THEOREM ObserversKnow == Spec => []ObserversAreCurrent
<1>1. Init => ViewInv /\ PhasesAreTold
  BY InitView DEF Init, EmptySlot, PhasesAreTold, EndState
<1>2. TypeOK /\ WellFormed /\ ViewInv /\ PhasesAreTold /\ [Next]_vars => ViewInv' /\ PhasesAreTold'
  BY NextView, NextPhasesAreTold
<1>3. ViewInv /\ PhasesAreTold => ObserversAreCurrent
  BY DEF ViewInv, UnderWayIsStarted, EndsAreTold, PhasesAreTold, ObserversAreCurrent, AboutToReport,
     BetweenTicks, AtSlot
<1> QED
  BY <1>1, <1>2, <1>3, TypesAndTables, PTL DEF Spec

-----------------------------------------------------------------------------
(***************************************************************************)
(* The inductive invariant.  A track that waits has not reached its        *)
(* timeout; one that works is less than a tick past it; the cap is out of  *)
(* reach until the prologue has looked at it.                              *)
(***************************************************************************)
InTime(h, t) ==
  Timeout(h, t) # 0 =>
    /\ tracks[h][t].state \in {"RUNNING", "ABORTING"} => tracks[h][t].elapsed < Timeout(h, t) + DT
    /\ tracks[h][t].state = "WAITING_FOR_RESOURCE" => tracks[h][t].elapsed < Timeout(h, t)

ClocksInTime(h) ==
  UnderWay(h) =>
    /\ RecipeOf(h).scenario_timeout_max # 0 => slots[h].elapsed < RecipeOf(h).scenario_timeout_max
    /\ \A t \in Tracks(h) : InTime(h, t)

(* A run under way is not complete, but in the middle of its own tick; one *)
(* that is aborting has a track that failed.                               *)
MidTick(h) == cursor.at \in {"track", "completion"} /\ cursor.h = h

HasFailed(h) == \E t \in Tracks(h) : tracks[h][t].state = "FAILED"

VerdictStands(h) ==
  /\ UnderWay(h) /\ ~ MidTick(h) => ~ CompletionSatisfied(h)
  /\ slots[h].state \in {"ABORTING", "FAILED"} => HasFailed(h)
  /\ slots[h].state = "COMPLETED" =>
       CompletionSatisfied(h) /\ tracks[h][MainTrack(RecipeOf(h))].state # "FAILED"

RunInv == \A h \in Handle : ClocksInTime(h) /\ VerdictStands(h)

(***************************************************************************)
(* What a turn may make of its track, and of the arbiter's map: the five   *)
(* outcomes of track_tick.                                                 *)
(***************************************************************************)
StaysAsItIs(h, t, tr) ==
  /\ tr = tracks[h][t]
  /\ tr.state \in EndState \cup {"IDLE"}
  /\ owners' = owners

Ends(h, t, tr) ==
  /\ tr.state \in EndState
  /\ tracks[h][t].state \notin EndState
  /\ \/ owners' = ReleasePhase(owners, h, t)
     \/ owners' = owners /\ tracks[h][t].state = "WAITING_FOR_RESOURCE"

WaitsOn(h, t, tr) ==
  /\ tr.state = "WAITING_FOR_RESOURCE" /\ tracks[h][t].state = "WAITING_FOR_RESOURCE"
  /\ tr.phase_idx = tracks[h][t].phase_idx
  /\ ~ TimedOut(h, t) /\ tr.elapsed = Elapse(tracks[h][t].elapsed)
  /\ owners' = owners

GoesOn(h, t, tr) ==
  /\ Works(h, t)
  /\ tr.state \in {"RUNNING", "ABORTING"}
  /\ tr.phase_idx = tracks[h][t].phase_idx
  /\ tr.elapsed = Elapse(tracks[h][t].elapsed)
  /\ owners' = WorkingOwners(h, t)

MovesOn(h, t, tr) ==
  LET claims == PhaseOf(RecipeOf(h), t, tr.phase_idx).phase_resources
      freed  == ReleasePhase(owners, h, t)
  IN  /\ tracks[h][t].state \notin EndState
      /\ tr.elapsed = 0
      /\ \/ /\ tr.state = "RUNNING"
            /\ CanAcquire(freed, <<h, t>>, claims) /\ owners' = Acquire(freed, <<h, t>>, claims)
         \/ tr.state = "WAITING_FOR_RESOURCE" /\ owners' = freed

TurnOf(h, t, tr) ==
  /\ SetTrack(h, t, tr)
  /\ \/ StaysAsItIs(h, t, tr) \/ Ends(h, t, tr) \/ WaitsOn(h, t, tr)
     \/ GoesOn(h, t, tr) \/ MovesOn(h, t, tr)

(* A track that gets to work has the tick on its clock.                    *)
LEMMA WorkingClock ==
  ASSUME NEW h, NEW t, tracks[h][t] \in TrackType
  PROVE  Working(h, t).elapsed = Elapse(tracks[h][t].elapsed)
<1>1. Clocked(h, t).elapsed = Elapse(tracks[h][t].elapsed)
  BY DEF Clocked, TrackType
<1>2. Clocked(h, t) \in TrackType
  BY ClockedTrack
<1> QED
  BY <1>1, <1>2 DEF Working, TrackType

(* The turns in which a track fails, ends or has ended.                    *)
LEMMA FailingTurn ==
  ASSUME NEW h, NEW t, tracks[h][t] \in TrackType,
         tracks[h][t].state \notin EndState, FailTrack(h, t)
  PROVE  \E tr \in TrackType : TurnOf(h, t, tr)
<1> DEFINE tr == [Clocked(h, t) EXCEPT !.state = "FAILED"]
<1>1. tr \in TrackType /\ tr.state = "FAILED"
  <2>1. "FAILED" \in TrackState
    BY DEF TrackState
  <2> QED
    BY <2>1, ClockedInState
<1>2. SetTrack(h, t, tr) /\ owners' = ReleasePhase(owners, h, t)
  BY DEF FailTrack
<1> HIDE DEF tr
<1> QED
  BY <1>1, <1>2 DEF TurnOf, Ends, EndState

(* The turns in which it goes on working in its phase.                     *)
LEMMA WorkingTurn ==
  ASSUME NEW h, NEW t, tracks[h][t] \in TrackType, Works(h, t),
         NEW tr \in TrackType, SetTrack(h, t, tr), owners' = WorkingOwners(h, t),
         tr.state \in {"RUNNING", "ABORTING"},
         tr.phase_idx = tracks[h][t].phase_idx, tr.elapsed = Working(h, t).elapsed
  PROVE  \E x \in TrackType : TurnOf(h, t, x)
BY WorkingClock DEF TurnOf, GoesOn

(* track_tick has one of its five outcomes.                                *)
LEMMA TurnOutcome ==
  ASSUME IInv, NEW h \in Handle, NEW t \in Track, TrackTick(h, t)
  PROVE  TrackTurn(h, t) /\ \E tr \in TrackType : TurnOf(h, t, tr)
<1>1. TrackTurn(h, t)
  BY DEF TrackTick, TrackDormant, TrackTimeout, TrackWaits, ExitAction, FinishAbort, EndTrack,
     AdvancePhase, EntryAction, TakeTransition, Dwell, EntriesDone, ExitsDone, Works
<1> SUFFICES \E tr \in TrackType : TurnOf(h, t, tr)
  BY <1>1
<1>2. tracks[h][t] \in TrackType
  BY <1>1, TrackTurnFacts
<1>3. Works(h, t) => tracks[h][t].state \notin EndState
  BY DEF Works, EndState
<1>4. /\ Working(h, t) \in TrackType /\ Working(h, t).phase_idx = tracks[h][t].phase_idx
      /\ Works(h, t) => Working(h, t).state \in {"RUNNING", "ABORTING"}
  BY <1>2, WorkingTrack DEF Works
<1>5. CASE TrackDormant(h, t)
  <2>1. SetTrack(h, t, tracks[h][t])
    BY <1>5 DEF TrackDormant, SetTrack, IInv, TypeOK
  <2> QED
    BY <1>2, <1>5, <2>1 DEF TrackDormant, TurnOf, StaysAsItIs
<1>6. CASE TrackTimeout(h, t) \/ FinishAbort(h, t)
  BY <1>2, <1>3, <1>6, FailingTurn DEF TrackTimeout, FinishAbort, ExitsDone, EndState
<1>7. CASE TrackWaits(h, t)
  <2> DEFINE s == IF TimedOut(h, t) THEN "FAILED" ELSE tracks[h][t].state
             tr == [Clocked(h, t) EXCEPT !.state = s]
  <2>1. s \in TrackState
    BY <1>2 DEF TrackType, TrackState
  <2>2. SetTrack(h, t, tr)
    BY <1>2, <1>7, ClockedTrack DEF TrackWaits
  <2>3. s = "FAILED" \/ (s = "WAITING_FOR_RESOURCE" /\ ~ TimedOut(h, t))
    BY <1>7 DEF TrackWaits
  <2> HIDE DEF s
  <2>4. tr \in TrackType /\ tr.state = s /\ tr.phase_idx = tracks[h][t].phase_idx
    BY <1>2, <2>1, ClockedInState
  <2>5. tr.elapsed = Elapse(tracks[h][t].elapsed)
    BY <1>2, ClockedTrack DEF Clocked, TrackType
  <2> HIDE DEF tr
  <2>6. tracks[h][t].state = "WAITING_FOR_RESOURCE" /\ owners' = owners
    BY <1>7 DEF TrackWaits
  <2> QED
    BY <2>2, <2>3, <2>4, <2>5, <2>6 DEF TurnOf, Ends, WaitsOn, EndState
<1>8. CASE EndTrack(h, t)
  <2> DEFINE s == IF tracks[h][t].latch.target = MODR_TARGET_COMPLETE THEN "COMPLETED" ELSE "FAILED"
             tr == [Working(h, t) EXCEPT !.state = s]
  <2>1. s \in TrackState /\ s \in EndState
    BY DEF TrackState, EndState
  <2>2. SetTrack(h, t, tr) /\ owners' = ReleasePhase(owners, h, t) /\ Works(h, t)
    BY <1>8 DEF EndTrack, ExitsDone
  <2> HIDE DEF s
  <2>3. tr \in TrackType
    BY <1>4, <2>1, UpdateTrack
  <2>4. tr.state = s
    BY <1>4 DEF TrackType
  <2> HIDE DEF tr
  <2> QED
    BY <1>3, <2>1, <2>2, <2>3, <2>4 DEF TurnOf, Ends
<1>9. ASSUME Works(h, t), NEW tr, SetTrack(h, t, tr), owners' = WorkingOwners(h, t),
             \/ \E x : tr = [Working(h, t) EXCEPT !.latch.exit = x]
             \/ \E x : tr = [Working(h, t) EXCEPT !.entry = x]
             \/ \E x : tr = [Working(h, t) EXCEPT !.latch = x]
             \/ \E x : tr = [Working(h, t) EXCEPT !.latch = x, !.state = "ABORTING"]
             \/ tr = Working(h, t)
      PROVE  \E x \in TrackType : TurnOf(h, t, x)
  <2>1. /\ tr.state \in {"RUNNING", "ABORTING"}
        /\ tr.phase_idx = tracks[h][t].phase_idx /\ tr.elapsed = Working(h, t).elapsed
    BY <1>4, <1>9 DEF TrackType
  <2>2. tr \in TrackType
    <3>1. tracks \in [Handle -> [Track -> TrackType]]
      BY DEF IInv, TypeOK
    <3>2. IInv'
      BY TrackTickStep
    <3>3. tracks' \in [Handle -> [Track -> TrackType]]
      BY <3>2 DEF IInv, TypeOK
    <3> QED
      BY <1>9, <3>1, <3>3 DEF SetTrack
  <2> QED
    BY <1>2, <1>9, <2>1, <2>2, WorkingTurn
<1>10. CASE ExitAction(h, t)
  <2>1. PICK x : SetTrack(h, t, [Working(h, t) EXCEPT !.latch.exit = x])
    BY <1>10 DEF ExitAction
  <2> QED
    BY <1>9, <1>10, <2>1 DEF ExitAction
<1>11. CASE EntryAction(h, t)
  <2>1. CASE FailTrack(h, t)
    BY <1>2, <1>3, <1>11, <2>1, FailingTurn DEF EntryAction
  <2>2. CASE owners' = WorkingOwners(h, t) /\ ~ FailTrack(h, t)
    <3>1. PICK x : SetTrack(h, t, [Working(h, t) EXCEPT !.entry = x])
      BY <1>11, <2>2 DEF EntryAction
    <3> QED
      BY <1>9, <1>11, <2>2, <3>1 DEF EntryAction
  <2> QED
    BY <1>11, <2>1, <2>2 DEF EntryAction
<1>12. CASE Dwell(h, t)
  BY <1>9, <1>12 DEF Dwell, EntriesDone
<1>13. CASE TakeTransition(h, t)
  <2>1. PICK target : SetTrack(h, t, [Working(h, t) EXCEPT
          !.latch = [exiting |-> TRUE, target |-> target, exit |-> 0],
          !.state = IF target = MODR_TARGET_ABORT THEN "ABORTING" ELSE @])
    BY <1>13 DEF TakeTransition
  <2> DEFINE latch == [exiting |-> TRUE, target |-> target, exit |-> 0]
             tr == [Working(h, t) EXCEPT !.latch = latch,
                      !.state = IF target = MODR_TARGET_ABORT THEN "ABORTING" ELSE @]
  <2>2. SetTrack(h, t, tr) /\ owners' = WorkingOwners(h, t) /\ Works(h, t)
    BY <1>13, <2>1 DEF TakeTransition, EntriesDone
  <2>3. \/ tr = [Working(h, t) EXCEPT !.latch = latch, !.state = "ABORTING"]
        \/ tr = [Working(h, t) EXCEPT !.latch = latch]
    <3> HIDE DEF latch
    <3>1. CASE target = MODR_TARGET_ABORT
      BY <3>1
    <3>2. CASE target # MODR_TARGET_ABORT
      BY <1>4, <3>2 DEF TrackType
    <3> QED
      BY <3>1, <3>2
  <2> HIDE DEF tr, latch
  <2> QED
    BY <1>9, <2>2, <2>3
<1>14. CASE AdvancePhase(h, t)
  <2> DEFINE p == tracks[h][t].latch.target
             claims == PhaseOf(RecipeOf(h), t, p).phase_resources
             freed == ReleasePhase(owners, h, t)
             moved == [FreshTrack EXCEPT !.phase_idx = p]
  <2>1. PICK s \in {"RUNNING", "WAITING_FOR_RESOURCE"} :
          /\ SetTrack(h, t, [moved EXCEPT !.state = s])
          /\ \/ /\ s = "RUNNING" /\ CanAcquire(freed, <<h, t>>, claims)
                /\ owners' = Acquire(freed, <<h, t>>, claims)
             \/ s = "WAITING_FOR_RESOURCE" /\ owners' = freed
    BY <1>14 DEF AdvancePhase
  <2> DEFINE tr == [moved EXCEPT !.state = s]
  <2>2. tr.state = s /\ tr.phase_idx = p /\ tr.elapsed = 0
    <3> HIDE DEF p
    <3> QED
      BY DEF FreshTrack
  <2>3. SetTrack(h, t, tr)
    BY <2>1
  <2> HIDE DEF tr
  <2>4. tr \in TrackType
    <3>1. tracks'[h][t] \in TrackType /\ tracks'[h][t] = tr
      BY <2>3, TrackTickStep DEF SetTrack, IInv, TypeOK
    <3> QED
      BY <3>1
  <2>5. tracks[h][t].state \notin EndState
    BY <1>3, <1>14 DEF AdvancePhase, ExitsDone
  <2>6. MovesOn(h, t, tr)
    BY <2>1, <2>2, <2>5 DEF MovesOn
  <2> QED
    BY <2>3, <2>4, <2>6 DEF TurnOf
<1> QED
  BY <1>1, <1>5, <1>6, <1>7, <1>8, <1>10, <1>11, <1>12, <1>13, <1>14 DEF TrackTick

(***************************************************************************)
(* One step changes one slot.                                              *)
(***************************************************************************)
RunOf(h) == ClocksInTime(h) /\ VerdictStands(h)

(* A slot that a step leaves alone, and that is not in the middle of its   *)
(* own tick, keeps its clocks and its verdict.                             *)
LEMMA OtherRuns ==
  ASSUME NEW g, RunOf(g), slots'[g] = slots[g], tracks'[g] = tracks[g], ~ MidTick(g)
  PROVE  RunOf(g)'
<1>1. UNCHANGED <<slots[g], tracks[g]>>
  OBVIOUS
<1>2. ClocksInTime(g)'
  BY <1>1 DEF RunOf, ClocksInTime, InTime, UnderWay, RecipeOf, Tracks, Timeout
<1>3. /\ UnderWay(g)' = UnderWay(g) /\ RecipeOf(g)' = RecipeOf(g) /\ Tracks(g)' = Tracks(g)
      /\ CompletionSatisfied(g)' = CompletionSatisfied(g) /\ HasFailed(g)' = HasFailed(g)
  BY <1>1 DEF UnderWay, RecipeOf, Tracks, CompletionSatisfied, HasFailed
<1>4. VerdictStands(g)'
  BY <1>1, <1>3 DEF RunOf, VerdictStands
<1> QED
  BY <1>2, <1>4 DEF RunOf

(* It is enough to look at the slot the step works on.                     *)
LEMMA OneRunStep ==
  ASSUME RunInv, NEW h \in Handle,
         \A g \in Handle \ {h} : slots'[g] = slots[g] /\ tracks'[g] = tracks[g] /\ ~ MidTick(g),
         RunOf(h)'
  PROVE  RunInv'
<1>1. \A g \in Handle \ {h} : RunOf(g)'
  BY OtherRuns DEF RunInv, RunOf
<1> QED
  BY <1>1 DEF RunInv, RunOf

(* A call is made between ticks, and a tick works on one slot at a time.   *)
LEMMA NobodyElseMidTick ==
  ASSUME NEW h \in Handle,
         BetweenTicks \/ cursor = AtSlot(h) \/ cursor.at \in {"slot", "observe"} \/ cursor.h = h
  PROVE  \A g \in Handle \ {h} : ~ MidTick(g)
BY DEF BetweenTicks, AtSlot, MidTick

(* A phase's timeout is a time.                                            *)
LEMMA TimeoutType ==
  ASSUME NEW r \in Recipe, NEW t \in TracksOf(r), NEW p \in 0..(r.tracks[t].phase_count - 1)
  PROVE  PhaseTimeout(r, t, p) \in Nat
<1>1. RecipeOK(r) /\ TrackOK(r.tracks[t])
  BY RecipeTracks
<1>2. PhaseOf(r, t, p) \in PhasesOf(r.tracks[t].phase_count)
  BY <1>1 DEF TrackOK, PhaseOf
<1>3. r.default_phase_timeout \in Time /\ PhaseOf(r, t, p).timeout \in Time
  BY <1>1, <1>2 DEF RecipeOK, PhasesOf
<1>4. Time \subseteq Nat
  BY RecipeAssumption DEF Time
<1> QED
  BY <1>3, <1>4 DEF PhaseTimeout

(* A scenario that is not complete has a track that did not complete.      *)
LEMMA IncompleteTrack ==
  ASSUME IInv, NEW h \in Handle, Loaded(h), ~ CompletionSatisfied(h)
  PROVE  \E t \in Tracks(h) : tracks[h][t].state # "COMPLETED"
<1>1. /\ RecipeOf(h).completion_rule \in {"all_tracks", "any_track", "main_track"}
      /\ 0 \in Tracks(h) /\ MainTrack(RecipeOf(h)) \in Tracks(h)
  BY LoadedSlot DEF RecipeOK
<1> QED
  BY <1>1 DEF CompletionSatisfied

(***************************************************************************)
(* The calls.                                                              *)
(***************************************************************************)

(* A slot that is empty, loaded or aborting owes nothing to its clocks.    *)
LEMMA NotUnderWay ==
  ASSUME NEW h, slots'[h].state \in {"IDLE", "LOADED"}
  PROVE  RunOf(h)'
BY DEF RunOf, ClocksInTime, VerdictStands, UnderWay

(* load and unload leave a slot that is not under way.                     *)
LEMMA LoadRun ==
  ASSUME IInv, RunInv, NEW h \in Handle, (\E r \in Recipe : Load(h, r)) \/ Unload(h)
  PROVE  RunInv'
<1>1. slots'[h].state \in {"IDLE", "LOADED"}
  BY DEF IInv, TypeOK, Load, Unload, EmptySlot
<1>2. \A g \in Handle \ {h} : slots'[g] = slots[g] /\ tracks'[g] = tracks[g]
  BY DEF IInv, TypeOK, Load, Unload
<1>3. BetweenTicks
  BY DEF Load, Unload
<1> QED
  BY <1>1, <1>2, <1>3, NotUnderWay, NobodyElseMidTick, OneRunStep

(* start sets every clock to zero, and no track has completed yet.         *)
LEMMA StartRun ==
  ASSUME IInv, RunInv, NEW h \in Handle, Start(h)
  PROVE  RunInv'
<1>1. IInv' /\ BetweenTicks /\ Loaded(h)
  BY StartStep DEF IInv, WellFormed, SlotsAreWhole, Start
<1>2. /\ slots'[h].state = "RUNNING" /\ slots'[h].elapsed = 0 /\ slots'[h].recipe = slots[h].recipe
      /\ \A g \in Handle \ {h} : slots'[g] = slots[g] /\ tracks'[g] = tracks[g]
  BY DEF IInv, TypeOK, SlotType, Start
<1>3. RecipeOf(h)' = RecipeOf(h) /\ Tracks(h)' = Tracks(h) /\ Loaded(h)'
  BY <1>1, <1>2 DEF RecipeOf, Tracks, Loaded
<1>4. \A t \in Tracks(h) : tracks'[h][t].state = "RUNNING" /\ tracks'[h][t].elapsed = 0
  BY <1>1, LoadedSlot DEF IInv, TypeOK, Start, StartedTrack, FreshTrack
<1>5. ClocksInTime(h)'
  <2>1. RecipeOf(h).scenario_timeout_max \in Nat
    BY <1>1, LoadedSlot, RecipeAssumption DEF RecipeOK, Time
  <2>2. \A t \in Tracks(h) : Timeout(h, t)' \in Nat
    <3>1. RecipeOf(h) \in Recipe
      BY <1>1, LoadedSlot
    <3>2. \A t \in Tracks(h) :
            tracks'[h][t].phase_idx \in 0..(RecipeOf(h).tracks[t].phase_count - 1)
      BY <1>1, <1>3 DEF IInv, WellFormed, IndicesInRange, InRange
    <3> QED
      BY <1>3, <3>1, <3>2, TimeoutType DEF Timeout, Tracks
  <2>3. \A t \in Tracks(h) : InTime(h, t)'
    BY <1>4, <2>2, RecipeAssumption DEF InTime
  <2> QED
    BY <1>2, <1>3, <2>1, <2>3 DEF ClocksInTime
<1>6. ~ CompletionSatisfied(h)'
  <2>1. /\ RecipeOf(h).completion_rule \in {"all_tracks", "any_track", "main_track"}
        /\ 0 \in Tracks(h) /\ MainTrack(RecipeOf(h)) \in Tracks(h)
    BY <1>1, LoadedSlot DEF RecipeOK
  <2> QED
    BY <1>3, <1>4, <2>1 DEF CompletionSatisfied
<1>7. RunOf(h)'
  BY <1>2, <1>5, <1>6 DEF RunOf, VerdictStands
<1> QED
  BY <1>1, <1>2, <1>7, NobodyElseMidTick, OneRunStep

(* pause and resume change neither a clock nor a track.                    *)
LEMMA PauseResumeRun ==
  ASSUME IInv, RunInv, NEW h \in Handle, Pause(h) \/ Resume(h)
  PROVE  RunInv'
<1>1. /\ slots'[h].state \in {"RUNNING", "PAUSED"} /\ UNCHANGED <<tracks, cursor>>
      /\ slots'[h].elapsed = slots[h].elapsed /\ slots'[h].recipe = slots[h].recipe
      /\ \A g \in Handle \ {h} : slots'[g] = slots[g]
  BY DEF IInv, TypeOK, SlotType, Pause, Resume
<1>2. BetweenTicks /\ UnderWay(h)
  BY DEF Pause, Resume, UnderWay
<1>3. RecipeOf(h)' = RecipeOf(h) /\ Tracks(h)' = Tracks(h)
      /\ CompletionSatisfied(h)' = CompletionSatisfied(h)
  BY <1>1 DEF RecipeOf, Tracks, CompletionSatisfied
<1>4. ClocksInTime(h)'
  BY <1>1, <1>2, <1>3 DEF RunInv, ClocksInTime, InTime, Timeout
<1>5. ~ MidTick(h)
  BY <1>2 DEF BetweenTicks, AtSlot, MidTick
<1>6. ~ CompletionSatisfied(h)
  BY <1>2, <1>5 DEF RunInv, VerdictStands
<1>7. RunOf(h)'
  BY <1>1, <1>3, <1>4, <1>6 DEF RunOf, VerdictStands
<1> QED
  BY <1>1, <1>2, <1>7, NobodyElseMidTick, OneRunStep

(* instance_abort, called by abort(), the cap or a global transition: the  *)
(* scenario was not complete, so one of its tracks fails or had failed.    *)
LEMMA InstanceAbortRun ==
  ASSUME IInv, RunInv, NEW h \in Handle, InstanceAbort(h),
         UnderWay(h), BetweenTicks \/ cursor = AtSlot(h),
         slots'[h].state = "ABORTING", slots'[h].recipe = slots[h].recipe,
         \A g \in Handle \ {h} : slots'[g] = slots[g]
  PROVE  RunInv'
<1>1. Loaded(h) /\ ~ MidTick(h)
  BY DEF IInv, WellFormed, SlotsAreWhole, UnderWay, BetweenTicks, AtSlot, MidTick
<1>2. PICK t \in Tracks(h) : tracks[h][t].state # "COMPLETED"
  BY <1>1, IncompleteTrack DEF RunInv, VerdictStands
<1>3. t \in Track /\ tracks[h][t] \in TrackType
  BY <1>1, CurrentPhase, LoadedSlot
<1>4. AbortedTracks(h)[t].state = "FAILED"
  <2>1. CASE t \in LiveTracks(h)
    BY <1>3, <2>1 DEF AbortedTracks, TrackType
  <2>2. CASE t \notin LiveTracks(h)
    BY <1>2, <1>3, <2>2 DEF AbortedTracks, LiveTracks, EndState
  <2> QED
    BY <2>1, <2>2
<1>5. tracks'[h][t].state = "FAILED"
  BY <1>4 DEF InstanceAbort, IInv, TypeOK
<1>6. HasFailed(h)'
  BY <1>2, <1>5 DEF HasFailed, Tracks, RecipeOf
<1>7. RunOf(h)'
  BY <1>6 DEF RunOf, ClocksInTime, VerdictStands, UnderWay
<1>8. \A g \in Handle \ {h} : tracks'[g] = tracks[g]
  BY DEF InstanceAbort, IInv, TypeOK
<1> QED
  BY <1>7, <1>8, NobodyElseMidTick, OneRunStep

(***************************************************************************)
(* The steps of a tick.                                                    *)
(***************************************************************************)

(* Steps that touch neither a slot nor a track: before and after them the  *)
(* main task is not in the middle of a slot's tick.                        *)
LEMMA SkipRun ==
  ASSUME RunInv, UNCHANGED <<slots, tracks>>, \A g \in Handle : ~ MidTick(g)
  PROVE  RunInv'
BY OtherRuns DEF RunInv, RunOf

(* What a prologue leaves of a slot.                                       *)
LEMMA SlotTickedFacts ==
  ASSUME IInv, NEW h \in Handle, NEW s, SlotTicked(h, s)
  PROVE  /\ slots'[h].state = s /\ slots'[h].recipe = slots[h].recipe
         /\ slots'[h].elapsed = Elapse(slots[h].elapsed)
         /\ \A g \in Handle \ {h} : slots'[g] = slots[g]
BY DEF IInv, TypeOK, SlotType, SlotTicked

(* A running prologue that aborts nothing has found the cap out of reach;  *)
(* at most it has failed a track.                                          *)
LEMMA RunningPrologueRun ==
  ASSUME IInv, RunInv, NEW h \in Handle, Prologue(h), SlotTicked(h, "RUNNING"),
         slots[h].state = "RUNNING", ~ CapReached(h),
         \A t \in Tracks(h) : tracks'[h][t] = tracks[h][t] \/ tracks'[h][t].state = "FAILED",
         \A g \in Handle \ {h} : tracks'[g] = tracks[g]
  PROVE  RunInv'
<1>1. /\ slots'[h].state = "RUNNING" /\ slots'[h].recipe = slots[h].recipe
      /\ slots'[h].elapsed = Elapse(slots[h].elapsed)
      /\ \A g \in Handle \ {h} : slots'[g] = slots[g]
  BY SlotTickedFacts
<1>2. RecipeOf(h)' = RecipeOf(h) /\ Tracks(h)' = Tracks(h) /\ Loaded(h) /\ cursor = AtSlot(h)
  BY <1>1 DEF RecipeOf, Tracks, Prologue
<1>3. UnderWay(h) /\ RecipeOf(h) \in Recipe
  BY <1>2, LoadedSlot DEF UnderWay
<1>4. RecipeOf(h).scenario_timeout_max # 0 =>
        slots'[h].elapsed < RecipeOf(h).scenario_timeout_max
  <2>1. RecipeOf(h).scenario_timeout_max \in Nat /\ slots'[h].elapsed \in Nat
    <3>1. slots[h].elapsed \in Time
      BY DEF IInv, TypeOK, SlotType
    <3>2. Elapse(slots[h].elapsed) \in Nat
      BY <3>1, ElapseType DEF Time
    <3>3. RecipeOf(h).scenario_timeout_max \in Nat
      BY <1>3, RecipeAssumption DEF RecipeOK, Time
    <3> QED
      BY <1>1, <3>2, <3>3
  <2> QED
    BY <1>1, <2>1 DEF CapReached
<1>5. \A t \in Tracks(h) : InTime(h, t)'
  BY <1>2, <1>3 DEF RunInv, ClocksInTime, InTime, Timeout
<1>6. MidTick(h)'
  BY DEF Prologue, MidTick
<1>7. RunOf(h)'
  BY <1>1, <1>2, <1>4, <1>5, <1>6 DEF RunOf, ClocksInTime, VerdictStands
<1> QED
  BY <1>1, <1>2, <1>7, NobodyElseMidTick, OneRunStep

(* The prologue of a scenario that is aborting only moves its clock.       *)
LEMMA AbortingPrologueRun ==
  ASSUME IInv, RunInv, NEW h \in Handle, Prologue(h), SlotTicked(h, "ABORTING"),
         slots[h].state = "ABORTING", UNCHANGED tracks
  PROVE  RunInv'
<1>1. /\ slots'[h].state = "ABORTING" /\ slots'[h].recipe = slots[h].recipe
      /\ \A g \in Handle \ {h} : slots'[g] = slots[g]
  BY SlotTickedFacts
<1>2. HasFailed(h)'
  BY <1>1 DEF RunInv, VerdictStands, HasFailed, Tracks, RecipeOf
<1>3. RunOf(h)'
  BY <1>1, <1>2 DEF RunOf, ClocksInTime, VerdictStands, UnderWay
<1>4. cursor = AtSlot(h)
  BY DEF Prologue
<1> QED
  BY <1>1, <1>3, <1>4, NobodyElseMidTick, OneRunStep

(* Every prologue.                                                         *)
LEMMA PrologueRun ==
  ASSUME IInv, RunInv, NEW h \in Handle,
         HitCap(h) \/ GlobalTransition(h) \/ PlainPrologue(h)
  PROVE  RunInv'
<1>1. Prologue(h) /\ cursor = AtSlot(h) /\ Loaded(h)
  BY DEF HitCap, GlobalTransition, PlainPrologue, Prologue
<1>2. CASE SlotTicked(h, "ABORTING") /\ InstanceAbort(h) /\ slots[h].state = "RUNNING"
  <2>1. /\ slots'[h].state = "ABORTING" /\ slots'[h].recipe = slots[h].recipe
        /\ \A g \in Handle \ {h} : slots'[g] = slots[g]
    BY <1>2, SlotTickedFacts
  <2>2. UnderWay(h)
    BY <1>2 DEF UnderWay
  <2> QED
    BY <1>1, <1>2, <2>1, <2>2, InstanceAbortRun
<1>3. CASE HitCap(h)
  BY <1>2, <1>3 DEF HitCap, CapReached
<1>4. CASE GlobalTransition(h)
  <2> DEFINE main == MainTrack(RecipeOf(h))
  <2>1. slots[h].state = "RUNNING" /\ ~ CapReached(h)
    BY <1>4 DEF GlobalTransition
  <2>2. CASE SlotTicked(h, "RUNNING") /\ tracks' = [tracks EXCEPT ![h][main].state = "FAILED"]
    <3>1. main \in Track /\ Tracks(h) \subseteq Track
      BY <1>1, LoadedSlot
    <3>2. tracks[h][main] \in TrackType
      BY <3>1 DEF IInv, TypeOK
    <3>3. /\ tracks'[h][main] = [tracks[h][main] EXCEPT !.state = "FAILED"]
          /\ \A u \in Track \ {main} : tracks'[h][u] = tracks[h][u]
          /\ \A g \in Handle \ {h} : tracks'[g] = tracks[g]
      BY <2>2, <3>1 DEF IInv, TypeOK
    <3>4. tracks'[h][main].state = "FAILED"
      BY <3>2, <3>3 DEF TrackType
    <3> HIDE DEF main
    <3> QED
      BY <1>1, <2>1, <2>2, <3>1, <3>3, <3>4, RunningPrologueRun
  <2> QED
    BY <1>2, <1>4, <2>1, <2>2 DEF GlobalTransition
<1>5. CASE PlainPrologue(h)
  <2>1. UNCHANGED tracks /\ SlotTicked(h, slots[h].state)
    BY <1>5 DEF PlainPrologue
  <2>2. \/ slots[h].state = "ABORTING"
        \/ slots[h].state = "RUNNING" /\ ~ CapReached(h)
    BY <1>5 DEF PlainPrologue, Prologue, Ticking
  <2> QED
    BY <1>1, <2>1, <2>2, RunningPrologueRun, AbortingPrologueRun
<1> QED
  BY <1>3, <1>4, <1>5

(* A turn leaves its track's clock in time.                                *)
LEMMA TurnInTime ==
  ASSUME IInv, RunInv, NEW h \in Handle, NEW t \in Track, TrackTick(h, t), UnderWay(h)
  PROVE  InTime(h, t)'
<1>1. /\ Loaded(h) /\ t \in Tracks(h) /\ TrackTurn(h, t)
      /\ \E tr \in TrackType : TurnOf(h, t, tr)
  BY TurnOutcome, TrackTurnFacts
<1>2. PICK tr \in TrackType : TurnOf(h, t, tr)
  BY <1>1
<1>3. tracks'[h][t] = tr /\ slots' = slots
  BY <1>1, <1>2 DEF TurnOf, SetTrack, IInv, TypeOK, TrackTurn
<1>4. RecipeOf(h)' = RecipeOf(h) /\ Tracks(h)' = Tracks(h) /\ Loaded(h)'
  BY <1>1, <1>3 DEF RecipeOf, Tracks, Loaded
<1>5. Timeout(h, t) \in Nat /\ Timeout(h, t)' \in Nat
  <2>1. RecipeOf(h) \in Recipe
    BY <1>1, LoadedSlot
  <2>2. IInv'
    BY TrackTickStep
  <2>3. /\ tracks[h][t].phase_idx \in 0..(RecipeOf(h).tracks[t].phase_count - 1)
        /\ tracks'[h][t].phase_idx \in 0..(RecipeOf(h).tracks[t].phase_count - 1)
    BY <1>1, <1>4, <2>2 DEF IInv, WellFormed, IndicesInRange, InRange
  <2> QED
    BY <1>1, <1>4, <2>1, <2>3, TimeoutType DEF Timeout, Tracks
<1>6. tracks[h][t].elapsed \in Nat /\ Elapse(tracks[h][t].elapsed) \in Nat
      /\ Elapse(tracks[h][t].elapsed) <= tracks[h][t].elapsed + DT /\ DT \in Nat \ {0}
  <2>1. tracks[h][t].elapsed \in Time
    BY <1>1, TrackTurnFacts DEF TrackType
  <2> QED
    BY <2>1, RecipeAssumption DEF Time, Elapse
<1>7. InTime(h, t)
  BY <1>1 DEF RunInv, ClocksInTime
<1>8. tr.phase_idx = tracks[h][t].phase_idx => Timeout(h, t)' = Timeout(h, t)
  BY <1>3, <1>4 DEF Timeout
<1>9. CASE StaysAsItIs(h, t, tr) \/ Ends(h, t, tr)
  BY <1>3, <1>9 DEF StaysAsItIs, Ends, EndState, InTime
<1>10. CASE WaitsOn(h, t, tr)
  BY <1>3, <1>5, <1>6, <1>8, <1>10 DEF WaitsOn, InTime, TimedOut
<1>11. CASE GoesOn(h, t, tr)
  <2>1. Timeout(h, t) # 0 => Elapse(tracks[h][t].elapsed) < Timeout(h, t) + DT
    BY <1>5, <1>6, <1>7, <1>11 DEF GoesOn, Works, InTime, TimedOut
  <2> QED
    BY <1>3, <1>8, <1>11, <2>1 DEF GoesOn, InTime
<1>12. CASE MovesOn(h, t, tr)
  <2>1. tr.elapsed = 0
    BY <1>12 DEF MovesOn
  <2> QED
    BY <1>3, <1>5, <1>6, <2>1 DEF InTime
<1> QED
  BY <1>2, <1>9, <1>10, <1>11, <1>12 DEF TurnOf

(* Every turn: the scenario's state stays, and a failed track stays so.    *)
LEMMA TrackTickRun ==
  ASSUME IInv, RunInv, NEW h \in Handle, NEW t \in Track, TrackTick(h, t)
  PROVE  RunInv'
<1>1. /\ Loaded(h) /\ Ticking(h) /\ TrackTurn(h, t) /\ Tracks(h) \subseteq Track
      /\ \E tr \in TrackType : TurnOf(h, t, tr)
  BY TurnOutcome, TrackTurnFacts, LoadedSlot
<1>2. PICK tr \in TrackType : TurnOf(h, t, tr)
  BY <1>1
<1>3. /\ tracks'[h][t] = tr /\ slots' = slots
      /\ \A u \in Track \ {t} : tracks'[h][u] = tracks[h][u]
      /\ \A g \in Handle \ {h} : tracks'[g] = tracks[g]
  BY <1>1, <1>2 DEF TurnOf, SetTrack, IInv, TypeOK, TrackTurn
<1>4. RecipeOf(h)' = RecipeOf(h) /\ Tracks(h)' = Tracks(h) /\ UnderWay(h)' = UnderWay(h)
  BY <1>3 DEF RecipeOf, Tracks, UnderWay
<1>5. ClocksInTime(h)'
  <2> SUFFICES ASSUME UnderWay(h) PROVE ClocksInTime(h)'
    BY <1>4 DEF ClocksInTime
  <2>1. \A u \in Tracks(h) : InTime(h, u)
    BY DEF RunInv, ClocksInTime
  <2>2. \A u \in Tracks(h) \ {t} : InTime(h, u)'
    BY <1>1, <1>3, <1>4, <2>1 DEF InTime, Timeout
  <2>3. InTime(h, t)'
    BY TurnInTime
  <2> QED
    BY <1>3, <1>4, <2>2, <2>3 DEF RunInv, ClocksInTime
<1>6. MidTick(h)' /\ cursor.h = h
  BY <1>1 DEF TrackTurn, MidTick, IInv, TypeOK, CursorType
<1>7. HasFailed(h) => HasFailed(h)'
  <2>1. tracks[h][t].state = "FAILED" => tr.state = "FAILED"
    BY <1>2 DEF TurnOf, StaysAsItIs, Ends, WaitsOn, GoesOn, Works, MovesOn, EndState
  <2> QED
    BY <1>1, <1>3, <1>4, <2>1 DEF HasFailed
<1>8. VerdictStands(h)'
  BY <1>1, <1>3, <1>6, <1>7 DEF RunInv, VerdictStands, Ticking
<1> QED
  BY <1>3, <1>5, <1>6, <1>8, NobodyElseMidTick, OneRunStep DEF RunOf

(* The completion check gives the verdict the tracks justify.              *)
LEMMA CompletionRun ==
  ASSUME IInv, RunInv, NEW h \in Handle, CheckCompletion(h)
  PROVE  RunInv'
<1>1. Loaded(h) /\ Ticking(h) /\ cursor.h = h
  BY DEF IInv, WellFormed, TickIsUndisturbed, SlotsAreWhole, CheckCompletion, Ticking
<1>2. /\ slots'[h].state = Verdict(h) /\ slots'[h].elapsed = slots[h].elapsed
      /\ slots'[h].recipe = slots[h].recipe /\ UNCHANGED tracks
      /\ \A g \in Handle \ {h} : slots'[g] = slots[g]
  BY DEF IInv, TypeOK, SlotType, CheckCompletion
<1>3. /\ RecipeOf(h)' = RecipeOf(h) /\ Tracks(h)' = Tracks(h)
      /\ CompletionSatisfied(h)' = CompletionSatisfied(h) /\ HasFailed(h)' = HasFailed(h)
  BY <1>2 DEF RecipeOf, Tracks, CompletionSatisfied, HasFailed
<1>4. MainTrack(RecipeOf(h)) \in Tracks(h)
  BY <1>1, LoadedSlot
<1>5. /\ Verdict(h) \in {"RUNNING", "PAUSED"} => UnderWay(h) /\ ~ CompletionSatisfied(h)
      /\ Verdict(h) \in {"ABORTING", "FAILED"} => HasFailed(h)
      /\ Verdict(h) = "COMPLETED" =>
           CompletionSatisfied(h) /\ tracks[h][MainTrack(RecipeOf(h))].state # "FAILED"
  <2>1. FailureDecided(h) => HasFailed(h)
    BY <1>4 DEF FailureDecided, HasFailed
  <2>2. slots[h].state = "ABORTING" => HasFailed(h)
    BY DEF RunInv, VerdictStands
  <2>3. CASE slots[h].state = "RUNNING"
    BY <2>1, <2>3 DEF Verdict, FailureDecided, UnderWay
  <2>4. CASE slots[h].state = "ABORTING"
    BY <2>2, <2>4 DEF Verdict
  <2> QED
    BY <1>1, <2>3, <2>4 DEF Ticking
<1>6. ClocksInTime(h)'
  BY <1>2, <1>3, <1>5 DEF RunInv, ClocksInTime, InTime, Timeout, UnderWay
<1>7. VerdictStands(h)'
  BY <1>2, <1>3, <1>5 DEF VerdictStands, UnderWay
<1> QED
  BY <1>1, <1>2, <1>6, <1>7, NobodyElseMidTick, OneRunStep DEF RunOf

(* Every step keeps the clocks in time and the verdicts true.              *)
LEMMA NextRun ==
  ASSUME IInv, RunInv, [Next]_vars
  PROVE  RunInv'
<1>1. ASSUME NEW h \in Handle, Abort(h)
      PROVE  RunInv'
  <2>1. /\ slots'[h].state = "ABORTING" /\ slots'[h].recipe = slots[h].recipe
        /\ \A g \in Handle \ {h} : slots'[g] = slots[g]
    BY <1>1 DEF IInv, TypeOK, SlotType, Abort
  <2> QED
    BY <1>1, <2>1, InstanceAbortRun DEF Abort, UnderWay
<1>2. CASE Restart
  <2>1. \A h \in Handle : slots'[h].state \in {"IDLE", "LOADED"}
    BY <1>2 DEF Restart, EmptySlot
  <2> QED
    BY <2>1, NotUnderWay DEF RunInv, RunOf
<1>3. CASE Caller
  BY <1>1, <1>2, <1>3, LoadRun, StartRun, PauseResumeRun DEF Caller
<1>4. CASE Tick
  <2> SUFFICES ASSUME NEW h \in Handle,
                      \/ SkipEmptySlot(h) \/ SkipDormantSlot(h)
                      \/ HitCap(h) \/ GlobalTransition(h) \/ PlainPrologue(h)
                      \/ \E t \in Track : TrackTick(h, t)
                      \/ CheckCompletion(h) \/ Observe(h)
               PROVE  RunInv'
    BY <1>4 DEF Tick
  <2>1. CASE SkipEmptySlot(h) \/ SkipDormantSlot(h) \/ Observe(h)
    <3>1. UNCHANGED <<slots, tracks>> /\ cursor.at \in {"slot", "observe"}
      BY <2>1 DEF SkipEmptySlot, SkipDormantSlot, Observe, AtSlot
    <3> QED
      BY <3>1, SkipRun DEF MidTick
  <2> QED
    BY <2>1, PrologueRun, TrackTickRun, CompletionRun
<1>5. CASE UNCHANGED vars
  <2> SUFFICES ASSUME NEW h \in Handle PROVE ClocksInTime(h)' /\ VerdictStands(h)'
    BY DEF RunInv
  <2>1. UNCHANGED <<slots, tracks, cursor>>
    BY <1>5 DEF vars
  <2>2. /\ UnderWay(h)' = UnderWay(h) /\ RecipeOf(h)' = RecipeOf(h) /\ Tracks(h)' = Tracks(h)
        /\ CompletionSatisfied(h)' = CompletionSatisfied(h) /\ HasFailed(h)' = HasFailed(h)
        /\ MidTick(h)' = MidTick(h)
    BY <2>1 DEF UnderWay, RecipeOf, Tracks, CompletionSatisfied, HasFailed, MidTick
  <2>3. ClocksInTime(h)'
    BY <2>1, <2>2 DEF RunInv, ClocksInTime, InTime, Timeout
  <2> QED
    BY <2>1, <2>2, <2>3 DEF RunInv, VerdictStands
<1> QED
  BY <1>3, <1>4, <1>5 DEF Next

(* The invariant holds from the first tick on.                             *)
LEMMA RunsAreInvariant == Spec => [](IInv /\ RunInv)
<1>1. Init => RunInv
  BY DEF Init, EmptySlot, RunInv, ClocksInTime, VerdictStands, UnderWay
<1> QED
  BY <1>1, InitIInv, NextIInv, NextRun, PTL DEF Spec

(***************************************************************************)
(* Timeouts dominate (track.cpp: the safety cap must win over a PENDING    *)
(* action): whatever the actions return and however long a claim is        *)
(* refused, no live track of a running scenario is ever a tick past its    *)
(* phase timeout and no running scenario has reached its cap.              *)
(***************************************************************************)
THEOREM TimeoutsAlwaysDominate == Spec => []TimeoutsDominate
<1>1. IInv /\ RunInv => TimeoutsDominate
  <2> SUFFICES ASSUME IInv, RunInv, NEW h \in Handle, slots[h].state = "RUNNING"
               PROVE  /\ RecipeOf(h).scenario_timeout_max # 0 =>
                           slots[h].elapsed < RecipeOf(h).scenario_timeout_max
                      /\ \A t \in Tracks(h) :
                           /\ tracks[h][t].state \in {"RUNNING", "ABORTING", "WAITING_FOR_RESOURCE"}
                           /\ Timeout(h, t) # 0
                           => tracks[h][t].elapsed < Timeout(h, t) + DT
    BY DEF TimeoutsDominate
  <2>1. ClocksInTime(h) /\ UnderWay(h) /\ Loaded(h)
    BY DEF RunInv, UnderWay, IInv, WellFormed, SlotsAreWhole
  <2>2. ASSUME NEW t \in Tracks(h), Timeout(h, t) # 0,
               tracks[h][t].state \in {"RUNNING", "ABORTING", "WAITING_FOR_RESOURCE"}
        PROVE  tracks[h][t].elapsed < Timeout(h, t) + DT
    <3>1. InTime(h, t)
      BY <2>1, <2>2 DEF ClocksInTime
    <3>2. tracks[h][t].elapsed \in Nat /\ Timeout(h, t) \in Nat /\ DT \in Nat
      <4>1. RecipeOf(h) \in Recipe /\ tracks[h][t] \in TrackType
            /\ tracks[h][t].phase_idx \in 0..(RecipeOf(h).tracks[t].phase_count - 1)
        BY <2>1, LoadedSlot, CurrentPhase
      <4> QED
        BY <4>1, TimeoutType, RecipeAssumption DEF Timeout, Tracks, TrackType, Time
    <3> QED
      BY <2>2, <3>1, <3>2 DEF InTime
  <2> QED
    BY <2>1, <2>2 DEF ClocksInTime
<1> QED
  BY <1>1, RunsAreInvariant, PTL

(***************************************************************************)
(* The verdict of an ended scenario stays true: COMPLETED means that the   *)
(* completion rule of its recipe holds and the main track did not fail,    *)
(* FAILED that a track failed, also after an abort, which fails the tracks *)
(* before the check that ends the scenario looks at them.                  *)
(***************************************************************************)
THEOREM VerdictsStayTrue == Spec => []VerdictIsTrue
<1>1. RunInv => VerdictIsTrue
  BY DEF RunInv, VerdictStands, HasFailed, VerdictIsTrue
<1> QED
  BY <1>1, RunsAreInvariant, PTL

(***************************************************************************)
(* The claims of the work under way.  Inductive as it stands, given that   *)
(* nothing leaks: who claims anew owns nothing at that moment.             *)
(***************************************************************************)
HoldsItsClaims(h) ==
  /\ UnderWay(h) => HeldBy(<<h, TRACK_IDX_SCENARIO>>) = RecipeOf(h).resources
  /\ \A t \in Track :
       AtWork(h, t) /\ ~ InitialPhaseClaims(RecipeOf(h), t) =>
         HeldBy(<<h, t>>) = Phase(h, t).phase_resources

(* The entries of an owner are the same before and after a step.           *)
SameEntries(x) == \A r \in Resource : owners'[r] = x <=> owners[r] = x

(* A slot that a step leaves alone, in its tracks and in the arbiter's     *)
(* map, holds what it held.                                                *)
LEMMA OtherHolders ==
  ASSUME NEW g, HoldsItsClaims(g), slots'[g] = slots[g], tracks'[g] = tracks[g],
         \A x \in Track \cup {TRACK_IDX_SCENARIO} : SameEntries(<<g, x>>)
  PROVE  HoldsItsClaims(g)'
<1>1. UNCHANGED <<slots[g], tracks[g]>>
  OBVIOUS
<1>2. /\ UnderWay(g)' = UnderWay(g) /\ RecipeOf(g)' = RecipeOf(g)
      /\ \A t : AtWork(g, t)' = AtWork(g, t) /\ Phase(g, t)' = Phase(g, t)
  BY <1>1 DEF UnderWay, RecipeOf, AtWork, Phase, Tracks
<1>3. \A x \in Track \cup {TRACK_IDX_SCENARIO} : HeldBy(<<g, x>>)' = HeldBy(<<g, x>>)
  BY DEF SameEntries, HeldBy
<1> QED
  BY <1>2, <1>3 DEF HoldsItsClaims

(* It is enough to look at the slot the step works on.                     *)
LEMMA OneHolderStep ==
  ASSUME WorkHoldsItsClaims, NEW h \in Handle,
         \A g \in Handle \ {h} : slots'[g] = slots[g] /\ tracks'[g] = tracks[g],
         \A g \in Handle \ {h}, x \in Track \cup {TRACK_IDX_SCENARIO} : SameEntries(<<g, x>>),
         HoldsItsClaims(h)'
  PROVE  WorkHoldsItsClaims'
<1>1. \A g \in Handle \ {h} : HoldsItsClaims(g)'
  BY OtherHolders DEF WorkHoldsItsClaims, HoldsItsClaims
<1> QED
  BY <1>1 DEF WorkHoldsItsClaims, HoldsItsClaims

(* A release touches the entries of those who leave and no others.         *)
LEMMA ReleaseKeepsOthers ==
  ASSUME NEW leaving, owners' = Release(owners, leaving),
         NEW x \in OwnerInfo, x \notin leaving
  PROVE  SameEntries(x)
BY ReleaseEntries, OwnerIsNotUnowned DEF SameEntries

(* An acquire that is granted enters the claims for who and leaves the     *)
(* entries of everyone else as they are.                                   *)
LEMMA AcquireKeepsOthers ==
  ASSUME NEW own, NEW who, NEW claims, CanAcquire(own, who, claims),
         NEW x \in OwnerInfo, x # who
  PROVE  \A r \in Resource : Acquire(own, who, claims)[r] = x <=> own[r] = x
BY OwnerIsNotUnowned DEF Acquire, CanAcquire, CanGrant

(* Who owned nothing owns its claims afterwards, and nothing else.         *)
LEMMA AcquireGivesClaims ==
  ASSUME NEW own, NEW who, NEW claims \in SUBSET Resource,
         \A r \in Resource : own[r] # who
  PROVE  {r \in Resource : Acquire(own, who, claims)[r] = who} = claims
BY DEF Acquire

(* A scenario that is not under way has nothing to hold.                   *)
LEMMA IdleHolder ==
  ASSUME NEW h, slots'[h].state \notin {"RUNNING", "PAUSED"}
  PROVE  HoldsItsClaims(h)'
BY DEF HoldsItsClaims, UnderWay, AtWork

(* The claims of a recipe and of its phases are sets of resources.         *)
LEMMA ClaimsAreResources ==
  ASSUME NEW r \in Recipe
  PROVE  /\ r.resources \in SUBSET Resource
         /\ \A t \in TracksOf(r) : \A p \in 0..(r.tracks[t].phase_count - 1) :
              PhaseOf(r, t, p).phase_resources \in SUBSET Resource
<1>1. RecipeOK(r) /\ \A t \in TracksOf(r) : TrackOK(r.tracks[t])
  BY RecipeTracks
<1>2. ASSUME NEW t \in TracksOf(r), NEW p \in 0..(r.tracks[t].phase_count - 1)
      PROVE  PhaseOf(r, t, p).phase_resources \in SUBSET Resource
  <2>1. PhaseOf(r, t, p) \in PhasesOf(r.tracks[t].phase_count)
    BY <1>1, <1>2 DEF TrackOK, PhaseOf
  <2> QED
    BY <2>1 DEF PhasesOf
<1> QED
  BY <1>1, <1>2 DEF RecipeOK

(* start claims for the scenario, which owned nothing yet; its tracks own  *)
(* nothing either.                                                         *)
LEMMA StartHolds ==
  ASSUME IInv, OwnershipIsLive, WorkHoldsItsClaims, NEW h \in Handle, Start(h)
  PROVE  WorkHoldsItsClaims'
<1> DEFINE me == <<h, TRACK_IDX_SCENARIO>>
           claims == RecipeOf(h).resources
<1>1. Loaded(h) /\ RecipeOf(h) \in Recipe /\ claims \in SUBSET Resource
  BY LoadedSlot, ClaimsAreResources DEF IInv, WellFormed, SlotsAreWhole, Start
<1>2. CanAcquire(owners, me, claims) /\ owners' = Acquire(owners, me, claims)
  BY DEF Start
<1>3. \A r \in Resource, x \in Track \cup {TRACK_IDX_SCENARIO} : owners[r] # <<h, x>>
  <2>1. \A t \in Track : tracks[h][t].state = "IDLE"
    BY DEF IInv, WellFormed, FreshUntilStarted, Start, FreshTrack
  <2> QED
    BY <2>1 DEF OwnershipIsLive, ScenarioScopeIsLive, PhaseScopeIsLive, Start
<1>4. /\ slots'[h].state = "RUNNING" /\ RecipeOf(h)' = RecipeOf(h) /\ Tracks(h)' = Tracks(h)
      /\ \A g \in Handle \ {h} : slots'[g] = slots[g] /\ tracks'[g] = tracks[g]
  BY DEF IInv, TypeOK, SlotType, Start, RecipeOf, Tracks
<1>5. \A g \in Handle \ {h}, x \in Track \cup {TRACK_IDX_SCENARIO} : SameEntries(<<g, x>>)
  <2> SUFFICES ASSUME NEW g \in Handle \ {h}, NEW x \in Track \cup {TRACK_IDX_SCENARIO}
               PROVE  SameEntries(<<g, x>>)
    OBVIOUS
  <2>1. <<g, x>> \in OwnerInfo /\ <<g, x>> # me
    BY DEF OwnerInfo
  <2> HIDE DEF me, claims
  <2> QED
    BY <1>2, <2>1, AcquireKeepsOthers DEF SameEntries
<1>6. HeldBy(me)' = claims
  <2>1. \A r \in Resource : owners[r] # me
    BY <1>3
  <2> HIDE DEF me, claims
  <2> QED
    BY <1>1, <1>2, <2>1, AcquireGivesClaims DEF HeldBy
<1>7. ASSUME NEW t \in Track, AtWork(h, t)', ~ InitialPhaseClaims(RecipeOf(h), t)
      PROVE  HeldBy(<<h, t>>)' = Phase(h, t)'.phase_resources
  <2>1. t \in Tracks(h)
    BY <1>4, <1>7 DEF AtWork
  <2>2. tracks'[h][t].phase_idx = RecipeOf(h).tracks[t].initial_phase
    BY <2>1 DEF IInv, TypeOK, Start, StartedTrack, FreshTrack
  <2>3. Phase(h, t)'.phase_resources = {}
    BY <1>4, <1>7, <2>2 DEF Phase, InitialPhaseClaims
  <2>4. HeldBy(<<h, t>>)' = {}
    BY <1>2, <1>3, OwnersAreDistinct, AcquireEntries DEF HeldBy
  <2> QED
    BY <2>3, <2>4
<1>8. HoldsItsClaims(h)'
  BY <1>4, <1>6, <1>7 DEF HoldsItsClaims
<1> QED
  BY <1>4, <1>5, <1>8, OneHolderStep

(* The calls and the checks that end a scenario or leave it in peace.      *)
LEMMA ReleaseHolds ==
  ASSUME WorkHoldsItsClaims, NEW h \in Handle,
         slots'[h].state \notin {"RUNNING", "PAUSED"},
         \A g \in Handle \ {h} : slots'[g] = slots[g] /\ tracks'[g] = tracks[g],
         NEW leaving, \A o \in leaving : o[1] = h, owners' = Release(owners, leaving)
  PROVE  WorkHoldsItsClaims'
<1>1. HoldsItsClaims(h)'
  BY IdleHolder
<1>2. \A g \in Handle \ {h}, x \in Track \cup {TRACK_IDX_SCENARIO} : SameEntries(<<g, x>>)
  <2> SUFFICES ASSUME NEW g \in Handle \ {h}, NEW x \in Track \cup {TRACK_IDX_SCENARIO}
               PROVE  SameEntries(<<g, x>>)
    OBVIOUS
  <2>1. <<g, x>> \in OwnerInfo /\ <<g, x>> \notin leaving
    BY DEF OwnerInfo
  <2> QED
    BY <2>1, ReleaseKeepsOthers
<1> QED
  BY <1>1, <1>2, OneHolderStep

(* A step that changes no track and no entry keeps every claim, as long as *)
(* a scenario gets under way only through start.                           *)
LEMMA QuietHolds ==
  ASSUME WorkHoldsItsClaims, UNCHANGED <<tracks, owners>>,
         \A g \in Handle : slots'[g].recipe = slots[g].recipe,
         \A g \in Handle : UnderWay(g)' => UnderWay(g)
  PROVE  WorkHoldsItsClaims'
<1> SUFFICES ASSUME NEW g \in Handle PROVE HoldsItsClaims(g)'
  BY DEF WorkHoldsItsClaims, HoldsItsClaims
<1>1. /\ RecipeOf(g)' = RecipeOf(g) /\ Tracks(g)' = Tracks(g)
      /\ \A t : Phase(g, t)' = Phase(g, t) /\ HeldBy(<<g, t>>)' = HeldBy(<<g, t>>)
      /\ \A t : AtWork(g, t)' => AtWork(g, t)
  BY DEF RecipeOf, Tracks, Phase, HeldBy, AtWork
<1> QED
  BY <1>1 DEF WorkHoldsItsClaims, HoldsItsClaims

(* A global transition that fails the main track alone takes nothing from  *)
(* the scenario or from its other tracks.                                  *)
LEMMA MainTrackFailsHolds ==
  ASSUME IInv, WorkHoldsItsClaims, NEW h \in Handle, Loaded(h), slots[h].state = "RUNNING",
         SlotTicked(h, "RUNNING"), NEW m \in Track,
         tracks' = [tracks EXCEPT ![h][m].state = "FAILED"],
         owners' = ReleasePhase(owners, h, m)
  PROVE  WorkHoldsItsClaims'
<1>1. /\ slots'[h].state = "RUNNING" /\ slots'[h].recipe = slots[h].recipe
      /\ \A g \in Handle \ {h} : slots'[g] = slots[g]
  BY SlotTickedFacts
<1>2. /\ tracks[h][m] \in TrackType /\ tracks'[h][m] = [tracks[h][m] EXCEPT !.state = "FAILED"]
      /\ \A u \in Track \ {m} : tracks'[h][u] = tracks[h][u]
      /\ \A g \in Handle \ {h} : tracks'[g] = tracks[g]
  <2>1. tracks \in [Handle -> [Track -> TrackType]]
    BY DEF IInv, TypeOK
  <2> QED
    BY <2>1
<1>3. tracks'[h][m].state = "FAILED"
  BY <1>2 DEF TrackType
<1>4. ASSUME NEW g \in Handle, NEW x \in Track \cup {TRACK_IDX_SCENARIO}, g # h \/ x # m
      PROVE  SameEntries(<<g, x>>)
  <2>1. <<g, x>> \in OwnerInfo /\ <<g, x>> \notin {<<h, m>>}
    BY <1>4 DEF OwnerInfo
  <2> QED
    BY <2>1, ReleaseKeepsOthers DEF ReleasePhase
<1>5. HoldsItsClaims(h)'
  <2>1. RecipeOf(h)' = RecipeOf(h) /\ Tracks(h)' = Tracks(h) /\ UnderWay(h) /\ m # TRACK_IDX_SCENARIO
    BY <1>1, HandlesAndTracks DEF RecipeOf, Tracks, UnderWay, TRACK_IDX_SCENARIO
  <2>2. HeldBy(<<h, TRACK_IDX_SCENARIO>>)' = HeldBy(<<h, TRACK_IDX_SCENARIO>>)
    BY <1>4, <2>1 DEF SameEntries, HeldBy
  <2>3. ASSUME NEW t \in Track, AtWork(h, t)'
        PROVE  AtWork(h, t) /\ Phase(h, t)' = Phase(h, t) /\ HeldBy(<<h, t>>)' = HeldBy(<<h, t>>)
    <3>1. t # m
      BY <1>3, <2>3 DEF AtWork
    <3> QED
      BY <1>2, <1>4, <2>1, <2>3, <3>1 DEF AtWork, Phase, SameEntries, HeldBy
  <2> QED
    BY <2>1, <2>2, <2>3 DEF WorkHoldsItsClaims, HoldsItsClaims
<1> QED
  BY <1>1, <1>2, <1>4, <1>5, OneHolderStep

(* A turn leaves everyone else's entries as they are, and a track that is  *)
(* at work after it has what its phase claims.                             *)
LEMMA TurnHolds ==
  ASSUME IInv, OwnershipIsLive, WorkHoldsItsClaims,
         NEW h \in Handle, NEW t \in Track, TrackTick(h, t)
  PROVE  WorkHoldsItsClaims'
<1> DEFINE me == <<h, t>>
<1>1. /\ Loaded(h) /\ Ticking(h) /\ t \in Tracks(h) /\ TrackTurn(h, t)
      /\ \E tr \in TrackType : TurnOf(h, t, tr)
  BY TurnOutcome, TrackTurnFacts
<1>2. PICK tr \in TrackType : TurnOf(h, t, tr)
  BY <1>1
<1>3. /\ tracks'[h][t] = tr /\ slots' = slots
      /\ \A u \in Track \ {t} : tracks'[h][u] = tracks[h][u]
      /\ \A g \in Handle \ {h} : tracks'[g] = tracks[g]
  BY <1>1, <1>2 DEF TurnOf, SetTrack, IInv, TypeOK, TrackTurn
<1>4. /\ RecipeOf(h)' = RecipeOf(h) /\ Tracks(h)' = Tracks(h) /\ UnderWay(h)' = UnderWay(h)
      /\ RecipeOf(h) \in Recipe
  BY <1>1, <1>3, LoadedSlot DEF RecipeOf, Tracks, UnderWay
<1> DEFINE claims == PhaseOf(RecipeOf(h), t, tr.phase_idx).phase_resources
           freed == ReleasePhase(owners, h, t)
<1>5. claims \in SUBSET Resource /\ Phase(h, t)' = PhaseOf(RecipeOf(h), t, tr.phase_idx)
  <2>1. IInv'
    BY TrackTickStep
  <2>2. tr.phase_idx \in 0..(RecipeOf(h).tracks[t].phase_count - 1)
    BY <1>1, <1>3, <1>4, <2>1 DEF IInv, WellFormed, IndicesInRange, InRange, Loaded, RecipeOf
  <2> QED
    BY <1>1, <1>3, <1>4, <2>2, ClaimsAreResources DEF Phase, Tracks
<1>6. \A r \in Resource : freed[r] # me
  BY ReleasePhaseOwnership
<1>7. ASSUME NEW x \in OwnerInfo, x # me
      PROVE  SameEntries(x) /\ \A r \in Resource : freed[r] = x <=> owners[r] = x
  <2>1. \A r \in Resource : freed[r] = x <=> owners[r] = x
    BY <1>7, ReleaseEntries, OwnerIsNotUnowned DEF ReleasePhase
  <2>2. CASE owners' = owners \/ owners' = freed
    BY <2>1, <2>2 DEF SameEntries
  <2>3. CASE GoesOn(h, t, tr)
    <3>1. \/ owners' = owners
          \/ /\ CanAcquire(owners, me, Phase(h, t).phase_resources)
             /\ owners' = Acquire(owners, me, Phase(h, t).phase_resources)
      BY <2>3 DEF GoesOn, WorkingOwners, Works, ClaimGranted
    <3> HIDE DEF me
    <3> QED
      BY <1>7, <2>1, <3>1, AcquireKeepsOthers DEF SameEntries
  <2>4. CASE MovesOn(h, t, tr)
    <3>1. \/ owners' = freed
          \/ CanAcquire(freed, me, claims) /\ owners' = Acquire(freed, me, claims)
      BY <2>4 DEF MovesOn
    <3> HIDE DEF me, freed, claims
    <3> QED
      BY <1>7, <2>1, <3>1, AcquireKeepsOthers DEF SameEntries
  <2> QED
    BY <1>2, <2>1, <2>2, <2>3, <2>4 DEF TurnOf, StaysAsItIs, Ends, WaitsOn
<1>8. ASSUME AtWork(h, t)', ~ InitialPhaseClaims(RecipeOf(h), t)
      PROVE  HeldBy(me)' = claims
  <2>1. UnderWay(h) /\ tr.state \in {"RUNNING", "ABORTING"}
    BY <1>3, <1>4, <1>8 DEF AtWork
  <2>2. CASE GoesOn(h, t, tr)
    <3>1. claims = Phase(h, t).phase_resources
      BY <2>2 DEF GoesOn, Phase
    <3>2. CASE tracks[h][t].state = "WAITING_FOR_RESOURCE"
      <4>1. \A r \in Resource : owners[r] # me
        BY <3>2 DEF OwnershipIsLive, PhaseScopeIsLive
      <4>2. owners' = Acquire(owners, me, claims)
        BY <2>2, <3>1, <3>2 DEF GoesOn, WorkingOwners
      <4> HIDE DEF me, claims
      <4> QED
        BY <1>5, <4>1, <4>2, AcquireGivesClaims DEF HeldBy
    <3>3. CASE tracks[h][t].state # "WAITING_FOR_RESOURCE"
      <4>1. owners' = owners /\ AtWork(h, t)
        BY <1>1, <2>1, <2>2, <3>3 DEF GoesOn, WorkingOwners, Works, AtWork
      <4> QED
        BY <1>8, <3>1, <4>1 DEF WorkHoldsItsClaims, HeldBy
    <3> QED
      BY <3>2, <3>3
  <2>3. CASE MovesOn(h, t, tr)
    <3>1. owners' = Acquire(freed, me, claims)
      BY <2>1, <2>3 DEF MovesOn
    <3> HIDE DEF me, claims, freed
    <3> QED
      BY <1>5, <1>6, <3>1, AcquireGivesClaims DEF HeldBy
  <2> QED
    BY <1>2, <2>1, <2>2, <2>3 DEF TurnOf, StaysAsItIs, Ends, WaitsOn, EndState
<1>9. \A x \in Track \cup {TRACK_IDX_SCENARIO} : x # t => SameEntries(<<h, x>>)
  BY <1>7 DEF OwnerInfo
<1>10. HoldsItsClaims(h)'
  <2>1. HeldBy(<<h, TRACK_IDX_SCENARIO>>)' = HeldBy(<<h, TRACK_IDX_SCENARIO>>)
    <3>1. t # TRACK_IDX_SCENARIO
      BY HandlesAndTracks DEF TRACK_IDX_SCENARIO
    <3> QED
      BY <1>9, <3>1 DEF SameEntries, HeldBy
  <2>2. ASSUME NEW u \in Track \ {t}, AtWork(h, u)'
        PROVE  AtWork(h, u) /\ Phase(h, u)' = Phase(h, u) /\ HeldBy(<<h, u>>)' = HeldBy(<<h, u>>)
    BY <1>3, <1>4, <1>9, <2>2 DEF AtWork, Phase, SameEntries, HeldBy
  <2>3. ASSUME NEW u \in Track, AtWork(h, u)', ~ InitialPhaseClaims(RecipeOf(h), u)
        PROVE  HeldBy(<<h, u>>)' = Phase(h, u)'.phase_resources
    <3>1. CASE u = t
      BY <1>5, <1>8, <2>3, <3>1
    <3>2. CASE u # t
      BY <2>2, <2>3, <3>2 DEF WorkHoldsItsClaims
    <3> QED
      BY <3>1, <3>2
  <2> QED
    BY <1>4, <2>1, <2>3 DEF WorkHoldsItsClaims, HoldsItsClaims
<1>11. \A g \in Handle \ {h}, x \in Track \cup {TRACK_IDX_SCENARIO} : SameEntries(<<g, x>>)
  BY <1>7 DEF OwnerInfo
<1> QED
  BY <1>3, <1>10, <1>11, OneHolderStep

(***************************************************************************)
(* Work holds its claims: a scenario under way owns all of its             *)
(* scenario-scope resources and a working track all that its phase claims, *)
(* whatever the other scenarios claim and give back in the meantime.       *)
(***************************************************************************)
THEOREM ClaimsAreHeld == Spec => []WorkHoldsItsClaims
<1>1. Init => WorkHoldsItsClaims
  BY DEF Init, EmptySlot, WorkHoldsItsClaims, UnderWay, AtWork
<1>2. IInv /\ OwnershipIsLive /\ WorkHoldsItsClaims /\ [Next]_vars => WorkHoldsItsClaims'
  <2> SUFFICES ASSUME IInv, OwnershipIsLive, WorkHoldsItsClaims, [Next]_vars
               PROVE  WorkHoldsItsClaims'
    OBVIOUS
  <2>1. ASSUME NEW h \in Handle, NEW r \in Recipe, Load(h, r)
        PROVE  WorkHoldsItsClaims'
    <3>1. /\ slots'[h].state = "LOADED"
          /\ \A g \in Handle \ {h} : slots'[g] = slots[g] /\ tracks'[g] = tracks[g]
      BY <2>1 DEF IInv, TypeOK, Load
    <3>2. HoldsItsClaims(h)'
      BY <3>1, IdleHolder
    <3> QED
      BY <2>1, <3>1, <3>2, OneHolderStep DEF Load, SameEntries
  <2>2. ASSUME NEW h \in Handle, Pause(h) \/ Resume(h)
        PROVE  WorkHoldsItsClaims'
    <3>1. /\ slots'[h].recipe = slots[h].recipe /\ UNCHANGED <<tracks, owners>>
          /\ \A g \in Handle \ {h} : slots'[g] = slots[g]
      BY <2>2 DEF IInv, TypeOK, SlotType, Pause, Resume
    <3>2. UnderWay(h)
      BY <2>2 DEF Pause, Resume, UnderWay
    <3>3. \A g \in Handle : UnderWay(g)' => UnderWay(g)
      BY <3>1, <3>2 DEF UnderWay
    <3> QED
      BY <3>1, <3>3, QuietHolds
  <2>3. ASSUME NEW h \in Handle, InstanceAbort(h), slots'[h].state = "ABORTING",
               \A g \in Handle \ {h} : slots'[g] = slots[g]
        PROVE  WorkHoldsItsClaims'
    <3>1. \A g \in Handle \ {h} : tracks'[g] = tracks[g]
      BY <2>3 DEF InstanceAbort, IInv, TypeOK
    <3>2. \A o \in {<<h, t>> : t \in LiveTracks(h)} : o[1] = h
      OBVIOUS
    <3> QED
      BY <2>3, <3>1, <3>2, ReleaseHolds DEF InstanceAbort
  <2>4. ASSUME NEW h \in Handle, Abort(h)
        PROVE  WorkHoldsItsClaims'
    <3>1. slots'[h].state = "ABORTING" /\ \A g \in Handle \ {h} : slots'[g] = slots[g]
      BY <2>4 DEF IInv, TypeOK, SlotType, Abort
    <3> QED
      BY <2>3, <2>4, <3>1 DEF Abort
  <2>5. ASSUME NEW h \in Handle, Unload(h)
        PROVE  WorkHoldsItsClaims'
    <3>1. /\ slots'[h].state = "IDLE"
          /\ \A g \in Handle \ {h} : slots'[g] = slots[g] /\ tracks'[g] = tracks[g]
      BY <2>5 DEF IInv, TypeOK, Unload, EmptySlot
    <3>2. \A o \in ClaimantsOf(h) : o[1] = h
      BY DEF ClaimantsOf
    <3> QED
      BY <2>5, <3>1, <3>2, ReleaseHolds DEF Unload
  <2>6. CASE Restart
    BY <2>6 DEF Restart, EmptySlot, WorkHoldsItsClaims, UnderWay, AtWork
  <2>7. CASE Caller
    BY <2>1, <2>2, <2>4, <2>5, <2>6, <2>7, StartHolds DEF Caller
  <2>8. ASSUME NEW h \in Handle, SlotTicked(h, "ABORTING"), InstanceAbort(h)
        PROVE  WorkHoldsItsClaims'
    BY <2>3, <2>8, SlotTickedFacts
  <2>9. ASSUME NEW h \in Handle, GlobalTransition(h)
        PROVE  WorkHoldsItsClaims'
    <3>1. Loaded(h) /\ slots[h].state = "RUNNING"
      BY <2>9 DEF GlobalTransition, Prologue
    <3>2. MainTrack(RecipeOf(h)) \in Track
      BY <3>1, LoadedSlot
    <3> QED
      BY <2>8, <2>9, <3>1, <3>2, MainTrackFailsHolds DEF GlobalTransition
  <2>10. ASSUME NEW h \in Handle, PlainPrologue(h)
         PROVE  WorkHoldsItsClaims'
    <3>1. SlotTicked(h, slots[h].state) /\ UNCHANGED <<tracks, owners>>
      BY <2>10 DEF PlainPrologue
    <3>2. /\ \A g \in Handle : slots'[g].recipe = slots[g].recipe
          /\ \A g \in Handle : UnderWay(g)' => UnderWay(g)
      BY <3>1, SlotTickedFacts DEF UnderWay
    <3> QED
      BY <3>1, <3>2, QuietHolds
  <2>11. ASSUME NEW h \in Handle, CheckCompletion(h)
         PROVE  WorkHoldsItsClaims'
    <3>1. /\ slots'[h].state = Verdict(h) /\ slots'[h].recipe = slots[h].recipe
          /\ UNCHANGED tracks /\ \A g \in Handle \ {h} : slots'[g] = slots[g]
      BY <2>11 DEF IInv, TypeOK, SlotType, CheckCompletion
    <3>2. CASE Verdict(h) \in EndState
      <4>1. slots'[h].state \notin {"RUNNING", "PAUSED"}
        BY <3>1, <3>2 DEF EndState
      <4>2. owners' = Release(owners, {<<h, TRACK_IDX_SCENARIO>>})
        BY <2>11, <3>2 DEF CheckCompletion, ReleaseScenario
      <4>3. \A o \in {<<h, TRACK_IDX_SCENARIO>>} : o[1] = h
        OBVIOUS
      <4> QED
        BY <3>1, <4>1, <4>2, <4>3, ReleaseHolds
    <3>3. CASE Verdict(h) \notin EndState
      <4>1. UNCHANGED owners /\ Verdict(h) = slots[h].state
        BY <2>11, <3>3 DEF CheckCompletion, Verdict, EndState
      <4> QED
        BY <3>1, <4>1, QuietHolds DEF UnderWay
    <3> QED
      BY <3>2, <3>3
  <2>12. ASSUME UNCHANGED <<slots, tracks, owners>>
         PROVE  WorkHoldsItsClaims'
    BY <2>12, QuietHolds DEF UnderWay
  <2>13. CASE Tick
    <3> SUFFICES ASSUME NEW h \in Handle,
                        \/ SkipEmptySlot(h) \/ SkipDormantSlot(h)
                        \/ HitCap(h) \/ GlobalTransition(h) \/ PlainPrologue(h)
                        \/ \E t \in Track : TrackTick(h, t)
                        \/ CheckCompletion(h) \/ Observe(h)
                 PROVE  WorkHoldsItsClaims'
      BY <2>13 DEF Tick
    <3>1. CASE SkipEmptySlot(h) \/ SkipDormantSlot(h) \/ Observe(h)
      BY <2>12, <3>1 DEF SkipEmptySlot, SkipDormantSlot, Observe
    <3>2. CASE HitCap(h)
      BY <2>8, <3>2 DEF HitCap
    <3> QED
      BY <2>9, <2>10, <2>11, <3>1, <3>2, TurnHolds
  <2>14. CASE UNCHANGED vars
    BY <2>12, <2>14 DEF vars
  <2> QED
    BY <2>7, <2>13, <2>14 DEF Next
<1> QED
  BY <1>1, <1>2, InitIInv, NextIInv, NothingLeaks, PTL DEF Spec

=============================================================================
