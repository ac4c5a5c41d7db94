--------------------------- MODULE ResourceArbiter ---------------------------
(***************************************************************************)
(* The ISA-88 resource arbiter of the scenario engine:                     *)
(* components/modesp_scenario/src/arbiter/resource_arbiter.cpp.            *)
(*                                                                         *)
(* The arbiter keeps one flat_map from a resource hash to its single       *)
(* owner.  An owner is a pair <<handle, track>>: a track of a scenario     *)
(* (phase scope) or the scenario itself, with TRACK_IDX_SCENARIO in place  *)
(* of the track (scenario scope).  A map is a function here, with Unowned  *)
(* for a hash that has no entry.                                           *)
(*                                                                         *)
(* Left out: OwnerInfo.phase_idx, which the code calls informational, and  *)
(* the exclusive flag, on which can_grant takes the same decision in both  *)
(* of its branches (shared requests are refused like exclusive ones).      *)
(***************************************************************************)
EXTENDS Integers, FiniteSets

CONSTANTS
  Resource,       \* the resource hashes that recipes name
  MAX_RESOURCES,  \* capacity of the ownership map
  MAX_SEQUENCES,  \* number of scenario slots
  MAX_TRACKS      \* MAX_TRACKS_PER_SCENARIO

ASSUME ArbiterAssumption ==
  /\ IsFiniteSet(Resource)
  /\ MAX_RESOURCES \in Nat
  /\ MAX_SEQUENCES \in Nat \ {0}
  /\ MAX_TRACKS \in 1..254    \* a real track never reaches the sentinel

TRACK_IDX_SCENARIO == 255

Handle == 1..MAX_SEQUENCES        \* 0 is the invalid handle
Track  == 0..(MAX_TRACKS - 1)

OwnerInfo == Handle \X (Track \cup {TRACK_IDX_SCENARIO})
Unowned   == <<0, TRACK_IDX_SCENARIO>>

Ownership == [Resource -> OwnerInfo \cup {Unowned}]

NoOwners == [r \in Resource |-> Unowned]

(* The resources that have an entry in the map.                            *)
Held(own) == {r \in Resource : own[r] # Unowned}

(* Seeded fault: every request is treated as a shared one.                 *)
CanGrantShared(own, r, who) == TRUE

(* can_grant: free, or already held by the very same (handle, track).      *)
CanGrant(own, r, who) == own[r] \in {Unowned, who}

(***************************************************************************)
(* acquire_scenario and try_acquire_phase are the same two-phase commit:   *)
(* a dry run over every claim, then the inserts, which are rolled back     *)
(* when the map is full.  The net effect is all or nothing, and the map    *)
(* overflows exactly when the union of held and claimed hashes does.       *)
(***************************************************************************)
CanAcquire(own, who, claims) ==
  /\ \A r \in claims : CanGrant(own, r, who)
  /\ claims \subseteq Held(own) \/ Cardinality(Held(own) \cup claims) <= MAX_RESOURCES

Acquire(own, who, claims) ==
  [r \in Resource |-> IF r \in claims THEN who ELSE own[r]]

(* release_scenario and release_phase: erase every entry of the owners     *)
(* that are letting go.                                                    *)
Release(own, leaving) ==
  [r \in Resource |-> IF own[r] \in leaving THEN Unowned ELSE own[r]]

ReleaseScenario(own, h) == Release(own, {<<h, TRACK_IDX_SCENARIO>>})

(* Seeded fault: the entries are matched by handle alone.                  *)
ReleasePhaseOfAll(own, h, t) == Release(own, {x \in OwnerInfo : x[1] = h})

ReleasePhase(own, h, t) == Release(own, {<<h, t>>})

=============================================================================
