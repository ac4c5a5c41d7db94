---------------------------- MODULE ScenarioRaces ----------------------------
(***************************************************************************)
(* The scenario engine called from two tasks.  ScenarioEngine has the      *)
(* calls between ticks; here the handlers of http_service.cpp:2160-2240    *)
(* run them on the HTTP server's task, whose steps fall anywhere between   *)
(* the steps of the main task's Engine::on_update.  Nothing locks a slot,  *)
(* its runtime or the arbiter.                                             *)
(*                                                                         *)
(* The data is coarser than in ScenarioEngine: a phase has no actions and  *)
(* no clock, a tick of a track may end in any of the ways track_tick ends, *)
(* and every phase a track goes on to claims the same resources.  A step   *)
(* is a run of reads followed by one write to the runtime or one call of   *)
(* the arbiter, which is itself taken as atomic.                           *)
(***************************************************************************)
EXTENDS ResourceArbiter

CONSTANTS
  Needs,       \* the scenario-scope claims of the recipe
  Claims,      \* the phase-scope claims of every phase after a track's first
  RULE,        \* completion_rule: "all" or "main" (track 0 is the main track)
  Calls,       \* the operations the HTTP task is asked for
  Serialised   \* TRUE: a lock at the engine's layer, as the arbiter asks for

RacesAssumption ==
  /\ Needs \cup Claims \subseteq Resource /\ RULE \in {"all", "main"}
  /\ Calls \subseteq {"load", "start", "pause", "resume", "abort", "unload"}
  /\ Serialised \in BOOLEAN

VARIABLES
  slot,    \* per handle: is buffer_size non-zero, is header() non-null, the state
  track,   \* per handle and track: TrackRuntime::state
  owners,  \* the arbiter's map
  main,    \* where on_update is, and what it is about to write
  http     \* where the HTTP task's call is

vars == <<slot, track, owners, main, http>>

EndState == {"COMPLETED", "FAILED"}

AtSlot(h) == [at |-> "slot", h |-> h, t |-> 0, next |-> "none"]
NoCall    == [op |-> "none", at |-> 0, h |-> 0, t |-> 0]

Empty == [loaded |-> FALSE, header |-> FALSE, state |-> "IDLE"]

Init ==
  /\ slot = [h \in Handle |-> Empty]
  /\ track = [h \in Handle |-> [t \in Track |-> "IDLE"]]
  /\ owners = NoOwners
  /\ main = AtSlot(1) /\ http = NoCall

BetweenTicks == main = AtSlot(1)

(***************************************************************************)
(* The main task.                                                          *)
(***************************************************************************)

NextSlot == AtSlot(IF main.h = MAX_SEQUENCES THEN 1 ELSE main.h + 1)

(* Aborted tracks: COMPLETED ones are passed over, the rest are FAILED.    *)
Aborted(h) == [t \in Track |-> IF track[h][t] = "COMPLETED" THEN "COMPLETED" ELSE "FAILED"]

(* on_update and the head of instance_tick: the slot's size and state, the *)
(* scenario timeout and the global transitions, which may abort.           *)
Enter ==
  /\ main.at = "slot"
  /\ Serialised => http = NoCall
  /\ \/ /\ ~ slot[main.h].loaded
        /\ main' = NextSlot
        /\ UNCHANGED <<slot, track, owners>>
     \/ /\ slot[main.h].loaded /\ slot[main.h].state \notin {"RUNNING", "ABORTING"}
        /\ main' = [main EXCEPT !.at = "mirror"]
        /\ UNCHANGED <<slot, track, owners>>
     \/ /\ slot[main.h].loaded /\ slot[main.h].state \in {"RUNNING", "ABORTING"}
        /\ main' = [main EXCEPT !.at = "track"]
        /\ \/ UNCHANGED <<slot, track, owners>>
           \/ /\ slot[main.h].state = "RUNNING"
              /\ slot' = [slot EXCEPT ![main.h].state = "ABORTING"]
              /\ track' = [track EXCEPT ![main.h] = Aborted(main.h)]
              /\ owners' = Release(owners, {<<main.h, t>> : t \in Track})
  /\ UNCHANGED http

AfterTrack ==
  IF main.t + 1 < MAX_TRACKS THEN [main EXCEPT !.at = "track", !.t = @ + 1, !.next = "none"]
  ELSE [main EXCEPT !.at = "completion", !.next = "none"]

(* The early return of track_tick.                                         *)
Dormant ==
  /\ main.at = "track"
  /\ track[main.h][main.t] \in EndState \cup {"IDLE"}
  /\ main' = AfterTrack
  /\ UNCHANGED <<slot, track, owners, http>>

Ticks ==
  /\ main.at = "track"
  /\ track[main.h][main.t] \notin EndState \cup {"IDLE"}
  /\ main' = [main EXCEPT !.at = "phase"]
  /\ UNCHANGED <<slot, track, owners, http>>

(* One tick of a phase: it dwells, or its transition is applied, or it     *)
(* fails.  The resources change hands here; the state is written after.    *)
Dwells == main' = AfterTrack /\ UNCHANGED owners

Ends(state) ==
  /\ main' = [main EXCEPT !.at = "write", !.next = state]
  /\ owners' = ReleasePhase(owners, main.h, main.t)

Claimed(own) ==
  LET me == <<main.h, main.t>> IN
  IF CanAcquire(own, me, Claims)
  THEN /\ main' = [main EXCEPT !.at = "write", !.next = "RUNNING"]
       /\ owners' = Acquire(own, me, Claims)
  ELSE /\ main' = [main EXCEPT !.at = "write", !.next = "WAITING_FOR_RESOURCE"]
       /\ owners' = own

PhaseTick ==
  /\ main.at = "phase"
  /\ \/ /\ track[main.h][main.t] # "WAITING_FOR_RESOURCE"
        /\ \/ Dwells
           \/ Ends("COMPLETED")
           \/ Claimed(ReleasePhase(owners, main.h, main.t))
     \/ track[main.h][main.t] = "WAITING_FOR_RESOURCE" /\ Claimed(owners)
     \/ Ends("FAILED")
  /\ UNCHANGED <<slot, track, http>>

WriteTrack ==
  /\ main.at = "write"
  /\ track' = [track EXCEPT ![main.h][main.t] = main.next]
  /\ main' = AfterTrack
  /\ UNCHANGED <<slot, owners, http>>

(* The completion check: what it concludes from the states it reads.       *)
Verdict(h) ==
  LET all(S) == \A t \in Track : track[h][t] \in S
  IN CASE slot[h].state = "RUNNING" ->
            IF track[h][0] = "FAILED" \/ (RULE = "all" /\ \E t \in Track : track[h][t] = "FAILED")
            THEN "FAILED"
            ELSE IF (RULE = "all" /\ all({"COMPLETED"})) \/ (RULE = "main" /\ track[h][0] = "COMPLETED")
            THEN "COMPLETED" ELSE "none"
       [] slot[h].state = "ABORTING" -> IF all(EndState) THEN "FAILED" ELSE "none"
       [] OTHER -> "none"

Decide ==
  /\ main.at = "completion"
  /\ main' = [main EXCEPT !.at = IF Verdict(main.h) = "none" THEN "mirror" ELSE "conclude",
                          !.next = Verdict(main.h)]
  /\ UNCHANGED <<slot, track, owners, http>>

Conclude ==
  /\ main.at = "conclude"
  /\ slot' = [slot EXCEPT ![main.h].state = main.next]
  /\ owners' = ReleaseScenario(owners, main.h)
  /\ main' = [main EXCEPT !.at = "mirror", !.next = "none"]
  /\ UNCHANGED <<track, http>>

(* mirror::publish, which reads the recipe's name through the header, and  *)
(* the dispatch of edges, which keeps no state here.                       *)
Mirror ==
  /\ main.at = "mirror"
  /\ main' = NextSlot
  /\ UNCHANGED <<slot, track, owners, http>>

(***************************************************************************)
(* The HTTP task: one call at a time, in the steps of the code.            *)
(***************************************************************************)

(* A lock would keep a call out of the tick.                               *)
Admitted == http = NoCall /\ (Serialised => BetweenTicks)

Called(op, h) == http' = [op |-> op, at |-> 1, h |-> h, t |-> 0]

(* load_path: find_free_slot and the validation; then the runtime; then    *)
(* the size that makes the slot visible.                                   *)
CallLoad(h) ==
  /\ "load" \in Calls /\ Admitted
  /\ ~ slot[h].loaded /\ \A g \in 1..(h - 1) : slot[g].loaded
  /\ Called("load", h)
  /\ UNCHANGED <<slot, track, owners, main>>

LoadRuntime ==
  /\ http.op = "load" /\ http.at = 1
  /\ slot' = [slot EXCEPT ![http.h].header = TRUE, ![http.h].state = "LOADED"]
  /\ track' = [track EXCEPT ![http.h] = [t \in Track |-> "IDLE"]]
  /\ http' = [http EXCEPT !.at = 2]
  /\ UNCHANGED <<owners, main>>

LoadSize ==
  /\ http.op = "load" /\ http.at = 2
  /\ slot' = [slot EXCEPT ![http.h].loaded = TRUE]
  /\ http' = NoCall
  /\ UNCHANGED <<track, owners, main>>

(* start: the scenario-scope claims, or RESOURCE_CONTENDED; then RUNNING;  *)
(* then the tracks one after the other.                                    *)
CallStart(h) ==
  LET me == <<h, TRACK_IDX_SCENARIO>> IN
  /\ "start" \in Calls /\ Admitted
  /\ slot[h].loaded /\ slot[h].state = "LOADED"
  /\ CanAcquire(owners, me, Needs)
  /\ owners' = Acquire(owners, me, Needs)
  /\ Called("start", h)
  /\ UNCHANGED <<slot, track, main>>

StartRuns ==
  /\ http.op = "start" /\ http.at = 1
  /\ slot' = [slot EXCEPT ![http.h].state = "RUNNING"]
  /\ http' = [http EXCEPT !.at = 2]
  /\ UNCHANGED <<track, owners, main>>

OneTrackOn == IF http.t + 1 < MAX_TRACKS THEN [http EXCEPT !.t = @ + 1] ELSE NoCall

StartTrack ==
  /\ http.op = "start" /\ http.at = 2
  /\ track' = [track EXCEPT ![http.h][http.t] = "RUNNING"]
  /\ http' = OneTrackOn
  /\ UNCHANGED <<slot, owners, main>>

(* pause and resume: a check, and then a write of the state.               *)
CallPause(h) ==
  /\ "pause" \in Calls /\ Admitted
  /\ slot[h].loaded /\ slot[h].state = "RUNNING"
  /\ Called("pause", h)
  /\ UNCHANGED <<slot, track, owners, main>>

CallResume(h) ==
  /\ "resume" \in Calls /\ Admitted
  /\ slot[h].loaded /\ slot[h].state = "PAUSED"
  /\ Called("resume", h)
  /\ UNCHANGED <<slot, track, owners, main>>

Switch ==
  /\ http.op \in {"pause", "resume"}
  /\ slot' = [slot EXCEPT ![http.h].state = IF http.op = "pause" THEN "PAUSED" ELSE "RUNNING"]
  /\ http' = NoCall
  /\ UNCHANGED <<track, owners, main>>

(* abort: ABORTING; then per track, the release and the state.             *)
CallAbort(h) ==
  /\ "abort" \in Calls /\ Admitted
  /\ slot[h].loaded /\ slot[h].state \in {"RUNNING", "PAUSED"}
  /\ slot' = [slot EXCEPT ![h].state = "ABORTING"]
  /\ Called("abort", h)
  /\ UNCHANGED <<track, owners, main>>

AbortTrack ==
  /\ http.op = "abort" /\ http.at = 1
  /\ IF track[http.h][http.t] \in EndState
     THEN http' = OneTrackOn /\ UNCHANGED owners
     ELSE /\ http' = [http EXCEPT !.at = 2]
          /\ owners' = ReleasePhase(owners, http.h, http.t)
  /\ UNCHANGED <<slot, track, main>>

AbortFails ==
  /\ http.op = "abort" /\ http.at = 2
  /\ track' = [track EXCEPT ![http.h][http.t] = "FAILED"]
  /\ http' = IF OneTrackOn = NoCall THEN NoCall ELSE [OneTrackOn EXCEPT !.at = 1]
  /\ UNCHANGED <<slot, owners, main>>

(* unload: the scenario's resources; each track's; then the slot.          *)
CallUnload(h) ==
  /\ "unload" \in Calls /\ Admitted
  /\ slot[h].loaded
  /\ owners' = ReleaseScenario(owners, h)
  /\ Called("unload", h)
  /\ UNCHANGED <<slot, track, main>>

UnloadTrack ==
  /\ http.op = "unload" /\ http.at = 1
  /\ owners' = ReleasePhase(owners, http.h, http.t)
  /\ http' = IF OneTrackOn = NoCall THEN [http EXCEPT !.at = 2] ELSE OneTrackOn
  /\ UNCHANGED <<slot, track, main>>

UnloadSlot ==
  /\ http.op = "unload" /\ http.at = 2
  /\ slot' = [slot EXCEPT ![http.h] = Empty]
  /\ track' = [track EXCEPT ![http.h] = [t \in Track |-> "IDLE"]]
  /\ http' = NoCall
  /\ UNCHANGED <<owners, main>>

Tick == Enter \/ Dormant \/ Ticks \/ PhaseTick \/ WriteTrack \/ Decide \/ Conclude \/ Mirror

HttpCall ==
  \/ \E h \in Handle :
       CallLoad(h) \/ CallStart(h) \/ CallPause(h) \/ CallResume(h) \/ CallAbort(h) \/ CallUnload(h)
  \/ LoadRuntime \/ LoadSize \/ StartRuns \/ StartTrack \/ Switch
  \/ AbortTrack \/ AbortFails \/ UnloadTrack \/ UnloadSlot

Next == Tick \/ HttpCall

Spec == Init /\ [][Next]_vars

(***************************************************************************)
(* Properties.                                                             *)
(***************************************************************************)

TypeOK ==
  /\ slot \in [Handle -> [loaded : BOOLEAN, header : BOOLEAN,
       state : {"IDLE", "LOADED", "RUNNING", "PAUSED", "ABORTING", "COMPLETED", "FAILED"}]]
  /\ track \in [Handle -> [Track ->
       {"IDLE", "RUNNING", "WAITING_FOR_RESOURCE", "COMPLETED", "FAILED"}]]
  /\ owners \in Ownership
  /\ main \in [at : {"slot", "track", "phase", "write", "completion", "conclude", "mirror"},
               h : Handle, t : Track,
               next : {"none", "RUNNING", "WAITING_FOR_RESOURCE", "COMPLETED", "FAILED"}]
  /\ http = NoCall \/ http \in [op : Calls, at : {1, 2}, h : Handle, t : Track]

(* The tick works on a recipe that is there: no header, phase table or     *)
(* track table is read through the pointer that unload has cleared.        *)
HeaderIsThere == main.at \in {"phase", "mirror"} => slot[main.h].header

Quiet == BetweenTicks /\ http = NoCall

(* Between ticks and calls, a phase-scope resource belongs to a track that *)
(* is still under way: whatever was aborted, failed, completed or unloaded *)
(* has let go.                                                             *)
NothingLeaks ==
  Quiet => \A r \in Resource : owners[r][2] \in Track =>
             track[owners[r][1]][owners[r][2]] = "RUNNING"

(* Between ticks and calls, a scenario that runs or can be resumed owns    *)
(* everything its recipe claims, and one that is over owns none of it.     *)
ScenarioOwnsItsNeeds ==
  Quiet => \A h \in Handle : \A r \in Needs :
    /\ slot[h].state \in {"RUNNING", "PAUSED"} => owners[r] = <<h, TRACK_IDX_SCENARIO>>
    /\ slot[h].state \in EndState \cup {"IDLE"} => owners[r] # <<h, TRACK_IDX_SCENARIO>>

(* A scenario that is over stays over until it is unloaded.                *)
OverIsOver ==
  [][\A h \in Handle : slot[h].state \in EndState =>
       slot'[h].state \in {slot[h].state, "IDLE"}]_vars
=============================================================================
