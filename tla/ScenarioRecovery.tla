-------------------------- MODULE ScenarioRecovery --------------------------
(***************************************************************************)
(* Scenarios across power losses: what the engine tells its NVS observer   *)
(* (engine.cpp), when the observer hands over a token (nvs_observer.cpp),  *)
(* what a token holds and what try_recover makes of it (nvs_token.cpp).    *)
(*                                                                         *)
(* The engine's own tick is ScenarioEngine's subject: here a track of a    *)
(* running slot moves as its recipe may make it.  The backend is           *)
(* ScenarioPersist's: a queue for deferred tokens, a crash-critical one    *)
(* that goes to flash behind all of them.  A token is a snapshot of the    *)
(* slot; format, checksum and clocks of the run are left out.              *)
(***************************************************************************)
EXTENDS Naturals, Sequences, SequencesExt, FiniteSets

CONSTANTS
  MAX_SEQUENCES,   \* slots
  Recipe,          \* name |-> [id, phases of each track, rule, claims]
  QUEUE_DEPTH,     \* of the backend's queue
  THROTTLE,        \* ticks in the 1000 ms of throttle_check
  Fallible,        \* may a write to flash fail?
  Calm,            \* do callers recover a slot only when none of its tokens is under way, as after a boot?
  MaxRuns, MaxLosses, MaxEntries   \* bounds: starts, power losses, phases counted

RecoveryAssumption ==
  /\ {MAX_SEQUENCES, QUEUE_DEPTH, THROTTLE} \subseteq Nat \ {0}
  /\ {MaxRuns, MaxLosses, MaxEntries} \subseteq Nat /\ {Fallible, Calm} \subseteq BOOLEAN

VARIABLES
  slots,     \* SequenceRuntime: [state, recipe, tracks, run, entered, back]
  told,      \* last_emitted_phase_
  since,     \* time_since_persist_ms_, in ticks
  owner,     \* the arbiter, scenario scope: resource |-> slot, 0 when free
  turn,      \* the slot on_update is at, 0 between ticks
  queue,     \* deferred tokens under way
  nvs,       \* the token under each slot's key
  runs, losses,
  refused,   \* was the slot's last token refused?
  failed,    \* has a token been lost since the last crash-critical one?
  apart,     \* ticks since a token of the slot was accepted
  worn,      \* was a side track's token accepted too early?
  silent,    \* was a refused token not tried again at the next phase, though none had been taken for long?
  ended      \* the runs whose end has been seen

mem == <<slots, told, since, owner, turn, queue>>
history == <<refused, failed, apart, worn, silent, ended>>
vars == <<mem, nvs, runs, losses, history>>

Slot == 1..MAX_SEQUENCES
Resource == UNION {Recipe[r].claims : r \in DOMAIN Recipe}
Finished == {"COMPLETED", "FAILED"}
Tracks(s) == DOMAIN slots[s].tracks
MAIN == 1
NotTold == 255

Empty == [state |-> "IDLE", recipe |-> "none", tracks |-> <<>>, run |-> 0, entered |-> <<>>, back |-> FALSE]
NoToken == [id |-> "none", tracks |-> <<>>, run |-> 0, entered |-> <<>>]
Fresh(r, st) == [t \in DOMAIN Recipe[r].phases |-> [state |-> st, phase |-> 0]]

NoSlots == [s \in Slot |-> Empty]
NothingTold == [s \in Slot |-> <<>>]
Zero == [s \in Slot |-> 0]
NoOwner == [x \in Resource |-> 0]
NothingRefused == [s \in Slot |-> FALSE]
LongAgo == [s \in Slot |-> THROTTLE]

(* on_init() of the engine; the observer and the backend are made anew.    *)
Init ==
  /\ slots = NoSlots /\ told = NothingTold /\ since = Zero /\ owner = NoOwner
  /\ turn = 0 /\ queue = <<>> /\ nvs = [s \in Slot |-> NoToken] /\ runs = 0 /\ losses = 0
  /\ refused = NothingRefused /\ failed = NothingRefused /\ apart = LongAgo /\ worn = FALSE /\ silent = FALSE /\ ended = {}

(* What the observer works on, for one slot: its counter, the backend and  *)
(* the histories.                                                          *)
Log(s) == [since |-> since[s], queue |-> queue, nvs |-> nvs, refused |-> refused[s],
           failed |-> failed[s], apart |-> apart[s], worn |-> worn, silent |-> silent]
Logged(s, w) ==
  /\ since' = [since EXCEPT ![s] = w.since] /\ queue' = w.queue /\ nvs' = w.nvs
  /\ refused' = [refused EXCEPT ![s] = w.refused] /\ failed' = [failed EXCEPT ![s] = w.failed] /\ apart' = [apart EXCEPT ![s] = w.apart]
  /\ worn' = w.worn /\ silent' = w.silent

Snapshot(rt) == [id |-> Recipe[rt.recipe].id, tracks |-> rt.tracks, run |-> rt.run, entered |-> rt.entered]

(* persist_slot(): a token that was accepted restarts the counter.         *)
Accepted(w) == [w EXCEPT !.refused = FALSE, !.apart = 0, !.since = 0]

Refused(w) == [w EXCEPT !.refused = TRUE, !.failed = TRUE]

(* enqueue_deferred(): a full queue refuses.                               *)
Deferred(w, s, rt) ==
  IF Len(w.queue) < QUEUE_DEPTH
  THEN Accepted([w EXCEPT !.queue = Append(@, [slot |-> s, token |-> Snapshot(rt)])])
  ELSE Refused(w)

(* A crash-critical token is in flash, behind all that was under way, when *)
(* the call returns, or it has failed.                                     *)
Stored(n, q) == FoldLeft(LAMBDA m, i : [m EXCEPT ![i.slot] = i.token], n, q)
CrashCritical(w, s, rt, ok) ==
  LET flushed == [w EXCEPT !.nvs = Stored(@, w.queue), !.queue = <<>>]
  IN IF ok THEN Accepted([flushed EXCEPT !.nvs = [@ EXCEPT ![s] = Snapshot(rt)], !.failed = FALSE])
     ELSE Refused(flushed)
Outcomes == IF Fallible THEN BOOLEAN ELSE {TRUE}

(* NvsObserver::on_phase_entered(): the main track at once, the others not *)
(* more often than the throttle lets them; it closes before the attempt.   *)
PhaseEntered(w, s, rt, t) ==
  IF t = MAIN THEN Deferred(w, s, rt)
  ELSE IF w.since >= THROTTLE
  THEN [Deferred([w EXCEPT !.since = 0], s, rt) EXCEPT !.worn = @ \/ w.apart < THROTTLE]
  ELSE [w EXCEPT !.silent = @ \/ (w.refused /\ w.apart >= THROTTLE)]

-----------------------------------------------------------------------------
(* Engine::load_buffer() and load_path(): the first free slot.             *)
Load ==
  /\ turn = 0
  /\ \E r \in DOMAIN Recipe, s \in Slot :
       /\ slots[s] = Empty /\ \A f \in 1..s - 1 : slots[f] # Empty
       /\ slots' = [slots EXCEPT ![s] = [Empty EXCEPT !.state = "LOADED", !.recipe = r, !.tracks = Fresh(r, "IDLE"),
                                              !.entered = [t \in DOMAIN Recipe[r].phases |-> 0]]]
       /\ told' = [told EXCEPT ![s] = [t \in DOMAIN Recipe[r].phases |-> NotTold]]
  /\ UNCHANGED <<since, owner, turn, queue, nvs, runs, losses, history>>

Released(s) == [x \in Resource |-> IF owner[x] = s THEN 0 ELSE owner[x]]
Claims(s) == Recipe[slots[s].recipe].claims

(* Engine::start() with instance_start() and on_scenario_started().        *)
Start(s) ==
  /\ turn = 0 /\ slots[s].state = "LOADED" /\ runs < MaxRuns
  /\ \A x \in Claims(s) : owner[x] \in {0, s}
  /\ owner' = [x \in Resource |-> IF x \in Claims(s) THEN s ELSE owner[x]]
  /\ runs' = runs + 1
  /\ LET rt == [slots[s] EXCEPT !.state = "RUNNING", !.tracks = Fresh(slots[s].recipe, "RUNNING"), !.run = runs + 1]
     IN slots' = [slots EXCEPT ![s] = rt] /\ \E ok \in Outcomes : Logged(s, CrashCritical(Log(s), s, rt, ok))
  /\ UNCHANGED <<told, turn, losses, ended>>

SetState(s, from, to) ==
  /\ turn = 0 /\ slots[s].state = from
  /\ slots' = [slots EXCEPT ![s].state = to]
  /\ UNCHANGED <<told, since, owner, turn, queue, nvs, runs, losses, history>>
Pause(s) == SetState(s, "RUNNING", "PAUSED")
Resume(s) == SetState(s, "PAUSED", "RUNNING")

(* instance_abort()                                                        *)
Aborted(rt) ==
  [rt EXCEPT !.state = "ABORTING",
             !.tracks = [t \in DOMAIN @ |-> IF @[t].state \in Finished THEN @[t] ELSE [@[t] EXCEPT !.state = "FAILED"]]]
Abort(s) ==
  /\ turn = 0 /\ slots[s].state \in {"RUNNING", "PAUSED"}
  /\ slots' = [slots EXCEPT ![s] = Aborted(@)]
  /\ UNCHANGED <<told, since, owner, turn, queue, nvs, runs, losses, history>>

(* Engine::unload(): what is in flash stays there.  What was told is not   *)
(* read before the next load resets it.                                    *)
Unload(s) ==
  /\ turn = 0 /\ slots[s] # Empty
  /\ slots' = [slots EXCEPT ![s] = Empty] /\ owner' = Released(s) /\ told' = [told EXCEPT ![s] = <<>>]
  /\ UNCHANGED <<since, turn, queue, nvs, runs, losses, history>>

-----------------------------------------------------------------------------
UnderWay(s) == SelectSeq(queue, LAMBDA i : i.slot = s)

(* deserialize_token(): the token must be of this recipe and fit it.       *)
Fits(token, r) ==
  /\ token.id = Recipe[r].id /\ Len(token.tracks) = Len(Recipe[r].phases)
  /\ \A t \in DOMAIN token.tracks : token.tracks[t].phase < Recipe[r].phases[t]

Restored(rt, token) ==
  [rt EXCEPT !.state = "PAUSED", !.tracks = token.tracks, !.run = token.run, !.entered = token.entered, !.back = TRUE]

(* Engine::try_recover(): the slot pauses where the token says, and the    *)
(* phases it is in count as told.                                          *)
ToldOf(s, token) == [t \in DOMAIN token.tracks |-> token.tracks[t].phase]
TryRecover(s) ==
  /\ turn = 0 /\ slots[s].state = "LOADED" /\ (Calm => UnderWay(s) = <<>>) /\ Fits(nvs[s], slots[s].recipe)
  /\ slots' = [slots EXCEPT ![s] = Restored(@, nvs[s])]
  /\ told' = [told EXCEPT ![s] = ToldOf(s, nvs[s])]
  /\ since' = [since EXCEPT ![s] = 0] /\ refused' = [refused EXCEPT ![s] = FALSE]
  /\ failed' = [failed EXCEPT ![s] = FALSE]
  /\ UNCHANGED <<owner, turn, queue, nvs, runs, losses, apart, worn, silent, ended>>

-----------------------------------------------------------------------------
(* Engine::on_update(): on_tick() for the observer, then slot by slot.     *)
Later(n) == IF n < THROTTLE THEN n + 1 ELSE n
Tick ==
  /\ turn = 0 /\ turn' = 1
  /\ since' = [s \in Slot |-> Later(since[s])] /\ apart' = [s \in Slot |-> Later(apart[s])]
  /\ UNCHANGED <<slots, told, owner, queue, nvs, runs, losses, refused, failed, worn, silent, ended>>

(* track_tick(): a running track stays, goes to a phase, or ends.          *)
TrackTick(tr, phases) ==
  IF tr.state # "RUNNING" THEN {tr}
  ELSE [state : {"RUNNING"}, phase : 0..phases - 1] \cup [state : Finished, phase : {tr.phase}]

(* completion_satisfied() and the checks around it.                        *)
Verdict(rt) ==
  LET rule == Recipe[rt.recipe].rule
      with(st) == {t \in DOMAIN rt.tracks : rt.tracks[t].state = st}
  IN IF rt.state = "ABORTING"
     THEN IF \A t \in DOMAIN rt.tracks : rt.tracks[t].state \in Finished THEN "FAILED" ELSE "ABORTING"
     ELSE IF MAIN \in with("FAILED") \/ (rule = "all" /\ with("FAILED") # {}) THEN "FAILED"
     ELSE IF with("COMPLETED") = DOMAIN rt.tracks \/ (rule = "main" /\ MAIN \in with("COMPLETED"))
     THEN "COMPLETED" ELSE "RUNNING"

(* instance_tick(): cap and global transitions may abort; then the tracks. *)
InstanceTick(rt) ==
  IF rt.state \notin {"RUNNING", "ABORTING"} THEN {rt}
  ELSE LET phases == Recipe[rt.recipe].phases
           aborted == {Aborted(rt)}
           moved == {[rt EXCEPT !.tracks = tr] : tr \in
                       {f \in [DOMAIN phases -> UNION {TrackTick(rt.tracks[t], phases[t]) : t \in DOMAIN phases}] :
                          \A t \in DOMAIN phases : f[t] \in TrackTick(rt.tracks[t], phases[t])}}
       IN {[x EXCEPT !.state = Verdict(x)] : x \in aborted \cup moved}

Changed(s, rt) == {t \in DOMAIN rt.tracks : rt.tracks[t].phase # told[s][t]}
Counted(s, rt) ==
  [rt EXCEPT !.entered = [t \in DOMAIN @ |-> IF rt.tracks[t].phase # slots[s].tracks[t].phase /\ @[t] < MaxEntries
                                             THEN @[t] + 1 ELSE @[t]]]
EmitPhases(w, s, rt) ==
  FoldLeft(LAMBDA v, t : IF t \in Changed(s, rt) THEN PhaseEntered(v, s, rt, t) ELSE v,
           w, [t \in DOMAIN rt.tracks |-> t])
EmitsEndFirst(w, s, rt, ok) ==   \* seeded fault: the end is told before the phases
  EmitPhases(IF rt.state \in Finished /\ slots[s].state \notin Finished THEN CrashCritical(w, s, rt, ok) ELSE w, s, rt)
Emits(w, s, rt, ok) ==
  LET told_phases == EmitPhases(w, s, rt)
  IN IF rt.state \in Finished /\ slots[s].state \notin Finished
     THEN CrashCritical(told_phases, s, rt, ok) ELSE told_phases

OnUpdate(s) ==
  /\ turn = s /\ turn' = (IF s = MAX_SEQUENCES THEN 0 ELSE s + 1)
  /\ \E moved \in InstanceTick(slots[s]), ok \in Outcomes :
       LET rt == Counted(s, moved)
       IN /\ slots' = [slots EXCEPT ![s] = rt]
          /\ told' = [told EXCEPT ![s] = [t \in DOMAIN rt.tracks |-> rt.tracks[t].phase]]
          /\ owner' = (IF rt.state \in Finished /\ slots[s].state \notin Finished THEN Released(s) ELSE owner)
          /\ Logged(s, Emits(Log(s), s, rt, ok))
          /\ ended' = (IF rt.state \in Finished THEN ended \cup {rt.run} ELSE ended)
  /\ UNCHANGED <<runs, losses>>

(* The drain task writes what was deferred.                                *)
Drain ==
  /\ queue # <<>> /\ queue' = Tail(queue)
  /\ LET i == Head(queue)
     IN \E ok \in Outcomes :
          /\ nvs' = (IF ok THEN [nvs EXCEPT ![i.slot] = i.token] ELSE nvs)
          /\ refused' = [refused EXCEPT ![i.slot] = @ \/ ~ok] /\ failed' = [failed EXCEPT ![i.slot] = @ \/ ~ok]
  /\ UNCHANGED <<slots, told, since, owner, turn, runs, losses, apart, worn, silent, ended>>

PowerLoss ==
  /\ losses < MaxLosses /\ losses' = losses + 1
  /\ slots' = NoSlots /\ told' = NothingTold /\ since' = Zero /\ owner' = NoOwner /\ turn' = 0 /\ queue' = <<>>
  /\ refused' = NothingRefused /\ failed' = NothingRefused /\ apart' = LongAgo /\ worn' = FALSE /\ silent' = FALSE
  /\ UNCHANGED <<nvs, runs, ended>>

Next ==
  \/ Load \/ Tick \/ Drain \/ PowerLoss
  \/ \E s \in Slot : Start(s) \/ Pause(s) \/ Resume(s) \/ Abort(s) \/ Unload(s) \/ TryRecover(s) \/ OnUpdate(s)
Spec == Init /\ [][Next]_vars

-----------------------------------------------------------------------------
(* Slots, flash and counters hold what they should, and each phase is one  *)
(* of the recipe's: track_tick reads the table unchecked.                  *)
TypeOK ==
  /\ \A s \in Slot :
       /\ slots[s].state \in {"IDLE", "LOADED", "RUNNING", "PAUSED", "ABORTING"} \cup Finished
       /\ \A t \in Tracks(s) : slots[s].tracks[t].phase < Recipe[slots[s].recipe].phases[t]
       /\ since[s] \in 0..THROTTLE /\ apart[s] \in 0..THROTTLE
  /\ Len(queue) <= QUEUE_DEPTH /\ turn \in 0..MAX_SEQUENCES /\ owner \in [Resource -> 0..MAX_SEQUENCES]

Newest(s) == IF UnderWay(s) = <<>> THEN nvs[s] ELSE Last(UnderWay(s)).token

(* The start and the end of a run are durable when they have been told: as *)
(* long as no write was refused, a power loss at any moment leaves a token *)
(* of this run, and of an ended run no other than its last.                *)
EdgesAreDurable ==
  \A s \in Slot : ~failed[s] /\ slots[s].run # 0 =>
    /\ nvs[s].run = slots[s].run
    /\ slots[s].state \in Finished => nvs[s].tracks = slots[s].tracks /\ UnderWay(s) = <<>>

(* However phases and throttles fall, the main track's phase is in flash   *)
(* or on its way there as soon as it has been entered.                     *)
MainPhaseIsKept ==
  \A s \in Slot : ~refused[s] /\ slots[s].run # 0 => Newest(s).tracks[MAIN].phase = slots[s].tracks[MAIN].phase

(* Flash is spared: no token is taken for a side track's sake within the   *)
(* throttle's time of another, whatever the main track does meanwhile.     *)
FlashIsSpared == ~worn

(* A recovered run that waits to be resumed hands over nothing: what was   *)
(* recovered is in flash already.                                          *)
RecoveredIsQuiet ==
  [][\A s \in Slot : slots[s].back /\ slots[s].state = "PAUSED" /\ slots'[s].state = "PAUSED" =>
       Len(SelectSeq(queue', LAMBDA i : i.slot = s)) <= Len(UnderWay(s))]_vars

-----------------------------------------------------------------------------
(* "terminal -> not falsely re-recovered" (nvs_observer.h:45).             *)
\* Broken by the code: a run that has ended is paused by try_recover and can
\* be resumed.
FinishedStaysFinished == \A s \in Slot : slots[s].run \in ended => slots[s].state \in Finished

(* "throttle counter is NOT reset -> the next edge event will retry"       *)
(* (07_persistence.md:177).                                                *)
RefusedIsRetried == ~silent

(* "Losing the very latest one on a crash only rewinds recovery by one     *)
(* phase" (nvs_observer.h:39).                                             *)
\* Broken by the code: the loss of one deferred token rewinds a side track by
\* more than a phase.
RewindsOnePhase ==
  \A s \in Slot : turn = 0 /\ ~refused[s] /\ slots[s].run # 0 /\ Len(UnderWay(s)) <= 1
    => \A t \in Tracks(s) : slots[s].entered[t] <= nvs[s].entered[t] + 1

(* "resources that a scenario owns for its full duration: [...] exclusive  *)
(* access" (06_resource_arbitration.md:15).                                *)
\* Broken by the code: a recovered run goes on without its resources while
\* another holds them.
RunsAreExclusive ==
  \A s, o \in Slot : s # o /\ slots[s].state = "RUNNING" /\ slots[o].state = "RUNNING" /\ 0 \notin {slots[s].run, slots[o].run} => Claims(s) \cap Claims(o) = {}

(* "No persisted token (fresh install or never persisted) - slot stays in  *)
(* LOADED" (07_persistence.md:207).                                        *)
\* Broken by the code: a slot that was never started is recovered as paused,
\* from the token its mere loading wrote.
RecoveredWasStarted == \A s \in Slot : slots[s].state = "PAUSED" => slots[s].run # 0
=============================================================================
