------------------------------ MODULE Equipment ------------------------------
(***************************************************************************)
(* The outputs of the device: the HAL's set-up of pins and expanders, the  *)
(* drivers the manager makes from the bindings, the relays on GPIO pins    *)
(* and on a PCF8574 whose one output byte they share, and EquipmentBase,   *)
(* which applies requested outputs once per turn of the main loop and      *)
(* holds them off after a FATAL.  The product's arbitration is a hook: it  *)
(* may ask for anything, through a ShortCycleGuard for the roles in        *)
(* Guarded.                                                                *)
(*                                                                         *)
(* A transfer to the expander succeeds, fails before the chip takes the    *)
(* byte ("nak"), or fails after it ("late": the bus hangs and times out    *)
(* once the byte is latched).  Which failures happen is the constant       *)
(* Failures, how many is MaxFaults.                                        *)
(***************************************************************************)
EXTENDS Integers, Sequences, SequencesExt, FiniteSets

CONSTANTS
    Order,            \* the relays, in the order of their bindings
    OnExpander,       \* those behind the expander; the others are GPIO pins
    ActiveHigh,       \* those that a HIGH level energises
    Ours,             \* those bound to the equipment module
    Guarded,          \* the roles whose requests the product filters
    MAX_ACTUATORS,    \* room in the driver manager
    RolesLeft,        \* room the sensors leave in roles_
    MinOn, MinOff, TIMER_SATISFIED,
    Failures, MaxFaults,
    NestedFatal,      \* the product's own hook may report a FATAL
    MaxBoots

Relays == ToSet(Order)

EquipmentAssumption ==
    /\ Order \in Seq(Relays)
    /\ OnExpander \subseteq Relays /\ ActiveHigh \subseteq Relays
    /\ Guarded \subseteq Ours /\ Ours \subseteq Relays
    /\ Failures \subseteq {"nak", "late"}
    /\ {MinOn, MinOff} \subseteq 0 .. TIMER_SATISFIED
    /\ {MAX_ACTUATORS, RolesLeft, TIMER_SATISFIED, MaxFaults, MaxBoots} \subseteq Nat

VARIABLES
    phase,        \* "hal", "drivers", "run", "stopped" or "dead"
    board,        \* output_state, the pins' levels, relay_on_ and the faults so far
    drivers,      \* the relays in the manager whose init() has been tried and held
    tried,        \* how many init() calls have been made
    req,          \* output_req
    published,    \* the module's keys in the shared state
    safe_mode,
    guard,        \* the product's ShortCycleGuards
    at,           \* where on_update is: "idle", "arbitration" or "apply"
    held,         \* how long each guarded output has been as it is
    boots

vars == <<phase, board, drivers, tried, req, published, safe_mode, guard, at, held, boots>>

Level(r, state) == state = (r \in ActiveHigh)
Energised(r) == board.line[r] = (r \in ActiveHigh)
AllOff == [r \in Relays |-> FALSE]

Init ==
    /\ phase = "hal" /\ at = "idle" /\ tried = 0 /\ drivers = {} /\ boots = 1
    /\ board = [byte |-> [r \in OnExpander |-> TRUE], line |-> [r \in Relays |-> Level(r, FALSE)],
                on |-> AllOff, faults |-> 0]
    /\ req = AllOff /\ published = AllOff /\ safe_mode = FALSE
    /\ guard = [r \in Guarded |-> [current_state |-> FALSE, since_change |-> TIMER_SATISFIED]]
    /\ held = [r \in Guarded |-> TIMER_SATISFIED]

-----------------------------------------------------------------------------
(* The expander and the relay drivers. *)

TransferKeepsByte(b, byte, out) ==
    [b EXCEPT !.byte = byte,
              !.line = IF out = "nak" THEN @
                       ELSE [r \in Relays |-> IF r \in OnExpander THEN byte[r] ELSE @[r]],
              !.faults = IF out = "ok" THEN @ ELSE @ + 1]

\* write_state() with the caller's roll-back of the shared byte.
Transfer(b, byte, out) ==
    [b EXCEPT !.byte = IF out = "ok" THEN byte ELSE @,
              !.line = IF out = "nak" THEN @
                       ELSE [r \in Relays |-> IF r \in OnExpander THEN byte[r] ELSE @[r]],
              !.faults = IF out = "ok" THEN @ ELSE @ + 1]

SetBelief(b, r, state, out) == IF out = "ok" THEN [b EXCEPT !.on[r] = state] ELSE b

SetRelay(b, r, state, out) ==
    IF state = b.on[r] THEN b
    ELSE IF r \in OnExpander
    THEN SetBelief(Transfer(b, [b.byte EXCEPT ![r] = Level(r, state)], out), r, state, out)
    ELSE [b EXCEPT !.on[r] = state, !.line[r] = Level(r, state)]

\* How the transfers of one step end, each relay's its own; a pin does not fail.
Ends == [OnExpander \cap drivers -> {"ok"} \cup Failures]

FirstFew(seq, n) == SubSeq(seq, 1, IF n < Len(seq) THEN n ELSE Len(seq))
Created == FirstFew(Order, MAX_ACTUATORS)

\* The module binds its own relays in the order of the list, while there is room.
Bindable == {i \in 1 .. Len(Created): Created[i] \in drivers /\ Created[i] \in Ours}
Roles == {Created[i]: i \in {j \in Bindable:
                                Cardinality({k \in Bindable: k <= j}) <= RolesLeft}}

Drive(b, r, requested, ends) ==
    IF r \in Roles
    THEN SetRelay(b, r, requested[r], IF r \in OnExpander THEN ends[r] ELSE "ok")
    ELSE b

\* One relay after the other, in the order they were bound.
apply_all_outputs(requested, ends) ==
    LET after[i \in 0 .. Len(Created)] ==
            IF i = 0 THEN board ELSE Drive(after[i - 1], Created[i], requested, ends)
    IN  after[Len(Created)]

\* The step ends with the outputs applied, within the bound on faults.
Applied(requested, ends) ==
    /\ board' = apply_all_outputs(requested, ends)
    /\ board'.faults <= MaxFaults
    /\ req' = requested

publish_all_states ==
    published' = [r \in Relays |-> IF r \in Roles THEN board'.on[r] ELSE published[r]]

\* The pins that moved start a new stretch.
Stretch(before) ==
    held' = [r \in Guarded |-> IF board'.line[r] = board.line[r] THEN before[r] ELSE 0]

Lasted(t) == IF t < TIMER_SATISFIED THEN t + 1 ELSE t

-----------------------------------------------------------------------------
(* Bringing the hardware up. *)

InitialByte == [r \in OnExpander |-> TRUE]

\* HAL::init: GPIO outputs to their off level, the expander's byte to 0xFF; an
\* expander that does not answer fails the HAL, and app_main returns.
HalInit ==
    /\ phase = "hal"
    /\ \E out \in {"ok"} \cup Failures:
        /\ board' = [Transfer(board, InitialByte, out) EXCEPT
                        !.line = [r \in Relays |-> IF r \in OnExpander THEN @[r] ELSE Level(r, FALSE)]]
        /\ board'.faults <= MaxFaults
        /\ phase' = IF out = "ok" \/ OnExpander = {} THEN "drivers" ELSE "dead"
    /\ UNCHANGED <<drivers, tried, req, published, safe_mode, guard, at, held, boots>>

\* DriverManager::init: a driver whose init() fails leaves the list.
InitDriver ==
    /\ phase = "drivers" /\ tried < Len(Created)
    /\ LET r == Created[tried + 1]
       IN \E out \in {"ok"} \cup (IF r \in OnExpander THEN Failures ELSE {}):
            /\ board' = IF r \in OnExpander
                        THEN Transfer(board, [board.byte EXCEPT ![r] = Level(r, FALSE)], out)
                        ELSE [board EXCEPT !.line[r] = Level(r, FALSE)]
            /\ board'.faults <= MaxFaults
            /\ drivers' = IF out = "ok" THEN drivers \cup {r} ELSE drivers
    /\ tried' = tried + 1
    /\ UNCHANGED <<phase, req, published, safe_mode, guard, at, held, boots>>

\* bind_drivers and on_init.
BindAndInit ==
    /\ phase = "drivers" /\ tried = Len(Created)
    /\ phase' = "run" /\ published' = AllOff
    /\ UNCHANGED <<board, drivers, tried, req, safe_mode, guard, at, held, boots>>

-----------------------------------------------------------------------------
(* EquipmentBase::on_update, in the steps between which a hook runs. *)

Running == phase = "run" /\ at = "idle"
Waited == [r \in Guarded |-> Lasted(held[r])]

\* In safe mode: force every output off and skip the product.
TurnInSafeMode ==
    /\ Running /\ safe_mode
    /\ \E ends \in Ends: Applied(AllOff, ends)
    /\ publish_all_states /\ Stretch(Waited)
    /\ UNCHANGED <<phase, drivers, tried, safe_mode, guard, at, boots>>

\* on_message: latch, and force every output off at once.
SafeModeMessage ==
    /\ ~safe_mode /\ safe_mode' = TRUE
    /\ \E ends \in Ends: Applied(AllOff, ends)
    /\ publish_all_states

\* on_product_update: the product may report a FATAL of its own, whose message
\* is delivered before the hook returns.
ProductHook ==
    /\ Running /\ ~safe_mode
    /\ at' = "arbitration"
    /\ \/ UNCHANGED <<board, req, published, safe_mode>> /\ held' = Waited
       \/ NestedFatal /\ SafeModeMessage /\ Stretch(Waited)
    /\ UNCHANGED <<phase, drivers, tried, guard, boots>>

ApplyGuardLoosely(g, requested) ==
    LET since == Lasted(g.since_change)
        least == IF requested THEN MinOff ELSE MinOn
    IN  IF requested # g.current_state /\ since >= least - 1
        THEN [current_state |-> requested, since_change |-> 0]
        ELSE [g EXCEPT !.since_change = since]

\* ShortCycleGuard::apply for one turn.
ApplyGuard(g, requested) ==
    LET since == Lasted(g.since_change)
        least == IF requested THEN MinOff ELSE MinOn
    IN  IF requested # g.current_state /\ since >= least
        THEN [current_state |-> requested, since_change |-> 0]
        ELSE [g EXCEPT !.since_change = since]

apply_arbitration ==
    /\ phase = "run" /\ at = "arbitration"
    /\ \E want \in [Roles -> BOOLEAN]:
          /\ guard' = [r \in Guarded |->
                         IF r \in Roles THEN ApplyGuard(guard[r], want[r]) ELSE guard[r]]
          /\ req' = [r \in Relays |-> CASE r \in Guarded -> guard'[r].current_state
                                        [] r \in Roles \ Guarded -> want[r]
                                        [] OTHER -> req[r]]
    /\ at' = "apply"
    /\ UNCHANGED <<phase, board, drivers, tried, published, safe_mode, held, boots>>

ApplyOutputs ==
    /\ phase = "run" /\ at = "apply"
    /\ \E ends \in Ends: Applied(req, ends)
    /\ publish_all_states /\ Stretch(held)
    /\ at' = "idle"
    /\ UNCHANGED <<phase, drivers, tried, safe_mode, guard, boots>>

\* Another module reports a FATAL in its own turn.
Fatal ==
    /\ Running /\ SafeModeMessage /\ Stretch(held)
    /\ UNCHANGED <<phase, drivers, tried, guard, at, boots>>

\* The watchdog restarts the module: on_stop and on_init, in one call.
RestartModule ==
    /\ Running /\ boots < MaxBoots /\ boots' = boots + 1
    /\ \E ends \in Ends: Applied(AllOff, ends)
    /\ published' = AllOff /\ Stretch(held)
    /\ UNCHANGED <<phase, drivers, tried, safe_mode, guard, at>>

on_stop ==
    /\ Running /\ boots < MaxBoots
    /\ \E ends \in Ends: Applied(AllOff, ends)
    /\ phase' = "stopped" /\ Stretch(held)
    /\ UNCHANGED <<drivers, tried, published, safe_mode, guard, at, boots>>

\* The processor starts again; the expander, which is not reset, keeps its pins.
Reboot ==
    /\ phase \in {"run", "stopped"} /\ boots < MaxBoots /\ boots' = boots + 1
    /\ phase' = "hal" /\ at' = "idle" /\ tried' = 0 /\ drivers' = {}
    /\ board' = [board EXCEPT !.byte = [r \in OnExpander |-> TRUE], !.on = AllOff]
    /\ req' = AllOff /\ published' = AllOff /\ safe_mode' = FALSE
    /\ guard' = [r \in Guarded |-> [current_state |-> FALSE, since_change |-> TIMER_SATISFIED]]
    /\ held' = [r \in Guarded |-> TIMER_SATISFIED]

Turn == TurnInSafeMode \/ ProductHook \/ apply_arbitration \/ ApplyOutputs
BringUp == HalInit \/ InitDriver \/ BindAndInit
Next == BringUp \/ Turn \/ Fatal \/ RestartModule \/ on_stop \/ Reboot

Fairness == WF_vars(BringUp) /\ WF_vars(Turn) /\ WF_vars(phase = "stopped" /\ Reboot)
Spec == Init /\ [][Next]_vars
LiveSpec == Spec /\ Fairness

-----------------------------------------------------------------------------
(* Properties. *)

\* The types of the state; roles_ is never longer than the room there is.
TypeOK ==
    /\ phase \in {"hal", "drivers", "run", "stopped", "dead"}
    /\ board \in [byte: [OnExpander -> BOOLEAN], line: [Relays -> BOOLEAN],
                  on: [Relays -> BOOLEAN], faults: 0 .. MaxFaults]
    /\ drivers \subseteq Relays /\ tried \in 0 .. Len(Created) /\ Cardinality(Roles) <= RolesLeft
    /\ req \in [Relays -> BOOLEAN] /\ published \in [Relays -> BOOLEAN]
    /\ safe_mode \in BOOLEAN /\ at \in {"idle", "arbitration", "apply"}
    /\ guard \in [Guarded -> [current_state: BOOLEAN, since_change: 0 .. TIMER_SATISFIED]]
    /\ held \in [Guarded -> 0 .. TIMER_SATISFIED] /\ boots \in 1 .. MaxBoots

\* A relay's bit in the shared byte is what its driver believes, whatever
\* transfers failed: the next write of another relay pushes no stuck bit out.
ByteIsBelief ==
    \A r \in drivers \cap OnExpander: board.byte[r] = Level(r, board.on[r])

\* While the module runs a pin moves only with its own driver's belief.
NoForeignMove ==
    [][phase = "run" /\ phase' = "run" =>
        \A r \in Relays: board'.line[r] # board.line[r] => board'.on[r] # board.on[r]]_vars

\* An output that nothing drives (unbound, dropped, or with a failed driver)
\* stays off once the module runs.
NobodysOutputIsOff ==
    phase = "run" => \A r \in Relays \ Roles: ~Energised(r)

\* A turn leaves in the shared state what the pins are, whichever of its
\* transfers failed.
ShownIsReal ==
    [][phase = "run" /\ at' = "idle" /\ (at = "apply" \/ safe_mode') /\ UNCHANGED <<phase, boots>> =>
        \A r \in Roles: published'[r] = (board'.line[r] = (r \in ActiveHigh))]_vars

\* After the safe-mode latch no step turns an output on.
NothingTurnsOn == safe_mode /\ safe_mode' => \A r \in Relays: board'.on[r] => board.on[r]

\* Broken by the code: a FATAL reported by the product's own hook is followed
\* by that turn's arbitration, which turns outputs on.
SafeModeHolds == [][NothingTurnsOn]_vars

\* A FATAL ends with every output off, though transfers failed on the way.
SafeModeReaches ==
    safe_mode ~> (\A r \in Roles: ~Energised(r))

\* A guarded output changes only after it has been as it is for the guard's
\* minimum; forcing it off is the exception.
HeldLongEnough ==
    \A r \in Guarded:
        phase = "run" /\ phase' = "run" /\ board'.line[r] # board.line[r] /\ at = "apply" =>
            held[r] >= IF board'.on[r] THEN MinOff ELSE MinOn

\* Broken by the code: a watchdog restart switches the compressor off behind
\* the guard's back; the next turn switches it on again at once. And: the
\* guard's time runs from the request; a transfer that failed meanwhile makes
\* the pin's stretch shorter than the minimum.
ShortCyclesAvoided == [][HeldLongEnough]_vars
=============================================================================
