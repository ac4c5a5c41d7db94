------------------------------ MODULE Display ------------------------------
(* modules/display: the display module, its queue of banners and the AMT630A *)
(* port under it, whose chip can be powered off and cold-booted.             *)
(*                                                                           *)
(* One on_update of the main task is three steps, Service, Gate and Draw,    *)
(* because it reads display.enabled twice while other tasks write the keys.  *)
(* The menu is a view that changes (MenuEngine models it); a banner is named *)
(* by its sequence number, so that no two have one text; of the parameters   *)
(* of the screen the backlight and one that survives disabling (contrast)    *)
(* are kept, always set in the shared state.  Times are in updates.          *)
EXTENDS Integers, Sequences, SequencesExt

CONSTANTS
    CAP,            \* NotificationQueue::CAP, scaled
    Notices,        \* the [level, ttl] that producers publish; ttl 0: no limit
    Views,          \* what the menu engine may want drawn
    Lights,         \* the values of display.backlight and of display.contrast
    BOOT, TIMEOUT,  \* kBootDelayMs and kBootTimeoutMs
    CHUNKS,         \* upload_font_chunk calls of one recovery
    PowerIsInt,     \* display.power holds an integer, not the declared bool
    Races,          \* display.enabled may change between the two reads
    Late,           \* the chip may stay silent past TIMEOUT
    MaxPushes, MaxToggles, MaxPowers, MaxParams, MaxPresses

VARIABLES
    q, active, notifDirty, nextSeq,        \* NotificationQueue
    keys,                                  \* the module's keys of SharedState
    mirror,                                \* display.banner and its level
    pc, prevEnabled, wasBusy, last, prevButton,
    view, engineDirty,                     \* MenuEngine, seen from here
    port, chip, glass,                     \* Amt630aPort and the chip
    owed, budget

queue == <<q, active, notifDirty, nextSeq>>
module == <<pc, prevEnabled, wasBusy, last, prevButton>>
screen == <<port, chip, glass>>
vars == <<queue, keys, mirror, module, view, engineDirty, screen, owed, budget>>

NoNotice == [level |-> 0, seq |-> 0]
NoView == "none"
Blank == [frame |-> NoView, banner |-> NoNotice, backlight |-> 0, contrast |-> 0]
NotApplied == -1

Init ==
    /\ q = <<>> /\ active = NoNotice /\ notifDirty = FALSE /\ nextSeq = 1
    /\ keys \in [enabled : BOOLEAN, power : {TRUE}, backlight : Lights,
                 contrast : Lights, button : {FALSE}]
    /\ mirror = NoNotice
    /\ pc = "idle" /\ prevEnabled = TRUE /\ wasBusy = FALSE /\ prevButton = FALSE
    /\ last = [backlight |-> NotApplied, contrast |-> NotApplied, power |-> 1]
    /\ view \in Views /\ engineDirty = TRUE
    /\ port = [recov |-> "idle", wait |-> 0, cursor |-> 0, pct |-> 1]
    /\ chip = "up" /\ glass = [Blank EXCEPT !.backlight = 1]
    /\ owed = [all |-> 0, slow |-> 0, released |-> TRUE]
    /\ budget = [pushes |-> MaxPushes, toggles |-> MaxToggles, powers |-> MaxPowers,
                 params |-> MaxParams, presses |-> MaxPresses]

Spend(what) == /\ budget[what] > 0
               /\ budget' = [budget EXCEPT ![what] = @ - 1]

-----------------------------------------------------------------------------
(* The queue of banners.                                                     *)

Lowest(s) == CHOOSE i \in DOMAIN s :
                /\ \A j \in DOMAIN s : s[i].level <= s[j].level
                /\ \A j \in 1 .. i - 1 : s[j].level > s[i].level

Outranks(a, b) == a.level > b.level \/ (a.level = b.level /\ a.seq < b.seq)

Top(s) == CHOOSE i \in DOMAIN s : \A j \in DOMAIN s \ {i} : Outranks(s[i], s[j])

ActiveOf(s) == IF s = <<>> THEN NoNotice
               ELSE [level |-> s[Top(s)].level, seq |-> s[Top(s)].seq]

recompute(s) == /\ q' = s
                /\ active' = ActiveOf(s)
                /\ notifDirty' = (notifDirty \/ ActiveOf(s) # active)

Queued(s, e) == CASE Len(s) < CAP -> Append(s, e)
                  [] e.level > s[Lowest(s)].level -> ReplaceAt(s, Lowest(s), e)
                  [] OTHER -> s

(* on_message: UI_NOTICE is published on the main task, between two updates. *)
Push(n) ==
    /\ pc = "idle" /\ Spend("pushes")
    /\ nextSeq' = nextSeq + 1
    /\ recompute(Queued(q, [level |-> n.level, left |-> n.ttl, seq |-> nextSeq,
                            infinite |-> n.ttl = 0]))
    /\ UNCHANGED <<keys, mirror, module, view, engineDirty, screen, owed>>

Aged(s) == LET older == [i \in DOMAIN s |-> IF s[i].infinite THEN s[i]
                                            ELSE [s[i] EXCEPT !.left = @ - 1]]
           IN  SelectSeq(older, LAMBDA e : e.infinite \/ e.left > 0)

-----------------------------------------------------------------------------
(* The port and the chip.                                                    *)

busy(p) == p.recov # "idle"

Fonted(p) == IF p.cursor + 1 < CHUNKS THEN [p EXCEPT !.cursor = @ + 1]
             ELSE [p EXCEPT !.recov = "idle"]

WaitedOn(p) == LET w == IF p.wait < TIMEOUT THEN p.wait + 1 ELSE p.wait
               IN  IF w >= BOOT /\ chip = "up" THEN [p EXCEPT !.recov = "setup", !.wait = w]
                   ELSE [p EXCEPT !.wait = w]
Waited(p) == LET w == p.wait + 1
             IN  CASE w >= BOOT /\ chip = "up" -> [p EXCEPT !.recov = "setup", !.wait = w]
                   [] w >= TIMEOUT /\ chip # "up" -> [p EXCEPT !.recov = "idle", !.wait = w]
                   [] OTHER -> [p EXCEPT !.wait = w]

service(p) == CASE p.recov = "idle" -> p
                [] p.recov = "wait" -> Waited(p)
                [] p.recov = "setup" -> [p EXCEPT !.recov = "font", !.cursor = 0]
                [] p.recov = "font" -> Fonted(p)

RecoveryEnds == port.recov = "font" /\ ~busy(service(port))

(* What a call of the port leaves on the glass: nothing, unless the chip is  *)
(* up.  A frame covers the banner.                                           *)
Shows(g) == glass' = IF chip = "up" THEN g ELSE glass
present_current(g) == [g EXCEPT !.frame = view', !.banner = NoNotice]
set_backlight(g, pct) == [g EXCEPT !.backlight = pct]

set_rail(p, on) == IF on THEN [p EXCEPT !.recov = "wait", !.wait = 0, !.cursor = 0]
                   ELSE [p EXCEPT !.recov = "idle"]

ChipBoots ==
    /\ chip = "booting"
    /\ chip' = "up" /\ glass' = Blank
    /\ UNCHANGED <<queue, keys, mirror, module, view, engineDirty, port, owed, budget>>

-----------------------------------------------------------------------------
(* on_update.                                                                *)

(* read_int answers its default, 1, for a key that holds a bool.             *)
power == IF ~PowerIsInt \/ keys.power THEN 1 ELSE 0

Applied(l) == [backlight |-> keys.backlight, contrast |-> keys.contrast, power |-> power]
OnGlass(g, l) ==
    [g EXCEPT !.backlight = IF keys.backlight # l.backlight THEN keys.backlight ELSE @,
              !.contrast = IF keys.contrast # l.contrast THEN keys.contrast ELSE @]

(* apply_screen_params: what the glass g, the parameters l last given and    *)
(* the port p become.  A switched rail leaves a blank glass, so that the     *)
(* frame the caller draws after it, if it does, reaches it only otherwise.   *)
apply_screen_params(g, l, p, draws) ==
    LET lit == IF keys.backlight = l.backlight THEN p ELSE [p EXCEPT !.pct = keys.backlight]
    IN  /\ last' = Applied(l)
        /\ IF power = l.power
           THEN /\ port' = lit
                /\ Shows(IF draws THEN present_current(OnGlass(g, l)) ELSE OnGlass(g, l))
                /\ UNCHANGED chip
           ELSE /\ port' = set_rail(lit, power = 1)
                /\ chip' = IF power = 1 THEN "booting" ELSE "off"
                /\ glass' = Blank

Forgotten(l) == [l EXCEPT !.backlight = NotApplied, !.contrast = NotApplied]

Fell(p) == wasBusy /\ ~busy(p)

(* The first part: the port's pulse and, when a recovery has just ended, the *)
(* whole state again.                                                        *)
Service ==
    LET p == service(port)
        g == IF RecoveryEnds THEN set_backlight(glass, port.pct) ELSE glass
        fell == Fell(p)
    IN
    /\ pc = "idle"
    /\ (port.recov = "wait" /\ port.wait + 1 >= TIMEOUT) => (Late \/ chip = "up")
    /\ wasBusy' = busy(p)
    /\ pc' = IF busy(p) THEN "idle" ELSE "gate"
    /\ view' = view
    /\ CASE fell /\ keys.enabled ->
                apply_screen_params(g, Forgotten(last), p, TRUE)
         [] fell /\ ~keys.enabled ->
                /\ last' = Forgotten(last)
                /\ port' = [p EXCEPT !.pct = 0]
                /\ Shows(set_backlight(g, 0))
                /\ UNCHANGED chip
         [] OTHER -> /\ port' = p
                     /\ Shows(g)
                     /\ UNCHANGED <<last, chip>>
    /\ UNCHANGED <<queue, keys, mirror, prevEnabled, prevButton, engineDirty, owed, budget>>

GoesOn == "draw"
Goes == IF keys.enabled THEN "draw" ELSE "idle"

(* The second read of display.enabled.                                       *)
Gate ==
    /\ pc = "gate"
    /\ prevEnabled' = keys.enabled
    /\ pc' = Goes
    /\ view' = view
    /\ CASE prevEnabled /\ ~keys.enabled ->
                /\ port' = [port EXCEPT !.pct = 0]
                /\ Shows(set_backlight(glass, 0))
                /\ UNCHANGED last
         [] ~prevEnabled /\ keys.enabled ->
                /\ last' = [last EXCEPT !.backlight = NotApplied]
                /\ Shows(present_current(glass))
                /\ UNCHANGED port
         [] OTHER -> UNCHANGED <<last, port, glass>>
    /\ UNCHANGED <<queue, keys, mirror, wasBusy, prevButton, engineDirty, chip, owed, budget>>

Edge == keys.button /\ ~prevButton
Polled == keys.button

poll_button ==
    /\ prevButton' = Polled
    /\ keys' = [keys EXCEPT !.button = FALSE]
    /\ owed' = [all |-> IF Edge THEN owed.all - 1 ELSE owed.all,
                slow |-> IF Edge THEN 0 ELSE owed.slow,
                released |-> ~keys.button]

Layered(g, menu, banner) ==
    LET f == IF menu THEN present_current(g) ELSE g
    IN  IF banner \/ (menu /\ active' # NoNotice) THEN [f EXCEPT !.banner = active'] ELSE f

Mirrored(banner) == IF banner THEN active' ELSE mirror

(* The rest: a button, the menu's clock, the banners' clock, the layers, the *)
(* mirror and the parameters.                                                *)
Draw ==
    /\ pc = "draw" /\ pc' = "idle"
    /\ poll_button
    /\ view' \in Views
    /\ LET menu == engineDirty \/ view' # view
           banner == notifDirty \/ active' # active
       IN  /\ q' = Aged(q) /\ active' = ActiveOf(Aged(q))
           /\ apply_screen_params(Layered(glass, menu, banner), last, port, FALSE)
           /\ mirror' = Mirrored(banner)
    /\ engineDirty' = FALSE /\ notifDirty' = FALSE
    /\ UNCHANGED <<nextSeq, prevEnabled, wasBusy, budget>>

-----------------------------------------------------------------------------
(* Other tasks write the keys.                                               *)

Toggle ==
    /\ Spend("toggles")
    /\ pc # "gate" \/ Races
    /\ keys' = [keys EXCEPT !.enabled = ~@]
    /\ UNCHANGED <<queue, mirror, module, view, engineDirty, screen, owed>>

SwitchPower ==
    /\ Spend("powers")
    /\ keys' = [keys EXCEPT !.power = ~@]
    /\ UNCHANGED <<queue, mirror, module, view, engineDirty, screen, owed>>

SetParam ==
    /\ Spend("params")
    /\ \E x \in Lights : \/ keys' = [keys EXCEPT !.backlight = x]
                         \/ keys' = [keys EXCEPT !.contrast = x]
    /\ UNCHANGED <<queue, mirror, module, view, engineDirty, screen, owed>>

(* owed counts the presses not handled yet: all of them, and those made after*)
(* an update that found the button released.                                 *)
Press ==
    /\ ~keys.button /\ Spend("presses")
    /\ keys' = [keys EXCEPT !.button = TRUE]
    /\ owed' = [owed EXCEPT !.all = @ + 1,
                            !.slow = IF owed.released THEN @ + 1 ELSE @]
    /\ UNCHANGED <<queue, mirror, module, view, engineDirty, screen>>

MainTask == Service \/ Gate \/ Draw

Next ==
    \/ Service \/ Gate \/ Draw
    \/ \E n \in Notices : Push(n)
    \/ ChipBoots \/ Toggle \/ SwitchPower \/ SetParam \/ Press

Spec == Init /\ [][Next]_vars
Fairness == WF_vars(MainTask)
FairSpec == Spec /\ Fairness

-----------------------------------------------------------------------------
(* Properties.                                                               *)

TypeOK ==
    /\ Len(q) <= CAP /\ active \in {NoNotice} \cup {[level |-> q[i].level, seq |-> q[i].seq] :
                                                      i \in DOMAIN q}
    /\ port.recov \in {"idle", "wait", "setup", "font"}
    /\ port.cursor \in 0 .. CHUNKS - 1 /\ port.wait \in 0 .. TIMEOUT
    /\ pc \in {"idle", "gate", "draw"} /\ chip \in {"off", "booting", "up"}

(* Between two updates, with the display enabled and its chip up and         *)
(* configured, once the first frame was drawn.                               *)
Showing == /\ pc = "idle" /\ ~busy(port) /\ chip = "up"
           /\ prevEnabled /\ ~engineDirty

(* The frame on the glass is the one the menu wants, through every cold boot *)
(* of the chip and every disabling of the display.                           *)
FrameIsCurrent == Showing => glass.frame = view

(* The chip's parameters are those the module believes it gave: a cold boot  *)
(* forgets them on both sides.                                               *)
ParamsAreCurrent == Showing => /\ glass.backlight = last.backlight
                               /\ glass.contrast = last.contrast

(* A disabled display is dark, also when its chip comes back meanwhile.      *)
DarkWhenDisabled ==
    (pc = "idle" /\ ~busy(port) /\ chip = "up" /\ ~prevEnabled) => glass.backlight = 0

(* The banner on the glass is the active one (module-1: redrawing the menu   *)
(* restores it).                                                             *)
BannerIsShown == (Showing /\ ~notifDirty) => glass.banner = active

(* display.banner names the active banner as soon as its change was handled. *)
MirrorIsActive == ~notifDirty => mirror = active

(* A press made after an update found the button released becomes an event.  *)
SlowPressIsHandled == ~keys.button => owed.slow = 0

(* The module clears a button's key only after handling the press.           *)
\* Broken by the code: a press in the update after another is cleared and not
\* handled.
EveryPressIsHandled == ~keys.button => owed.all = 0

(* What a full queue loses, the newcomer or the one it replaces, is no more  *)
(* urgent than anything it keeps; and nothing but time empties it.           *)
LosesTheLeast ==
    [][nextSeq' # nextSeq => \A n \in Notices : Push(n) =>
          LET before == Append(q, [level |-> n.level, seq |-> nextSeq])
              kept == {q'[k].seq : k \in DOMAIN q'}
          IN  \A i \in DOMAIN before : before[i].seq \notin kept =>
                 /\ Len(q') = CAP
                 /\ \A k \in DOMAIN q' : before[i].level <= q'[k].level]_vars

(* A banner on show gives way, while it is still queued, only to a more      *)
(* urgent one: equals wait their turn.                                       *)
EqualsWait ==
    [][(/\ active # NoNotice /\ active' # active
        /\ \E k \in DOMAIN q' : q'[k].seq = active.seq)
          => active'.level > active.level]_vars

(* A new ALARM is never dropped.                                             *)
\* Broken by the code: a queue full of alarms drops a new one.
AlarmIsKept ==
    [][\A n \in Notices : (n.level = 2 /\ Push(n)) =>
          \E k \in DOMAIN q' : q'[k].seq = nextSeq]_vars

(* A banner with a limit leaves, on show or hidden by a more urgent one.     *)
LimitedExpires ==
    <>[](keys.enabled) =>
        \A s \in 1 .. MaxPushes :
            (\E i \in DOMAIN q : q[i].seq = s /\ ~q[i].infinite)
                ~> (\A i \in DOMAIN q : q[i].seq # s)

(* A recovery ends, whether or not the chip ever answers.                    *)
RecoveryIsFinite == busy(port) ~> ~busy(port)

(* display.power cuts the rail and restores it, once the display stays       *)
(* enabled.                                                                  *)
RailObeysPower ==
    <>[](keys.enabled) => <>[]((chip # "off") <=> keys.power)

(* A change of the active banner reaches its mirror.                         *)
\* Broken by the code: while the display is disabled a notice does not reach
\* display.banner.
MirrorCatchesUp == notifDirty ~> ~notifDirty
=============================================================================
