----------------------------- MODULE AwsShadow -----------------------------
(***************************************************************************)
(* components/modesp_aws/src/aws_iot_service.cpp: telemetry and the device *)
(* shadow.  The main task publishes (on_update); the task of esp-mqtt      *)
(* calls the event handler, which applies what the cloud desires; other    *)
(* tasks set the shared state.  The shadow is a document of AWS: when what *)
(* it was asked for differs from what the device reports, each accepted    *)
(* update makes it send the difference.                                    *)
(*                                                                         *)
(* Only the comparison of a version with one remembered matters: a         *)
(* remembered version is a flag, raised when the version moves on.  When   *)
(* the intervals of on_update are over is left open.                       *)
(***************************************************************************)
EXTENDS Integers, Sequences, FiniteSets

CONSTANTS
  Keys,            \* writable keys that are published
  Min, Max,        \* their range
  Wishes,          \* what the cloud may desire
  Telemetry,       \* other keys of the state keep changing
  Capacity,        \* bound on the messages under way in one direction
  MaxSets, MaxWishes, MaxDrops   \* bounds

AwsShadowAssumption ==
  /\ Min \in Int /\ Max \in Int /\ Min <= Max /\ Wishes \subseteq Int
  /\ Telemetry \in BOOLEAN /\ Capacity \in Nat \ {0}
  /\ MaxSets \in Nat /\ MaxWishes \in Nat /\ MaxDrops \in Nat

VARIABLES
  value,           \* the shared state
  moved,           \* its version is not last_version_
  shadow_moved,    \* its version is not shadow_version_
  shadow_dirty,
  cache,           \* last_payloads_
  link,            \* the connection: up, lost (unnoticed) or down
  connected,
  main, todo,      \* what the main task is publishing, the keys left
  report,          \* the shadow document it has built so far
  outbox,          \* reports not acknowledged
  inbox,           \* differences under way
  desired, reported,   \* the shadow
  seen,            \* what subscribers know
  used

device == <<value, moved, shadow_moved, shadow_dirty, cache>>
publishing == <<main, todo, report>>
cloud == <<desired, reported>>
vars == <<device, link, connected, publishing, outbox, inbox, cloud, seen, used>>

Unset == Min - 1
InRange == Min..Max
Use(k, bound) == used[k] < bound /\ used' = [used EXCEPT ![k] = @ + 1]

Init ==
  /\ value \in [Keys -> {Min}] /\ moved = TRUE /\ shadow_moved = TRUE
  /\ shadow_dirty = FALSE /\ cache = [k \in Keys |-> Unset]
  /\ link = "down" /\ connected = FALSE
  /\ main = "run" /\ todo = {} /\ report = value
  /\ outbox = <<>> /\ inbox = <<>>
  /\ desired = [k \in Keys |-> Unset] /\ reported = [k \in Keys |-> Unset]
  /\ seen = [k \in Keys |-> Unset]
  /\ used = [sets |-> 0, wishes |-> 0, drops |-> 0]

-----------------------------------------------------------------------------
(* SharedState::set(): the version moves on when the value does.           *)

Set(v) == /\ value' = v
          /\ moved' = (moved \/ v # value) /\ shadow_moved' = (shadow_moved \/ v # value)

Clamp(v)    == IF v < Min THEN Min ELSE IF v > Max THEN Max ELSE v

-----------------------------------------------------------------------------
(* publish_state(), on the main task                                       *)

BeginState ==
  /\ main = "run" /\ connected /\ moved
  /\ main' = "state" /\ todo' = Keys
  /\ UNCHANGED <<device, link, connected, report, outbox, inbox, cloud, seen, used>>
(* QoS 0: a connection that is lost takes it, and it is cached all the same *)
PublishKey ==
  /\ main = "state"
  /\ \E k \in todo :
       /\ todo' = todo \ {k}
       /\ cache' = [cache EXCEPT ![k] = value[k]]
       /\ seen' = IF value[k] # cache[k] /\ link = "up" THEN [seen EXCEPT ![k] = value[k]]
                  ELSE seen
  /\ UNCHANGED <<value, moved, shadow_moved, shadow_dirty, link, connected, main, report,
                 outbox, inbox, cloud, used>>
EndState ==
  /\ main = "state" /\ todo = {}
  /\ main' = "run" /\ moved' = FALSE
  /\ UNCHANGED <<value, shadow_moved, shadow_dirty, cache, link, connected, todo, report,
                 outbox, inbox, cloud, seen, used>>

-----------------------------------------------------------------------------
(* publish_shadow_reported()                                               *)

Due == shadow_dirty \/ shadow_moved
BeginShadow ==
  /\ main = "run" /\ connected /\ Due
  /\ main' = "shadow" /\ todo' = Keys
  /\ UNCHANGED <<device, link, connected, report, outbox, inbox, cloud, seen, used>>
ReadKey ==
  /\ main = "shadow"
  /\ \E k \in todo : todo' = todo \ {k} /\ report' = [report EXCEPT ![k] = value[k]]
  /\ UNCHANGED <<device, link, connected, main, outbox, inbox, cloud, seen, used>>
(* QoS 1.  The version is asked for, and the flag cleared, after that.     *)
EndShadow ==
  /\ main = "shadow" /\ todo = {} /\ Len(outbox) < Capacity
  /\ main' = "run" /\ outbox' = Append(outbox, report)
  /\ shadow_moved' = FALSE /\ shadow_dirty' = FALSE
  /\ UNCHANGED <<value, moved, cache, link, connected, todo, report, inbox, cloud, seen, used>>

MainTask == BeginState \/ PublishKey \/ EndState \/ BeginShadow \/ ReadKey \/ EndShadow

-----------------------------------------------------------------------------
(* mqtt_event_handler(), on the task of esp-mqtt                           *)

OnConnected ==
  /\ connected' = TRUE
  /\ cache' = [k \in Keys |-> Unset] /\ moved' = TRUE
  /\ shadow_dirty' = TRUE /\ shadow_moved' = TRUE
  /\ UNCHANGED value
(* In the middle of a publication too, where the version may be taken for  *)
(* published although the keys are to be told again.                       *)
Connects ==
  /\ link = "down" /\ link' = "up" /\ OnConnected
  /\ UNCHANGED <<publishing, outbox, inbox, cloud, seen, used>>
OnDisconnected ==
  /\ link = "lost" /\ link' = "down" /\ connected' = FALSE
  /\ UNCHANGED <<device, publishing, outbox, inbox, cloud, seen, used>>

(* handle_shadow_delta()                                                   *)
Applied(d) == [k \in Keys |-> IF d[k] = Unset THEN value[k] ELSE Clamp(d[k])]
HandleDelta ==
  /\ link = "up" /\ inbox # <<>> /\ inbox' = Tail(inbox)
  /\ Set(Applied(Head(inbox)))
  /\ shadow_dirty' = TRUE
  /\ UNCHANGED <<cache, link, connected, publishing, outbox, cloud, seen, used>>

(* handle_incoming(): a command of the cloud; a setting made at the device *)
(* or by another client.                                                   *)
Command ==
  /\ Use("sets", MaxSets)
  /\ \E k \in Keys, v \in (Min - 1)..(Max + 1) : Set([value EXCEPT ![k] = Clamp(v)])
  /\ UNCHANGED <<shadow_dirty, cache, link, connected, publishing, outbox, inbox, cloud, seen>>
OtherKeyChanges ==
  /\ Telemetry /\ ~(moved /\ shadow_moved)
  /\ moved' = TRUE /\ shadow_moved' = TRUE
  /\ UNCHANGED <<value, shadow_dirty, cache, link, connected, publishing, outbox, inbox, cloud,
                 seen, used>>

-----------------------------------------------------------------------------
(* The network and AWS                                                     *)

Difference(want, is) ==
  [k \in Keys |-> IF want[k] # Unset /\ want[k] # is[k] THEN want[k] ELSE Unset]
Nothing == [k \in Keys |-> Unset]
Notify(want, is) ==
  inbox' = IF Difference(want, is) = Nothing \/ link # "up" THEN inbox
           ELSE Append(inbox, Difference(want, is))

Deliver ==
  /\ link = "up" /\ outbox # <<>> /\ Len(inbox) < Capacity
  /\ outbox' = Tail(outbox) /\ reported' = Head(outbox)
  /\ Notify(desired, Head(outbox))
  /\ UNCHANGED <<device, link, connected, publishing, desired, seen, used>>
Wish ==
  /\ Use("wishes", MaxWishes) /\ Len(inbox) < Capacity
  /\ \E k \in Keys, v \in Wishes : desired' = [desired EXCEPT ![k] = v]
  /\ Notify(desired', reported)
  /\ UNCHANGED <<device, link, connected, publishing, outbox, reported, seen>>
(* What was under way to the device is gone: the session is a clean one.   *)
Drop ==
  /\ link = "up" /\ Use("drops", MaxDrops)
  /\ link' = "lost" /\ inbox' = <<>>
  /\ UNCHANGED <<device, connected, publishing, outbox, cloud, seen>>

EventTask == Connects \/ OnDisconnected \/ HandleDelta
Next == MainTask \/ EventTask \/ Command \/ OtherKeyChanges \/ Deliver \/ Wish \/ Drop

(* The loop turns, both publications come round again and again, events    *)
(* are handled, an outage ends, and the outbox is sent while it has not    *)
(* come back.                                                              *)
Fairness ==
  /\ WF_vars(PublishKey) /\ WF_vars(EndState) /\ WF_vars(ReadKey) /\ WF_vars(EndShadow)
  /\ SF_vars(BeginState) /\ SF_vars(BeginShadow)
  /\ WF_vars(Connects) /\ WF_vars(OnDisconnected) /\ WF_vars(HandleDelta)
  /\ WF_vars(Deliver) /\ WF_vars(OtherKeyChanges)
Spec == Init /\ [][Next]_vars /\ Fairness

-----------------------------------------------------------------------------
Values == [Keys -> Unset..Max]
TypeOK ==
  /\ value \in [Keys -> InRange] /\ cache \in Values /\ seen \in Values
  /\ {moved, shadow_moved, shadow_dirty, connected} \subseteq BOOLEAN
  /\ link \in {"up", "lost", "down"} /\ main \in {"run", "state", "shadow"}
  /\ todo \subseteq Keys /\ report \in Values /\ reported \in Values
  /\ desired \in [Keys -> Wishes \cup {Unset}]
  /\ Len(outbox) <= Capacity /\ Len(inbox) <= Capacity

(* What the cloud asked for last is what the device does, whatever was set *)
(* at the device, whatever was lost on the way and in whatever order stale *)
(* differences arrived.                                                    *)
DesiredIsReached == <>[](\A k \in Keys : desired[k] \in InRange => value[k] = desired[k])

(* "SharedState writes mirror to `shadow/update`": what the shadow reports *)
(* is what the device does.                                                *)
ReportedIsCurrent == <>[](reported = value)

(* "force full publish": after any loss of the connection subscribers      *)
(* learn the values they have missed.                                      *)
SubscribersAreCurrent == <>[](seen = value)

(* "to clear the delta": what was applied and reported is not sent again.  *)
DeltaClears == <>[](inbox = <<>>)
=============================================================================
