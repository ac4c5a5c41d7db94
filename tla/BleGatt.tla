------------------------------- MODULE BleGatt -------------------------------
(***************************************************************************)
(* The peripheral of modesp_ble: it advertises, lets one central connect,  *)
(* notifies it of the published keys about once a second, takes commands   *)
(* and, while the device is an access point, the credentials of a network. *)
(* The callbacks run on the NimBLE host task, on_update on the main task;  *)
(* they share the handle, the subscription and the cache without a lock.   *)
(***************************************************************************)
EXTENDS Naturals, Sequences

CONSTANTS
  N,             \* published keys, in the order they are serialised
  Values,
  MaxConnects, MaxChanges, MaxMtu,   \* bounds on the central's behaviour
  MaxFaults,     \* host resets and failed connections (bound)
  MaxLost        \* notifications for which there is no buffer (bound)

ConstantsAssumption == N \in Nat \ {0} /\ Values # {}

None == 0
Empty == <<"never sent">>

VARIABLES
  synced, adv,   \* the host is in step; the controller advertises
  conn,          \* the central's connection, None without one
  fit,           \* keys that fit its MTU
  handle, subscribed, last,   \* conn_handle_, telemetry_subscribed_, last_telemetry_
  value,         \* the published keys of the shared state
  main, buf, to, \* where on_update stands, what it has serialised, its receiver
  seen,          \* the last notification the central has got
  ap, creds, applied, reconnect, prov,  \* provisioning, and where it stands
  used           \* what was spent of each bound

link == <<synced, adv, conn, fit>>
cache == <<handle, subscribed, last>>
update == <<main, buf, to>>
wifi == <<ap, creds, applied, reconnect, prov>>
vars == <<link, cache, value, update, seen, wifi, used>>

Budget == [connects |-> MaxConnects, changes |-> MaxChanges, mtu |-> MaxMtu,
           faults |-> MaxFaults, lost |-> MaxLost]
Spend(b) == used[b] < Budget[b] /\ used' = [used EXCEPT ![b] = @ + 1]

Init ==
  /\ synced = FALSE /\ adv = FALSE /\ conn = None /\ fit = 0
  /\ handle = None /\ subscribed = FALSE /\ last = Empty
  /\ value \in [1..N -> Values]
  /\ main = "idle" /\ buf = <<>> /\ to = None /\ seen = Empty
  /\ ap = TRUE /\ creds = 0 /\ applied = 0 /\ reconnect = FALSE /\ prov = "idle"
  /\ used = [b \in DOMAIN Budget |-> 0]

(***************************************************************************)
(* The host task.                                                          *)
(***************************************************************************)
StartAdvertising == adv' = TRUE

Sync ==
  /\ ~synced /\ synced' = TRUE /\ StartAdvertising
  /\ UNCHANGED <<conn, fit, cache, value, update, seen, wifi, used>>

OnGattConnect(c) == handle' = c /\ UNCHANGED <<subscribed, last>>

OnGattDisconnect == handle' = None /\ subscribed' = FALSE /\ last' = Empty

Connect ==
  /\ adv /\ Spend("connects")
  /\ conn' = used["connects"] + 1 /\ fit' = 0 /\ adv' = FALSE /\ seen' = Empty
  /\ OnGattConnect(conn')
  /\ UNCHANGED <<synced, value, update, wifi>>

ConnectFails ==                        \* the controller has stopped advertising
  /\ adv /\ Spend("faults")
  /\ StartAdvertising
  /\ UNCHANGED <<synced, conn, fit, cache, value, update, seen, wifi>>

Disconnect ==
  /\ conn # None
  /\ conn' = None /\ OnGattDisconnect /\ StartAdvertising
  /\ UNCHANGED <<synced, fit, value, update, seen, wifi, used>>

StackReset ==                          \* the stack ends the connection itself
  /\ synced /\ Spend("faults")
  /\ synced' = FALSE /\ adv' = FALSE /\ conn' = None
  /\ IF conn # None THEN OnGattDisconnect ELSE UNCHANGED cache
  /\ UNCHANGED <<fit, value, update, seen, wifi>>

(* A central that subscribes knows nothing yet.                            *)
Subscribe(on) ==
  /\ conn # None /\ Spend("changes")
  /\ subscribed' = on /\ handle' = conn /\ last' = Empty
  /\ seen' = IF on THEN Empty ELSE seen
  /\ UNCHANGED <<link, value, update, wifi>>

ExchangeMtu ==
  /\ conn # None /\ Spend("mtu")
  /\ fit' \in 0..N
  /\ UNCHANGED <<synced, adv, conn, cache, value, update, seen, wifi>>

ApplyCommand(k, v) ==                  \* or any other writer of the state
  /\ Spend("changes")
  /\ value' = [value EXCEPT ![k] = v]
  /\ UNCHANGED <<link, cache, update, seen, wifi>>

(* save_credentials, and request_reconnect once it has succeeded.          *)
SaveCredentials ==
  /\ conn # None /\ ap /\ Spend("changes")
  /\ creds' = creds + 1 /\ prov' = "request"
  /\ UNCHANGED <<link, cache, value, update, seen, ap, applied, reconnect>>

RequestReconnect ==
  /\ prov = "request"
  /\ prov' = "idle" /\ reconnect' = TRUE
  /\ UNCHANGED <<link, cache, value, update, seen, ap, creds, applied, used>>

(***************************************************************************)
(* The main task.                                                          *)
(***************************************************************************)
Goto(place) == main' = place

BeginUpdate ==                         \* once a second
  /\ main = "idle" /\ handle # None /\ subscribed
  /\ Goto("serialize") /\ buf' = <<>> /\ UNCHANGED to
  /\ UNCHANGED <<link, cache, value, seen, wifi, used>>

Serialize ==                           \* each key is read under the lock of its own
  /\ main = "serialize"
  /\ IF Len(buf) < fit
     THEN buf' = Append(buf, value[Len(buf) + 1]) /\ UNCHANGED main
     ELSE UNCHANGED buf /\ Goto(IF buf = last THEN "idle" ELSE "cache")
  /\ UNCHANGED <<link, cache, value, to, seen, wifi, used>>

CacheValue ==
  /\ main = "cache"
  /\ last' = buf /\ to' = handle /\ Goto("notify")
  /\ UNCHANGED <<link, handle, subscribed, value, buf, seen, wifi, used>>

Notify ==
  /\ main = "notify"
  /\ Goto("idle")
  /\ \/ seen' = (IF conn # None /\ conn = to THEN buf ELSE seen) /\ UNCHANGED used
     \/ UNCHANGED seen /\ Spend("lost")       \* no mbuf
  /\ UNCHANGED <<link, cache, value, buf, to, wifi>>

Reconnect ==                           \* the Wi-Fi service, on the same task
  /\ main = "idle" /\ reconnect
  /\ reconnect' = FALSE /\ applied' = creds /\ UNCHANGED <<ap, creds, prov>>
  /\ UNCHANGED <<link, cache, value, update, seen, used>>

Joined ==
  /\ ap /\ applied # 0 /\ ap' = FALSE
  /\ UNCHANGED <<link, cache, value, update, seen, creds, applied, reconnect, prov, used>>

MainTask == BeginUpdate \/ Serialize \/ CacheValue \/ Notify \/ Reconnect

HostTask ==
  \/ RequestReconnect
  \/ /\ prov = "idle"
     /\ \/ Sync \/ StackReset \/ Connect \/ ConnectFails \/ Disconnect \/ ExchangeMtu
        \/ \E on \in BOOLEAN : Subscribe(on)
        \/ SaveCredentials

Next ==
  \/ HostTask \/ MainTask \/ Joined
  \/ \E k \in 1..N, v \in Values : ApplyCommand(k, v)

Fairness == WF_vars(Sync) /\ WF_vars(RequestReconnect)
            /\ WF_vars(BeginUpdate \/ Serialize \/ CacheValue \/ Notify)
            /\ SF_vars(Reconnect)
Spec == Init /\ [][Next]_vars
LiveSpec == Spec /\ Fairness

(***************************************************************************)
(* Properties.                                                             *)
(***************************************************************************)
Payloads == UNION {[1..n -> Values] : n \in 0..N} \cup {Empty}

TypeOK ==
  /\ {synced, adv, subscribed, ap, reconnect} \subseteq BOOLEAN
  /\ {conn, handle, to} \subseteq 0..MaxConnects /\ fit \in 0..N
  /\ {last, buf, seen} \subseteq Payloads
  /\ value \in [1..N -> Values]
  /\ main \in {"idle", "serialize", "cache", "notify"}
  /\ {creds, applied} \subseteq 0..MaxChanges
  /\ used \in [DOMAIN Budget -> Nat]

(* Whatever ends a connection or makes one fail, the device can be reached
   again: a synced host advertises or has its central (gap_event).         *)
Reachable == synced => adv \/ conn # None

(* on_update never takes a connection for alive that the host task has seen
   end: the handle and the subscription go with the connection.            *)
HandleIsLive == /\ handle = conn
                /\ subscribed => conn # None

(* A central that stays subscribed has, in the end, the present value of all
   keys its MTU has room for, although the cache is cleared by one task and
   filled by the other ("force first notify after (un)subscribe").         *)
TelemetryArrives ==
  <>[](conn # None /\ subscribed) => <>[](seen = SubSeq(value, 1, fit))

(* Credentials a central saved are used in the end: the request is made after
   they are stored, so that the main task cannot consume it too early.     *)
SavedIsApplied == creds # applied ~> creds = applied
==============================================================================
