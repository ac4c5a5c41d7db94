---------------------------- MODULE MqttService ----------------------------
(* mqtt_service.cpp: the life of the MQTT client and the publication of the  *)
(* shared state.  The main task runs on_update; each client of esp-mqtt has  *)
(* a task of its own that connects and calls the event handler; a short task *)
(* stops a client that is replaced; the HTTP task and the commands of the    *)
(* cloud change the configuration.  Nothing locks the fields they share.     *)
EXTENDS Integers, Sequences

CONSTANTS Alarms,       \* keys of the manifests' mqtt.alarm sections
          Others,       \* the other published keys
          Tenants,      \* tenants, hence topic prefixes
          INITIAL_RECONNECT, MAX_RECONNECT,
          Parallel,     \* may the state change while publish_state runs
          LoneCreds,    \* may new credentials come without a new tenant
          MaxSets, MaxDrops, MaxSaves, MaxFailures, MaxRequests   \* bounds

Keys == Alarms \cup Others
KeysDiffer == Alarms \cap Others = {}

VARIABLES cfg,        \* enabled_, the tenant behind prefix_, the credentials
          client,     \* client_
          old,        \* stopping_client_
          stopping, connected, reconnect_requested,
          timer, delay,        \* reconnect_timer_ms_, reconnect_delay_ms_
          value, version,      \* the shared state
          last_version, cache, \* last_version_, last_payloads_
          todo,       \* keys publish_state still has to look at
          main,       \* where on_update stands: run, publish
          http,       \* where a save stands: idle, enabled, request
          wifi,       \* wifi.connected
          seen,       \* what subscribers know of each prefix
          used
vars == <<cfg, client, old, stopping, connected, reconnect_requested, timer, delay, value,
          version, last_version, cache, todo, main, http, wifi, seen, used>>
settings == <<cfg, http>>
link == <<client, old, stopping, connected, reconnect_requested, timer, delay>>
publishing == <<last_version, cache, todo, main>>
world == <<value, version, wifi, used>>

Unpublished == -1
Use(k, bound) == used[k] < bound /\ used' = [used EXCEPT ![k] = @ + 1]

\* A client of esp-mqtt: the configuration it was started with, its connection,
\* and its outbox of unacknowledged QoS 1 messages.
NoCfg == [enabled |-> FALSE, tenant |-> CHOOSE t \in Tenants : TRUE, creds |-> 0]
NoClient == [state |-> "none", cfg |-> NoCfg, out |-> << >>]
NewClient == [state |-> "connecting", cfg |-> cfg, out |-> << >>]

Init ==
  /\ cfg \in [enabled : BOOLEAN, tenant : {CHOOSE t \in Tenants : TRUE}, creds : {0}]
  /\ client = NoClient /\ old = NoClient
  /\ stopping = FALSE /\ connected = FALSE /\ reconnect_requested = FALSE
  /\ timer = 0 /\ delay = INITIAL_RECONNECT
  /\ value = [k \in Keys |-> 0] /\ version = 1
  /\ last_version = 0 /\ cache = [k \in Keys |-> Unpublished] /\ todo = {}
  /\ main = "run" /\ http = "idle" /\ wifi \in BOOLEAN
  /\ seen = [t \in Tenants |-> [k \in Keys |-> Unpublished]]
  /\ used = [sets |-> 0, drops |-> 0, saves |-> 0, failures |-> 0, requests |-> 0]

----------------------------------------------------------------------------
(* on_update, on the main task.                                              *)

\* stop_client_async: the client is detached and handed to the stop task.
StopsOld == client.state # "none"
Detach ==
  /\ old' = client /\ client' = NoClient /\ stopping' = TRUE /\ connected' = FALSE
\* No task could be created: the old client is stopped here and now.
Inline ==
  /\ client' = IF cfg.enabled THEN NewClient ELSE NoClient
  /\ connected' = FALSE
  /\ UNCHANGED <<old, stopping>>

NeverHeld == FALSE
Held == stopping
ExecuteReconnect ==
  /\ main = "run" /\ reconnect_requested /\ ~Held
  /\ reconnect_requested' = FALSE
  /\ \/ StopsOld /\ Detach /\ UNCHANGED used
     \/ StopsOld /\ Use("failures", MaxFailures) /\ Inline
     \/ ~StopsOld /\ Inline /\ UNCHANGED used
  /\ UNCHANGED <<settings, timer, delay, publishing, value, version, wifi, seen>>

Free == main = "run" /\ ~reconnect_requested /\ ~Held

\* The deferred start waits for wifi.connected; a start that fails is tried again.
DeferredStart ==
  /\ Free /\ client.state = "none" /\ cfg.enabled /\ wifi
  /\ client' = NewClient
  /\ UNCHANGED <<settings, old, stopping, connected, reconnect_requested, timer, delay,
                 publishing, world, seen>>

\* esp_mqtt_client_reconnect only helps a client that waits.
BackoffUncapped(d) == 2 * d
Backoff(d) == IF 2 * d > MAX_RECONNECT THEN MAX_RECONNECT ELSE 2 * d
Reconnect ==
  /\ Free /\ client.state # "none" /\ ~connected /\ cfg.enabled
  /\ IF timer + 1 >= delay
     THEN /\ timer' = 0 /\ delay' = Backoff(delay)
          /\ client' = [client EXCEPT !.state = IF @ = "waiting" THEN "connecting" ELSE @]
     ELSE timer' = timer + 1 /\ UNCHANGED <<delay, client>>
  /\ UNCHANGED <<settings, old, stopping, connected, reconnect_requested,
                 publishing, world, seen>>

----------------------------------------------------------------------------
(* publish_state.                                                            *)
BeginPublish ==
  /\ Free /\ cfg.enabled /\ connected /\ client.state # "none" /\ version # last_version
  /\ main' = "publish" /\ todo' = Keys
  /\ UNCHANGED <<settings, link, last_version, cache, world, seen>>

Cached(k) == cache' = [cache EXCEPT ![k] = value[k]]
Received(c, k, v) == seen' = [seen EXCEPT ![c.tenant][k] = v]

\* A key whose payload is the cached one is not published.
Unchanged(k) == value[k] = cache[k] /\ UNCHANGED <<cache, client, seen, used>>
\* QoS 1: into the outbox, unless there is no room; then it is not cached.
PublishAlarm(k) ==
  /\ value[k] # cache[k]
  /\ \/ client' = [client EXCEPT !.out = Append(@, [tenant |-> cfg.tenant, key |-> k, v |-> value[k]])]
        /\ Cached(k) /\ UNCHANGED used
     \/ Use("failures", MaxFailures) /\ UNCHANGED <<client, cache>>
  /\ UNCHANGED seen
\* QoS 0: sent if the connection stands, and cached whether it was or not.
PublishPlain(k) ==
  /\ value[k] # cache[k]
  /\ IF client.state = "up" THEN Received(cfg, k, value[k]) ELSE UNCHANGED seen
  /\ Cached(k) /\ UNCHANGED <<client, used>>

PublishKey ==
  /\ main = "publish"
  /\ \E k \in todo :
       /\ todo' = todo \ {k}
       /\ Unchanged(k) \/ (k \in Alarms /\ PublishAlarm(k)) \/ (k \in Others /\ PublishPlain(k))
  /\ UNCHANGED <<settings, old, stopping, connected, reconnect_requested, timer, delay,
                 last_version, main, value, version, wifi>>
\* The version is the one at the end of the loop.
EndPublish ==
  /\ main = "publish" /\ todo = {}
  /\ main' = "run" /\ last_version' = version
  /\ UNCHANGED <<settings, link, cache, todo, world, seen>>

MainTask == ExecuteReconnect \/ DeferredStart \/ Reconnect \/ BeginPublish \/ PublishKey
              \/ EndPublish

----------------------------------------------------------------------------
(* The stop task.                                                            *)
stop_task ==
  /\ stopping /\ stopping' = FALSE /\ old' = NoClient /\ connected' = FALSE
  /\ UNCHANGED <<settings, client, reconnect_requested, timer, delay, publishing, world, seen>>

----------------------------------------------------------------------------
(* A client's own task: c is client or old.  A client that is being stopped  *)
(* may still finish its connection and call the handler.                     *)
OnConnected ==
  /\ connected' = TRUE /\ timer' = 0 /\ delay' = INITIAL_RECONNECT /\ last_version' = 0
DisconnectKeepsFlag == timer' = 0 /\ UNCHANGED <<connected, delay, last_version>>
OnDisconnected == connected' = FALSE /\ timer' = 0 /\ UNCHANGED <<delay, last_version>>

Connects(c) == c.state = "connecting" /\ wifi /\ OnConnected
ConnectFails(c) == c.state = "connecting" /\ ~wifi /\ OnDisconnected
\* The event of a lost connection comes after the loss.
Lost(c) == c.state = "lost" /\ OnDisconnected
Happens(c) == Connects(c) \/ ConnectFails(c) \/ Lost(c)
After(c) == [c EXCEPT !.state = IF @ = "connecting" /\ wifi THEN "up" ELSE "waiting"]
ClientEvent ==
  /\ \/ Happens(client) /\ client' = After(client) /\ UNCHANGED old
     \/ Happens(old) /\ old' = After(old) /\ UNCHANGED client
  /\ UNCHANGED <<settings, stopping, reconnect_requested, cache, todo, main, world, seen>>

\* An unacknowledged message is sent, again if need be, while the client lives.
Deliver ==
  /\ client.state = "up" /\ client.out # << >>
  /\ LET m == Head(client.out) IN seen' = [seen EXCEPT ![m.tenant][m.key] = m.v]
  /\ client' = [client EXCEPT !.out = Tail(@)]
  /\ UNCHANGED <<settings, old, stopping, connected, reconnect_requested, timer, delay,
                 publishing, world>>

\* Commands of the cloud, handled on the client's task.
SetTenant ==
  /\ client.state = "up" /\ Use("saves", MaxSaves)
  /\ cfg' \in {[cfg EXCEPT !.tenant = t] : t \in Tenants \ {cfg.tenant}}
  /\ reconnect_requested' = TRUE
  /\ UNCHANGED <<http, client, old, stopping, connected, timer, delay, publishing, value,
                 version, wifi, seen>>
SetCreds ==
  /\ LoneCreds /\ client.state = "up" /\ Use("saves", MaxSaves)
  /\ cfg' = [cfg EXCEPT !.creds = @ + 1]
  /\ UNCHANGED <<http, link, publishing, value, version, wifi, seen>>
RequestFullState ==
  /\ client.state = "up" /\ Use("requests", MaxRequests)
  /\ cache' = [k \in Keys |-> Unpublished] /\ last_version' = 0
  /\ UNCHANGED <<settings, link, todo, main, value, version, wifi, seen>>

----------------------------------------------------------------------------
(* handle_post_mqtt on the HTTP task: save_config field by field, then       *)
(* reconnect.                                                                *)
SaveTenant ==
  /\ http = "idle" /\ Use("saves", MaxSaves)
  /\ \E t \in Tenants : cfg' = [cfg EXCEPT !.tenant = t]
  /\ http' = "enabled"
  /\ UNCHANGED <<link, publishing, value, version, wifi, seen>>
SaveEnabled ==
  /\ http = "enabled" /\ \E e \in BOOLEAN : cfg' = [cfg EXCEPT !.enabled = e]
  /\ http' = "request"
  /\ UNCHANGED <<link, publishing, world, seen>>
RequestReconnect ==
  /\ http = "request" /\ http' = "idle" /\ reconnect_requested' = TRUE
  /\ UNCHANGED <<cfg, client, old, stopping, connected, timer, delay, publishing, world, seen>>
HttpTask == SaveEnabled \/ RequestReconnect

----------------------------------------------------------------------------
(* The rest of the device and the network.                                   *)
StateChanges ==
  /\ Parallel \/ main = "run"
  /\ Use("sets", MaxSets)
  /\ \E k \in Keys : value' = [value EXCEPT ![k] = @ + 1]
  /\ version' = version + 1
  /\ UNCHANGED <<settings, link, publishing, wifi, seen>>
Drop ==
  /\ client.state = "up" /\ Use("drops", MaxDrops)
  /\ client' = [client EXCEPT !.state = "lost"] /\ wifi' \in BOOLEAN
  /\ UNCHANGED <<settings, old, stopping, connected, reconnect_requested, timer, delay,
                 publishing, value, version, seen>>
WifiReturns ==
  /\ ~wifi /\ wifi' = TRUE
  /\ UNCHANGED <<settings, link, publishing, value, version, used, seen>>

Next == MainTask \/ stop_task \/ ClientEvent \/ Deliver \/ SetTenant \/ SetCreds
          \/ RequestFullState \/ SaveTenant \/ HttpTask \/ StateChanges \/ Drop \/ WifiReturns

\* The main loop turns, tasks run, a connection attempt ends within its time
\* limit, the outbox is sent while the connection stands, outages end.
Fairness ==
  /\ WF_vars(MainTask) /\ WF_vars(stop_task) /\ WF_vars(ClientEvent) /\ WF_vars(Deliver)
  /\ WF_vars(HttpTask) /\ WF_vars(WifiReturns)
Spec == Init /\ [][Next]_vars /\ Fairness

----------------------------------------------------------------------------
Clients == [state : {"none", "connecting", "waiting", "up", "lost"}, cfg : [enabled : BOOLEAN, tenant : Tenants, creds : 0..MaxSaves],
            out : Seq([tenant : Tenants, key : Keys, v : 0..MaxSets])]
TypeOK ==
  /\ cfg \in [enabled : BOOLEAN, tenant : Tenants, creds : 0..MaxSaves]
  /\ client \in Clients /\ old \in Clients
  /\ {stopping, connected, reconnect_requested, wifi} \subseteq BOOLEAN
  /\ timer \in 0..MAX_RECONNECT /\ delay \in INITIAL_RECONNECT..MAX_RECONNECT
  /\ value \in [Keys -> 0..MaxSets] /\ version \in 1..(MaxSets + 1)
  /\ last_version \in 0..(MaxSets + 1) /\ cache \in [Keys -> Unpublished..MaxSets]
  /\ todo \subseteq Keys /\ main \in {"run", "publish"}
  /\ http \in {"idle", "enabled", "request"}
  /\ seen \in [Tenants -> [Keys -> Unpublished..MaxSets]]

\* Two clients with one client_id would have the broker drop one of them: a new
\* one exists only when the one it replaces is gone, however often and from
\* however many tasks a reconnect is asked for.
OneClient == client.state = "none" \/ old.state = "none"

\* connected_ tells the truth of the client that serves: an old client whose
\* connection completes while it is being stopped leaves no trace.
ConnectedIsTrue == ~stopping => (connected <=> client.state \in {"up", "lost"})

\* Whatever is saved, and whenever, the client that runs in the end was started
\* with it (or none runs, when the service was switched off): no request to
\* reconnect is forgotten because another was being carried out.
ConfigIsApplied ==
  <>[](IF cfg.enabled THEN client.cfg = cfg ELSE client.state = "none")

\* However often the connection is lost, an enabled service ends up connected.
Reconnects == <>[]cfg.enabled => <>[](connected /\ client.state = "up")

\* An alarm is not lost: with the connection lost and made again at any point
\* between the change and the acknowledgement, subscribers learn its last value.
Told(K) == \A k \in K : seen[cfg.tenant][k] = value[k]
AlarmsArrive == <>[]cfg.enabled => <>[]Told(Alarms)

\* The same of every published key: a new connection publishes the full state.
\* Broken by the code: a value sent into a connection that was just lost
\* stays unpublished after the next one.
AllArrives == <>[]cfg.enabled => <>[]Told(Keys)
============================================================================
