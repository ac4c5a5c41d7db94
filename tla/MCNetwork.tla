------------------------------ MODULE MCNetwork ------------------------------
(***************************************************************************)
(* The parts of ModESP that talk to browsers, networks, clouds and BLE     *)
(* devices, on small instances: one part runs in a behaviour, the others   *)
(* stand still.  They share no state but SharedState, which each of their  *)
(* modules models as far as it uses it.                                    *)
(***************************************************************************)
EXTENDS Integers, Sequences, FiniteSets

CONSTANT Parts  \* the parts that are run

VARIABLES
  part,   \* the one of this behaviour
  ws_map, changed_keys, force_full, ws_version, sets, session, client_fds, work, ws_main,
  handshake, view, missed,
  cred, auth_flash, unsaved, fail_count, lockout_until, now, auth_owner, answer, recent, wrong,
  settings_map, settings_flash, dirty, backup, job, accepted, late, changes,
  wifi_w, radio, queue, wifi_main, wifi_http, nvs, net, wifi_used,
  cfg, mqtt_client, old, stopping, mqtt_connected, reconnect_requested, timer, delay,
  mqtt_value, mqtt_version, last_version, mqtt_cache, mqtt_todo, mqtt_main, mqtt_http, wifi,
  mqtt_seen, mqtt_used,
  ota_flash, otadata, boot, phase, running, uptime, online, ota_http, ota_cloud,
  s_ota_in_progress,
  shadow_value, moved, shadow_moved, shadow_dirty, shadow_cache, shadow_link, shadow_connected,
  shadow_main, shadow_todo, report, outbox, inbox, desired, reported, shadow_seen, shadow_used,
  ram, cloud_flash, cert_loaded, request, handled, acknowledged, cloud_client, cloud_connected,
  network, ota, begun, cloud_cloud, announced, notified, handling, cloud_outbox, hanging,
  cloud_used,
  link_link, scan, link_synced, link_conn, cooldown, pc, sent, ok, jobs, mutex, link_owner,
  depth, sem, air, acked, faults, slow,
  gatt_synced, adv, gatt_conn, fit, handle, subscribed, last, gatt_value, gatt_main, buf, to,
  gatt_seen, ap, creds, applied, reconnect, prov, gatt_used,
  slots, observer_seen, count, published, binding, heard, since, frames

wsVars == <<ws_map, changed_keys, force_full, ws_version, sets, session, client_fds, work,
            ws_main, handshake, view, missed>>
authVars == <<cred, auth_flash, unsaved, fail_count, lockout_until, now, auth_owner, answer,
              recent, wrong>>
settingsVars == <<settings_map, settings_flash, dirty, backup, job, accepted, late, changes>>
wifiVars == <<wifi_w, radio, queue, wifi_main, wifi_http, nvs, net, wifi_used>>
mqttVars == <<cfg, mqtt_client, old, stopping, mqtt_connected, reconnect_requested, timer,
              delay, mqtt_value, mqtt_version, last_version, mqtt_cache, mqtt_todo, mqtt_main,
              mqtt_http, wifi, mqtt_seen, mqtt_used>>
otaVars == <<ota_flash, otadata, boot, phase, running, uptime, online, ota_http, ota_cloud,
             s_ota_in_progress>>
shadowVars == <<shadow_value, moved, shadow_moved, shadow_dirty, shadow_cache, shadow_link,
                shadow_connected, shadow_main, shadow_todo, report, outbox, inbox, desired,
                reported, shadow_seen, shadow_used>>
cloudVars == <<ram, cloud_flash, cert_loaded, request, handled, acknowledged, cloud_client,
               cloud_connected, network, ota, begun, cloud_cloud, announced, notified,
               handling, cloud_outbox, hanging, cloud_used>>
linkVars == <<link_link, scan, link_synced, link_conn, cooldown, pc, sent, ok, jobs, mutex,
              link_owner, depth, sem, air, acked, faults, slow>>
gattVars == <<gatt_synced, adv, gatt_conn, fit, handle, subscribed, last, gatt_value, gatt_main,
              buf, to, gatt_seen, ap, creds, applied, reconnect, prov, gatt_used>>
observerVars == <<slots, observer_seen, count, published, binding, heard, since, frames>>

vars == <<part, wsVars, authVars, settingsVars, wifiVars, mqttVars, otaVars, shadowVars, cloudVars,
          linkVars, gattVars, observerVars>>

A == <<"a">>   \* a name or half of a password, as characters

------------------------------------------------------------------------------
Ws == INSTANCE WsProofs WITH
  Key <- {"k1", "k2"}, Value <- {"a"}, NoValue <- "none", MODESP_MAX_STATE_ENTRIES <- 2,
  MAX_CHANGED_KEYS <- 1, VERSION_RANGE <- 1, Fd <- {5, 6}, NoFd <- -1, MAX_WS_CLIENTS <- 2,
  BufferEntries <- 2, Faults <- {"client_dropped", "send_error"}, Preempts <- FALSE,
  MaxSets <- 1, MaxWork <- 1, map <- ws_map, version <- ws_version, main <- ws_main

WsOne == INSTANCE WsProofs WITH
  Key <- {"k1", "k2"}, Value <- {"a", "b"}, NoValue <- "none", MODESP_MAX_STATE_ENTRIES <- 2,
  MAX_CHANGED_KEYS <- 1, VERSION_RANGE <- 1, Fd <- {5}, NoFd <- -1, MAX_WS_CLIENTS <- 1,
  BufferEntries <- 2, Faults <- {"client_dropped", "send_error"}, Preempts <- FALSE,
  MaxSets <- 2, MaxWork <- 2, map <- ws_map, version <- ws_version, main <- ws_main

WsFaults == INSTANCE WsProofs WITH
  Key <- {"k1", "k2"}, Value <- {"a"}, NoValue <- "none", MODESP_MAX_STATE_ENTRIES <- 2,
  MAX_CHANGED_KEYS <- 1, VERSION_RANGE <- 1, Fd <- {5, 6}, NoFd <- -1, MAX_WS_CLIENTS <- 2,
  BufferEntries <- 2,
  Faults <- {"state_dropped", "client_dropped", "delta_skipped", "send_error"},
  Preempts <- TRUE, MaxSets <- 1, MaxWork <- 1, map <- ws_map, version <- ws_version,
  main <- ws_main

WsLeft == INSTANCE WsProofs WITH
  Key <- {"k1", "k2"}, Value <- {"a", "b"}, NoValue <- "none", MODESP_MAX_STATE_ENTRIES <- 2,
  MAX_CHANGED_KEYS <- 1, VERSION_RANGE <- 1, Fd <- {5}, NoFd <- -1, MAX_WS_CLIENTS <- 1,
  BufferEntries <- 1,
  Faults <- {"state_dropped", "client_dropped", "delta_skipped", "send_error"},
  Preempts <- TRUE, MaxSets <- 2, MaxWork <- 2, map <- ws_map, version <- ws_version,
  main <- ws_main

------------------------------------------------------------------------------
Auth == INSTANCE HttpAuth WITH
  UserTexts <- {A, <<"b">>, <<"a", ":">>}, PassTexts <- {A \o A, <<"b", ":">>, A},
  FactoryUser <- A, FactoryPass <- A \o A, MIN_PASS <- 2, MAX_PASS <- 2, MAX_USER <- 2,
  AUTH_MAX_FAILURES <- 2, AUTH_LOCKOUT <- 2, TICKS <- 4, MaxWrong <- 3,
  Faults <- {"power_loss"}, flash <- auth_flash, owner <- auth_owner

AuthLive == INSTANCE HttpAuth WITH
  UserTexts <- {A, <<"a", ":">>}, PassTexts <- {A \o A, A}, FactoryUser <- A,
  FactoryPass <- A \o A, MIN_PASS <- 2, MAX_PASS <- 2, MAX_USER <- 2, AUTH_MAX_FAILURES <- 2,
  AUTH_LOCKOUT <- 2, TICKS <- 4, MaxWrong <- 3, Faults <- {"power_loss", "nvs_error"},
  flash <- auth_flash, owner <- auth_owner

------------------------------------------------------------------------------
Settings == INSTANCE HttpSettings WITH
  FloatKeys <- {"f"}, IntKeys <- {"i"}, BoolKeys <- {"b"}, ReadOnly <- {"i"}, MinVal <- 0,
  MaxVal <- 4, DefaultVal <- 4, SHOWN <- 2, WHOLE <- 4, Literals <- {"number", "true", "null"},
  Changes <- 2, map <- settings_map, flash <- settings_flash

------------------------------------------------------------------------------
Wifi == INSTANCE WifiService WITH
  RECONNECT <- 1, MAX_BACKOFF <- 2, MAX_RETRIES <- 1, PROBE_INITIAL <- 2, PROBE_MAX <- 3,
  PROBE_TIMEOUT <- 2, DEFER <- 1, MAX_DISCONNECT <- 9, STABLE <- 2, ATTEMPT <- 2,
  Nets <- {"up", "noip", "down"}, Stored <- {"none", "wrong", "right"}, MaxNet <- 1,
  MaxScans <- 0, MaxSaves <- 1, MaxReconnects <- 0, MaxCuts <- 1, w <- wifi_w,
  main <- wifi_main, http <- wifi_http, used <- wifi_used

WifiAsked == INSTANCE WifiService WITH
  RECONNECT <- 1, MAX_BACKOFF <- 2, MAX_RETRIES <- 1, PROBE_INITIAL <- 2, PROBE_MAX <- 3,
  PROBE_TIMEOUT <- 2, DEFER <- 1, MAX_DISCONNECT <- 9, STABLE <- 2, ATTEMPT <- 2,
  Nets <- {"up", "noip", "down"}, Stored <- {"none", "wrong", "right"}, MaxNet <- 1,
  MaxScans <- 0, MaxSaves <- 0, MaxReconnects <- 1, MaxCuts <- 0, w <- wifi_w,
  main <- wifi_main, http <- wifi_http, used <- wifi_used

WifiBack == INSTANCE WifiService WITH
  RECONNECT <- 1, MAX_BACKOFF <- 2, MAX_RETRIES <- 1, PROBE_INITIAL <- 2, PROBE_MAX <- 3,
  PROBE_TIMEOUT <- 3, DEFER <- 1, MAX_DISCONNECT <- 9, STABLE <- 2, ATTEMPT <- 1,
  Nets <- {"up", "down"}, Stored <- {"none", "right"}, MaxNet <- 2, MaxScans <- 1,
  MaxSaves <- 0, MaxReconnects <- 0, MaxCuts <- 0, w <- wifi_w, main <- wifi_main,
  http <- wifi_http, used <- wifi_used

WifiDog == INSTANCE WifiService WITH
  RECONNECT <- 1, MAX_BACKOFF <- 1, MAX_RETRIES <- 2, PROBE_INITIAL <- 2, PROBE_MAX <- 3,
  PROBE_TIMEOUT <- 2, DEFER <- 1, MAX_DISCONNECT <- 7, STABLE <- 6, ATTEMPT <- 2,
  Nets <- {"up", "down"}, Stored <- {"right"}, MaxNet <- 5, MaxScans <- 0, MaxSaves <- 0,
  MaxReconnects <- 0, MaxCuts <- 0, w <- wifi_w, main <- wifi_main, http <- wifi_http,
  used <- wifi_used

------------------------------------------------------------------------------
Mqtt == INSTANCE MqttService WITH
  Alarms <- {"al"}, Others <- {"temp"}, Tenants <- {"pending", "acme"}, INITIAL_RECONNECT <- 1,
  MAX_RECONNECT <- 2, Parallel <- TRUE, LoneCreds <- TRUE, MaxSets <- 0, MaxDrops <- 1,
  MaxSaves <- 2, MaxFailures <- 1, MaxRequests <- 0, client <- mqtt_client,
  connected <- mqtt_connected, value <- mqtt_value, version <- mqtt_version,
  cache <- mqtt_cache, todo <- mqtt_todo, main <- mqtt_main, http <- mqtt_http,
  seen <- mqtt_seen, used <- mqtt_used

MqttBack == INSTANCE MqttService WITH
  Alarms <- {"al"}, Others <- {"temp"}, Tenants <- {"pending", "acme"}, INITIAL_RECONNECT <- 1,
  MAX_RECONNECT <- 2, Parallel <- TRUE, LoneCreds <- FALSE, MaxSets <- 0, MaxDrops <- 1,
  MaxSaves <- 2, MaxFailures <- 0, MaxRequests <- 0, client <- mqtt_client,
  connected <- mqtt_connected, value <- mqtt_value, version <- mqtt_version,
  cache <- mqtt_cache, todo <- mqtt_todo, main <- mqtt_main, http <- mqtt_http,
  seen <- mqtt_seen, used <- mqtt_used

MqttAlarms == INSTANCE MqttService WITH
  Alarms <- {"al"}, Others <- {"temp"}, Tenants <- {"pending", "acme"}, INITIAL_RECONNECT <- 1,
  MAX_RECONNECT <- 2, Parallel <- FALSE, LoneCreds <- FALSE, MaxSets <- 2, MaxDrops <- 1,
  MaxSaves <- 0, MaxFailures <- 0, MaxRequests <- 1, client <- mqtt_client,
  connected <- mqtt_connected, value <- mqtt_value, version <- mqtt_version,
  cache <- mqtt_cache, todo <- mqtt_todo, main <- mqtt_main, http <- mqtt_http,
  seen <- mqtt_seen, used <- mqtt_used

------------------------------------------------------------------------------
Upload == INSTANCE Ota WITH
  Images <- {"v1", "mute", "crash", "other"}, Factory <- "v1", Good <- {"v1"},
  Crash <- {"crash"}, Stuck <- {}, Foreign <- {"other"}, NoMagic <- {}, NoDescriptor <- {},
  Size <- 3, ReadMost <- 2, ShortReads <- FALSE, MAX_RECV_TIMEOUTS <- 2, ValidationTime <- 2,
  AlwaysOnline <- FALSE, Uploads <- {"crash", "other"}, Downloads <- {"mute", "other"},
  flash <- ota_flash, http <- ota_http, cloud <- ota_cloud

Download == INSTANCE Ota WITH
  Images <- {"v1", "v2", "other", "text"}, Factory <- "v1", Good <- {"v1", "v2"}, Crash <- {},
  Stuck <- {}, Foreign <- {"other"}, NoMagic <- {"text"}, NoDescriptor <- {}, Size <- 3,
  ReadMost <- 2, ShortReads <- TRUE, MAX_RECV_TIMEOUTS <- 2, ValidationTime <- 2,
  AlwaysOnline <- FALSE, Uploads <- {}, Downloads <- {"v1", "v2", "other", "text"},
  flash <- ota_flash, http <- ota_http, cloud <- ota_cloud

UploadLive == INSTANCE Ota WITH
  Images <- {"v1", "mute", "crash", "other"}, Factory <- "v1", Good <- {"v1"},
  Crash <- {"crash"}, Stuck <- {}, Foreign <- {"other"}, NoMagic <- {}, NoDescriptor <- {},
  Size <- 3, ReadMost <- 2, ShortReads <- FALSE, MAX_RECV_TIMEOUTS <- 2, ValidationTime <- 2,
  AlwaysOnline <- FALSE, Uploads <- {"crash", "other"}, Downloads <- {"mute", "other"},
  flash <- ota_flash, http <- ota_http, cloud <- ota_cloud

------------------------------------------------------------------------------
Shadow == INSTANCE AwsShadow WITH
  Keys <- {"setpoint", "mode"}, Min <- 0, Max <- 1, Wishes <- {0, 1}, Telemetry <- TRUE,
  Capacity <- 1, MaxSets <- 1, MaxWishes <- 1, MaxDrops <- 0, value <- shadow_value,
  cache <- shadow_cache, link <- shadow_link, connected <- shadow_connected,
  main <- shadow_main, todo <- shadow_todo, seen <- shadow_seen, used <- shadow_used

ShadowLost == INSTANCE AwsShadow WITH
  Keys <- {"setpoint", "mode"}, Min <- 0, Max <- 1, Wishes <- {0, 1}, Telemetry <- TRUE,
  Capacity <- 1, MaxSets <- 0, MaxWishes <- 1, MaxDrops <- 1, value <- shadow_value,
  cache <- shadow_cache, link <- shadow_link, connected <- shadow_connected,
  main <- shadow_main, todo <- shadow_todo, seen <- shadow_seen, used <- shadow_used

------------------------------------------------------------------------------
Cloud == INSTANCE AwsCloud WITH
  Values <- [endpoint |-> {"broker"}, thing |-> {"none"}, enabled |-> {"true"}, cert |-> {"a", "b"}, key |-> {"a"}],
  Broker <- "broker", Pairs <- {"a", "b"}, Jobs <- 0, Cancels <- FALSE, Updates <- FALSE,
  MaxRequests <- 2, MaxOutages <- 0, MaxReboots <- 1, flash <- cloud_flash,
  client <- cloud_client, connected <- cloud_connected, cloud <- cloud_cloud,
  outbox <- cloud_outbox, used <- cloud_used

CloudTypo == INSTANCE AwsCloud WITH
  Values <- [endpoint |-> {"broker", "mistyped"}, thing |-> {"none"}, enabled |-> {"true"}, cert |-> {"a"}, key |-> {"a"}],
  Broker <- "broker", Pairs <- {"a", "b"}, Jobs <- 0, Cancels <- FALSE, Updates <- FALSE,
  MaxRequests <- 2, MaxOutages <- 0, MaxReboots <- 0, flash <- cloud_flash,
  client <- cloud_client, connected <- cloud_connected, cloud <- cloud_cloud,
  outbox <- cloud_outbox, used <- cloud_used

CloudJobs == INSTANCE AwsCloud WITH
  Values <- [endpoint |-> {"broker"}, thing |-> {"t1"}, enabled |-> {"true"}, cert |-> {"a"}, key |-> {"a"}],
  Broker <- "broker", Pairs <- {"a", "b"}, Jobs <- 2, Cancels <- TRUE, Updates <- TRUE,
  MaxRequests <- 1, MaxOutages <- 1, MaxReboots <- 1, flash <- cloud_flash,
  client <- cloud_client, connected <- cloud_connected, cloud <- cloud_cloud,
  outbox <- cloud_outbox, used <- cloud_used

------------------------------------------------------------------------------
Link == INSTANCE BleLink WITH
  Callers <- {"render", "module"}, Frames <- {"render"}, CHUNKS <- 2, Jobs <- 2, Locks <- 2,
  MaxFaults <- 2, SlowAcks <- 0, link <- link_link, synced <- link_synced, conn <- link_conn,
  owner <- link_owner

LinkSlow == INSTANCE BleLink WITH
  Callers <- {"render", "module"}, Frames <- {"render"}, CHUNKS <- 2, Jobs <- 1, Locks <- 0,
  MaxFaults <- 1, SlowAcks <- 1, link <- link_link, synced <- link_synced, conn <- link_conn,
  owner <- link_owner

------------------------------------------------------------------------------
Gatt == INSTANCE BleGatt WITH
  N <- 2, Values <- {"a", "b"}, MaxConnects <- 2, MaxChanges <- 2, MaxMtu <- 1, MaxFaults <- 1,
  MaxLost <- 0, synced <- gatt_synced, conn <- gatt_conn, value <- gatt_value,
  main <- gatt_main, seen <- gatt_seen, used <- gatt_used

GattLost == INSTANCE BleGatt WITH
  N <- 2, Values <- {"a", "b"}, MaxConnects <- 1, MaxChanges <- 2, MaxMtu <- 1, MaxFaults <- 1,
  MaxLost <- 1, synced <- gatt_synced, conn <- gatt_conn, value <- gatt_value,
  main <- gatt_main, seen <- gatt_seen, used <- gatt_used

------------------------------------------------------------------------------
Observer == INSTANCE BleObserver WITH
  Sensors <- {"s1", "s2"}, Panels <- {"p"}, Strangers <- {"x"}, Fields <- {"temp", "hum"},
  Values <- {"lo", "hi"}, MAX_SEEN <- 2, MAX_DEVICES <- 2, MaxFrames <- 3, seen <- observer_seen

------------------------------------------------------------------------------
(* What each part's constants are assumed to be. *)
ASSUME NetworkAssumption ==
  /\ Ws!StoreAssumption /\ WsOne!StoreAssumption /\ WsFaults!StoreAssumption
  /\ WsLeft!StoreAssumption
  /\ Ws!WsAssumption
  /\ WsOne!WsAssumption
  /\ WsFaults!WsAssumption
  /\ WsLeft!WsAssumption
  /\ Auth!HttpAuthAssumption
  /\ AuthLive!HttpAuthAssumption
  /\ Settings!HttpSettingsAssumption
  /\ Wifi!WatchdogIsSlow
  /\ WifiAsked!WatchdogIsSlow
  /\ WifiBack!WatchdogIsSlow
  /\ WifiDog!WatchdogIsSlow
  /\ Mqtt!KeysDiffer
  /\ MqttBack!KeysDiffer
  /\ MqttAlarms!KeysDiffer
  /\ Upload!OtaAssumption
  /\ Download!OtaAssumption
  /\ UploadLive!OtaAssumption
  /\ Shadow!AwsShadowAssumption
  /\ ShadowLost!AwsShadowAssumption
  /\ Cloud!AwsCloudAssumption
  /\ CloudTypo!AwsCloudAssumption
  /\ CloudJobs!AwsCloudAssumption
  /\ Link!ConstantsAssumption
  /\ LinkSlow!ConstantsAssumption
  /\ Gatt!ConstantsAssumption
  /\ GattLost!ConstantsAssumption
  /\ Observer!ConstantsAssumption

Init ==
  /\ part \in Parts
  /\ CASE part = "ws_one" -> WsOne!Init
       [] part = "ws_faults" -> WsFaults!Init
       [] part = "ws_left" -> WsLeft!Init
       [] OTHER -> Ws!Init
  /\ CASE part = "auth_live" -> AuthLive!Init
       [] OTHER -> Auth!Init
  /\ Settings!Init
  /\ CASE part = "wifi_asked" -> WifiAsked!Init
       [] part = "wifi_back" -> WifiBack!Init
       [] part = "wifi_dog" -> WifiDog!Init
       [] OTHER -> Wifi!Init
  /\ part \notin {"wifi", "wifi_asked", "wifi_back", "wifi_dog"} => nvs.name = "none" /\ net = "down"
  /\ CASE part = "mqtt_back" -> MqttBack!Init
       [] part = "mqtt_alarms" -> MqttAlarms!Init
       [] OTHER -> Mqtt!Init
  /\ part \notin {"mqtt", "mqtt_back", "mqtt_alarms"} => ~cfg.enabled /\ ~wifi
  /\ CASE part = "ota_cloud" -> Download!Init
       [] part = "ota_live" -> UploadLive!Init
       [] OTHER -> Upload!Init
  /\ CASE part = "shadow_lost" -> ShadowLost!Init
       [] OTHER -> Shadow!Init
  /\ CASE part = "cloud_typo" -> CloudTypo!Init
       [] part = "cloud_jobs" -> CloudJobs!Init
       [] OTHER -> Cloud!Init
  /\ part \notin {"cloud", "cloud_typo", "cloud_jobs"} => network
  /\ CASE part = "ble_slow" -> LinkSlow!Init
       [] OTHER -> Link!Init
  /\ CASE part = "ble_lost" -> GattLost!Init
       [] OTHER -> Gatt!Init
  /\ part \notin {"ble_gatt", "ble_lost"} => gatt_value = <<"a", "a">>
  /\ Observer!Init

(* All parts but one stand still.                                          *)
Only(key) ==
  /\ UNCHANGED part
  /\ IF key = "ws" THEN TRUE ELSE UNCHANGED wsVars
  /\ IF key = "auth" THEN TRUE ELSE UNCHANGED authVars
  /\ IF key = "settings" THEN TRUE ELSE UNCHANGED settingsVars
  /\ IF key = "wifi" THEN TRUE ELSE UNCHANGED wifiVars
  /\ IF key = "mqtt" THEN TRUE ELSE UNCHANGED mqttVars
  /\ IF key = "ota" THEN TRUE ELSE UNCHANGED otaVars
  /\ IF key = "shadow" THEN TRUE ELSE UNCHANGED shadowVars
  /\ IF key = "cloud" THEN TRUE ELSE UNCHANGED cloudVars
  /\ IF key = "link" THEN TRUE ELSE UNCHANGED linkVars
  /\ IF key = "gatt" THEN TRUE ELSE UNCHANGED gattVars
  /\ IF key = "observer" THEN TRUE ELSE UNCHANGED observerVars

RunWs ==
  /\ \/ part = "ws" /\ Ws!Next
     \/ part = "ws_one" /\ WsOne!Next
     \/ part = "ws_faults" /\ WsFaults!Next
     \/ part = "ws_left" /\ WsLeft!Next
  /\ Only("ws")
RunAuth ==
  /\ \/ part = "auth" /\ Auth!Next
     \/ part = "auth_live" /\ AuthLive!Next
  /\ Only("auth")
RunSettings == part = "settings" /\ Settings!Next /\ Only("settings")
RunWifi ==
  /\ \/ part = "wifi" /\ Wifi!Next
     \/ part = "wifi_asked" /\ WifiAsked!Next
     \/ part = "wifi_back" /\ WifiBack!Next
     \/ part = "wifi_dog" /\ WifiDog!Next
  /\ Only("wifi")
RunMqtt ==
  /\ \/ part = "mqtt" /\ Mqtt!Next
     \/ part = "mqtt_back" /\ MqttBack!Next
     \/ part = "mqtt_alarms" /\ MqttAlarms!Next
  /\ Only("mqtt")
RunOta ==
  /\ \/ part = "ota" /\ Upload!Next
     \/ part = "ota_cloud" /\ Download!Next
     \/ part = "ota_live" /\ UploadLive!Next
  /\ Only("ota")
RunShadow ==
  /\ \/ part = "shadow" /\ Shadow!Next
     \/ part = "shadow_lost" /\ ShadowLost!Next
  /\ Only("shadow")
RunCloud ==
  /\ \/ part = "cloud" /\ Cloud!Next
     \/ part = "cloud_typo" /\ CloudTypo!Next
     \/ part = "cloud_jobs" /\ CloudJobs!Next
  /\ Only("cloud")
RunLink ==
  /\ \/ part = "ble_link" /\ Link!Next
     \/ part = "ble_slow" /\ LinkSlow!Next
  /\ Only("link")
RunGatt ==
  /\ \/ part = "ble_gatt" /\ Gatt!Next
     \/ part = "ble_lost" /\ GattLost!Next
  /\ Only("gatt")
RunObserver == part = "ble_observer" /\ Observer!Next /\ Only("observer")

(* Those whose bounds or whose code let them come to an end.                *)
Rest == part \in {"mqtt", "mqtt_back", "mqtt_alarms", "cloud", "cloud_typo", "cloud_jobs",
                  "ble_link", "ble_slow", "ble_gatt", "ble_lost", "ble_observer"} /\ UNCHANGED vars

Next ==
  \/ RunWs
  \/ RunAuth
  \/ RunSettings
  \/ RunWifi
  \/ RunMqtt
  \/ RunOta
  \/ RunShadow
  \/ RunCloud
  \/ RunLink
  \/ RunGatt
  \/ RunObserver
  \/ Rest

Spec == Init /\ [][Next]_vars

------------------------------------------------------------------------------
(* The fairness of the parts, of the one that runs: what the Fairness of its *)
(* module says, and nothing of the parts that stand still.                   *)
AuthLiveFair ==
  /\ WF_authVars(part = "auth_live" /\ AuthLive!SaveAuth(TRUE))
  /\ WF_authVars(part = "auth_live" /\ AuthLive!Tick)
  /\ SF_authVars(part = "auth_live" /\ AuthLive!SignIn(auth_owner))
  /\ WF_authVars(part = "auth_live" /\ AuthLive!Rejected(auth_owner))
WifiBackFair ==
  /\ WF_wifiVars(part = "wifi_back" /\ WifiBack!MainTask)
  /\ WF_wifiVars(part = "wifi_back" /\ WifiBack!HandleEvent)
  /\ WF_wifiVars(part = "wifi_back" /\ WifiBack!Attempt)
  /\ WF_wifiVars(part = "wifi_back" /\ WifiBack!Lease)
  /\ WF_wifiVars(part = "wifi_back" /\ WifiBack!HttpTask)
MqttBackFair ==
  /\ WF_mqttVars(part = "mqtt_back" /\ MqttBack!MainTask)
  /\ WF_mqttVars(part = "mqtt_back" /\ MqttBack!stop_task)
  /\ WF_mqttVars(part = "mqtt_back" /\ MqttBack!ClientEvent)
  /\ WF_mqttVars(part = "mqtt_back" /\ MqttBack!Deliver)
  /\ WF_mqttVars(part = "mqtt_back" /\ MqttBack!HttpTask)
  /\ WF_mqttVars(part = "mqtt_back" /\ MqttBack!WifiReturns)
MqttAlarmsFair ==
  /\ WF_mqttVars(part = "mqtt_alarms" /\ MqttAlarms!MainTask)
  /\ WF_mqttVars(part = "mqtt_alarms" /\ MqttAlarms!stop_task)
  /\ WF_mqttVars(part = "mqtt_alarms" /\ MqttAlarms!ClientEvent)
  /\ WF_mqttVars(part = "mqtt_alarms" /\ MqttAlarms!Deliver)
  /\ WF_mqttVars(part = "mqtt_alarms" /\ MqttAlarms!HttpTask)
  /\ WF_mqttVars(part = "mqtt_alarms" /\ MqttAlarms!WifiReturns)
UploadLiveFair ==
  /\ WF_otaVars(part = "ota_live" /\ UploadLive!Bootloader)
  /\ WF_otaVars(part = "ota_live" /\ UploadLive!MainStep)
  /\ WF_otaVars(part = "ota_live" /\ UploadLive!HttpTask)
  /\ WF_otaVars(part = "ota_live" /\ UploadLive!CloudTaskStep)
ShadowFair ==
  /\ WF_shadowVars(part = "shadow" /\ Shadow!PublishKey)
  /\ WF_shadowVars(part = "shadow" /\ Shadow!EndState)
  /\ WF_shadowVars(part = "shadow" /\ Shadow!ReadKey)
  /\ WF_shadowVars(part = "shadow" /\ Shadow!EndShadow)
  /\ SF_shadowVars(part = "shadow" /\ Shadow!BeginState)
  /\ SF_shadowVars(part = "shadow" /\ Shadow!BeginShadow)
  /\ WF_shadowVars(part = "shadow" /\ Shadow!Connects)
  /\ WF_shadowVars(part = "shadow" /\ Shadow!OnDisconnected)
  /\ WF_shadowVars(part = "shadow" /\ Shadow!HandleDelta)
  /\ WF_shadowVars(part = "shadow" /\ Shadow!Deliver)
  /\ WF_shadowVars(part = "shadow" /\ Shadow!OtherKeyChanges)
ShadowLostFair ==
  /\ WF_shadowVars(part = "shadow_lost" /\ ShadowLost!PublishKey)
  /\ WF_shadowVars(part = "shadow_lost" /\ ShadowLost!EndState)
  /\ WF_shadowVars(part = "shadow_lost" /\ ShadowLost!ReadKey)
  /\ WF_shadowVars(part = "shadow_lost" /\ ShadowLost!EndShadow)
  /\ SF_shadowVars(part = "shadow_lost" /\ ShadowLost!BeginState)
  /\ SF_shadowVars(part = "shadow_lost" /\ ShadowLost!BeginShadow)
  /\ WF_shadowVars(part = "shadow_lost" /\ ShadowLost!Connects)
  /\ WF_shadowVars(part = "shadow_lost" /\ ShadowLost!OnDisconnected)
  /\ WF_shadowVars(part = "shadow_lost" /\ ShadowLost!HandleDelta)
  /\ WF_shadowVars(part = "shadow_lost" /\ ShadowLost!Deliver)
  /\ WF_shadowVars(part = "shadow_lost" /\ ShadowLost!OtherKeyChanges)
CloudTypoFair ==
  /\ WF_cloudVars(part = "cloud_typo" /\ CloudTypo!WriteField)
  /\ WF_cloudVars(part = "cloud_typo" /\ CloudTypo!Answer)
  /\ WF_cloudVars(part = "cloud_typo" /\ CloudTypo!StartClient)
  /\ WF_cloudVars(part = "cloud_typo" /\ CloudTypo!Connects)
  /\ WF_cloudVars(part = "cloud_typo" /\ CloudTypo!Disconnects)
  /\ WF_cloudVars(part = "cloud_typo" /\ ~network /\ CloudTypo!Network)
  /\ WF_cloudVars(part = "cloud_typo" /\ CloudTypo!JobStep)
  /\ WF_cloudVars(part = "cloud_typo" /\ CloudTypo!Notify)
  /\ WF_cloudVars(part = "cloud_typo" /\ CloudTypo!Deliver)
  /\ WF_cloudVars(part = "cloud_typo" /\ CloudTypo!OtaFails)
LinkSlowFair ==
  /\ WF_linkVars(part = "ble_slow" /\ LinkSlow!Sync)
  /\ SF_linkVars(part = "ble_slow" /\ LinkSlow!OnScanHit)
  /\ WF_linkVars(part = "ble_slow" /\ LinkSlow!OnConnect)
  /\ WF_linkVars(part = "ble_slow" /\ LinkSlow!OnDiscovered)
  /\ WF_linkVars(part = "ble_slow" /\ link_conn = "closing" /\ LinkSlow!OnDisconnect)
  /\ WF_linkVars(part = "ble_slow" /\ LinkSlow!CooldownEnds)
  /\ \A c \in {"render", "module"} : 
       /\ WF_linkVars(part = "ble_slow" /\ LinkSlow!OnWriteDone(c))
       /\ SF_linkVars(part = "ble_slow" /\ LinkSlow!TakeLock(c))
       /\ WF_linkVars(part = "ble_slow" /\ pc[c] # "idle" /\ LinkSlow!Write(c))
GattFair ==
  /\ WF_gattVars(part = "ble_gatt" /\ Gatt!Sync)
  /\ WF_gattVars(part = "ble_gatt" /\ Gatt!RequestReconnect)
  /\ WF_gattVars(part = "ble_gatt" /\ (Gatt!BeginUpdate \/ Gatt!Serialize \/ Gatt!CacheValue \/ Gatt!Notify))
  /\ SF_gattVars(part = "ble_gatt" /\ Gatt!Reconnect)

(* Each part's variables have the values its code can give them.           *)
TypeOK ==
  /\ part = "ws" => Ws!TypeOK
  /\ part = "ws_one" => WsOne!TypeOK
  /\ part = "ws_faults" => WsFaults!TypeOK
  /\ part = "ws_left" => WsLeft!TypeOK
  /\ part = "auth" => Auth!TypeOK
  /\ part = "auth_live" => AuthLive!TypeOK
  /\ part = "settings" => Settings!TypeOK
  /\ part = "wifi" => Wifi!TypeOK
  /\ part = "wifi_asked" => WifiAsked!TypeOK
  /\ part = "wifi_back" => WifiBack!TypeOK
  /\ part = "wifi_dog" => WifiDog!TypeOK
  /\ part = "mqtt" => Mqtt!TypeOK
  /\ part = "mqtt_back" => MqttBack!TypeOK
  /\ part = "mqtt_alarms" => MqttAlarms!TypeOK
  /\ part = "ota" => Upload!TypeOK
  /\ part = "ota_cloud" => Download!TypeOK
  /\ part = "ota_live" => UploadLive!TypeOK
  /\ part = "shadow" => Shadow!TypeOK
  /\ part = "shadow_lost" => ShadowLost!TypeOK
  /\ part = "cloud" => Cloud!TypeOK
  /\ part = "cloud_typo" => CloudTypo!TypeOK
  /\ part = "cloud_jobs" => CloudJobs!TypeOK
  /\ part = "ble_link" => Link!TypeOK
  /\ part = "ble_slow" => LinkSlow!TypeOK
  /\ part = "ble_gatt" => Gatt!TypeOK
  /\ part = "ble_lost" => GattLost!TypeOK
  /\ part = "ble_observer" => Observer!TypeOK

(***************************************************************************)
(* WsService: no browser is left behind.  Once all that is under way has   *)
(* arrived, what each listed client has been sent is the shared state, in  *)
(* whatever order handshakes, broadcasts, closed and reused sockets and    *)
(* failed sends came, but for the keys whose last change it was left       *)
(* without: the broadcast had no room or no heap for it, its first state   *)
(* was dropped, or the main task ran in the middle of its handshake.       *)
(* Without those four it is left without nothing.  And the sweeps of both  *)
(* tasks, add_client and the reuse of socket numbers never list a socket   *)
(* twice.                                                                  *)
(***************************************************************************)
BrowsersAreCurrent ==
  /\ part = "ws" => Ws!ViewsAreCurrent /\ Ws!NothingIsMissed /\ Ws!NoSlotIsLost
  /\ part = "ws_one" => WsOne!ViewsAreCurrent /\ WsOne!NothingIsMissed
  /\ part = "ws_faults" => WsFaults!ViewsAreCurrent /\ WsFaults!NoSlotIsLost
  /\ part = "ws_left" => WsLeft!ViewsAreCurrent

(***************************************************************************)
(* The credentials of HttpService: whoever holds the pair the last         *)
(* accepted change asked for matches, what is in force is what a restart   *)
(* would load, and no window of AUTH_LOCKOUT ticks sees more wrong pairs   *)
(* compared than AUTH_MAX_FAILURES, wherever the tick counter wraps.       *)
(***************************************************************************)
OwnersAreMatched ==
  part = "auth" => Auth!OwnerMatches /\ Auth!InForceIsStored /\ Auth!RateLimited

(***************************************************************************)
(* The settings a browser sends: by every route (POST, restore, restart)   *)
(* the flash holds a key in its declared type, numbers stay within their   *)
(* range, a restored backup is what the device restarts with, and a value  *)
(* that was accepted and flushed is what the next boot loads, unless it    *)
(* was set after the last flush before a restart.                          *)
(***************************************************************************)
SettingsAreKept ==
  part = "settings" =>
    /\ Settings!FlashTyped /\ Settings!InRange
    /\ Settings!RestoreFaithful /\ Settings!TypedIsKept

(***************************************************************************)
(* WifiService and MqttService: what they believe of their link is so once *)
(* the event queue is empty, one outage alone does not bring the watchdog  *)
(* to restart the board, and there are never two MQTT clients.             *)
(***************************************************************************)
LinksAreTrue ==
  /\ part = "wifi" => Wifi!StatusIsTrue /\ Wifi!ModeIsTrue
  /\ part = "wifi_asked" => WifiAsked!StatusIsTrue /\ WifiAsked!ModeIsTrue
  /\ part = "wifi_dog" => WifiDog!OneOutageIsSurvived
  /\ part = "mqtt" => Mqtt!OneClient /\ Mqtt!ConnectedIsTrue
  /\ part = "mqtt_back" => MqttBack!OneClient /\ MqttBack!ConnectedIsTrue
  /\ part = "mqtt_alarms" => MqttAlarms!OneClient /\ MqttAlarms!ConnectedIsTrue

(***************************************************************************)
(* The OTA handler and the boot's rollback: through uploads, downloads,    *)
(* crashes and power cuts some slot holds a good image that may be booted, *)
(* an image of another board never gets as far as its main loop, a cloud   *)
(* job only restarts into the very image it checked; and a job the cloud   *)
(* takes for failed was never begun, one it takes to be in progress was    *)
(* begun or decided on, or its refusal was lost with the link or a restart.*)
(***************************************************************************)
UpdatesAreSafe ==
  /\ part = "ota" => Upload!AlwaysAFallback /\ Upload!BoardMatches
  /\ part = "ota_cloud" => Download!InstallsWhatItChecked /\ Download!BoardMatches
  /\ part = "cloud_jobs" => CloudJobs!JobsAreToldTruly

(***************************************************************************)
(* AwsIotService: a request that was answered is in flash, whatever field  *)
(* came in whatever order and a restart between them, and the client is    *)
(* only made with both halves of a certificate.                            *)
(***************************************************************************)
CloudConfigIsKept ==
  /\ part = "cloud" =>
       Cloud!AcknowledgedIsKept /\ Cloud!CertLoadedIsTrue /\ Cloud!NeverWithoutCertificate
  /\ part = "cloud_typo" =>
       CloudTypo!AcknowledgedIsKept /\ CloudTypo!CertLoadedIsTrue

(***************************************************************************)
(* BleService: while the panel is idle or ready the sensors are scanned    *)
(* for, the link's state is the radio's, one acknowledged write at most is *)
(* in the air, the thermostat can be reached whenever the host is synced,  *)
(* its handle is of the live connection, and every frame of a bound sensor *)
(* reaches its slot.                                                       *)
(***************************************************************************)
RadioIsTrue ==
  /\ part = "ble_link" =>
       Link!SensorsAreHeard /\ Link!LinkMatchesRadio /\ Link!OneOutstanding
  /\ part = "ble_slow" => LinkSlow!SensorsAreHeard /\ LinkSlow!LinkMatchesRadio
  /\ part = "ble_gatt" => Gatt!Reachable /\ Gatt!HandleIsLive
  /\ part = "ble_lost" => GattLost!Reachable /\ GattLost!HandleIsLive
  /\ part = "ble_observer" => Observer!BoundIsHeard

(***************************************************************************)
(* What no step may do: a refused request change the credentials, a probe  *)
(* for the station take the access point down, one caller's chunk go out   *)
(* in the middle of another's frame, and an incomplete advertisement make  *)
(* the observer forget what it knew of a device.                           *)
(***************************************************************************)
NetworkSteps ==
  /\ Auth!RefusedChangesNothing
  /\ Wifi!ProbeKeepsAp
  /\ Link!FrameIsAtomic
  /\ Observer!IdentityIsKept

(***************************************************************************)
(* A device that lost its network or its owner comes back: the access      *)
(* point or the station is reached again and again, the station rejoins a  *)
(* network that stays, the MQTT client takes the last configuration,       *)
(* reconnects and tells the alarms; the owner gets in again after lockouts.*)
(***************************************************************************)
LinksComeBack ==
  /\ part = "wifi_back" => (WifiBackFair => WifiBack!NeverStranded /\ WifiBack!RejoinsNetwork)
  /\ part = "mqtt_back" => (MqttBackFair => MqttBack!ConfigIsApplied /\ MqttBack!Reconnects)
  /\ part = "mqtt_alarms" => (MqttAlarmsFair => MqttAlarms!AlarmsArrive)
  /\ part = "auth_live" => (AuthLiveFair => AuthLive!OwnerGetsIn)

(***************************************************************************)
(* What is begun ends and what is apart converges: an update frees its     *)
(* guard and the HTTP task, a bad image is rolled back, the device shadow, *)
(* the device and its subscribers come to agree, a configured cloud        *)
(* connection is made, writers of the panel link return and it is found    *)
(* again, and the thermostat's reader has the last telemetry and its       *)
(* credentials are applied.                                                *)
(***************************************************************************)
WorkConverges ==
  /\ part = "ota_live" =>
       (UploadLiveFair => /\ UploadLive!BadIsRolledBack /\ UploadLive!HttpTaskIsFreed
                          /\ UploadLive!GuardIsReleased)
  /\ part \in {"shadow", "shadow_lost"} =>
       (ShadowFair /\ ShadowLostFair =>
          /\ Shadow!DesiredIsReached /\ Shadow!ReportedIsCurrent
          /\ Shadow!SubscribersAreCurrent /\ Shadow!DeltaClears)
  /\ part = "cloud_typo" => (CloudTypoFair => CloudTypo!ConnectsAtLast)
  /\ part = "ble_slow" => (LinkSlowFair => LinkSlow!WritersReturn /\ LinkSlow!PanelIsReached)
  /\ part = "ble_gatt" => (GattFair => Gatt!TelemetryArrives /\ Gatt!SavedIsApplied)
==============================================================================
