---------------------------- MODULE WifiService ----------------------------
(* wifi_service.cpp: the station, the fallback access point and the probe    *)
(* that leads from the second back to the first.  Three tasks share the      *)
(* fields of w without a lock: the main task (on_update), the event task of  *)
(* ESP-IDF (handle_wifi_event, handle_ip_event) and the HTTP task (start_scan*)
(* and save_credentials).  The radio and its event queue are ESP-IDF's and   *)
(* are modelled as this code uses them.  One unit of time is one on_update.  *)
EXTENDS Integers, Sequences, TLC

CONSTANTS RECONNECT, MAX_BACKOFF, MAX_RETRIES, PROBE_INITIAL, PROBE_MAX,
          PROBE_TIMEOUT, DEFER, MAX_DISCONNECT, STABLE,
          ATTEMPT,    \* the longest an attempt to join a network takes
          Nets,       \* the states the network may take: up, noip, down
          Stored,     \* what the flash may hold at first: none, wrong, right
          MaxNet, MaxScans, MaxSaves, MaxReconnects, MaxCuts  \* bounds

\* The fallback takes less time than the watchdog, as 600 s against 14 s do.
WatchdogIsSlow == MAX_DISCONNECT > (MAX_RETRIES + 2) * MAX_BACKOFF + ATTEMPT

VARIABLES w,      \* the fields of WiFiService
          radio,  \* [mode, sta, cfg, age]: what the driver does
          queue,  \* events the driver posted and the event task has not handled
          main,   \* where on_update or a boot stands
          http,   \* where the HTTP task stands in a scan or a save
          nvs,    \* the stored network name and password
          net,    \* the network around the device
          used    \* how often each bounded thing happened
vars == <<w, radio, queue, main, http, nvs, net, used>>

Lesser(a, b) == IF a < b THEN a ELSE b
Sooner(t) == IF t > 1 THEN t - 1 ELSE 0
Right == [name |-> "right", pass |-> "right"]
None  == [name |-> "none", pass |-> "none"]
Busy  == {"trying", "assoc", "ip"}

----------------------------------------------------------------------------
(* The driver of ESP-IDF: s is [w, radio, queue], the state a call works on. *)
Post(s, e) == [s EXCEPT !.queue = Append(@, e)]
HasSta(mode) == mode \in {"STA", "APSTA"}
HasAp(mode) == mode \in {"AP", "APSTA"}

esp_wifi_disconnect(s) ==
  IF s.radio.sta \in Busy
  THEN Post([s EXCEPT !.radio.sta = "idle"], "DISCONNECTED") ELSE s

esp_wifi_stop(s) == [s EXCEPT !.radio.mode = "off", !.radio.sta = "off"]

\* A station that appears posts STA_START; one that goes leaves its network.
esp_wifi_set_mode(s, mode) ==
  CASE HasSta(mode) /\ ~HasSta(s.radio.mode) ->
         Post([s EXCEPT !.radio.mode = mode, !.radio.sta = "idle"], "STA_START")
    [] ~HasSta(mode) ->
         [esp_wifi_disconnect(s) EXCEPT !.radio.mode = mode, !.radio.sta = "off"]
    [] OTHER -> [s EXCEPT !.radio.mode = mode]

\* Refused without a station interface; ignored by one that is connected.
esp_wifi_connect(s) ==
  IF s.radio.sta = "idle" THEN [s EXCEPT !.radio.sta = "trying", !.radio.age = 0] ELSE s

----------------------------------------------------------------------------
(* The service's own operations.                                             *)
start_sta(s) ==
  LET t == [s EXCEPT !.radio.cfg = s.w.creds,
              !.w.ap_mode = FALSE, !.w.wifi_started = TRUE, !.w.retry_count = 0,
              !.w.reconnect_interval = RECONNECT, !.w.reconnect_timer = 0,
              !.w.reconnect_pending = FALSE]
  IN esp_wifi_set_mode(t, "STA")

\* First half of start_ap: what still runs is stopped.
stop_for_ap(s) ==
  [esp_wifi_stop(esp_wifi_disconnect(s)) EXCEPT !.w.wifi_started = FALSE]

\* Second half: the access point is up and the probe armed.
start_ap(s) ==
  [esp_wifi_set_mode(s, "AP") EXCEPT
     !.w.ap_mode = TRUE, !.w.wifi_started = TRUE, !.w.connected = FALSE,
     !.w.reconnect_pending = FALSE, !.w.ip = "ap", !.w.probing = FALSE,
     !.w.probe_timer = PROBE_INITIAL, !.w.probe_interval = PROBE_INITIAL]

\* The flag is set before the mode: STA_START looks at it.
attempt_ap_sta_probe(s) ==
  esp_wifi_set_mode([s EXCEPT !.w.probing = TRUE, !.w.probe_timeout = PROBE_TIMEOUT],
                    "APSTA")
probe_connect(s) == esp_wifi_connect([s EXCEPT !.radio.cfg = s.w.creds])

cancel_ap_sta_probe(s) ==
  LET wait == Lesser(2 * s.w.probe_interval, PROBE_MAX)
  IN [esp_wifi_set_mode(esp_wifi_disconnect([s EXCEPT !.w.probing = FALSE]), "AP")
        EXCEPT !.w.probe_interval = wait, !.w.probe_timer = wait]

Here == [w |-> w, radio |-> radio, queue |-> queue]
Becomes(s) == w' = s.w /\ radio' = s.radio /\ queue' = s.queue

----------------------------------------------------------------------------
(* The event task.                                                           *)
StaStart(s) == IF s.w.probing THEN s ELSE esp_wifi_connect(s)

Disconnected(s) ==
  IF s.w.probing THEN cancel_ap_sta_probe(s)
  ELSE [s EXCEPT !.w.connected = FALSE, !.w.ip = "none",
          !.w.reconnect_pending = @ \/ ~s.w.ap_mode]

GotIp(s) ==
  LET c == [s EXCEPT !.w.connected = TRUE, !.w.reconnect_pending = FALSE,
              !.w.retry_count = 0, !.w.reconnect_interval = RECONNECT,
              !.w.ip = "sta"]
  IN IF s.w.probing
     THEN esp_wifi_set_mode([c EXCEPT !.w.probing = FALSE, !.w.ap_mode = FALSE,
                               !.w.disconnect_accum = 0, !.w.stable_timer = 0],
                            "STA")
     ELSE c

HandleEvent ==
  /\ queue # << >>
  /\ LET s == [Here EXCEPT !.queue = Tail(queue)]
     IN \/ Head(queue) = "STA_START" /\ Becomes(StaStart(s))
        \/ Head(queue) = "DISCONNECTED" /\ Becomes(Disconnected(s))
        \/ Head(queue) = "GOT_IP" /\ Becomes(GotIp(s))
  /\ UNCHANGED <<main, http, nvs, net, used>>

----------------------------------------------------------------------------
(* on_update, one unit of time at a time.  The event task outranks the main  *)
(* task: what was posted is handled before a further unit passes, but what is *)
(* posted while on_update runs meets it half way.                             *)
UnitPasses == queue = << >> /\ (radio.sta = "trying" => radio.age < ATTEMPT)
Aged == [Here EXCEPT !.radio.age = IF radio.sta = "trying" THEN @ + 1 ELSE @]

DeferredFires == w.deferred /\ w.deferred_timer + 1 >= DEFER
DeferredDue ==
  /\ main = "run" /\ UnitPasses /\ DeferredFires
  /\ main' = "reconnect"
  /\ Becomes([Aged EXCEPT !.w.deferred = FALSE, !.w.deferred_timer = 0])
  /\ UNCHANGED <<http, nvs, net, used>>
DeferredReconnect ==
  /\ main = "reconnect" /\ main' = "run"
  /\ Becomes(start_sta([esp_wifi_stop(esp_wifi_disconnect(Here))
               EXCEPT !.w.ap_mode = FALSE, !.w.connected = FALSE]))
  /\ UNCHANGED <<http, nvs, net, used>>

RetryDue(v) == v.reconnect_pending /\ ~v.ap_mode /\ v.reconnect_timer + 1 >= v.reconnect_interval
GivesUp(v) == RetryDue(v) /\ v.retry_count >= MAX_RETRIES
Deferring(s) == IF s.w.deferred THEN [s EXCEPT !.w.deferred_timer = @ + 1] ELSE s

\* The retries exhausted: the access point, in three steps the events and the
\* HTTP task may come between.
FallBack ==
  /\ main = "run" /\ UnitPasses /\ ~DeferredFires /\ GivesUp(w)
  /\ main' = "stop_sta"
  /\ Becomes([Deferring(Aged) EXCEPT !.w.reconnect_timer = 0, !.w.reconnect_pending = FALSE])
  /\ UNCHANGED <<http, nvs, net, used>>
StopSta ==
  /\ main = "stop_sta" /\ main' = "start_ap"
  /\ Becomes(stop_for_ap(Here))
  /\ UNCHANGED <<http, nvs, net, used>>
StartAp ==
  /\ main = "start_ap" /\ main' = "run"
  /\ Becomes(start_ap(Here))
  /\ UNCHANGED <<http, nvs, net, used>>

Retried(s) ==
  CASE RetryDue(s.w) ->
         [esp_wifi_connect(s) EXCEPT !.w.reconnect_timer = 0, !.w.retry_count = @ + 1,
            !.w.reconnect_interval = Lesser(2 * @, MAX_BACKOFF)]
    [] s.w.reconnect_pending /\ ~s.w.ap_mode -> [s EXCEPT !.w.reconnect_timer = @ + 1]
    [] OTHER -> s

MayProbe(v) == v.ap_mode /\ ~v.probing /\ ~v.deferred /\ v.creds.name # "none"
ProbeTimed(s) ==
  IF ~s.w.probing THEN s
  ELSE LET t == [s EXCEPT !.w.probe_timeout = Sooner(@)]
       IN IF t.w.probe_timeout = 0 THEN cancel_ap_sta_probe(t) ELSE t

\* The watchdog of the station: the time without a connection adds up until an
\* hour of connection clears it.  In access point mode it stands still.
Watched(s) ==
  CASE s.w.ap_mode -> s
    [] s.w.connected -> IF s.w.stable_timer + 1 >= STABLE
                        THEN [s EXCEPT !.w.disconnect_accum = 0, !.w.stable_timer = 0]
                        ELSE [s EXCEPT !.w.stable_timer = @ + 1]
    [] OTHER -> [s EXCEPT !.w.stable_timer = 0, !.w.disconnect_accum = @ + 1]
Expired(s) == s.w.disconnect_accum >= MAX_DISCONNECT

Waited(s) == IF MayProbe(s.w) THEN [s EXCEPT !.w.probe_timer = Sooner(@)] ELSE s

on_update ==
  /\ main = "run" /\ UnitPasses /\ ~DeferredFires /\ ~GivesUp(w)
  /\ LET s == Waited(Retried(Deferring(Aged)))
     IN IF MayProbe(s.w) /\ s.w.probe_timer = 0
        THEN Becomes(attempt_ap_sta_probe(s)) /\ main' = "probe"
        ELSE LET t == Watched(ProbeTimed(s))
             IN Becomes(t) /\ main' = IF Expired(t) THEN "restart" ELSE "run"
  /\ UNCHANGED <<http, nvs, net, used>>
ProbeConnect ==
  /\ main = "probe"
  /\ LET t == Watched(ProbeTimed(probe_connect(Here)))
     IN Becomes(t) /\ main' = IF Expired(t) THEN "restart" ELSE "run"
  /\ UNCHANGED <<http, nvs, net, used>>

----------------------------------------------------------------------------
(* A boot: on_init with what the flash holds.                                *)
Fresh == [ap_mode |-> FALSE, connected |-> FALSE, wifi_started |-> FALSE,
          ip |-> "none", creds |-> None, probing |-> FALSE, deferred |-> FALSE,
          deferred_timer |-> 0, reconnect_pending |-> FALSE, reconnect_timer |-> 0,
          reconnect_interval |-> RECONNECT, retry_count |-> 0,
          probe_timer |-> 0, probe_interval |-> PROBE_INITIAL, probe_timeout |-> 0,
          disconnect_accum |-> 0, stable_timer |-> 0]
Off == [mode |-> "off", sta |-> "off", cfg |-> None, age |-> 0]
on_init(stored) ==
  LET s == [w |-> [Fresh EXCEPT !.creds = stored], radio |-> Off, queue |-> << >>]
  IN IF stored.name # "none" THEN start_sta(s) ELSE start_ap(s)

Init ==
  /\ nvs \in {[name |-> c, pass |-> c] : c \in Stored}
  /\ LET s == on_init(nvs) IN w = s.w /\ radio = s.radio /\ queue = s.queue
  /\ main = "run" /\ http = "idle" /\ net \in Nets
  /\ used = [net |-> 0, scans |-> 0, saves |-> 0, reconnects |-> 0, cuts |-> 0]

Use(k, bound) == used[k] < bound /\ used' = [used EXCEPT ![k] = @ + 1]
Reboot ==
  /\ main' = "run" /\ http' = "idle" /\ Becomes(on_init(nvs)) /\ UNCHANGED <<nvs, net>>
\* esp_restart of the watchdog.
Restart == main = "restart" /\ Reboot /\ UNCHANGED used
\* Power cut, or a restart somebody asked for.
Cut == Use("cuts", MaxCuts) /\ Reboot

----------------------------------------------------------------------------
(* The HTTP task: one request at a time.                                     *)
\* A scan in access point mode needs a station for its duration, with an empty
\* configuration; the probe is cancelled first.
StartScan ==
  /\ http = "idle" /\ w.wifi_started /\ Use("scans", MaxScans)
  /\ LET s == IF w.probing THEN cancel_ap_sta_probe(Here) ELSE Here
     IN IF s.w.ap_mode /\ s.radio.mode = "AP"
        THEN Becomes(esp_wifi_set_mode(s, "APSTA")) /\ http' = "switched"
        ELSE Becomes(s) /\ http' = "scanning"
  /\ UNCHANGED <<main, nvs, net>>
ScanConfig ==
  /\ http = "switched" /\ http' = "scanning_ap"
  /\ radio' = [radio EXCEPT !.cfg = None]
  /\ UNCHANGED <<w, queue, main, nvs, net, used>>
\* Done or failed: get_scan_results or the error path restores the access point.
EndScan ==
  /\ \/ http = "scanning_ap" /\ Becomes(esp_wifi_set_mode(Here, "AP"))
     \/ http = "scanning" /\ UNCHANGED <<w, radio, queue>>
  /\ http' = "idle"
  /\ UNCHANGED <<main, nvs, net, used>>

\* save_credentials: two records of the flash, then the copy in memory.
SaveName ==
  /\ http = "idle" /\ Use("saves", MaxSaves)
  /\ nvs' = [nvs EXCEPT !.name = "right"] /\ http' = "save_pass"
  /\ UNCHANGED <<w, radio, queue, main, net>>
SavePass ==
  /\ http = "save_pass" /\ nvs' = [nvs EXCEPT !.pass = "right"] /\ http' = "save_copy"
  /\ UNCHANGED <<w, radio, queue, main, net, used>>
SaveCopy ==
  /\ http = "save_copy" /\ w' = [w EXCEPT !.creds = nvs] /\ http' = "idle"
  /\ UNCHANGED <<radio, queue, main, nvs, net, used>>

\* The BLE commissioning calls this once the credentials are saved.
request_reconnect ==
  /\ nvs.name # "none" /\ w.creds = nvs /\ Use("reconnects", MaxReconnects)
  /\ LET s == IF w.probing THEN cancel_ap_sta_probe(Here) ELSE Here
     IN Becomes([s EXCEPT !.w.deferred = TRUE, !.w.deferred_timer = 0])
  /\ UNCHANGED <<main, http, nvs, net>>

----------------------------------------------------------------------------
(* The network: an attempt ends, an address arrives, the network changes.    *)
Attempt ==
  /\ radio.sta = "trying"
  /\ LET good == radio.cfg = Right IN
     \/ good /\ net = "up" /\ radio' = [radio EXCEPT !.sta = "ip"]
          /\ queue' = Append(queue, "GOT_IP")
     \/ good /\ net = "noip" /\ radio' = [radio EXCEPT !.sta = "assoc"] /\ UNCHANGED queue
     \/ ~(good /\ net # "down") /\ radio' = [radio EXCEPT !.sta = "idle"]
          /\ queue' = Append(queue, "DISCONNECTED")
  /\ UNCHANGED <<w, main, http, nvs, net, used>>
Lease ==
  /\ radio.sta = "assoc" /\ net = "up"
  /\ radio' = [radio EXCEPT !.sta = "ip"] /\ queue' = Append(queue, "GOT_IP")
  /\ UNCHANGED <<w, main, http, nvs, net, used>>
NetChanges ==
  /\ net' \in Nets \ {net} /\ Use("net", MaxNet)
  /\ IF net' = "down" /\ radio.sta \in {"assoc", "ip"}
     THEN Becomes(esp_wifi_disconnect(Here)) ELSE UNCHANGED <<w, radio, queue>>
  /\ UNCHANGED <<main, http, nvs>>

MainTask == DeferredDue \/ DeferredReconnect \/ FallBack \/ StopSta \/ StartAp
              \/ on_update \/ ProbeConnect \/ Restart
HttpTask == ScanConfig \/ EndScan \/ SavePass \/ SaveCopy
Next == MainTask \/ HandleEvent \/ Attempt \/ Lease \/ HttpTask
          \/ StartScan \/ SaveName \/ request_reconnect \/ NetChanges \/ Cut

\* The main loop turns every 10 ms, the event task outranks it, a scan ends,
\* and an attempt to join a network ends one way or the other.
Fairness == WF_vars(MainTask) /\ WF_vars(HandleEvent) /\ WF_vars(Attempt)
              /\ WF_vars(Lease) /\ WF_vars(HttpTask)
Spec == Init /\ [][Next]_vars /\ Fairness

----------------------------------------------------------------------------
Credentials == [name : {"none", "wrong", "right"}, pass : {"none", "wrong", "right"}]
TypeOK ==
  /\ w \in [ap_mode : BOOLEAN, connected : BOOLEAN, wifi_started : BOOLEAN,
            ip : {"none", "sta", "ap"}, creds : Credentials, probing : BOOLEAN,
            deferred : BOOLEAN, deferred_timer : 0..DEFER, reconnect_pending : BOOLEAN,
            reconnect_timer : 0..MAX_BACKOFF, reconnect_interval : RECONNECT..MAX_BACKOFF,
            retry_count : 0..MAX_RETRIES, probe_timer : 0..PROBE_MAX,
            probe_interval : PROBE_INITIAL..PROBE_MAX, probe_timeout : 0..PROBE_TIMEOUT,
            disconnect_accum : 0..MAX_DISCONNECT, stable_timer : 0..STABLE]
  /\ radio \in [mode : {"off", "STA", "AP", "APSTA"},
                sta : {"off", "idle"} \cup Busy, cfg : Credentials,
                age : 0..ATTEMPT]
  /\ queue \in Seq({"STA_START", "DISCONNECTED", "GOT_IP"})
  /\ main \in {"run", "reconnect", "stop_sta", "start_ap", "probe", "restart"}
  /\ http \in {"idle", "switched", "scanning", "scanning_ap", "save_pass", "save_copy"}
  /\ nvs \in Credentials /\ net \in Nets

\* Nothing is under way: no event waits, no task is inside an operation.
Settled == queue = << >> /\ main = "run" /\ http = "idle"

\* What the service says of its connection is what the radio has: an address
\* of the station if and only if wifi.connected, in whatever order the retries,
\* the fallback, the probe and the events of each interleave (the events of a
\* station that was stopped arrive after start_ap or start_sta reset the flags).
StatusIsTrue == Settled => (w.connected <=> radio.sta = "ip")

\* The service is in access point mode if and only if the radio serves one: a
\* lost race between the probe's answer and its cancellation would leave a
\* station that believes itself an access point, or the reverse.
ModeIsTrue == Settled => (w.ap_mode <=> HasAp(radio.mode))

\* wifi.ip is the address under which the device can be reached now.
\* Broken by the code: the disconnection caused by cancelling a probe erases
\* the address of the access point.
IpIsTrue ==
  Settled => w.ip = CASE HasAp(radio.mode) -> "ap" [] radio.sta = "ip" -> "sta" [] OTHER -> "none"

\* The access point somebody may be using goes only for a connection the probe
\* has made, for a reconnect that was asked for, or with a restart: never
\* because a probe failed, was cancelled or ran into its time limit.
ProbeKeepsAp ==
  [][w.ap_mode /\ HasAp(radio.mode) /\ ~HasAp(radio'.mode)
       => \/ w.probing /\ queue # << >> /\ Head(queue) = "GOT_IP"
          \/ main = "reconnect"
          \/ used'.cuts > used.cuts]_vars

\* The watchdog restarts a device for connections that keep breaking, never for
\* one outage, however long: the retries end in the access point first.
OneOutageIsSurvived == main = "restart" => used.net >= 2

\* Whatever happens to the network and to the stored credentials, a device can
\* be reached again and again: it has an address, or it serves an access point.
Reachable == HasAp(radio.mode) \/ radio.sta = "ip"
NeverStranded == []<>Reachable

\* Once the network stays up and the device has its right credentials, it
\* joins and stays, whatever mode the outage left it in.
RejoinsNetwork == <>[](net = "up" /\ w.creds = Right) => <>[](w.connected /\ radio.sta = "ip")
============================================================================
