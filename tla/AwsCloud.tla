------------------------------ MODULE AwsCloud ------------------------------
(***************************************************************************)
(* components/modesp_aws/src/aws_iot_service.cpp: how the connection to    *)
(* AWS IoT is configured, made and kept, and the jobs of the cloud.  POST  *)
(* /api/cloud writes its fields one by one, on the HTTP task, while the    *)
(* main task starts the client; the client, a task of esp-mqtt, holds      *)
(* copies of the endpoint and the thing and points at the certificates.    *)
(* A job updates the firmware by ota_task; what the cloud is told of it    *)
(* waits in the client's outbox.                                           *)
(***************************************************************************)
EXTENDS Integers, Sequences, FiniteSets

CONSTANTS
  Values,          \* field |-> what a request may say of it
  Broker,          \* the endpoint that answers
  Pairs,           \* the certificates whose key is the one of the same name
  Jobs,            \* how many, in the order of the cloud
  Cancels,         \* jobs may be cancelled
  Updates,         \* MQTT may ask for an update too
  MaxRequests, MaxOutages, MaxReboots    \* bounds

Fields == {"endpoint", "thing", "enabled", "cert", "key"}
None == "none"      \* an empty string or buffer
Default == "modesp" \* modesp-<device_id>

AwsCloudAssumption ==
  /\ DOMAIN Values = Fields /\ {Cancels, Updates} \subseteq BOOLEAN
  /\ {Jobs, MaxRequests, MaxOutages, MaxReboots} \subseteq Nat

VARIABLES
  ram, flash,      \* the fields
  cert_loaded,
  request, handled,    \* the body of POST /api/cloud, and the fields already written
  acknowledged,    \* what requests were answered for
  client,          \* client_: what it was made with, or NoClient
  connected,
  network,         \* wifi.ip says there is one
  ota, begun,      \* the job ota_task works on; those it has begun
  cloud,           \* job |-> its status
  announced,       \* the jobs the cloud has notified of
  notified,        \* the job of a notification under way
  handling,        \* the client's task inside handle_job_notify()
  outbox,          \* what was published of jobs and not yet acknowledged
  hanging,         \* the jobs whose refusal, or whose start, the cloud was never told of
  used

config == <<ram, flash, cert_loaded>>
http == <<request, handled, acknowledged>>
connection == <<client, connected>>
telling == <<handling, outbox, hanging>>
jobs == <<ota, begun, cloud, announced, notified, telling>>
vars == <<config, http, connection, network, jobs, used>>

NoClient == [endpoint |-> None, thing |-> None]
NoRequest == [f \in {} |-> None]
NoJob == 0
Other == Jobs + 1   \* an update MQTT asked for
Idle == [at |-> "idle", job |-> NoJob]
Use(k, bound) == used[k] < bound /\ used' = [used EXCEPT ![k] = @ + 1]

-----------------------------------------------------------------------------
(* on_init()                                                               *)

load_config(stored) == [stored EXCEPT !.thing = IF @ = None THEN Default ELSE @]
load_certificates(stored) == stored.cert # None /\ stored.key # None

Start(stored) ==
  /\ ram' = load_config(stored) /\ cert_loaded' = load_certificates(stored)
  /\ client' = NoClient /\ connected' = FALSE
  /\ request' = NoRequest /\ handled' = {}
  /\ ota' = NoJob /\ notified' = NoJob /\ handling' = Idle /\ outbox' = <<>>

Empty == [f \in Fields |-> None]
Init ==
  /\ flash = Empty /\ ram = load_config(Empty) /\ cert_loaded = FALSE
  /\ request = NoRequest /\ handled = {} /\ acknowledged = Empty
  /\ client = NoClient /\ connected = FALSE
  /\ network \in BOOLEAN
  /\ ota = NoJob /\ begun = {}
  /\ cloud = [j \in 1..Jobs |-> "queued"] /\ announced = {} /\ notified = NoJob
  /\ handling = Idle /\ outbox = <<>> /\ hanging = {}
  /\ used = [requests |-> 0, outages |-> 0, reboots |-> 0]

-----------------------------------------------------------------------------
(* handle_post_cloud(), on the HTTP task                                   *)

Post ==
  /\ request = NoRequest /\ Use("requests", MaxRequests)
  /\ \E asked \in SUBSET Fields \ {{}} :
       request' \in {r \in [asked -> UNION {Values[f] : f \in asked}] :
                       \A f \in asked : r[f] \in Values[f]}
  /\ UNCHANGED <<config, handled, acknowledged, connection, network, jobs>>

(* the fields come in the order of the body, each written to both          *)
WriteFieldRam ==   \* seeded fault: enabled is not written to the flash
  /\ \E f \in DOMAIN request \ handled :
       /\ handled' = handled \cup {f}
       /\ ram' = [ram EXCEPT ![f] = request[f]]
       /\ flash' = IF f = "enabled" THEN flash ELSE [flash EXCEPT ![f] = request[f]]
  /\ UNCHANGED <<cert_loaded, request, acknowledged, connection, network, jobs, used>>
WriteField ==
  /\ \E f \in DOMAIN request \ handled :
       /\ handled' = handled \cup {f}
       /\ ram' = [ram EXCEPT ![f] = request[f]] /\ flash' = [flash EXCEPT ![f] = request[f]]
  /\ UNCHANGED <<cert_loaded, request, acknowledged, connection, network, jobs, used>>

AnyUploaded == {"cert", "key"} \cap DOMAIN request # {}
Loaded == IF AnyUploaded THEN ram.cert # None /\ ram.key # None ELSE cert_loaded
Answer ==
  /\ request # NoRequest /\ handled = DOMAIN request
  /\ request' = NoRequest /\ handled' = {}
  /\ cert_loaded' = Loaded
  /\ acknowledged' = [f \in Fields |-> IF f \in DOMAIN request THEN request[f]
                                       ELSE acknowledged[f]]
  /\ UNCHANGED <<ram, flash, connection, network, jobs, used>>

HttpTask == Post \/ WriteField \/ Answer

-----------------------------------------------------------------------------
(* on_update(), on the main task                                           *)

Serving == ram.enabled = "true" /\ cert_loaded /\ ram.endpoint # None
(* start_client() copies the endpoint and the thing                        *)
StartClient ==
  /\ Serving /\ client = NoClient /\ network
  /\ client' = [endpoint |-> ram.endpoint, thing |-> ram.thing]
  /\ UNCHANGED <<config, http, connected, network, jobs, used>>

-----------------------------------------------------------------------------
(* The client.  It tries again of itself, and sooner when on_update() asks *)
(* it to.  Its task handles one event at a time, but a connection that is  *)
(* found lost in the middle of one is told of at once.                     *)

Accepts == network /\ client.endpoint = Broker /\ ram.cert = ram.key /\ ram.cert \in Pairs
Connects ==
  /\ client # NoClient /\ ~connected /\ Accepts /\ handling = Idle
  /\ connected' = TRUE
  /\ UNCHANGED <<config, http, client, network, jobs, used>>
Disconnects ==
  /\ connected /\ ~network /\ connected' = FALSE
  /\ UNCHANGED <<config, http, client, network, jobs, used>>
Network ==
  /\ IF network THEN Use("outages", MaxOutages) ELSE UNCHANGED used
  /\ network' = ~network /\ notified' = IF network THEN NoJob ELSE notified
  /\ UNCHANGED <<config, http, connection, ota, begun, cloud, announced, telling>>

-----------------------------------------------------------------------------
(* Jobs.  The cloud notifies once of the first job that has not ended,     *)
(* when it becomes the first, whether or not the device is listening.      *)

Open == {j \in 1..Jobs : cloud[j] \in {"queued", "IN_PROGRESS"}}
First(j) == j \in Open /\ \A i \in Open : j <= i
Notify ==
  /\ notified = NoJob
  /\ \E j \in Open \ announced :
       /\ First(j) /\ cloud[j] = "queued"
       /\ announced' = announced \cup {j}
       /\ notified' = IF connected /\ network THEN j ELSE NoJob
  /\ UNCHANGED <<config, http, connection, network, ota, begun, cloud, telling, used>>

(* update_job_status(), of which nothing comes without a connection.       *)
Tell(j, status) ==
  outbox' = IF connected THEN Append(outbox, [job |-> j, status |-> status]) ELSE outbox

(* handle_job_notify(): IN_PROGRESS is told first, then start_ota() is     *)
(* called, and FAILED is told when it refuses.                             *)
HandleJob ==
  /\ notified # NoJob /\ connected /\ handling = Idle
  /\ notified' = NoJob
  /\ Tell(notified, "IN_PROGRESS") /\ handling' = [at |-> "told", job |-> notified]
  /\ UNCHANGED <<config, http, connection, network, ota, begun, cloud, announced, hanging, used>>
Begin ==
  /\ handling.at = "told" /\ ota = NoJob
  /\ ota' = handling.job /\ begun' = begun \cup {handling.job} /\ handling' = Idle
  /\ UNCHANGED <<config, http, connection, network, cloud, announced, notified, outbox, hanging,
                 used>>
(* Another update is under way, or its task cannot be created.             *)
Refuse ==
  /\ handling.at = "told"
  /\ handling' = [handling EXCEPT !.at = "refused"]
  /\ UNCHANGED <<config, http, connection, network, ota, begun, cloud, announced, notified, outbox,
                 hanging, used>>
TellRefusal ==
  /\ handling.at = "refused"
  /\ Tell(handling.job, "FAILED") /\ handling' = Idle
  /\ hanging' = IF connected THEN hanging ELSE hanging \cup {handling.job}
  /\ UNCHANGED <<config, http, connection, network, ota, begun, cloud, announced, notified, used>>
TellNoRefusal ==   \* seeded fault: the refusal is only logged
  /\ handling.at = "refused"
  /\ handling' = Idle
  /\ UNCHANGED <<config, http, connection, network, ota, begun, cloud, announced, notified, outbox,
                 hanging, used>>

(* What is published is sent again after an outage, in order, until the    *)
(* outbox gives it up; the cloud refuses it once the job has ended.        *)
Deliver ==
  /\ connected /\ network /\ outbox # <<>> /\ outbox' = Tail(outbox)
  /\ cloud' = IF Head(outbox).job \in Open
              THEN [cloud EXCEPT ![Head(outbox).job] = Head(outbox).status] ELSE cloud
  /\ UNCHANGED <<config, http, connection, network, ota, begun, announced, notified, handling,
                 hanging, used>>
Refusals == {outbox[i].job : i \in {x \in DOMAIN outbox : outbox[x].status = "FAILED"}}
Expire ==
  /\ ~network /\ outbox # <<>> /\ outbox' = <<>>
  /\ hanging' = hanging \cup Refusals
  /\ UNCHANGED <<config, http, connection, network, ota, begun, cloud, announced, notified,
                 handling, used>>

(* An operator cancels a job, or its time is up.                           *)
Cancel ==
  /\ Cancels /\ \E j \in Open : cloud' = [cloud EXCEPT ![j] = "cancelled"]
  /\ UNCHANGED <<config, http, connection, network, ota, begun, announced, notified, telling,
                 used>>

(* The update MQTT asks for, by the same start_ota().                      *)
OtherUpdate ==
  /\ Updates /\ ota = NoJob /\ ota' = Other
  /\ UNCHANGED <<config, http, connection, network, begun, cloud, announced, notified, telling,
                 used>>
OtaFails ==
  /\ ota # NoJob /\ ota' = NoJob
  /\ UNCHANGED <<config, http, connection, network, begun, cloud, announced, notified, telling,
                 used>>

(* A restart forgets what is being handled and what was not yet sent.      *)
Reboot ==
  /\ Start(flash) /\ acknowledged' = flash
  /\ hanging' = hanging \cup Refusals \cup ({handling.job} \ {NoJob})
  /\ UNCHANGED <<flash, network, begun, cloud, announced>>
OtaSucceeds == ota # NoJob /\ Reboot /\ UNCHANGED used
PowerLoss == Use("reboots", MaxReboots) /\ Reboot

JobStep == HandleJob \/ Begin \/ Refuse \/ TellRefusal
CloudStep == Notify \/ Deliver \/ Expire \/ Cancel
Next == HttpTask \/ StartClient \/ Connects \/ Disconnects \/ Network \/ JobStep \/ CloudStep
        \/ OtherUpdate \/ OtaFails \/ OtaSucceeds \/ PowerLoss

Spec == Init /\ [][Next]_vars

(* Requests are answered, the loop turns, the client keeps trying, what is *)
(* downloaded ends; an outage ends.                                        *)
Fairness ==
  /\ WF_vars(WriteField) /\ WF_vars(Answer) /\ WF_vars(StartClient)
  /\ WF_vars(Connects) /\ WF_vars(Disconnects) /\ WF_vars(~network /\ Network)
  /\ WF_vars(JobStep) /\ WF_vars(Notify) /\ WF_vars(Deliver) /\ WF_vars(OtaFails)
LiveSpec == Spec /\ Fairness

-----------------------------------------------------------------------------
Said(f) == Values[f] \cup {Empty[f]}
TypeOK ==
  /\ \A f \in Fields : flash[f] \in Said(f) /\ ram[f] \in Said(f) \cup {load_config(Empty)[f]}
  /\ cert_loaded \in BOOLEAN /\ connected \in BOOLEAN /\ network \in BOOLEAN
  /\ handled \subseteq DOMAIN request /\ DOMAIN request \subseteq Fields
  /\ client # NoClient => client.endpoint # None
  /\ connected => client # NoClient
  /\ ota \in 0..Other /\ begun \subseteq announced /\ announced \subseteq 1..Jobs
  /\ notified \in announced \cup {NoJob} /\ hanging \subseteq announced
  /\ handling \in [at : {"told", "refused"}, job : announced] \cup {Idle}
  /\ \A i \in DOMAIN outbox : outbox[i] \in [job : announced, status : {"IN_PROGRESS", "FAILED"}]
  /\ cloud \in [1..Jobs -> {"queued", "IN_PROGRESS", "FAILED", "cancelled"}]

(* Between two requests the flash holds what the requests were answered    *)
(* for, and the memory what a restart would read: a restart changes        *)
(* nothing but an empty name of the thing.                                 *)
AcknowledgedIsKept ==
  request = NoRequest => flash = acknowledged /\ ram \in {flash, load_config(flash)}

(* The client is only made with both halves of a certificate, and cert_loaded*)
(* says that both are there, in whatever requests they came and whatever   *)
(* restart came between.                                                   *)
CertLoadedIsTrue ==
  request = NoRequest => (cert_loaded <=> ram.cert # None /\ ram.key # None)
NeverWithoutCertificate ==
  client # NoClient => ram.cert # None /\ ram.key # None

(* With a matching pair, the endpoint and the network there, and the       *)
(* service enabled, the device connects: also when the certificates come   *)
(* last, in a new upload after a wrong one, or with a restart in between.  *)
Configured ==
  /\ ram.enabled = "true" /\ network /\ ram.endpoint = Broker /\ ram.cert = ram.key /\ ram.cert \in Pairs
  /\ client.endpoint \in {None, Broker}
ConnectsAtLast == <>[]Configured => <>[]connected

(* What the cloud is told of a job is so, whatever was lost, delayed or    *)
(* cancelled between the steps: a job it takes for failed was never begun, *)
(* and one it takes to be in progress was begun, is being decided on, or   *)
(* was refused with the word of it on its way: unless a restart or a lost  *)
(* connection came between IN_PROGRESS and that word.                      *)
JobsAreToldTruly ==
  \A j \in 1..Jobs :
    /\ cloud[j] = "FAILED" => j \notin begun
    /\ cloud[j] = "IN_PROGRESS" => j \in begun \cup Refusals \cup hanging \/ handling.job = j

(* "for status updates": a job whose update has ended ends too.            *)
\* Broken by the code: a job whose update failed stays in progress.
JobsEnd == \A j \in 1..Jobs : cloud[j] = "IN_PROGRESS" ~> cloud[j] \in {"FAILED", "SUCCEEDED"}
=============================================================================
