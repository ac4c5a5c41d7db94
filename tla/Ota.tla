--------------------------------- MODULE Ota ---------------------------------
(***************************************************************************)
(* Updates of the firmware: the upload over HTTP, the download that the    *)
(* cloud orders, the two partitions both write, and the trial of a new     *)
(* image by the main task.  esp_ota_ops and the bootloader are external.   *)
(*                                                                         *)
(* An image is Size units long: unit 1 holds the magic byte, unit 2 the    *)
(* application descriptor, the rest is code.  A partition is intact, for   *)
(* the checks of esp_ota_end and of the bootloader, when all its units are *)
(* of one image.                                                           *)
(***************************************************************************)
EXTENDS Integers, FiniteSets

CONSTANTS
    Images,              \* what can be flashed, and the factory's image
    Factory,
    Good,                \* run and reach the network
    Crash,               \* never reach the main loop, and restart
    Stuck,               \* whose app_main returns early
    Foreign,             \* for another board
    NoMagic, NoDescriptor,
    Size, ReadMost,      \* units of an image; the units one read returns at most
    ShortReads,          \* whether an upload's first read may stop short of the descriptor
    MAX_RECV_TIMEOUTS,
    ValidationTime,      \* the 60 seconds, in turns of the main loop
    AlwaysOnline,        \* whether the network is always up
    Uploads, Downloads   \* what HTTP clients may upload; what the cloud may order

OtaAssumption ==
    /\ Factory \in Good /\ Good \cup Crash \cup Stuck \subseteq Images
    /\ Good \cap Crash = {} /\ (Good \cup Crash) \cap Stuck = {}
    /\ Foreign \cup NoMagic \cup NoDescriptor \cup Uploads \cup Downloads \subseteq Images
    /\ "erased" \notin Images /\ Factory \notin Foreign
    /\ {Size, ReadMost, MAX_RECV_TIMEOUTS, ValidationTime} \subseteq Nat \ {0}
    /\ Size > ReadMost /\ ReadMost > 1
    /\ ShortReads \in BOOLEAN /\ AlwaysOnline \in BOOLEAN

Slots == {0, 1}
Units == 1 .. Size

VARIABLES
    flash,               \* the units of the two partitions
    otadata, boot,       \* the state of each image, and which is to be booted
    phase, running, uptime, online,
    http, cloud,         \* the handler of POST /api/ota; ota_task
    s_ota_in_progress

vars == <<flash, otadata, boot, phase, running, uptime, online, http, cloud, s_ota_in_progress>>
Partitions == <<flash, otadata, boot>>
MainTask == <<phase, running, uptime, online>>

NoUpload == [pc |-> "idle", image |-> Factory, got |-> 0, timeouts |-> 0]
NoDownload == [pc |-> "idle", image |-> Factory, asked |-> Factory, got |-> 0]

Init ==
    /\ flash = [s \in Slots |-> [u \in Units |-> IF s = 0 THEN Factory ELSE "erased"]]
    /\ otadata = [s \in Slots |-> IF s = 0 THEN "valid" ELSE "undefined"] /\ boot = 0
    /\ phase = "off" /\ running = 0 /\ uptime = 0 /\ online = TRUE
    /\ http = NoUpload /\ cloud = NoDownload /\ s_ota_in_progress = FALSE

Intact(s) == \E i \in Images: \A u \in Units: flash[s][u] = i
Content(s) == flash[s][1]

-----------------------------------------------------------------------------
(* The bootloader and the restart. *)

Reboot ==
    /\ phase' = "off" /\ uptime' = 0
    /\ http' = NoUpload /\ cloud' = NoDownload /\ s_ota_in_progress' = FALSE
    /\ UNCHANGED <<flash, otadata, boot, running, online>>

\* An image still on trial has had its one chance; one that is not intact is
\* passed over for the other.
Bootloader ==
    /\ phase = "off"
    /\ LET tried == IF otadata[boot] = "pending" THEN [otadata EXCEPT ![boot] = "aborted"] ELSE otadata
           Fit(s) == Intact(s) /\ tried[s] \in {"new", "valid"}
           pick == IF Fit(boot) THEN boot ELSE 1 - boot
       IN  IF Fit(pick)
           THEN /\ boot' = pick /\ running' = pick /\ phase' = "init"
                /\ otadata' = [tried EXCEPT ![pick] = IF @ = "new" THEN "pending" ELSE @]
           ELSE phase' = "bricked" /\ otadata' = tried /\ UNCHANGED <<boot, running>>
    /\ UNCHANGED <<flash, uptime, online, http, cloud, s_ota_in_progress>>

\* A crash, a cut of the power, or a restart that somebody asks for.
PowerLoss == phase \notin {"off", "bricked"} /\ Reboot

-----------------------------------------------------------------------------
(* The main task. *)

Network == /\ ~AlwaysOnline /\ online' = ~online
           /\ UNCHANGED <<flash, otadata, boot, phase, running, uptime, http, cloud, s_ota_in_progress>>

\* app_main up to its loop: an early return leaves the device without one, and
\* what has not been started by then, the network included, never is.
BringUp ==
    /\ phase = "init" /\ Content(running) \notin Crash
    /\ phase' = IF Content(running) \in Stuck THEN "returned" ELSE "loop"
    /\ UNCHANGED <<flash, otadata, boot, running, uptime, online, http, cloud, s_ota_in_progress>>

CrashInInit == phase = "init" /\ Content(running) \in Crash /\ Reboot

pending_verify == otadata[running] = "pending"
ReachesNetwork == Content(running) \in Good /\ online

net_ok == ReachesNetwork

ValidateTurn ==
    /\ phase = "loop" /\ pending_verify /\ net_ok
    /\ otadata' = [otadata EXCEPT ![running] = "valid"]
    /\ UNCHANGED <<flash, boot, phase, running, uptime, online, http, cloud, s_ota_in_progress>>

GiveUpTurn ==
    /\ phase = "loop" /\ pending_verify /\ ~net_ok /\ uptime = ValidationTime
    /\ Reboot

Turn ==
    /\ phase = "loop" /\ (pending_verify => ~net_ok) /\ uptime < ValidationTime
    /\ uptime' = uptime + 1
    /\ UNCHANGED <<flash, otadata, boot, phase, running, online, http, cloud, s_ota_in_progress>>

MainStep == BringUp \/ CrashInInit \/ ValidateTurn \/ GiveUpTurn \/ Turn

-----------------------------------------------------------------------------
(* esp_ota_ops. *)

\* esp_ota_get_next_update_partition; esp_ota_begin refuses an update on trial.
Update == 1 - running
BeginSucceeds == ~pending_verify

\* n units of image after the first `at` of them.
Flashed(image, at, n) == [flash EXCEPT ![Update] =
    [u \in Units |-> IF u \in (at + 1) .. (at + n) THEN image ELSE @[u]]]

SetBootPartition == /\ otadata' = [otadata EXCEPT ![Update] = "new"] /\ boot' = Update

\* How many units a read may return.
Reads(got) == {n \in 1 .. ReadMost: got + n <= Size}

-----------------------------------------------------------------------------
(* HttpService::handle_post_ota on the HTTP task. *)

HttpStays == UNCHANGED <<phase, running, uptime, online, cloud, s_ota_in_progress>>
HttpFails == http' = NoUpload /\ UNCHANGED Partitions /\ HttpStays

Upload(image) ==
    /\ phase = "loop" /\ online /\ http.pc = "idle" /\ BeginSucceeds
    /\ http' = [NoUpload EXCEPT !.pc = "recv", !.image = image]
    /\ UNCHANGED Partitions /\ HttpStays

CountTimeout(n) == n + 1
Patient(n) == n < MAX_RECV_TIMEOUTS

RecvTimeout ==
    /\ http.pc = "recv" /\ http.got < Size /\ Patient(CountTimeout(http.timeouts))
    /\ http' = [http EXCEPT !.timeouts = CountTimeout(@)]
    /\ UNCHANGED Partitions /\ HttpStays

RecvGivesUp ==
    /\ http.pc = "recv" /\ http.got < Size /\ ~Patient(CountTimeout(http.timeouts))
    /\ HttpFails

\* The client closes the connection.
RecvFails == http.pc = "recv" /\ http.got < Size /\ HttpFails

\* The first read must begin with the magic byte; the board is checked when that
\* read reaches the whole descriptor, and there is one.
HeaderAccepted(n) ==
    http.got = 0 =>
        /\ http.image \notin NoMagic
        /\ n >= 2 /\ http.image \notin NoDescriptor => http.image \notin Foreign

Recv(n) ==
    /\ http.pc = "recv" /\ n \in Reads(http.got)
    /\ n = 1 /\ http.got = 0 => ShortReads
    /\ IF HeaderAccepted(n)
       THEN /\ flash' = Flashed(http.image, http.got, n) /\ UNCHANGED <<otadata, boot>>
            /\ http' = [http EXCEPT !.got = @ + n, !.timeouts = 0] /\ HttpStays
       ELSE HttpFails

\* esp_ota_end and esp_ota_set_boot_partition, which both check the partition.
FinishUpload ==
    /\ http.pc = "recv" /\ http.got = Size
    /\ IF Intact(Update)
       THEN /\ SetBootPartition /\ UNCHANGED flash
            /\ http' = [http EXCEPT !.pc = "restart"] /\ HttpStays
       ELSE HttpFails

RestartAfterUpload == http.pc = "restart" /\ Reboot

HttpTask == RecvTimeout \/ RecvGivesUp \/ FinishUpload \/ RestartAfterUpload
HttpClient == RecvFails \/ (\E n \in Units: Recv(n)) \/ (\E i \in Uploads: Upload(i))

-----------------------------------------------------------------------------
(* ota_handler: start_ota and ota_task. *)

CloudStays == UNCHANGED <<phase, running, uptime, online, http>>
CloudFails == cloud' = NoDownload /\ s_ota_in_progress' = FALSE /\ UNCHANGED Partitions /\ CloudStays

\* A job's checksum is of the image asked for; what the server sends may differ.
start_ota(asked, sent) ==
    /\ phase = "loop" /\ online /\ ~s_ota_in_progress
    /\ s_ota_in_progress' = TRUE
    /\ cloud' = [NoDownload EXCEPT !.pc = "open", !.image = sent, !.asked = asked]
    /\ UNCHANGED Partitions /\ CloudStays

\* The connection, the answer and its length; and a task that is not created.
OpenFails == cloud.pc = "open" /\ CloudFails
Open == /\ cloud.pc = "open" /\ BeginSucceeds
        /\ cloud' = [cloud EXCEPT !.pc = "read"]
        /\ UNCHANGED <<flash, otadata, boot, s_ota_in_progress>> /\ CloudStays

ReadFails == cloud.pc = "read" /\ CloudFails

HeaderOfFirstRead(got) ==
    cloud.got = 0 => /\ cloud.image \notin NoMagic
                     /\ got >= 2 => cloud.image \notin Foreign \cup NoDescriptor

\* The header is gathered over the reads, and checked when it is there.
HeaderGathered(got) ==
    /\ cloud.image \notin NoMagic
    /\ got >= 2 => cloud.image \notin Foreign \cup NoDescriptor

Read(n) ==
    /\ cloud.pc = "read" /\ n \in Reads(cloud.got)
    /\ IF HeaderGathered(cloud.got + n)
       THEN /\ flash' = Flashed(cloud.image, cloud.got, n) /\ UNCHANGED <<otadata, boot>>
            /\ cloud' = [cloud EXCEPT !.got = @ + n] /\ UNCHANGED s_ota_in_progress /\ CloudStays
       ELSE CloudFails

\* The stream is at its end, or broke off without an error.
ChecksumMatches == cloud.got = Size /\ cloud.image = cloud.asked

EndOfStream ==
    /\ cloud.pc = "read"
    /\ IF ChecksumMatches
       THEN /\ cloud' = [cloud EXCEPT !.pc = "verify"]
            /\ UNCHANGED <<flash, otadata, boot, s_ota_in_progress>> /\ CloudStays
       ELSE CloudFails

VerifyDownload ==
    /\ cloud.pc = "verify"
    /\ IF Intact(Update)
       THEN /\ SetBootPartition /\ UNCHANGED <<flash, s_ota_in_progress>>
            /\ cloud' = [cloud EXCEPT !.pc = "restart"] /\ CloudStays
       ELSE CloudFails

RestartAfterDownload == cloud.pc = "restart" /\ Reboot

CloudTaskStep == \/ OpenFails \/ Open \/ ReadFails \/ (\E n \in Units: Read(n))
                 \/ EndOfStream \/ VerifyDownload \/ RestartAfterDownload

-----------------------------------------------------------------------------
Next ==
    \/ Bootloader \/ PowerLoss \/ Network \/ MainStep
    \/ HttpClient \/ HttpTask
    \/ (\E i \in Downloads, j \in Downloads: start_ota(i, j)) \/ CloudTaskStep

Spec == Init /\ [][Next]_vars

\* The tasks run; nothing is assumed of the network, of clients or of the cloud.
Fairness == WF_vars(Bootloader) /\ WF_vars(MainStep) /\ WF_vars(HttpTask)
            /\ WF_vars(CloudTaskStep)
LiveSpec == Spec /\ Fairness

-----------------------------------------------------------------------------
(* Properties. *)

\* The types of the state.
TypeOK ==
    /\ flash \in [Slots -> [Units -> Images \cup {"erased"}]]
    /\ otadata \in [Slots -> {"undefined", "new", "pending", "valid", "aborted"}]
    /\ boot \in Slots /\ running \in Slots /\ uptime \in 0 .. ValidationTime /\ online \in BOOLEAN
    /\ phase \in {"off", "init", "loop", "returned", "bricked"}
    /\ http \in [pc: {"idle", "recv", "restart"}, image: Images, got: 0 .. Size,
                 timeouts: 0 .. MAX_RECV_TIMEOUTS - 1]
    /\ cloud \in [pc: {"idle", "open", "read", "verify", "restart"}, image: Images,
                  asked: Images, got: 0 .. Size]
    /\ s_ota_in_progress \in BOOLEAN

\* Whatever is uploaded or downloaded, by whom and when, and wherever the power
\* is cut: one partition always holds a validated image that works.
AlwaysAFallback ==
    \E s \in Slots: Intact(s) /\ Content(s) \in Good /\ otadata[s] = "valid"

\* The image that a download leaves to be booted is the one whose checksum was
\* asked for.
InstallsWhatItChecked ==
    cloud.pc = "restart" => Intact(Update) /\ Content(Update) = cloud.asked

\* No image for another board ever runs.
BoardMatches == phase \in {"init", "loop"} => Content(running) \notin Foreign

\* An image that does not work is gone in the end.
BadIsRolledBack ==
    (phase # "off" /\ Content(running) \notin Good) ~> (Content(running) \in Good)

\* An upload whose client has vanished gives the HTTP task back.
HttpTaskIsFreed == (http.pc # "idle") ~> (http.pc = "idle")

\* No error of a download leaves the guard taken, which would refuse all later
\* ones until a restart.
GuardIsReleased == s_ota_in_progress ~> ~s_ota_in_progress

\* ota.md: an image that has come up as far as the main loop is validated.
\* Broken by the code: without a network a working image is not validated by
\* reaching the main loop, and is rolled back when its time is up.
ReachingLoopValidates == phase = "loop" /\ uptime > 0 => ~pending_verify
=============================================================================
