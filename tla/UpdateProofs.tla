---------------------------- MODULE UpdateProofs ----------------------------
(***************************************************************************)
(* What updates keep, for any images, sizes, uploads and downloads: one    *)
(* partition always holds a validated image that works and may be booted,  *)
(* no image of another board runs, and a download is installed as it was   *)
(* checked.                                                                *)
(*                                                                         *)
(* And what the connection to the cloud that orders them keeps, for        *)
(* whatever requests say and wherever they are cut short: the              *)
(* configuration that was acknowledged, what cert_loaded says of the       *)
(* certificate, and what jobs are told.                                    *)
(***************************************************************************)
EXTENDS Ota, Sequences, TLAPS

CONSTANTS Values, Broker, Pairs, Jobs, Cancels, Updates, MaxRequests, MaxOutages, MaxReboots
VARIABLES ram, cloud_flash, cert_loaded, request, handled, acknowledged, cloud_client,
          cloud_connected, network, ota, begun, cloud_cloud, announced, notified, handling,
          cloud_outbox, hanging, cloud_used

Aws == INSTANCE AwsCloud WITH
  flash <- cloud_flash, client <- cloud_client, connected <- cloud_connected,
  cloud <- cloud_cloud, outbox <- cloud_outbox, used <- cloud_used

-----------------------------------------------------------------------------
(* The inductive invariant. *)

Fallback(s) == Intact(s) /\ Content(s) \in Good /\ otadata[s] = "valid"

(* The running image is whole, and is the fallback itself or on trial; on  *)
(* trial nothing writes to the other partition, which is the fallback.     *)
OneToFallBackOn ==
    /\ Intact(running)
    /\ \/ Fallback(running)
       \/ /\ otadata[running] = "pending" /\ boot = running /\ Fallback(Update)
          /\ http.pc = "idle" /\ cloud.pc \in {"idle", "open"}

(* What is to be booted is what runs, or an image that was never tried.    *)
BootIsKnown == boot = running \/ otadata[boot] = "new"

(* Only the main loop's device updates; its boot always finds an image.    *)
LoopIsNeeded == (http.pc # "idle" \/ cloud.pc # "idle") => phase = "loop"
NeverBricked == phase # "bricked"

IInv == /\ TypeOK /\ OneToFallBackOn /\ BootIsKnown /\ LoopIsNeeded /\ NeverBricked

-----------------------------------------------------------------------------
(* Partitions *)

LEMMA Constants ==
  ASSUME OtaAssumption
  PROVE  /\ Size \in Nat /\ ReadMost \in Nat /\ ValidationTime \in Nat \ {0}
         /\ MAX_RECV_TIMEOUTS \in Nat \ {0}
         /\ Size > ReadMost /\ ReadMost > 1 /\ Units = 1..Size /\ 1 \in Units /\ 2 \in Units
         /\ Factory \in Images /\ Factory \in Good
         /\ Uploads \subseteq Images /\ Downloads \subseteq Images
BY DEF OtaAssumption, Units

LEMMA OtherSlot ==
  ASSUME NEW s \in Slots
  PROVE  1 - s \in Slots /\ 1 - s # s /\ 1 - (1 - s) = s /\ \A x \in Slots : x = s \/ x = 1 - s
BY DEF Slots

(* A write fills units of the partition that does not run.                 *)
LEMMA FlashedWrites ==
  ASSUME OtaAssumption, TypeOK, NEW image \in Images, NEW at \in Nat, NEW n \in Nat
  PROVE  /\ Flashed(image, at, n) \in [Slots -> [Units -> Images \cup {"erased"}]]
         /\ Flashed(image, at, n)[running] = flash[running]
         /\ \A u \in Units : Flashed(image, at, n)[Update][u] =
              IF u \in (at + 1)..(at + n) THEN image ELSE flash[Update][u]
<1>1. Update \in Slots /\ Update # running /\ running \in Slots
  BY OtherSlot DEF Update, TypeOK
<1>2. flash \in [Slots -> [Units -> Images \cup {"erased"}]]
  BY DEF TypeOK
<1> DEFINE row == [u \in Units |-> IF u \in (at + 1)..(at + n) THEN image ELSE flash[Update][u]]
<1>3. Flashed(image, at, n) = [flash EXCEPT ![Update] = row]
  BY DEF Flashed
<1>4. row \in [Units -> Images \cup {"erased"}]
  BY <1>1, <1>2
<1>5. \A u \in Units : row[u] = IF u \in (at + 1)..(at + n) THEN image ELSE flash[Update][u]
  OBVIOUS
<1> HIDE DEF row
<1>6. Flashed(image, at, n)[Update] = row /\ Flashed(image, at, n)[running] = flash[running]
  BY <1>1, <1>2, <1>3
<1> QED
  BY <1>1, <1>2, <1>3, <1>4, <1>5, <1>6

-----------------------------------------------------------------------------
(* The types.                                                              *)

HttpRec == [pc: {"idle", "recv", "restart"}, image: Images, got: 0..Size,
            timeouts: 0..(MAX_RECV_TIMEOUTS - 1)]
CloudRec == [pc: {"idle", "open", "read", "verify", "restart"}, image: Images,
             asked: Images, got: 0..Size]

LEMMA NothingInHand ==
  ASSUME OtaAssumption
  PROVE  NoUpload \in HttpRec /\ NoDownload \in CloudRec
BY Constants DEF NoUpload, NoDownload, HttpRec, CloudRec

LEMMA RebootTypes ==
  ASSUME OtaAssumption, TypeOK, Reboot
  PROVE  TypeOK'
<1>1. uptime' \in 0..ValidationTime /\ phase' = "off" /\ s_ota_in_progress' = FALSE
  BY Constants DEF Reboot
<1>2. http' \in HttpRec /\ cloud' \in CloudRec
  BY NothingInHand DEF Reboot
<1>3. UNCHANGED <<flash, otadata, boot, running, online>>
  BY DEF Reboot
<1> QED
  BY <1>1, <1>2, <1>3 DEF TypeOK, HttpRec, CloudRec

LEMMA BootloaderTypes ==
  ASSUME OtaAssumption, TypeOK, Bootloader
  PROVE  TypeOK'
<1> DEFINE States == {"undefined", "new", "pending", "valid", "aborted"}
           tried == IF otadata[boot] = "pending" THEN [otadata EXCEPT ![boot] = "aborted"]
                    ELSE otadata
<1>1. otadata \in [Slots -> States] /\ boot \in Slots
  BY DEF TypeOK
<1>2. tried \in [Slots -> States]
  BY <1>1
<1>3. otadata' \in [Slots -> States] /\ boot' \in Slots /\ running' \in Slots
      /\ phase' \in {"init", "bricked"}
  <2>1. \A s \in Slots : [tried EXCEPT ![s] = IF @ = "new" THEN "pending" ELSE @]
                         \in [Slots -> States]
    BY <1>2
  <2>2. 1 - boot \in Slots
    BY <1>1, OtherSlot
  <2> QED
    BY <1>1, <1>2, <2>1, <2>2 DEF Bootloader, TypeOK
<1> QED
  BY <1>3 DEF TypeOK, Bootloader

LEMMA MainTypes ==
  ASSUME OtaAssumption, TypeOK, MainStep \/ Network \/ PowerLoss
  PROVE  TypeOK'
<1>1. CASE Reboot
  BY <1>1, RebootTypes
<1>2. CASE BringUp \/ Network
  BY <1>2 DEF TypeOK, BringUp, Network
<1>3. CASE ValidateTurn
  BY <1>3 DEF TypeOK, ValidateTurn
<1>4. CASE Turn
  <2>1. uptime' \in 0..ValidationTime
    BY <1>4, Constants DEF Turn, TypeOK
  <2> QED
    BY <1>4, <2>1 DEF Turn, TypeOK
<1> QED
  BY <1>1, <1>2, <1>3, <1>4 DEF MainStep, CrashInInit, GiveUpTurn, PowerLoss

LEMMA BootTypes ==
  ASSUME OtaAssumption, TypeOK, SetBootPartition
  PROVE  /\ otadata' \in [Slots -> {"undefined", "new", "pending", "valid", "aborted"}]
         /\ boot' \in Slots
<1>1. Update \in Slots
  BY OtherSlot DEF TypeOK, Update
<1> QED
  BY <1>1 DEF SetBootPartition, TypeOK

LEMMA HttpTypes ==
  ASSUME OtaAssumption, TypeOK, HttpTask \/ HttpClient
  PROVE  TypeOK'
<1>1. http \in HttpRec /\ http.image \in Images /\ http.got \in Nat
  BY Constants DEF TypeOK, HttpRec
<1>2. SUFFICES ASSUME ~Reboot
               PROVE  /\ flash' \in [Slots -> [Units -> Images \cup {"erased"}]]
                      /\ otadata' \in [Slots -> {"undefined", "new", "pending", "valid", "aborted"}]
                      /\ boot' \in Slots /\ http' \in HttpRec /\ HttpStays
  BY <1>2, RebootTypes DEF TypeOK, HttpRec, HttpStays
<1>3. CASE HttpFails
  BY <1>3, NothingInHand DEF HttpFails, Partitions, TypeOK
<1>4. CASE RecvTimeout
  <2>1. http.timeouts + 1 \in 0..(MAX_RECV_TIMEOUTS - 1)
    BY <1>1, <1>4, Constants DEF RecvTimeout, Patient, CountTimeout, HttpRec
  <2>2. http' = [http EXCEPT !.timeouts = http.timeouts + 1]
    BY <1>4 DEF RecvTimeout, CountTimeout
  <2>3. http' \in HttpRec
    BY <1>1, <2>1, <2>2 DEF HttpRec
  <2> QED
    BY <1>4, <2>3 DEF RecvTimeout, Partitions, TypeOK
<1>5. CASE FinishUpload /\ Intact(Update)
  <2>1. http' \in HttpRec
    BY <1>1, <1>5 DEF FinishUpload, HttpRec
  <2> QED
    BY <1>5, <2>1, BootTypes DEF FinishUpload, TypeOK
<1>6. ASSUME NEW n \in Units, Recv(n), ~HttpFails
      PROVE  /\ flash' \in [Slots -> [Units -> Images \cup {"erased"}]]
             /\ otadata' \in [Slots -> {"undefined", "new", "pending", "valid", "aborted"}]
             /\ boot' \in Slots /\ http' \in HttpRec /\ HttpStays
  <2>1. n \in Nat /\ http.got + n \in 0..Size
    BY <1>1, <1>6, Constants DEF Recv, Reads
  <2>2. http' = [http EXCEPT !.got = http.got + n, !.timeouts = 0]
    BY <1>6 DEF Recv
  <2>3. 0 \in 0..(MAX_RECV_TIMEOUTS - 1)
    BY Constants
  <2>4. http' \in HttpRec
    BY <1>1, <2>1, <2>2, <2>3 DEF HttpRec
  <2>5. flash' = Flashed(http.image, http.got, n) /\ UNCHANGED <<otadata, boot>> /\ HttpStays
    BY <1>6 DEF Recv
  <2>6. flash' \in [Slots -> [Units -> Images \cup {"erased"}]]
    BY <1>1, <2>1, <2>5, FlashedWrites
  <2> QED
    BY <2>4, <2>5, <2>6 DEF TypeOK
<1>7. ASSUME NEW i \in Uploads, Upload(i)
      PROVE  http' \in HttpRec /\ UNCHANGED Partitions /\ HttpStays
  BY <1>7, NothingInHand, Constants DEF Upload, HttpRec
<1> QED
  BY <1>2, <1>3, <1>4, <1>5, <1>6, <1>7
  DEF HttpTask, HttpClient, RecvGivesUp, RecvFails, RestartAfterUpload, FinishUpload,
      Partitions, TypeOK

LEMMA CloudTypes ==
  ASSUME OtaAssumption, TypeOK,
         CloudTaskStep \/ \E i \in Downloads, j \in Downloads : start_ota(i, j)
  PROVE  TypeOK'
<1>1. cloud \in CloudRec /\ cloud.image \in Images /\ cloud.got \in Nat
  BY Constants DEF TypeOK, CloudRec
<1>2. SUFFICES ASSUME ~Reboot
               PROVE  /\ flash' \in [Slots -> [Units -> Images \cup {"erased"}]]
                      /\ otadata' \in [Slots -> {"undefined", "new", "pending", "valid", "aborted"}]
                      /\ boot' \in Slots /\ cloud' \in CloudRec /\ CloudStays
                      /\ s_ota_in_progress' \in BOOLEAN
  BY <1>2, RebootTypes DEF TypeOK, CloudRec, CloudStays
<1>3. CASE CloudFails
  BY <1>3, NothingInHand DEF CloudFails, Partitions, TypeOK
<1>4. CASE Open
  BY <1>1, <1>4 DEF Open, CloudRec, TypeOK
<1>5. ASSUME NEW n \in Units, Read(n), ~CloudFails
      PROVE  /\ flash' \in [Slots -> [Units -> Images \cup {"erased"}]]
             /\ otadata' \in [Slots -> {"undefined", "new", "pending", "valid", "aborted"}]
             /\ boot' \in Slots /\ cloud' \in CloudRec /\ CloudStays
             /\ s_ota_in_progress' \in BOOLEAN
  <2>1. n \in Nat /\ cloud.got + n \in 0..Size
    BY <1>1, <1>5, Constants DEF Read, Reads
  <2>2. cloud' = [cloud EXCEPT !.got = cloud.got + n]
    BY <1>5 DEF Read
  <2>3. cloud' \in CloudRec
    BY <1>1, <2>1, <2>2 DEF CloudRec
  <2>4. flash' = Flashed(cloud.image, cloud.got, n)
        /\ UNCHANGED <<otadata, boot, s_ota_in_progress>> /\ CloudStays
    BY <1>5 DEF Read
  <2>5. flash' \in [Slots -> [Units -> Images \cup {"erased"}]]
    BY <1>1, <2>1, <2>4, FlashedWrites
  <2> QED
    BY <2>3, <2>4, <2>5 DEF TypeOK
<1>6. CASE EndOfStream /\ ChecksumMatches
  BY <1>1, <1>6 DEF EndOfStream, CloudRec, TypeOK
<1>7. CASE VerifyDownload /\ Intact(Update)
  <2>1. cloud' \in CloudRec
    BY <1>1, <1>7 DEF VerifyDownload, CloudRec
  <2> QED
    BY <1>7, <2>1, BootTypes DEF VerifyDownload, TypeOK
<1>8. ASSUME NEW i \in Downloads, NEW j \in Downloads, start_ota(i, j)
      PROVE  cloud' \in CloudRec /\ s_ota_in_progress' = TRUE /\ UNCHANGED Partitions /\ CloudStays
  BY <1>8, NothingInHand, Constants DEF start_ota, CloudRec
<1> QED
  BY <1>2, <1>3, <1>4, <1>5, <1>6, <1>7, <1>8
  DEF CloudTaskStep, OpenFails, ReadFails, EndOfStream, VerifyDownload, RestartAfterDownload,
      Partitions, TypeOK

LEMMA TypesStep ==
  ASSUME OtaAssumption, TypeOK, [Next]_vars
  PROVE  TypeOK'
<1>1. CASE UNCHANGED vars
  BY <1>1 DEF TypeOK, vars
<1> QED
  BY <1>1, BootloaderTypes, MainTypes, HttpTypes, CloudTypes DEF Next

-----------------------------------------------------------------------------
(* The fallback.                                                           *)

Rest == OneToFallBackOn /\ BootIsKnown /\ LoopIsNeeded /\ NeverBricked

(* What leaves the partitions and the running image alone.                 *)
LEMMA PartitionsStay ==
  ASSUME TypeOK, Rest, UNCHANGED Partitions, running' = running,
         \/ UNCHANGED <<http, cloud>>
         \/ (otadata[running] = "pending" /\ boot = running)
              => http'.pc = "idle" /\ cloud'.pc \in {"idle", "open"}
  PROVE  OneToFallBackOn' /\ BootIsKnown'
BY DEF Rest, OneToFallBackOn, Fallback, Intact, Content, BootIsKnown, Partitions, Update

LEMMA RebootRest ==
  ASSUME TypeOK, Rest, Reboot
  PROVE  Rest'
<1>1. OneToFallBackOn' /\ BootIsKnown'
  BY PartitionsStay DEF Reboot, Partitions, NoUpload, NoDownload
<1> QED
  BY <1>1 DEF Reboot, Rest, LoopIsNeeded, NeverBricked, NoUpload, NoDownload

LEMMA Idle ==
  ASSUME Rest, phase # "loop"
  PROVE  http.pc = "idle" /\ cloud.pc = "idle"
BY DEF Rest, LoopIsNeeded

(* An image on trial is given up for the fallback; a new one is tried, or  *)
(* passed over when it is not whole.                                       *)
LEMMA BootloaderRest ==
  ASSUME TypeOK, Rest, Bootloader
  PROVE  Rest'
<1> DEFINE tried == IF otadata[boot] = "pending" THEN [otadata EXCEPT ![boot] = "aborted"]
                    ELSE otadata
           Fit(s) == Intact(s) /\ tried[s] \in {"new", "valid"}
           pick == IF Fit(boot) THEN boot ELSE 1 - boot
           States == {"undefined", "new", "pending", "valid", "aborted"}
<1>1. http.pc = "idle" /\ cloud.pc = "idle"
  BY Idle DEF Bootloader
<1>2. boot \in Slots /\ running \in Slots /\ otadata \in [Slots -> States]
  BY DEF TypeOK
<1>3. tried \in [Slots -> States] /\ pick \in Slots
      /\ \A s \in Slots : s # boot => tried[s] = otadata[s]
  BY <1>2, OtherSlot
(* the slot that is not booted from is a fallback, or the one that is      *)
<1>4. /\ Fallback(running) \/ Fallback(1 - running)
      /\ \A s \in Slots : Fallback(s) /\ (s = boot => tried = otadata) => Fit(s)
  BY <1>2, <1>3 DEF Rest, OneToFallBackOn, Fallback, Update
<1>5. Fit(pick)
  BY <1>2, <1>3, <1>4, OtherSlot DEF Rest, OneToFallBackOn, BootIsKnown, Fallback, Update
<1>6. /\ boot' = pick /\ running' = pick /\ phase' = "init"
      /\ otadata' = [tried EXCEPT ![pick] = IF @ = "new" THEN "pending" ELSE @]
      /\ UNCHANGED <<flash, http, cloud>>
  BY <1>5 DEF Bootloader
<1>7. tried[pick] = "valid" => Fallback(pick)
  BY <1>2, <1>3, <1>5, OtherSlot DEF Rest, OneToFallBackOn, BootIsKnown, Fallback, Update
<1>8. tried[pick] = "new" => Fallback(1 - pick)
  BY <1>2, <1>3, <1>5, OtherSlot DEF Rest, OneToFallBackOn, BootIsKnown, Fallback, Update
<1> HIDE DEF tried, pick
<1>9. tried[pick] \in {"new", "valid"} /\ Intact(pick)
  BY <1>5
<1>10. \A s \in Slots : otadata'[s] = IF s = pick /\ tried[s] = "new" THEN "pending" ELSE tried[s]
  BY <1>3, <1>6
<1>11. OneToFallBackOn'
  <2>1. Intact(running)'
    BY <1>6, <1>9 DEF Intact
  <2>2. CASE tried[pick] = "valid"
    <3>1. otadata'[running'] = "valid" /\ Content(pick) \in Good
      BY <1>3, <1>6, <1>7, <1>10, <2>2 DEF Fallback
    <3>2. Content(running)' \in Good
      BY <1>6, <3>1 DEF Content
    <3>3. Fallback(running)'
      BY <2>1, <3>1, <3>2 DEF Fallback
    <3> QED
      BY <2>1, <3>3 DEF OneToFallBackOn
  <2>3. CASE tried[pick] = "new"
    <3>1. 1 - pick \in Slots /\ 1 - pick # pick
      BY <1>3, OtherSlot
    <3>2. tried[1 - pick] = "valid"
      BY <1>3, <1>8, <2>3, <3>1 DEF Fallback, tried
    <3>3. otadata'[1 - pick] = "valid" /\ Intact(1 - pick) /\ Content(1 - pick) \in Good
      BY <1>8, <1>10, <2>3, <3>1, <3>2 DEF Fallback
    <3>4. Update' = 1 - pick
      BY <1>6 DEF Update
    <3>5. Fallback(Update)'
      BY <1>6, <3>3, <3>4 DEF Fallback, Intact, Content
    <3>6. otadata'[running'] = "pending" /\ boot' = running'
      BY <1>3, <1>6, <1>10, <2>3
    <3>7. http'.pc = "idle" /\ cloud'.pc = "idle"
      BY <1>1, <1>6
    <3> QED
      BY <2>1, <3>5, <3>6, <3>7 DEF OneToFallBackOn
  <2> QED
    BY <1>9, <2>2, <2>3
<1> QED
  BY <1>1, <1>6, <1>11 DEF Rest, BootIsKnown, LoopIsNeeded, NeverBricked

LEMMA MainRest ==
  ASSUME OtaAssumption, TypeOK, Rest, MainStep \/ Network \/ PowerLoss
  PROVE  Rest'
<1>1. CASE Reboot
  BY <1>1, RebootRest
<1>2. CASE BringUp \/ Network \/ Turn
  <2>1. UNCHANGED Partitions /\ running' = running /\ UNCHANGED <<http, cloud>>
    BY <1>2 DEF BringUp, Network, Turn, Partitions
  <2>2. OneToFallBackOn' /\ BootIsKnown'
    BY <2>1, PartitionsStay
  <2>3. LoopIsNeeded' /\ NeverBricked'
    BY <1>2, <2>1, Idle DEF Rest, LoopIsNeeded, NeverBricked, BringUp, Network, Turn
  <2> QED
    BY <2>2, <2>3 DEF Rest
<1>3. CASE ValidateTurn
  <2>1. /\ otadata' = [otadata EXCEPT ![running] = "valid"]
        /\ UNCHANGED <<flash, boot, phase, running, http, cloud>>
        /\ otadata[running] = "pending" /\ Content(running) \in Good
    BY <1>3 DEF ValidateTurn, pending_verify, net_ok, ReachesNetwork
  <2>2. Intact(running) /\ boot = running /\ running \in Slots
    BY <2>1 DEF Rest, OneToFallBackOn, Fallback, TypeOK
  <2>3. Intact(running)' /\ Fallback(running)' /\ boot' = running'
    BY <2>1, <2>2 DEF Fallback, Intact, Content, TypeOK
  <2> QED
    BY <2>1, <2>3 DEF Rest, OneToFallBackOn, BootIsKnown, LoopIsNeeded, NeverBricked
<1> QED
  BY <1>1, <1>2, <1>3 DEF MainStep, CrashInInit, GiveUpTurn, PowerLoss

(* An update writes to the other partition, when the running one is the    *)
(* fallback.                                                               *)
LEMMA WriteRest ==
  ASSUME TypeOK, Rest, Fallback(running), phase = "loop",
         UNCHANGED <<phase, running>>, UNCHANGED <<otadata, boot>> \/ SetBootPartition,
         flash'[running] = flash[running]
  PROVE  Rest'
<1>1. running \in Slots /\ Update \in Slots /\ Update # running
  BY OtherSlot DEF TypeOK, Update
<1>2. otadata'[running] = otadata[running]
  BY <1>1 DEF SetBootPartition, TypeOK
<1>3. BootIsKnown'
  BY <1>1 DEF Rest, BootIsKnown, SetBootPartition, TypeOK
<1>4. Intact(running)' /\ Fallback(running)'
  BY <1>2 DEF Fallback, Intact, Content
<1> QED
  BY <1>3, <1>4 DEF Rest, OneToFallBackOn, LoopIsNeeded, NeverBricked

(* Whoever receives or has received writes beside a fallback.              *)
LEMMA WritersHaveAFallback ==
  ASSUME Rest, http.pc # "idle" \/ cloud.pc \notin {"idle", "open"}
  PROVE  Fallback(running) /\ phase = "loop"
BY DEF Rest, OneToFallBackOn, LoopIsNeeded

LEMMA NotOnTrial ==
  ASSUME Rest, BeginSucceeds
  PROVE  Fallback(running)
BY DEF Rest, OneToFallBackOn, BeginSucceeds, pending_verify

LEMMA HttpRest ==
  ASSUME OtaAssumption, TypeOK, Rest, HttpTask \/ HttpClient
  PROVE  Rest'
<1>1. CASE Reboot
  BY <1>1, RebootRest
<1>2. CASE HttpFails /\ http.pc = "recv"
  BY <1>2, WritersHaveAFallback, WriteRest DEF HttpFails, HttpStays, Partitions
<1>3. CASE RecvTimeout
  BY <1>3, WritersHaveAFallback, WriteRest DEF RecvTimeout, HttpStays, Partitions
<1>4. CASE FinishUpload /\ ~HttpFails
  BY <1>4, WritersHaveAFallback, WriteRest DEF FinishUpload, HttpStays, Partitions
<1>5. ASSUME NEW n \in Units, Recv(n), ~HttpFails
      PROVE  Rest'
  <2>1. n \in Nat /\ http.got \in Nat /\ http.image \in Images
    BY <1>5, Constants DEF TypeOK
  <2>2. flash'[running] = flash[running]
    BY <1>5, <2>1, FlashedWrites DEF Recv
  <2> QED
    BY <1>5, <2>2, WritersHaveAFallback, WriteRest DEF Recv, HttpStays
<1>6. ASSUME NEW i \in Uploads, Upload(i)
      PROVE  Rest'
  BY <1>6, NotOnTrial, WriteRest DEF Upload, HttpStays, Partitions
<1> QED
  BY <1>1, <1>2, <1>3, <1>4, <1>5, <1>6
  DEF HttpTask, HttpClient, RecvGivesUp, RecvFails, RestartAfterUpload, Recv, FinishUpload

LEMMA CloudRest ==
  ASSUME OtaAssumption, TypeOK, Rest,
         CloudTaskStep \/ \E i \in Downloads, j \in Downloads : start_ota(i, j)
  PROVE  Rest'
<1>1. CASE Reboot
  BY <1>1, RebootRest
<1>2. ASSUME UNCHANGED Partitions, CloudStays, phase = "loop",
             cloud'.pc \in {"idle", "open"}
      PROVE  Rest'
  <2>1. OneToFallBackOn' /\ BootIsKnown'
    BY <1>2, PartitionsStay DEF CloudStays, Rest, OneToFallBackOn, Fallback
  <2> QED
    BY <1>2, <2>1 DEF CloudStays, Rest, LoopIsNeeded, NeverBricked
<1>3. CASE CloudFails /\ cloud.pc # "idle"
  BY <1>2, <1>3 DEF CloudFails, NoDownload, Rest, LoopIsNeeded
<1>4. CASE Open
  <2>1. phase = "loop"
    BY <1>4 DEF Open, Rest, LoopIsNeeded
  <2> QED
    BY <1>4, <2>1, NotOnTrial, WriteRest DEF Open, CloudStays
<1>5. ASSUME NEW n \in Units, Read(n), ~CloudFails
      PROVE  Rest'
  <2>1. n \in Nat /\ cloud.got \in Nat /\ cloud.image \in Images
    BY <1>5, Constants DEF TypeOK
  <2>2. flash'[running] = flash[running]
    BY <1>5, <2>1, FlashedWrites DEF Read
  <2> QED
    BY <1>5, <2>2, WritersHaveAFallback, WriteRest DEF Read, CloudStays
<1>6. CASE EndOfStream /\ ~CloudFails
  BY <1>6, WritersHaveAFallback, WriteRest DEF EndOfStream, CloudStays
<1>7. CASE VerifyDownload /\ ~CloudFails
  BY <1>7, WritersHaveAFallback, WriteRest DEF VerifyDownload, CloudStays
<1>8. ASSUME NEW i \in Downloads, NEW j \in Downloads, start_ota(i, j)
      PROVE  Rest'
  BY <1>2, <1>8 DEF start_ota, NoDownload
<1> QED
  BY <1>1, <1>3, <1>4, <1>5, <1>6, <1>7, <1>8
  DEF CloudTaskStep, OpenFails, ReadFails, Read, EndOfStream, VerifyDownload, RestartAfterDownload

-----------------------------------------------------------------------------
LEMMA Initially ==
  ASSUME OtaAssumption, Init
  PROVE  IInv
<1>1. otadata \in [Slots -> {"undefined", "new", "pending", "valid", "aborted"}]
      /\ boot \in Slots /\ running \in Slots
  BY DEF Init, Slots
<1>2. flash \in [Slots -> [Units -> Images \cup {"erased"}]]
  BY Constants DEF Init
<1>3. TypeOK
  <2>1. 0 \in 0..ValidationTime /\ uptime = 0 /\ phase = "off" /\ online = TRUE
        /\ s_ota_in_progress = FALSE
    BY Constants DEF Init
  <2>2. http \in HttpRec /\ cloud \in CloudRec
    BY NothingInHand DEF Init
  <2> QED
    BY <1>1, <1>2, <2>1, <2>2 DEF TypeOK, HttpRec, CloudRec
<1>4. Fallback(running)
  BY Constants DEF Init, Fallback, Intact, Content, Slots
<1> QED
  BY <1>3, <1>4 DEF Init, IInv, OneToFallBackOn, BootIsKnown, LoopIsNeeded, NeverBricked,
     NoUpload, NoDownload, Fallback

LEMMA Kept ==
  ASSUME OtaAssumption, IInv, [Next]_vars
  PROVE  IInv'
<1>1. TypeOK'
  BY TypesStep DEF IInv
<1>2. CASE UNCHANGED vars
  BY <1>1, <1>2 DEF IInv, vars, OneToFallBackOn, Fallback, Intact, Content, BootIsKnown, Update,
     LoopIsNeeded, NeverBricked
<1>3. CASE Next
  <2>1. Rest'
    BY <1>3, BootloaderRest, MainRest, HttpRest, CloudRest DEF Next, IInv, Rest
  <2> QED
    BY <1>1, <2>1 DEF IInv, Rest
<1> QED
  BY <1>2, <1>3

(* The invariant the theorems below follow from is inductive, from any set *)
(* of images that satisfies the assumptions.                               *)
THEOREM UpdatesKeepIInv ==
  ASSUME OtaAssumption
  PROVE  Spec => []IInv
<1>1. Init => IInv
  BY Initially
<1>2. IInv /\ [Next]_vars => IInv'
  BY Kept
<1> QED
  BY <1>1, <1>2, PTL DEF Spec

(* Whatever is uploaded or downloaded, by whom and when, and wherever the  *)
(* power is cut, one partition holds a validated image that works, and the *)
(* bootloader always finds an image to boot.                               *)
THEOREM AFallbackIsKept ==
  ASSUME OtaAssumption
  PROVE  Spec => [](TypeOK /\ AlwaysAFallback /\ NeverBricked)
<1>1. IInv => TypeOK /\ AlwaysAFallback /\ NeverBricked
  BY OtherSlot DEF IInv, OneToFallBackOn, Fallback, AlwaysAFallback, TypeOK, Update
<1> QED
  BY <1>1, UpdatesKeepIInv, PTL

-----------------------------------------------------------------------------
(* Images of another board: no slot's second unit, which holds the         *)
(* descriptor, is of one.  An upload is either never of another board, or  *)
(* its first read reaches the descriptor, and there is one.                *)

DescriptorsAreRead ==
    \/ Uploads \cap Foreign = {}
    \/ ~ShortReads /\ Foreign \cap NoDescriptor = {}

BoardInv ==
    /\ \A s \in Slots : flash[s][2] \notin Foreign
    /\ http.pc = "recv" => \/ Uploads \cap Foreign = {} /\ http.image \notin Foreign
                           \/ ~ShortReads /\ Foreign \cap NoDescriptor = {} /\ http.got # 1

LEMMA BoardInitially ==
  ASSUME OtaAssumption, Init
  PROVE  BoardInv
BY Constants DEF Init, BoardInv, NoUpload, OtaAssumption

LEMMA BoardKept ==
  ASSUME OtaAssumption, DescriptorsAreRead, TypeOK, BoardInv, [Next]_vars
  PROVE  BoardInv'
(* only a write changes the descriptors, and only in the other partition   *)
<1>1. ASSUME NEW image \in Images, NEW at \in Nat, NEW n \in Nat,
             flash' = Flashed(image, at, n), running' = running,
             at < 2 /\ at + n >= 2 => image \notin Foreign
      PROVE  \A s \in Slots : flash'[s][2] \notin Foreign
  <2>1. running \in Slots /\ Update \in Slots /\ \A s \in Slots : s = running \/ s = Update
    BY OtherSlot DEF TypeOK, Update
  <2>2. flash'[running][2] \notin Foreign
    BY <1>1, <2>1, FlashedWrites DEF BoardInv
  <2>3. flash'[Update][2] = IF 2 \in (at + 1)..(at + n) THEN image ELSE flash[Update][2]
    <3>1. \A u \in Units : Flashed(image, at, n)[Update][u] =
             IF u \in (at + 1)..(at + n) THEN image ELSE flash[Update][u]
      BY FlashedWrites
    <3>2. 2 \in Units
      BY Constants
    <3> QED
      BY <1>1, <3>1, <3>2
  <2>4. flash'[Update][2] \notin Foreign
    BY <1>1, <2>1, <2>3 DEF BoardInv
  <2> QED
    BY <2>1, <2>2, <2>4
<1>2. ASSUME UNCHANGED flash, http' = http \/ http' = NoUpload
      PROVE  BoardInv'
  BY <1>2 DEF BoardInv, NoUpload
<1>3. ASSUME NEW n \in Units, Recv(n), ~HttpFails
      PROVE  BoardInv'
  <2>1. n \in Nat /\ http.got \in Nat /\ http.image \in Images
    BY <1>3, Constants DEF TypeOK
  <2>2. HeaderAccepted(n) /\ http.pc = "recv" /\ (n = 1 /\ http.got = 0 => ShortReads)
        /\ flash' = Flashed(http.image, http.got, n) /\ running' = running
    BY <1>3 DEF Recv, HttpStays
  <2>3. http'.pc = "recv" /\ http'.image = http.image /\ http'.got = http.got + n
    BY <1>3 DEF Recv, TypeOK
  <2>4. http.got < 2 /\ http.got + n >= 2 => http.image \notin Foreign
    BY <2>1, <2>2 DEF BoardInv, HeaderAccepted
  <2>5. \A s \in Slots : flash'[s][2] \notin Foreign
    BY <1>1, <2>1, <2>2, <2>4
  <2>6. ~ShortReads => http.got + n # 1
    BY <1>3, <2>1, <2>2, Constants
  <2> QED
    BY <2>2, <2>3, <2>5, <2>6 DEF BoardInv
<1>4. ASSUME NEW n \in Units, Read(n), ~CloudFails
      PROVE  BoardInv'
  <2>1. n \in Nat /\ cloud.got \in Nat /\ cloud.image \in Images
    BY <1>4, Constants DEF TypeOK
  <2>2. /\ HeaderGathered(cloud.got + n) /\ flash' = Flashed(cloud.image, cloud.got, n)
        /\ UNCHANGED <<http, running>>
    BY <1>4 DEF Read, CloudStays
  <2>3. \A s \in Slots : flash'[s][2] \notin Foreign
    BY <1>1, <2>1, <2>2 DEF HeaderGathered
  <2> QED
    BY <2>2, <2>3 DEF BoardInv
<1>5. ASSUME NEW i \in Uploads, Upload(i)
      PROVE  BoardInv'
  <2>1. http'.pc = "recv" /\ http'.image = i /\ http'.got = 0 /\ flash' = flash
    BY <1>5 DEF Upload, NoUpload, Partitions
  <2> QED
    BY <2>1 DEF BoardInv, DescriptorsAreRead
<1>6. CASE RecvTimeout \/ (FinishUpload /\ ~HttpFails)
  <2>1. UNCHANGED flash /\ http'.image = http.image /\ http'.got = http.got /\ http.pc = "recv"
    BY <1>6 DEF RecvTimeout, FinishUpload, Partitions, TypeOK
  <2> QED
    BY <2>1 DEF BoardInv
<1> QED
  BY <1>2, <1>3, <1>4, <1>5, <1>6
  DEF Next, vars, Bootloader, PowerLoss, Network, Reboot, MainStep, BringUp, CrashInInit,
      ValidateTurn, GiveUpTurn, Turn, HttpClient, HttpTask, RecvGivesUp, RecvFails, Recv,
      FinishUpload, RestartAfterUpload, HttpFails, CloudTaskStep, OpenFails, Open, ReadFails,
      Read, EndOfStream, VerifyDownload, RestartAfterDownload, CloudFails, CloudStays,
      Partitions, start_ota

(* No image for another board runs, however it came: each descriptor is    *)
(* looked at before it is written.                                         *)
THEOREM TheBoardMatches ==
  ASSUME OtaAssumption, DescriptorsAreRead
  PROVE  Spec => []BoardMatches
<1>1. Init => BoardInv
  BY BoardInitially
<1>2. IInv /\ BoardInv /\ [Next]_vars => BoardInv'
  BY BoardKept DEF IInv
<1>3. IInv /\ BoardInv => BoardMatches
  BY Constants DEF IInv, OneToFallBackOn, BoardInv, BoardMatches, Intact, Content, TypeOK
<1> QED
  BY <1>1, <1>2, <1>3, UpdatesKeepIInv, PTL DEF Spec

-----------------------------------------------------------------------------
(* A download with no upload beside it: what has been read is in the       *)
(* partition, and the checksum was of all of it.                           *)

DownloadInv ==
    /\ cloud.pc # "idle" => s_ota_in_progress
    /\ cloud.pc = "open" => cloud.got = 0
    /\ cloud.pc = "read" => \A u \in 1..cloud.got : flash[Update][u] = cloud.image
    /\ cloud.pc \in {"verify", "restart"} =>
         cloud.image = cloud.asked /\ \A u \in Units : flash[Update][u] = cloud.asked

LEMMA ReadsFill ==
  ASSUME OtaAssumption, TypeOK, DownloadInv, NEW n \in Units, Read(n), ~CloudFails
  PROVE  DownloadInv'
<1>1. n \in Nat /\ cloud.got \in Nat /\ cloud.image \in Images
  BY Constants DEF TypeOK
<1>2. /\ flash' = Flashed(cloud.image, cloud.got, n) /\ cloud.pc = "read"
      /\ UNCHANGED <<running, s_ota_in_progress>> /\ cloud.got + n <= Size
  BY DEF Read, CloudStays, Reads
<1>3. cloud'.pc = "read" /\ cloud'.image = cloud.image /\ cloud'.got = cloud.got + n
  BY DEF Read, TypeOK
<1>4. ASSUME NEW u \in 1..(cloud.got + n)
      PROVE  flash'[Update][u] = cloud.image
  <2>1. u \in Units
    BY <1>1, <1>2, Constants
  <2>2. Flashed(cloud.image, cloud.got, n)[Update][u] =
          IF u \in (cloud.got + 1)..(cloud.got + n) THEN cloud.image ELSE flash[Update][u]
    BY <1>1, <2>1, FlashedWrites
  <2>3. u \in 1..cloud.got => flash[Update][u] = cloud.image
    BY <1>2 DEF DownloadInv
  <2> QED
    BY <1>1, <1>2, <1>4, <2>2, <2>3
<1>5. \A u \in 1..cloud'.got : flash'[Update'][u] = cloud'.image
  BY <1>2, <1>3, <1>4 DEF Update
<1> QED
  BY <1>2, <1>3, <1>5 DEF DownloadInv

LEMMA DownloadKept ==
  ASSUME OtaAssumption, IInv, DownloadInv, http.pc = "idle", http'.pc = "idle", [Next]_vars
  PROVE  DownloadInv'
<1>1. ASSUME UNCHANGED <<flash, running, cloud, s_ota_in_progress>>
      PROVE  DownloadInv'
  BY <1>1 DEF DownloadInv, Update
<1>2. ASSUME cloud' = NoDownload
      PROVE  DownloadInv'
  BY <1>2 DEF DownloadInv, NoDownload
<1>3. CASE Bootloader
  BY <1>3 DEF Bootloader, DownloadInv, IInv, LoopIsNeeded
<1>4. CASE Open
  <2>1. /\ cloud'.pc = "read" /\ cloud'.got = 0 /\ UNCHANGED s_ota_in_progress
        /\ cloud.pc = "open"
    BY <1>4 DEF Open, DownloadInv, IInv, TypeOK
  <2> QED
    BY <2>1 DEF DownloadInv
<1>5. ASSUME NEW n \in Units, Read(n)
      PROVE  DownloadInv'
  BY <1>2, <1>5, ReadsFill DEF Read, CloudFails, IInv
<1>6. CASE EndOfStream /\ ~CloudFails
  <2>1. /\ UNCHANGED <<flash, running, s_ota_in_progress>> /\ cloud.pc = "read"
        /\ cloud.got = Size /\ cloud.image = cloud.asked
        /\ cloud'.pc = "verify" /\ cloud'.image = cloud.image /\ cloud'.asked = cloud.asked
    BY <1>6 DEF EndOfStream, ChecksumMatches, CloudStays, IInv, TypeOK
  <2> QED
    BY <2>1 DEF DownloadInv, Update, Units
<1>7. CASE VerifyDownload /\ ~CloudFails
  <2>1. /\ UNCHANGED <<flash, running, s_ota_in_progress>> /\ cloud.pc = "verify"
        /\ cloud'.pc = "restart" /\ cloud'.image = cloud.image /\ cloud'.asked = cloud.asked
    BY <1>7 DEF VerifyDownload, CloudStays, IInv, TypeOK
  <2> QED
    BY <2>1 DEF DownloadInv, Update
<1>8. ASSUME NEW i \in Downloads, NEW j \in Downloads, start_ota(i, j)
      PROVE  DownloadInv'
  BY <1>8 DEF start_ota, DownloadInv, NoDownload
<1> QED
  BY <1>1, <1>2, <1>3, <1>4, <1>5, <1>6, <1>7, <1>8
  DEF Next, vars, PowerLoss, Network, Reboot, MainStep, BringUp, CrashInInit, ValidateTurn,
      GiveUpTurn, Turn, HttpClient, HttpTask, RecvTimeout, RecvGivesUp, RecvFails, Recv,
      FinishUpload, RestartAfterUpload, HttpFails, HttpStays, Upload, CloudTaskStep, OpenFails,
      ReadFails, EndOfStream, VerifyDownload, RestartAfterDownload, CloudFails, CloudStays,
      Partitions

(* While nothing is uploaded, the image that a download leaves to be       *)
(* booted is whole, and the one whose checksum was asked for.              *)
THEOREM WhatWasCheckedIsInstalled ==
  ASSUME OtaAssumption
  PROVE  Spec /\ [](http.pc = "idle") => []InstallsWhatItChecked
<1>1. Init => DownloadInv
  BY DEF Init, DownloadInv, NoDownload
<1>2. IInv /\ DownloadInv /\ http.pc = "idle" /\ (http.pc = "idle")' /\ [Next]_vars => DownloadInv'
  BY DownloadKept
<1>3. IInv /\ DownloadInv => InstallsWhatItChecked
  BY Constants DEF IInv, TypeOK, DownloadInv, InstallsWhatItChecked, Intact, Content
<1> QED
  BY <1>1, <1>2, <1>3, UpdatesKeepIInv, PTL DEF Spec

(* ... as it is on a device nobody uploads to.                             *)
COROLLARY DownloadsAloneAreWhole ==
  ASSUME OtaAssumption, Uploads = {}
  PROVE  Spec => []InstallsWhatItChecked
<1>1. Init => http.pc = "idle"
  BY DEF Init, NoUpload
<1>2. http.pc = "idle" /\ [Next]_vars => (http.pc = "idle")'
  <2>1. http.pc = "idle" => ~HttpTask /\ ~HttpClient
    BY DEF HttpTask, HttpClient, RecvTimeout, RecvGivesUp, RecvFails, Recv, FinishUpload,
        RestartAfterUpload
  <2>2. CloudTaskStep \/ (\E i \in Downloads, j \in Downloads : start_ota(i, j))
          => http' = http \/ http' = NoUpload
    BY DEF CloudTaskStep, OpenFails, Open, ReadFails, Read, EndOfStream, VerifyDownload,
        RestartAfterDownload, CloudFails, CloudStays, start_ota, Reboot
  <2>3. Bootloader \/ PowerLoss \/ Network \/ MainStep \/ UNCHANGED vars
          => http' = http \/ http' = NoUpload
    BY DEF vars, Bootloader, PowerLoss, Network, Reboot, MainStep, BringUp, CrashInInit,
        ValidateTurn, GiveUpTurn, Turn
  <2> QED
    BY <2>1, <2>2, <2>3 DEF Next, NoUpload
<1> QED
  BY <1>1, <1>2, WhatWasCheckedIsInstalled, PTL DEF Spec

-----------------------------------------------------------------------------
(* The cloud: the inductive invariant. *)

(* A request is of some of the fields.                                     *)
RequestOK ==
  /\ request = [f \in DOMAIN request |-> request[f]]
  /\ \A f \in DOMAIN request : request[f] \in Values[f]
  /\ cloud_flash = [f \in Aws!Fields |-> cloud_flash[f]] /\ ram = [f \in Aws!Fields |-> ram[f]]
  /\ acknowledged = [f \in Aws!Fields |-> acknowledged[f]]

(* The flash holds of each field what was acknowledged, or what the        *)
(* request that is being handled says; the memory holds the same, but for  *)
(* the name of the thing that a restart makes up.                          *)
FlashIs(f) == IF f \in handled THEN request[f] ELSE acknowledged[f]
ConfigIsKept ==
  \A f \in Aws!Fields :
    /\ cloud_flash[f] = FlashIs(f)
    /\ ram[f] = cloud_flash[f] \/ (f = "thing" /\ cloud_flash[f] = Aws!None /\ ram[f] = Aws!Default)

(* cert_loaded may be stale while the halves are being written.            *)
BothHalves == ram.cert # Aws!None /\ ram.key # Aws!None
CertLoadedStands == {"cert", "key"} \cap handled = {} => (cert_loaded <=> BothHalves)

(* What the cloud has notified of last, and what the client's task is      *)
(* deciding on, was neither begun nor refused; no refusal that is on its   *)
(* way is of a job that was begun.  IN_PROGRESS that is on its way will be *)
(* so when it arrives, if the job is open by then.                         *)
Fresh(j) == j \notin begun /\ cloud_cloud[j] # "FAILED" /\ j \notin Aws!Refusals
NotifiedIsFresh == notified # Aws!NoJob => Fresh(notified) /\ notified # handling.job
HandledIsFresh == handling # Aws!Idle => Fresh(handling.job)
RefusedIsNotBegun == Aws!Refusals \cap begun = {}
Explained(j) == j \in begun \cup Aws!Refusals \cup hanging \/ handling.job = j
WordStands(word) ==
  /\ word.job \in announced
  /\ word.status = "IN_PROGRESS" /\ word.job \in Aws!Open => Explained(word.job)
WordIsTrue == \A i \in DOMAIN cloud_outbox : WordStands(cloud_outbox[i])

Word == [job : 1..Jobs, status : {"IN_PROGRESS", "FAILED"}]

(* No request empties a half of the certificate: handle_post_cloud() takes *)
(* a half only when it is longer than ten characters.                      *)
HalvesAreSaid == Aws!None \notin Values.cert \cup Values.key
EverLoaded == (cert_loaded \/ cloud_client # Aws!NoClient) => BothHalves

-----------------------------------------------------------------------------
(* The configuration                                                       *)

LEMMA LoadConfig ==
  ASSUME NEW stored, stored = [f \in Aws!Fields |-> stored[f]]
  PROVE  /\ Aws!load_config(stored) = [f \in Aws!Fields |-> Aws!load_config(stored)[f]]
         /\ \A f \in Aws!Fields : f # "thing" => Aws!load_config(stored)[f] = stored[f]
         /\ Aws!load_config(stored)["thing"] =
              IF stored["thing"] = Aws!None THEN Aws!Default ELSE stored["thing"]
BY DEF Aws!load_config, Aws!Fields

(* Said(f) of the flash, and Heard(f) of the memory.                       *)
Heard(f) == Aws!Said(f) \cup {Aws!load_config(Aws!Empty)[f]}

LEMMA WhatIsHeard ==
  /\ \A f \in Aws!Fields : Aws!None \in Aws!Said(f) /\ Aws!None \in Heard(f) /\ Aws!Said(f) \subseteq Heard(f)
  /\ \A f \in Aws!Fields : Values[f] \subseteq Aws!Said(f)
  /\ Aws!Default \in Heard("thing") /\ "thing" \in Aws!Fields
  /\ Aws!Empty = [f \in Aws!Fields |-> Aws!Empty[f]] /\ \A f \in Aws!Fields : Aws!Empty[f] = Aws!None
  /\ Aws!None # Aws!Default
<1>1. Aws!Empty = [f \in Aws!Fields |-> Aws!Empty[f]] /\ \A f \in Aws!Fields : Aws!Empty[f] = Aws!None
  BY DEF Aws!Empty
<1>2. Aws!load_config(Aws!Empty)["thing"] = Aws!Default
  BY <1>1, LoadConfig DEF Aws!Fields
<1> QED
  BY <1>1, <1>2 DEF Aws!Said, Heard, Aws!Fields, Aws!None, Aws!Default

(* The state as the HTTP task's steps see it.                              *)
ConfigOK ==
  /\ \A f \in Aws!Fields : cloud_flash[f] \in Aws!Said(f) /\ ram[f] \in Heard(f)
  /\ cert_loaded \in BOOLEAN
  /\ handled \subseteq DOMAIN request /\ DOMAIN request \subseteq Aws!Fields
  /\ RequestOK /\ ConfigIsKept /\ CertLoadedStands

LEMMA PostKeeps ==
  ASSUME ConfigOK, Aws!Post
  PROVE  ConfigOK'
<1>1. /\ UNCHANGED <<ram, cloud_flash, cert_loaded, handled, acknowledged>>
      /\ request = Aws!NoRequest
  BY DEF Aws!Post, Aws!config
<1>2. handled = {} /\ handled' = {}
  BY <1>1 DEF ConfigOK, Aws!NoRequest
<1>3. PICK asked \in SUBSET Aws!Fields \ {{}} :
        request' \in {r \in [asked -> UNION {Values[f] : f \in asked}] :
                        \A f \in asked : r[f] \in Values[f]}
  BY DEF Aws!Post
<1>4. /\ DOMAIN request' = asked /\ request' = [f \in DOMAIN request' |-> request'[f]]
      /\ \A f \in DOMAIN request' : request'[f] \in Values[f]
  BY <1>3
<1>5. RequestOK'
  BY <1>1, <1>4 DEF RequestOK, ConfigOK
<1>6. ConfigIsKept' /\ CertLoadedStands'
  BY <1>1, <1>2 DEF ConfigIsKept, FlashIs, CertLoadedStands, BothHalves, ConfigOK
<1> QED
  BY <1>1, <1>2, <1>3, <1>4, <1>5, <1>6 DEF ConfigOK

(* A field is written to both, and is handled.                             *)
LEMMA WriteKeeps ==
  ASSUME ConfigOK, Aws!WriteField
  PROVE  ConfigOK'
<1>1. PICK f \in DOMAIN request \ handled :
        /\ handled' = handled \cup {f}
        /\ ram' = [ram EXCEPT ![f] = request[f]] /\ cloud_flash' = [cloud_flash EXCEPT ![f] = request[f]]
        /\ UNCHANGED <<cert_loaded, request, acknowledged>>
  BY DEF Aws!WriteField
<1>2. f \in Aws!Fields /\ f \in DOMAIN request /\ f \notin handled /\ request[f] \in Values[f]
  BY DEF ConfigOK, RequestOK
<1>3. /\ cloud_flash = [g \in Aws!Fields |-> cloud_flash[g]] /\ ram = [g \in Aws!Fields |-> ram[g]]
  BY DEF ConfigOK, RequestOK
<1>4. /\ cloud_flash' = [g \in Aws!Fields |-> cloud_flash'[g]] /\ ram' = [g \in Aws!Fields |-> ram'[g]]
      /\ cloud_flash'[f] = request[f] /\ ram'[f] = request[f]
      /\ \A g \in Aws!Fields \ {f} : cloud_flash'[g] = cloud_flash[g] /\ ram'[g] = ram[g]
  BY <1>1, <1>2, <1>3
<1>5. RequestOK'
  BY <1>1, <1>4 DEF ConfigOK, RequestOK
<1>6. ConfigIsKept'
  BY <1>1, <1>2, <1>4 DEF ConfigOK, ConfigIsKept, FlashIs
<1>7. \A g \in Aws!Fields : cloud_flash'[g] \in Aws!Said(g) /\ ram'[g] \in Heard(g)
  BY <1>2, <1>4, WhatIsHeard DEF ConfigOK
<1>8. CertLoadedStands'
  <2>1. CASE f \in {"cert", "key"}
    BY <1>1, <2>1 DEF CertLoadedStands
  <2>2. CASE f \notin {"cert", "key"}
    BY <1>1, <1>4, <2>2 DEF ConfigOK, CertLoadedStands, BothHalves, Aws!Fields
  <2> QED
    BY <2>1, <2>2
<1> QED
  BY <1>1, <1>2, <1>5, <1>6, <1>7, <1>8 DEF ConfigOK

(* The answer acknowledges what has all been written.                      *)
LEMMA AnswerKeeps ==
  ASSUME ConfigOK, Aws!Answer
  PROVE  ConfigOK'
<1>1. /\ handled = DOMAIN request /\ request' = Aws!NoRequest /\ handled' = {}
      /\ cert_loaded' = Aws!Loaded /\ UNCHANGED <<ram, cloud_flash>>
      /\ acknowledged' = [f \in Aws!Fields |-> IF f \in DOMAIN request THEN request[f]
                                               ELSE acknowledged[f]]
  BY DEF Aws!Answer
<1>2. DOMAIN Aws!NoRequest = {} /\ Aws!NoRequest = [f \in DOMAIN Aws!NoRequest |-> Aws!NoRequest[f]]
  BY DEF Aws!NoRequest
<1>3. \A f \in Aws!Fields : acknowledged'[f] = cloud_flash[f]
  BY <1>1 DEF ConfigOK, ConfigIsKept, FlashIs
<1>4. RequestOK'
  BY <1>1, <1>2 DEF ConfigOK, RequestOK
<1>5. ConfigIsKept'
  BY <1>1, <1>3 DEF ConfigOK, ConfigIsKept, FlashIs
<1>6. Aws!Loaded \in BOOLEAN /\ (Aws!Loaded <=> BothHalves)
  BY <1>1 DEF Aws!Loaded, Aws!AnyUploaded, BothHalves, ConfigOK, CertLoadedStands
<1>7. CertLoadedStands' /\ cert_loaded' \in BOOLEAN
  BY <1>1, <1>6 DEF CertLoadedStands, BothHalves
<1>8. handled' \subseteq DOMAIN request' /\ DOMAIN request' \subseteq Aws!Fields
  BY <1>1, <1>2
<1> QED
  BY <1>1, <1>4, <1>5, <1>7, <1>8 DEF ConfigOK

(* A restart reads the flash, whatever of a request is in it.              *)
LEMMA StartKeeps ==
  ASSUME ConfigOK, Aws!Start(cloud_flash), acknowledged' = cloud_flash, cloud_flash' = cloud_flash
  PROVE  ConfigOK'
<1>1. /\ ram' = Aws!load_config(cloud_flash) /\ cert_loaded' = Aws!load_certificates(cloud_flash)
      /\ request' = Aws!NoRequest /\ handled' = {}
  BY DEF Aws!Start
<1>2. DOMAIN Aws!NoRequest = {} /\ Aws!NoRequest = [f \in DOMAIN Aws!NoRequest |-> Aws!NoRequest[f]]
  BY DEF Aws!NoRequest
<1>3. cloud_flash = [f \in Aws!Fields |-> cloud_flash[f]]
  BY DEF ConfigOK, RequestOK
<1>4. /\ ram' = [f \in Aws!Fields |-> ram'[f]]
      /\ \A f \in Aws!Fields : f # "thing" => ram'[f] = cloud_flash[f]
      /\ ram'["thing"] = IF cloud_flash["thing"] = Aws!None THEN Aws!Default ELSE cloud_flash["thing"]
  BY <1>1, <1>3, LoadConfig
<1>5. RequestOK'
  BY <1>1, <1>2, <1>3, <1>4 DEF RequestOK
<1>6. ConfigIsKept'
  BY <1>1, <1>4 DEF ConfigIsKept, FlashIs
<1>7. \A f \in Aws!Fields : cloud_flash'[f] \in Aws!Said(f) /\ ram'[f] \in Heard(f)
  BY <1>4, WhatIsHeard DEF ConfigOK
<1>8. Aws!load_certificates(cloud_flash) \in BOOLEAN /\ (Aws!load_certificates(cloud_flash) <=> BothHalves')
  BY <1>4 DEF Aws!load_certificates, BothHalves, Aws!Fields
<1>9. CertLoadedStands' /\ cert_loaded' \in BOOLEAN
  BY <1>1, <1>8 DEF CertLoadedStands
<1> QED
  BY <1>1, <1>2, <1>5, <1>6, <1>7, <1>9 DEF ConfigOK

-----------------------------------------------------------------------------
(* The connection and the jobs                                             *)

LinkOK ==
  /\ cloud_connected \in BOOLEAN /\ network \in BOOLEAN
  /\ cloud_client # Aws!NoClient => cloud_client.endpoint # Aws!None
  /\ cloud_connected => cloud_client # Aws!NoClient

JobStates == {"queued", "IN_PROGRESS", "FAILED", "cancelled"}
JobTypes ==
  /\ ota \in 0..Aws!Other /\ begun \subseteq announced /\ announced \subseteq 1..Jobs
  /\ notified \in announced \cup {Aws!NoJob} /\ hanging \subseteq announced
  /\ handling \in [at : {"told", "refused"}, job : announced] \cup {Aws!Idle}
  /\ cloud_cloud \in [1..Jobs -> JobStates] /\ cloud_outbox \in Seq(Word)
JobsOK ==
  /\ JobTypes
  /\ Aws!JobsAreToldTruly /\ NotifiedIsFresh /\ HandledIsFresh /\ RefusedIsNotBegun /\ WordIsTrue

CloudInv == ConfigOK /\ LinkOK /\ JobsOK

LEMMA JobNumbers ==
  ASSUME Aws!AwsCloudAssumption
  PROVE  /\ Jobs \in Nat /\ Aws!NoJob \notin 1..Jobs /\ 1..Jobs \subseteq 0..Aws!Other
         /\ Aws!NoJob \in 0..Aws!Other /\ Aws!Other \in 0..Aws!Other
         /\ Aws!Idle.job = Aws!NoJob /\ Aws!Idle.at = "idle"
BY DEF Aws!AwsCloudAssumption, Aws!NoJob, Aws!Other, Aws!Idle

(* The refusals on their way, as what is published is sent or given up.    *)
LEMMA RefusalsNow ==
  \A j : j \in Aws!Refusals <=> \E i \in DOMAIN cloud_outbox : /\ cloud_outbox[i].job = j
                                                               /\ cloud_outbox[i].status = "FAILED"
BY DEF Aws!Refusals

LEMMA RefusalsNext ==
  \A j : j \in Aws!Refusals' <=> \E i \in DOMAIN cloud_outbox' : /\ cloud_outbox'[i].job = j
                                                                 /\ cloud_outbox'[i].status = "FAILED"
BY DEF Aws!Refusals

LEMMA WordAppended ==
  ASSUME cloud_outbox \in Seq(Word), NEW w \in Word, cloud_outbox' = Append(cloud_outbox, w)
  PROVE  /\ cloud_outbox' \in Seq(Word)
         /\ \A i \in DOMAIN cloud_outbox' : cloud_outbox'[i] = w \/ \E k \in DOMAIN cloud_outbox :
                                                 cloud_outbox'[i] = cloud_outbox[k]
         /\ \A j : j \in Aws!Refusals' <=> j \in Aws!Refusals \/ (w.status = "FAILED" /\ w.job = j)
<1> DEFINE n == Len(cloud_outbox)
<1>1. /\ n \in Nat /\ DOMAIN cloud_outbox = 1..n /\ DOMAIN cloud_outbox' = 1..(n + 1)
      /\ cloud_outbox'[n + 1] = w /\ \A i \in 1..n : cloud_outbox'[i] = cloud_outbox[i]
      /\ cloud_outbox' \in Seq(Word)
  OBVIOUS
<1> HIDE DEF n
<1>2. n + 1 \in 1..(n + 1) /\ \A i \in 1..(n + 1) : i = n + 1 \/ i \in 1..n
  BY <1>1
<1>3. \A i \in 1..n : i \in 1..(n + 1)
  BY <1>1
<1>4. \A j : j \in Aws!Refusals' <=> j \in Aws!Refusals \/ (w.status = "FAILED" /\ w.job = j)
  BY <1>1, <1>2, <1>3, RefusalsNow, RefusalsNext
<1> QED
  BY <1>1, <1>2, <1>4

LEMMA WordSent ==
  ASSUME cloud_outbox \in Seq(Word), cloud_outbox # <<>>, cloud_outbox' = Tail(cloud_outbox)
  PROVE  /\ cloud_outbox' \in Seq(Word) /\ Head(cloud_outbox) \in Word
         /\ Head(cloud_outbox) = cloud_outbox[1] /\ 1 \in DOMAIN cloud_outbox
         /\ \A i \in DOMAIN cloud_outbox' : \E k \in DOMAIN cloud_outbox :
                                                 cloud_outbox'[i] = cloud_outbox[k]
         /\ Aws!Refusals' \subseteq Aws!Refusals
         /\ \A j \in Aws!Refusals : j \in Aws!Refusals' \/ (/\ Head(cloud_outbox).status = "FAILED"
                                                            /\ Head(cloud_outbox).job = j)
<1> DEFINE n == Len(cloud_outbox)
<1>1. /\ n \in Nat \ {0} /\ DOMAIN cloud_outbox = 1..n /\ DOMAIN cloud_outbox' = 1..(n - 1)
      /\ Head(cloud_outbox) = cloud_outbox[1] /\ Head(cloud_outbox) \in Word
      /\ \A i \in 1..(n - 1) : cloud_outbox'[i] = cloud_outbox[i + 1]
      /\ cloud_outbox' \in Seq(Word)
  OBVIOUS
<1> HIDE DEF n
<1>2. 1 \in 1..n /\ (\A i \in 1..(n - 1) : i + 1 \in 1..n)
      /\ \A i \in 1..n : i = 1 \/ \E k \in 1..(n - 1) : i = k + 1
  <2>1. \A i \in 1..n : i # 1 => i - 1 \in 1..(n - 1) /\ i = (i - 1) + 1
    BY <1>1
  <2> QED
    BY <1>1, <2>1
<1>3. \A j \in Aws!Refusals' : j \in Aws!Refusals
  BY <1>1, <1>2, RefusalsNow, RefusalsNext
<1>4. \A j \in Aws!Refusals : j \in Aws!Refusals' \/ (/\ Head(cloud_outbox).status = "FAILED"
                                                      /\ Head(cloud_outbox).job = j)
  <2>1. ASSUME NEW j, NEW i \in 1..n, cloud_outbox[i].job = j, cloud_outbox[i].status = "FAILED"
        PROVE  j \in Aws!Refusals' \/ (/\ Head(cloud_outbox).status = "FAILED"
                                      /\ Head(cloud_outbox).job = j)
    <3>1. CASE i = 1
      BY <1>1, <2>1, <3>1
    <3>2. CASE i # 1
      <4>1. PICK k \in 1..(n - 1) : cloud_outbox'[k] = cloud_outbox[i]
        <5>1. i - 1 \in 1..(n - 1) /\ (i - 1) + 1 = i
          BY <1>1, <3>2
        <5> QED
          BY <1>1, <5>1
      <4>2. k \in DOMAIN cloud_outbox' /\ cloud_outbox'[k].job = j /\ cloud_outbox'[k].status = "FAILED"
        BY <1>1, <2>1, <4>1
      <4>3. j \in Aws!Refusals'
        BY <4>2, RefusalsNext, Zenon
      <4> QED
        BY <4>3
    <3> QED
      BY <3>1, <3>2
  <2> QED
    BY <1>1, <2>1, RefusalsNow
<1> QED
  BY <1>1, <1>2, <1>3, <1>4

LEMMA NothingWaits ==
  ASSUME cloud_outbox' = <<>>
  PROVE  Aws!Refusals' = {} /\ cloud_outbox' \in Seq(Word) /\ DOMAIN cloud_outbox' = {}
BY DEF Aws!Refusals

(* The cloud makes one job known that it has not told of before.           *)
LEMMA NotifyKeeps ==
  ASSUME Aws!AwsCloudAssumption, JobsOK, Aws!Notify
  PROVE  JobsOK'
<1>1. PICK j \in 1..Jobs \ announced :
        /\ cloud_cloud[j] = "queued" /\ announced' = announced \cup {j}
        /\ notified' \in {j, Aws!NoJob}
  BY DEF Aws!Notify, Aws!Open
<1>2. UNCHANGED <<ota, begun, cloud_cloud, handling, cloud_outbox, hanging>>
  BY DEF Aws!Notify, Aws!telling
<1>3. Aws!Refusals' = Aws!Refusals /\ Aws!Open' = Aws!Open
      /\ \A i : (Fresh(i)' <=> Fresh(i)) /\ (Explained(i)' <=> Explained(i))
  BY <1>2 DEF Aws!Refusals, Aws!Open, Fresh, Explained
<1>4. Fresh(j) /\ j # handling.job
  <2>1. j \notin Aws!Refusals
    BY <1>1, RefusalsNow DEF JobsOK, WordIsTrue, WordStands
  <2>2. j # handling.job
    BY <1>1, JobNumbers DEF JobsOK, JobTypes
  <2> QED
    BY <1>1, <2>1, <2>2 DEF Fresh, JobsOK, JobTypes
<1>5. JobTypes'
  BY <1>1, <1>2 DEF JobsOK, JobTypes
<1>6. NotifiedIsFresh' /\ HandledIsFresh' /\ RefusedIsNotBegun' /\ WordIsTrue' /\ Aws!JobsAreToldTruly'
  BY <1>1, <1>2, <1>3, <1>4
  DEF JobsOK, NotifiedIsFresh, HandledIsFresh, RefusedIsNotBegun, WordIsTrue, WordStands, Aws!JobsAreToldTruly
<1> QED
  BY <1>5, <1>6 DEF JobsOK

(* IN_PROGRESS is told of a job that is still to be decided on.            *)
LEMMA HandleJobKeeps ==
  ASSUME Aws!AwsCloudAssumption, JobsOK, Aws!HandleJob
  PROVE  JobsOK'
<1> DEFINE w == [job |-> notified, status |-> "IN_PROGRESS"]
<1>1. /\ UNCHANGED <<ota, begun, cloud_cloud, announced, hanging>>
      /\ notified # Aws!NoJob /\ notified' = Aws!NoJob /\ handling = Aws!Idle
      /\ handling' = [at |-> "told", job |-> notified] /\ cloud_outbox' = Append(cloud_outbox, w)
  BY DEF Aws!HandleJob, Aws!Tell
<1>2. notified \in announced /\ announced \subseteq 1..Jobs /\ w \in Word /\ cloud_outbox \in Seq(Word)
      /\ handling.job = Aws!NoJob
  BY <1>1, JobNumbers DEF JobsOK, JobTypes, Word
<1>3. w.job = notified /\ w.status = "IN_PROGRESS" /\ handling'.job = notified /\ Aws!NoJob \notin 1..Jobs
  BY <1>1, JobNumbers
<1> HIDE DEF w
<1>4. /\ cloud_outbox' \in Seq(Word)
      /\ \A i \in DOMAIN cloud_outbox' : cloud_outbox'[i] = w \/ \E k \in DOMAIN cloud_outbox :
                                               cloud_outbox'[i] = cloud_outbox[k]
      /\ \A j : j \in Aws!Refusals' <=> j \in Aws!Refusals
  BY <1>1, <1>2, <1>3, WordAppended
<1>5. Aws!Open' = Aws!Open /\ (\A j : Fresh(j)' <=> Fresh(j))
      /\ \A j \in 1..Jobs : Explained(j) => Explained(j)'
  BY <1>1, <1>2, <1>3, <1>4 DEF Aws!Open, Fresh, Explained
<1>6. JobTypes'
  BY <1>1, <1>2, <1>4 DEF JobsOK, JobTypes
<1>7. NotifiedIsFresh' /\ HandledIsFresh' /\ RefusedIsNotBegun'
  BY <1>1, <1>3, <1>4, <1>5 DEF JobsOK, NotifiedIsFresh, HandledIsFresh, RefusedIsNotBegun
<1>8. WordIsTrue'
  <2>1. ASSUME NEW word, word = w
        PROVE  WordStands(word)'
    BY <1>1, <1>2, <1>3, <2>1 DEF WordStands, Explained
  <2>2. ASSUME NEW k \in DOMAIN cloud_outbox, NEW word, word = cloud_outbox[k]
        PROVE  WordStands(word)'
    BY <1>1, <1>2, <1>5, <2>2 DEF JobsOK, WordIsTrue, WordStands
  <2> QED
    BY <1>4, <2>1, <2>2 DEF WordIsTrue
<1>9. Aws!JobsAreToldTruly'
  BY <1>1, <1>5 DEF JobsOK, Aws!JobsAreToldTruly, Explained
<1> QED
  BY <1>6, <1>7, <1>8, <1>9 DEF JobsOK

(* start_ota() takes the job, which was fresh, or refuses it.              *)
LEMMA DecideKeeps ==
  ASSUME Aws!AwsCloudAssumption, JobsOK, Aws!Begin \/ Aws!Refuse
  PROVE  JobsOK'
<1>1. UNCHANGED <<cloud_cloud, announced, notified, cloud_outbox, hanging>> /\ handling.at = "told"
      /\ Aws!Refusals' = Aws!Refusals /\ Aws!Open' = Aws!Open
  BY DEF Aws!Begin, Aws!Refuse, Aws!Refusals, Aws!Open
<1>2. handling \in [at : {"told", "refused"}, job : announced] /\ handling.job \in announced
      /\ handling # Aws!Idle /\ announced \subseteq 1..Jobs /\ Aws!NoJob \notin 1..Jobs
      /\ Aws!Idle.job = Aws!NoJob /\ Aws!Idle.at = "idle"
  BY <1>1, JobNumbers DEF JobsOK, JobTypes
<1>3. CASE Aws!Refuse
  <2>1. handling' = [at |-> "refused", job |-> handling.job] /\ UNCHANGED <<ota, begun>>
    BY <1>2, <1>3 DEF Aws!Refuse
  <2>2. handling'.job = handling.job /\ handling' \in [at : {"told", "refused"}, job : announced]
        /\ handling' # Aws!Idle
    BY <1>2, <2>1
  <2>3. \A j : (Fresh(j)' <=> Fresh(j)) /\ (Explained(j)' <=> Explained(j))
    BY <1>1, <2>1, <2>2 DEF Fresh, Explained
  <2>4. JobTypes'
    BY <1>1, <2>1, <2>2 DEF JobsOK, JobTypes
  <2>5. NotifiedIsFresh' /\ HandledIsFresh' /\ RefusedIsNotBegun' /\ WordIsTrue'
    BY <1>1, <1>2, <2>1, <2>2, <2>3
    DEF JobsOK, NotifiedIsFresh, HandledIsFresh, RefusedIsNotBegun, WordIsTrue, WordStands
  <2>6. Aws!JobsAreToldTruly'
    BY <1>1, <2>1, <2>2 DEF JobsOK, Aws!JobsAreToldTruly
  <2> QED
    BY <2>4, <2>5, <2>6 DEF JobsOK
<1>4. CASE Aws!Begin
  <2>1. handling' = Aws!Idle /\ begun' = begun \cup {handling.job} /\ ota' = handling.job
    BY <1>4 DEF Aws!Begin
  <2>2. Fresh(handling.job) /\ (notified # Aws!NoJob => Fresh(notified) /\ notified # handling.job)
    BY <1>2 DEF JobsOK, HandledIsFresh, NotifiedIsFresh
  <2>3. \A j \in 1..Jobs : Explained(j) => Explained(j)'
    BY <1>1, <2>1 DEF Explained
  <2>4. JobTypes'
    BY <1>1, <1>2, <2>1, JobNumbers DEF JobsOK, JobTypes
  <2>5. NotifiedIsFresh' /\ HandledIsFresh'
    <3>1. notified # Aws!NoJob => notified \in announced
      BY DEF JobsOK, JobTypes
    <3> QED
      BY <1>1, <1>2, <2>1, <2>2, <3>1 DEF NotifiedIsFresh, HandledIsFresh, Fresh
  <2>6. RefusedIsNotBegun'
    BY <1>1, <2>1, <2>2 DEF JobsOK, RefusedIsNotBegun, Fresh
  <2>7. WordIsTrue'
    BY <1>1, <1>2, <2>3 DEF JobsOK, WordIsTrue, WordStands
  <2>8. Aws!JobsAreToldTruly'
    BY <1>1, <2>1, <2>2, <2>3 DEF JobsOK, Aws!JobsAreToldTruly, Fresh, Explained
  <2> QED
    BY <2>4, <2>5, <2>6, <2>7, <2>8 DEF JobsOK
<1> QED
  BY <1>3, <1>4

(* The refusal is on its way, or the cloud will never hear of it.          *)
LEMMA TellRefusalKeeps ==
  ASSUME Aws!AwsCloudAssumption, JobsOK, Aws!TellRefusal
  PROVE  JobsOK'
<1> DEFINE j == handling.job
           w == [job |-> j, status |-> "FAILED"]
<1>1. /\ UNCHANGED <<ota, begun, cloud_cloud, announced, notified>>
      /\ handling' = Aws!Idle /\ handling.at = "refused"
      /\ \/ cloud_outbox' = Append(cloud_outbox, w) /\ hanging' = hanging
         \/ cloud_outbox' = cloud_outbox /\ hanging' = hanging \cup {j}
  BY DEF Aws!TellRefusal, Aws!Tell
<1>2. j \in announced /\ announced \subseteq 1..Jobs /\ w \in Word /\ cloud_outbox \in Seq(Word)
      /\ Fresh(j) /\ (notified # Aws!NoJob => Fresh(notified) /\ notified # j)
      /\ notified \in announced \cup {Aws!NoJob} /\ Aws!NoJob \notin 1..Jobs
      /\ Aws!Idle.job = Aws!NoJob
  BY <1>1, JobNumbers DEF JobsOK, JobTypes, Word, HandledIsFresh, NotifiedIsFresh
<1>3. w.job = j /\ w.status = "FAILED"
  OBVIOUS
<1>4. handling.job = j
  OBVIOUS
<1> HIDE DEF j, w
<1>5. /\ cloud_outbox' \in Seq(Word)
      /\ \A i \in DOMAIN cloud_outbox' : cloud_outbox'[i] = w \/ \E k \in DOMAIN cloud_outbox :
                                               cloud_outbox'[i] = cloud_outbox[k]
      /\ \A i : i \in Aws!Refusals => i \in Aws!Refusals'
      /\ \A i : i \in Aws!Refusals' => i \in Aws!Refusals \/ i = j
      /\ j \in Aws!Refusals' \cup hanging' /\ hanging \subseteq hanging'
  <2>1. CASE cloud_outbox' = Append(cloud_outbox, w) /\ hanging' = hanging
    BY <1>2, <1>3, <2>1, WordAppended
  <2>2. CASE cloud_outbox' = cloud_outbox /\ hanging' = hanging \cup {j}
    BY <1>2, <2>2 DEF Aws!Refusals
  <2> QED
    BY <1>1, <2>1, <2>2
<1>6. Aws!Open' = Aws!Open /\ (\A i : i # j /\ Fresh(i) => Fresh(i)')
      /\ \A i \in 1..Jobs : Explained(i) => Explained(i)'
  BY <1>1, <1>4, <1>5 DEF Aws!Open, Fresh, Explained
<1>7. JobTypes'
  <2>1. hanging' \subseteq announced'
    BY <1>1, <1>2 DEF JobsOK, JobTypes
  <2> QED
    BY <1>1, <1>5, <2>1 DEF JobsOK, JobTypes
<1>8. NotifiedIsFresh' /\ HandledIsFresh'
  BY <1>1, <1>2, <1>6 DEF NotifiedIsFresh, HandledIsFresh
<1>9. RefusedIsNotBegun'
  BY <1>1, <1>2, <1>5 DEF JobsOK, RefusedIsNotBegun, Fresh
<1>10. WordIsTrue'
  <2>1. ASSUME NEW word, word = w
        PROVE  WordStands(word)'
    BY <1>1, <1>2, <1>3, <2>1 DEF WordStands
  <2>2. ASSUME NEW k \in DOMAIN cloud_outbox, NEW word, word = cloud_outbox[k]
        PROVE  WordStands(word)'
    BY <1>1, <1>2, <1>6, <2>2 DEF JobsOK, WordIsTrue, WordStands
  <2> QED
    BY <1>5, <2>1, <2>2 DEF WordIsTrue
<1>11. Aws!JobsAreToldTruly'
  BY <1>1, <1>6 DEF JobsOK, Aws!JobsAreToldTruly, Explained
<1> QED
  BY <1>7, <1>8, <1>9, <1>10, <1>11 DEF JobsOK

(* What arrives is so, unless the job has ended meanwhile.                 *)
LEMMA DeliverKeeps ==
  ASSUME Aws!AwsCloudAssumption, JobsOK, Aws!Deliver
  PROVE  JobsOK'
<1> DEFINE w == Head(cloud_outbox)
<1>1. /\ UNCHANGED <<ota, begun, announced, notified, handling, hanging>>
      /\ cloud_outbox # <<>> /\ cloud_outbox' = Tail(cloud_outbox)
      /\ cloud_cloud' = IF w.job \in Aws!Open THEN [cloud_cloud EXCEPT ![w.job] = w.status]
                        ELSE cloud_cloud
  BY DEF Aws!Deliver
<1>2. /\ cloud_outbox' \in Seq(Word) /\ w \in Word
      /\ w = cloud_outbox[1] /\ 1 \in DOMAIN cloud_outbox
      /\ \A i \in DOMAIN cloud_outbox' : \E k \in DOMAIN cloud_outbox :
                                              cloud_outbox'[i] = cloud_outbox[k]
      /\ Aws!Refusals' \subseteq Aws!Refusals
      /\ \A j \in Aws!Refusals : j \in Aws!Refusals' \/ (w.status = "FAILED" /\ w.job = j)
  BY <1>1, WordSent DEF JobsOK, JobTypes
<1> HIDE DEF w
<1>3. w.job \in 1..Jobs /\ w.status \in {"IN_PROGRESS", "FAILED"}
  BY <1>2 DEF Word
<1>4. /\ cloud_cloud' \in [1..Jobs -> JobStates]
      /\ \A j \in 1..Jobs : cloud_cloud'[j] = IF j = w.job /\ j \in Aws!Open THEN w.status
                                              ELSE cloud_cloud[j]
  <2>1. cloud_cloud \in [1..Jobs -> JobStates] /\ w.status \in JobStates
    BY <1>3 DEF JobsOK, JobTypes, JobStates
  <2> QED
    BY <1>1, <1>3, <2>1
<1>5. \A j \in 1..Jobs : /\ j \in Aws!Open' => j \in Aws!Open /\ ~(j = w.job /\ w.status = "FAILED")
                         /\ Explained(j) => Explained(j)' \/ j \notin Aws!Open'
  <2>1. \A j \in 1..Jobs : j \in Aws!Open' <=> cloud_cloud'[j] \in {"queued", "IN_PROGRESS"}
    BY DEF Aws!Open
  <2>2. \A j \in 1..Jobs : j \in Aws!Open <=> cloud_cloud[j] \in {"queued", "IN_PROGRESS"}
    BY DEF Aws!Open
  <2>3. \A j \in 1..Jobs : j \in Aws!Open' => j \in Aws!Open /\ ~(j = w.job /\ w.status = "FAILED")
    BY <1>4, <2>1, <2>2
  <2>4. ASSUME NEW j \in 1..Jobs, Explained(j), j \in Aws!Open'
        PROVE  Explained(j)'
    BY <1>1, <1>2, <2>3, <2>4 DEF Explained
  <2> QED
    BY <2>3, <2>4
<1>6. w.status = "FAILED" => w.job \in Aws!Refusals
  BY <1>2, RefusalsNow
<1>7. \A j \in 1..Jobs : Fresh(j) => Fresh(j)'
  BY <1>1, <1>2, <1>3, <1>4, <1>6 DEF Fresh
<1>8. JobTypes'
  BY <1>1, <1>2, <1>4 DEF JobsOK, JobTypes
<1>9. NotifiedIsFresh' /\ HandledIsFresh' /\ RefusedIsNotBegun'
  <2>1. (notified # Aws!NoJob => notified \in 1..Jobs) /\ (handling # Aws!Idle => handling.job \in 1..Jobs)
    BY DEF JobsOK, JobTypes
  <2> QED
    BY <1>1, <1>2, <1>7, <2>1 DEF JobsOK, NotifiedIsFresh, HandledIsFresh, RefusedIsNotBegun
<1>10. WordIsTrue'
  <2>1. ASSUME NEW k \in DOMAIN cloud_outbox, NEW word, word = cloud_outbox[k]
        PROVE  WordStands(word)'
    <3>1. WordStands(word) /\ word.job \in 1..Jobs
      BY <2>1 DEF JobsOK, WordIsTrue, JobTypes, WordStands
    <3> QED
      BY <1>1, <1>5, <3>1 DEF WordStands
  <2> QED
    BY <1>2, <2>1 DEF WordIsTrue
<1>11. Aws!JobsAreToldTruly'
  <2>1. ASSUME NEW j \in 1..Jobs, cloud_cloud'[j] = "FAILED"
        PROVE  j \notin begun
    BY <1>4, <1>6, <2>1 DEF JobsOK, Aws!JobsAreToldTruly, RefusedIsNotBegun
  <2>2. ASSUME NEW j \in 1..Jobs, cloud_cloud'[j] = "IN_PROGRESS"
        PROVE  Explained(j)'
    <3>1. j \in Aws!Open'
      BY <2>2 DEF Aws!Open
    <3>2. CASE j = w.job /\ j \in Aws!Open
      <4>1. w.status = "IN_PROGRESS"
        BY <1>4, <2>2, <3>2
      <4>2. Explained(j)
        BY <1>2, <3>2, <4>1 DEF JobsOK, WordIsTrue, WordStands
      <4> QED
        BY <1>5, <3>1, <4>2
    <3>3. CASE ~(j = w.job /\ j \in Aws!Open)
      <4>1. cloud_cloud[j] = "IN_PROGRESS"
        BY <1>4, <2>2, <3>3
      <4>2. Explained(j)
        BY <4>1 DEF JobsOK, Aws!JobsAreToldTruly, Explained
      <4> QED
        BY <1>5, <3>1, <4>2
    <3> QED
      BY <3>2, <3>3
  <2> QED
    BY <1>1, <2>1, <2>2 DEF Aws!JobsAreToldTruly, Explained
<1> QED
  BY <1>8, <1>9, <1>10, <1>11 DEF JobsOK

(* What is given up, or forgotten by a restart, hangs.                     *)
LEMMA ForgetKeeps ==
  ASSUME Aws!AwsCloudAssumption, JobsOK, UNCHANGED <<begun, cloud_cloud, announced>>,
         cloud_outbox' = <<>>, ota' \in {ota, Aws!NoJob},
         \/ UNCHANGED <<handling, notified>> /\ hanging' = hanging \cup Aws!Refusals
         \/ /\ handling' = Aws!Idle /\ notified' = Aws!NoJob
            /\ hanging' = hanging \cup Aws!Refusals \cup ({handling.job} \ {Aws!NoJob})
  PROVE  JobsOK'
<1>1. Aws!Refusals' = {} /\ cloud_outbox' \in Seq(Word) /\ DOMAIN cloud_outbox' = {}
  BY NothingWaits
<1>2. Aws!Refusals \subseteq announced
  BY RefusalsNow DEF JobsOK, WordIsTrue, WordStands
<1>3. handling.job # Aws!NoJob => handling.job \in announced
  BY JobNumbers DEF JobsOK, JobTypes
<1>4. JobTypes'
  <2>1. hanging' \subseteq announced'
    BY <1>2, <1>3 DEF JobsOK, JobTypes
  <2>2. ota' \in 0..Aws!Other
    BY JobNumbers DEF JobsOK, JobTypes
  <2> QED
    BY <1>1, <2>1, <2>2 DEF JobsOK, JobTypes
<1>5. NotifiedIsFresh' /\ HandledIsFresh' /\ RefusedIsNotBegun' /\ WordIsTrue'
  BY <1>1 DEF JobsOK, NotifiedIsFresh, HandledIsFresh, RefusedIsNotBegun, WordIsTrue, WordStands, Fresh
<1>6. Aws!JobsAreToldTruly'
  <2>1. Aws!NoJob \notin 1..Jobs
    BY JobNumbers
  <2>2. \A j \in 1..Jobs : Explained(j) => Explained(j)'
    BY <2>1 DEF Explained
  <2> QED
    BY <2>2 DEF JobsOK, Aws!JobsAreToldTruly, Explained
<1> QED
  BY <1>4, <1>5, <1>6 DEF JobsOK

LEMMA CancelKeeps ==
  ASSUME JobsOK, Aws!Cancel
  PROVE  JobsOK'
<1>1. PICK j \in Aws!Open : cloud_cloud' = [cloud_cloud EXCEPT ![j] = "cancelled"]
  BY DEF Aws!Cancel
<1>2. UNCHANGED <<ota, begun, announced, notified, handling, cloud_outbox, hanging>>
  BY DEF Aws!Cancel, Aws!telling
<1>3. /\ cloud_cloud' \in [1..Jobs -> JobStates]
      /\ \A i \in 1..Jobs : cloud_cloud'[i] = cloud_cloud[i] \/ cloud_cloud'[i] = "cancelled"
  BY <1>1 DEF JobsOK, JobTypes, JobStates
<1>4. Aws!Refusals' = Aws!Refusals /\ Aws!Open' \subseteq Aws!Open
      /\ \A i : Explained(i)' <=> Explained(i)
  BY <1>2, <1>3 DEF Aws!Refusals, Aws!Open, Explained
<1>5. \A i \in 1..Jobs : Fresh(i) => Fresh(i)'
  BY <1>2, <1>3, <1>4 DEF Fresh
<1>6. JobTypes'
  BY <1>2, <1>3 DEF JobsOK, JobTypes
<1>7. NotifiedIsFresh' /\ HandledIsFresh' /\ RefusedIsNotBegun'
  <2>1. (notified # Aws!NoJob => notified \in 1..Jobs) /\ (handling # Aws!Idle => handling.job \in 1..Jobs)
    BY DEF JobsOK, JobTypes
  <2> QED
    BY <1>2, <1>4, <1>5, <2>1 DEF JobsOK, NotifiedIsFresh, HandledIsFresh, RefusedIsNotBegun
<1>8. WordIsTrue'
  BY <1>2, <1>4 DEF JobsOK, WordIsTrue, WordStands
<1>9. Aws!JobsAreToldTruly'
  BY <1>2, <1>3, <1>4 DEF JobsOK, Aws!JobsAreToldTruly
<1> QED
  BY <1>6, <1>7, <1>8, <1>9 DEF JobsOK

(* Steps that touch no job, but for an update or a lost notification.      *)
LEMMA JobsStay ==
  ASSUME Aws!AwsCloudAssumption, JobsOK, UNCHANGED <<begun, cloud_cloud, announced, Aws!telling>>,
         ota' \in {ota, Aws!NoJob, Aws!Other}, notified' \in {notified, Aws!NoJob}
  PROVE  JobsOK'
<1>1. UNCHANGED <<handling, cloud_outbox, hanging>>
  BY DEF Aws!telling
<1>2. Aws!Refusals' = Aws!Refusals /\ Aws!Open' = Aws!Open
      /\ \A i : (Fresh(i)' <=> Fresh(i)) /\ (Explained(i)' <=> Explained(i))
  BY <1>1 DEF Aws!Refusals, Aws!Open, Fresh, Explained
<1>3. ota' \in 0..Aws!Other
  BY JobNumbers DEF JobsOK, JobTypes
<1>4. JobTypes'
  BY <1>1, <1>3 DEF JobsOK, JobTypes
<1>5. NotifiedIsFresh' /\ HandledIsFresh' /\ RefusedIsNotBegun' /\ WordIsTrue'
  BY <1>1, <1>2 DEF JobsOK, NotifiedIsFresh, HandledIsFresh, RefusedIsNotBegun, WordIsTrue, WordStands
<1>6. Aws!JobsAreToldTruly'
  BY <1>1, <1>2 DEF JobsOK, Aws!JobsAreToldTruly
<1> QED
  BY <1>4, <1>5, <1>6 DEF JobsOK

LEMMA TypesOfJobs ==
  ASSUME Aws!AwsCloudAssumption, CloudInv
  PROVE  Aws!TypeOK
<1>1. \A i \in DOMAIN cloud_outbox :
        cloud_outbox[i] \in [job : announced, status : {"IN_PROGRESS", "FAILED"}]
  <2>1. ASSUME NEW i \in DOMAIN cloud_outbox
        PROVE  cloud_outbox[i] \in [job : announced, status : {"IN_PROGRESS", "FAILED"}]
    <3>1. cloud_outbox[i] \in Word /\ cloud_outbox[i].job \in announced
      BY <2>1 DEF CloudInv, JobsOK, JobTypes, WordIsTrue, WordStands
    <3> QED
      BY <3>1 DEF Word
  <2> QED
    BY <2>1
<1>2. ota \in 0..Aws!Other /\ notified \in announced \cup {Aws!NoJob} /\ announced \subseteq 1..Jobs
  BY DEF CloudInv, JobsOK, JobTypes
<1>3. cloud_cloud \in [1..Jobs -> {"queued", "IN_PROGRESS", "FAILED", "cancelled"}]
  BY DEF CloudInv, JobsOK, JobTypes, JobStates
<1>4. \A f \in Aws!Fields : /\ cloud_flash[f] \in Aws!Said(f)
                            /\ ram[f] \in Aws!Said(f) \cup {Aws!load_config(Aws!Empty)[f]}
  BY DEF CloudInv, ConfigOK, Heard
<1> QED
  BY <1>1, <1>2, <1>3, <1>4 DEF CloudInv, Aws!TypeOK, ConfigOK, LinkOK, JobsOK, JobTypes

LEMMA RebootKeeps ==
  ASSUME Aws!AwsCloudAssumption, ConfigOK, LinkOK, JobsOK, Aws!Reboot
  PROVE  ConfigOK' /\ LinkOK' /\ JobsOK'
<1>1. ConfigOK'
  BY StartKeeps DEF Aws!Reboot
<1>2. LinkOK'
  BY DEF Aws!Reboot, Aws!Start, LinkOK
<1>3. JobsOK'
  BY ForgetKeeps DEF Aws!Reboot, Aws!Start
<1> QED
  BY <1>1, <1>2, <1>3

-----------------------------------------------------------------------------
LEMMA CloudInitially ==
  ASSUME Aws!AwsCloudAssumption, Aws!Init
  PROVE  CloudInv
<1>1. ConfigOK
  <2>1. /\ cloud_flash = Aws!Empty /\ ram = Aws!load_config(Aws!Empty) /\ cert_loaded = FALSE
        /\ request = Aws!NoRequest /\ handled = {} /\ acknowledged = Aws!Empty
    BY DEF Aws!Init
  <2>2. DOMAIN Aws!NoRequest = {} /\ Aws!NoRequest = [f \in DOMAIN Aws!NoRequest |-> Aws!NoRequest[f]]
    BY DEF Aws!NoRequest
  <2>3. /\ ram = [f \in Aws!Fields |-> ram[f]] /\ ram["thing"] = Aws!Default
        /\ \A f \in Aws!Fields : f # "thing" => ram[f] = Aws!None
    BY <2>1, LoadConfig, WhatIsHeard
  <2>4. RequestOK
    BY <2>1, <2>2, <2>3, WhatIsHeard DEF RequestOK
  <2>5. ConfigIsKept /\ \A f \in Aws!Fields : cloud_flash[f] \in Aws!Said(f) /\ ram[f] \in Heard(f)
    BY <2>1, <2>3, WhatIsHeard DEF ConfigIsKept, FlashIs
  <2>6. CertLoadedStands
    BY <2>1, <2>3 DEF CertLoadedStands, BothHalves, Aws!Fields
  <2> QED
    BY <2>1, <2>2, <2>4, <2>5, <2>6 DEF ConfigOK
<1>2. LinkOK
  BY DEF Aws!Init, LinkOK
<1>3. JobsOK
  <2>1. /\ cloud_outbox = <<>> /\ notified = Aws!NoJob /\ handling = Aws!Idle /\ begun = {}
        /\ cloud_cloud = [j \in 1..Jobs |-> "queued"] /\ announced = {} /\ hanging = {}
        /\ ota = Aws!NoJob
    BY DEF Aws!Init
  <2>2. Aws!Refusals = {}
    BY <2>1 DEF Aws!Refusals
  <2>3. JobTypes
    BY <2>1, JobNumbers DEF JobTypes, JobStates
  <2> QED
    BY <2>1, <2>2, <2>3 DEF JobsOK, Aws!JobsAreToldTruly, NotifiedIsFresh, HandledIsFresh,
       RefusedIsNotBegun, WordIsTrue, WordStands
<1> QED
  BY <1>1, <1>2, <1>3 DEF CloudInv

LEMMA CloudKept ==
  ASSUME Aws!AwsCloudAssumption, CloudInv, [Aws!Next]_(Aws!vars)
  PROVE  CloudInv'
<1>. SUFFICES ConfigOK' /\ LinkOK' /\ JobsOK'
  BY DEF CloudInv
<1>. ConfigOK /\ LinkOK /\ JobsOK
  BY DEF CloudInv
<1>1. ASSUME UNCHANGED <<Aws!config, Aws!http>>
      PROVE  ConfigOK'
  BY <1>1 DEF Aws!config, Aws!http, ConfigOK, RequestOK, ConfigIsKept, FlashIs, CertLoadedStands,
     BothHalves
<1>2. ASSUME UNCHANGED <<Aws!connection, network>>
      PROVE  LinkOK'
  BY <1>2 DEF Aws!connection, LinkOK
<1>3. ASSUME UNCHANGED Aws!jobs
      PROVE  JobsOK'
  BY <1>3, JobsStay DEF Aws!jobs
<1>4. CASE Aws!HttpTask
  <2>1. UNCHANGED <<Aws!connection, network, Aws!jobs>>
    BY <1>4 DEF Aws!HttpTask, Aws!Post, Aws!WriteField, Aws!Answer
  <2>2. LinkOK' /\ JobsOK'
    BY <1>2, <1>3, <2>1
  <2>3. ConfigOK'
    BY <1>4, PostKeeps, WriteKeeps, AnswerKeeps DEF Aws!HttpTask
  <2> QED
    BY <2>2, <2>3
<1>5. CASE Aws!StartClient \/ Aws!Connects \/ Aws!Disconnects
  <2>1. UNCHANGED <<Aws!config, Aws!http, Aws!jobs>>
    BY <1>5 DEF Aws!StartClient, Aws!Connects, Aws!Disconnects
  <2>2. LinkOK'
    <3>1. CASE Aws!StartClient
      <4>1. /\ cloud_client' = [endpoint |-> ram.endpoint, thing |-> ram.thing]
            /\ ram.endpoint # Aws!None /\ UNCHANGED <<cloud_connected, network>>
        BY <3>1 DEF Aws!StartClient, Aws!Serving
      <4>2. cloud_client'.endpoint # Aws!None /\ cloud_client' # Aws!NoClient
        BY <4>1 DEF Aws!NoClient
      <4> QED
        BY <4>1, <4>2 DEF LinkOK
    <3>2. CASE Aws!Connects
      BY <3>2 DEF Aws!Connects, LinkOK
    <3>3. CASE Aws!Disconnects
      BY <3>3 DEF Aws!Disconnects, LinkOK
    <3> QED
      BY <1>5, <3>1, <3>2, <3>3
  <2> QED
    BY <1>1, <1>3, <2>1, <2>2
<1>6. CASE Aws!Network
  <2>1. /\ UNCHANGED <<Aws!config, Aws!http, Aws!connection>>
        /\ UNCHANGED <<ota, begun, cloud_cloud, announced, Aws!telling>>
        /\ network' = ~network /\ notified' \in {notified, Aws!NoJob}
    BY <1>6 DEF Aws!Network
  <2>2. LinkOK'
    BY <2>1 DEF Aws!connection, LinkOK
  <2> QED
    BY <1>1, <2>1, <2>2, JobsStay
<1>7. CASE Aws!JobStep \/ Aws!Notify \/ Aws!Deliver \/ Aws!Expire \/ Aws!Cancel
  <2>1. UNCHANGED <<Aws!config, Aws!http, Aws!connection, network>>
    BY <1>7 DEF Aws!JobStep, Aws!HandleJob, Aws!Begin, Aws!Refuse, Aws!TellRefusal, Aws!Notify,
       Aws!Deliver, Aws!Expire, Aws!Cancel
  <2>2. Aws!Expire => JobsOK'
    BY ForgetKeeps DEF Aws!Expire
  <2> QED
    BY <1>1, <1>2, <1>7, <2>1, <2>2, HandleJobKeeps, DecideKeeps, TellRefusalKeeps, NotifyKeeps,
       DeliverKeeps, CancelKeeps DEF Aws!JobStep
<1>8. CASE Aws!OtherUpdate \/ Aws!OtaFails
  <2>1. /\ UNCHANGED <<Aws!config, Aws!http, Aws!connection, network>>
        /\ UNCHANGED <<begun, cloud_cloud, announced, notified, Aws!telling>>
        /\ ota' \in {Aws!NoJob, Aws!Other}
    BY <1>8 DEF Aws!OtherUpdate, Aws!OtaFails
  <2> QED
    BY <1>1, <1>2, <2>1, JobsStay
<1>9. CASE Aws!Reboot
  BY <1>9, RebootKeeps
<1>10. CASE UNCHANGED Aws!vars
  BY <1>1, <1>2, <1>3, <1>10 DEF Aws!vars
<1> QED
  BY <1>4, <1>5, <1>6, <1>7, <1>8, <1>9, <1>10
  DEF Aws!Next, Aws!CloudStep, Aws!OtaSucceeds, Aws!PowerLoss

(* The invariant of the configuration, the client and the jobs, which the  *)
(* theorems below follow from, is inductive.                               *)
THEOREM CloudKeepsIInv ==
  ASSUME Aws!AwsCloudAssumption
  PROVE  Aws!Spec => []CloudInv
<1>1. Aws!Init => CloudInv
  BY CloudInitially
<1>2. CloudInv /\ [Aws!Next]_(Aws!vars) => CloudInv'
  BY CloudKept
<1> QED
  BY <1>1, <1>2, PTL DEF Aws!Spec

(* Between two requests the flash holds what was answered for, and the     *)
(* memory what a restart would read, wherever the power was cut.           *)
THEOREM AcknowledgedStays ==
  ASSUME Aws!AwsCloudAssumption
  PROVE  Aws!Spec => [](Aws!TypeOK /\ Aws!AcknowledgedIsKept)
<1>1. ASSUME CloudInv
      PROVE  Aws!AcknowledgedIsKept
  <2>1. SUFFICES ASSUME request = Aws!NoRequest
                 PROVE  cloud_flash = acknowledged /\ ram \in {cloud_flash, Aws!load_config(cloud_flash)}
    BY DEF Aws!AcknowledgedIsKept
  <2>2. handled = {}
    BY <1>1, <2>1 DEF CloudInv, ConfigOK, Aws!NoRequest
  <2>3. /\ cloud_flash = [f \in Aws!Fields |-> cloud_flash[f]] /\ ram = [f \in Aws!Fields |-> ram[f]]
        /\ acknowledged = [f \in Aws!Fields |-> acknowledged[f]]
    BY <1>1 DEF CloudInv, ConfigOK, RequestOK
  <2>4. cloud_flash = acknowledged
    BY <1>1, <2>2, <2>3 DEF CloudInv, ConfigOK, ConfigIsKept, FlashIs
  <2>5. CASE ram["thing"] = cloud_flash["thing"]
    <3>1. \A f \in Aws!Fields : ram[f] = cloud_flash[f]
      BY <1>1, <2>5 DEF CloudInv, ConfigOK, ConfigIsKept
    <3>2. ram = cloud_flash
      BY <2>3, <3>1
    <3> QED
      BY <2>4, <3>2
  <2>6. CASE ram["thing"] # cloud_flash["thing"]
    <3>1. /\ cloud_flash["thing"] = Aws!None /\ ram["thing"] = Aws!Default
          /\ \A f \in Aws!Fields : f # "thing" => ram[f] = cloud_flash[f]
      BY <1>1, <2>6 DEF CloudInv, ConfigOK, ConfigIsKept, Aws!Fields
    <3>2. \A f \in Aws!Fields : ram[f] = Aws!load_config(cloud_flash)[f]
      BY <2>3, <3>1, LoadConfig
    <3>3. ram = Aws!load_config(cloud_flash)
      BY <2>3, <3>2, LoadConfig
    <3> QED
      BY <2>4, <3>3
  <2> QED
    BY <2>5, <2>6
<1>2. CloudInv => Aws!TypeOK /\ Aws!AcknowledgedIsKept
  BY <1>1, TypesOfJobs
<1> QED
  BY <1>2, CloudKeepsIInv, PTL

(* cert_loaded says between two requests whether both halves are there.    *)
THEOREM CertLoadedStaysTrue ==
  ASSUME Aws!AwsCloudAssumption
  PROVE  Aws!Spec => []Aws!CertLoadedIsTrue
<1>1. CloudInv => Aws!CertLoadedIsTrue
  BY DEF CloudInv, ConfigOK, Aws!NoRequest, CertLoadedStands, Aws!CertLoadedIsTrue, BothHalves
<1> QED
  BY <1>1, CloudKeepsIInv, PTL

(* A job that the cloud takes for failed was never begun, and one that it  *)
(* takes to be in progress was begun, is being decided on, or its refusal  *)
(* is on its way, unless a restart or a lost connection came between the   *)
(* two: however updates, cancellations, outages and the outbox interleave. *)
THEOREM JobsAreAlwaysToldTruly ==
  ASSUME Aws!AwsCloudAssumption
  PROVE  Aws!Spec => []Aws!JobsAreToldTruly
<1>1. CloudInv => Aws!JobsAreToldTruly
  BY DEF CloudInv, JobsOK
<1> QED
  BY <1>1, CloudKeepsIInv, PTL

LEMMA EverLoadedKept ==
  ASSUME Aws!AwsCloudAssumption, HalvesAreSaid, CloudInv, EverLoaded, [Aws!Next]_(Aws!vars)
  PROVE  EverLoaded'
<1>1. ConfigOK
  BY DEF CloudInv
<1>2. ASSUME cloud_client' \in {cloud_client, Aws!NoClient}, UNCHANGED <<ram, cert_loaded>>
      PROVE  EverLoaded'
  BY <1>2 DEF EverLoaded, BothHalves
<1>3. CASE Aws!WriteField
  <2>1. PICK f \in DOMAIN request \ handled : ram' = [ram EXCEPT ![f] = request[f]]
    BY <1>3 DEF Aws!WriteField
  <2>2. UNCHANGED <<cert_loaded, cloud_client>>
    BY <1>3 DEF Aws!WriteField, Aws!connection
  <2>3. f \in Aws!Fields /\ request[f] \in Values[f] /\ ram = [g \in Aws!Fields |-> ram[g]]
    BY <1>1 DEF ConfigOK, RequestOK
  <2>4. \A h \in {"cert", "key"} : ram[h] # Aws!None => ram'[h] # Aws!None
    BY <2>1, <2>3 DEF HalvesAreSaid, Aws!Fields
  <2> QED
    BY <2>2, <2>4 DEF EverLoaded, BothHalves
<1>4. CASE Aws!Answer
  <2>1. cert_loaded' = Aws!Loaded /\ UNCHANGED <<ram, cloud_client>>
    BY <1>4 DEF Aws!Answer, Aws!connection
  <2> QED
    BY <2>1 DEF EverLoaded, Aws!Loaded, BothHalves
<1>5. CASE Aws!StartClient
  BY <1>5 DEF Aws!StartClient, Aws!Serving, EverLoaded, Aws!config, BothHalves
<1>6. CASE Aws!Reboot
  <2>1. /\ ram' = Aws!load_config(cloud_flash) /\ cert_loaded' = Aws!load_certificates(cloud_flash)
        /\ cloud_client' = Aws!NoClient
    BY <1>6 DEF Aws!Reboot, Aws!Start
  <2>2. ram'["cert"] = cloud_flash["cert"] /\ ram'["key"] = cloud_flash["key"]
    BY <1>1, <2>1, LoadConfig DEF ConfigOK, RequestOK, Aws!Fields
  <2> QED
    BY <2>1, <2>2 DEF EverLoaded, BothHalves, Aws!load_certificates
<1> QED
  BY <1>2, <1>3, <1>4, <1>5, <1>6
  DEF Aws!Next, Aws!vars, Aws!config, Aws!connection, Aws!HttpTask, Aws!Post, Aws!Connects,
      Aws!Disconnects, Aws!Network, Aws!JobStep, Aws!HandleJob, Aws!Begin, Aws!Refuse,
      Aws!TellRefusal, Aws!CloudStep, Aws!Notify, Aws!Deliver, Aws!Expire, Aws!Cancel,
      Aws!OtherUpdate, Aws!OtaFails, Aws!OtaSucceeds, Aws!PowerLoss

(* When no request empties a half, the client was made with both, and      *)
(* keeps both: it points at the buffers they are written to.               *)
THEOREM ACertificateIsThere ==
  ASSUME Aws!AwsCloudAssumption, HalvesAreSaid
  PROVE  Aws!Spec => []Aws!NeverWithoutCertificate
<1>1. Aws!Init => EverLoaded
  BY DEF Aws!Init, EverLoaded
<1>2. CloudInv /\ EverLoaded /\ [Aws!Next]_(Aws!vars) => EverLoaded'
  BY EverLoadedKept
<1>3. EverLoaded => Aws!NeverWithoutCertificate
  BY DEF EverLoaded, BothHalves, Aws!NeverWithoutCertificate
<1> QED
  BY <1>1, <1>2, <1>3, CloudKeepsIInv, PTL DEF Aws!Spec

=============================================================================
