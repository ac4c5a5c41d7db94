---------------------------- MODULE NetworkProofs ----------------------------
(***************************************************************************)
(* What the proofs of WsService, HttpAuth, HttpSettings, Ota, AwsCloud,    *)
(* BleLink, BleGatt and BleObserver say of the parts of MCNetwork that run *)
(* them: the part of a behaviour never changes, its steps are steps of its *)
(* module, and the others stand still.                                     *)
(***************************************************************************)
EXTENDS MCNetwork, TLAPS

(* The proofs, with the constants of the parts: HttpProofs is about HttpAuth *)
(* and its instance Settings, UpdateProofs about Ota and Aws, RadioProofs    *)
(* about BleLink, Gatt and Observer.                                         *)
Http == INSTANCE HttpProofs WITH
  UserTexts <- {A, <<"b">>, <<"a", ":">>}, PassTexts <- {A \o A, <<"b", ":">>, A},
  FactoryUser <- A, FactoryPass <- A \o A, MIN_PASS <- 2, MAX_PASS <- 2, MAX_USER <- 2,
  AUTH_MAX_FAILURES <- 2, AUTH_LOCKOUT <- 2, TICKS <- 4, MaxWrong <- 3,
  Faults <- {"power_loss"}, flash <- auth_flash, owner <- auth_owner,
  FloatKeys <- {"f"}, IntKeys <- {"i"}, BoolKeys <- {"b"}, ReadOnly <- {"i"}, MinVal <- 0,
  MaxVal <- 4, DefaultVal <- 4, SHOWN <- 2, WHOLE <- 4, Literals <- {"number", "true", "null"},
  Changes <- 2

Update == INSTANCE UpdateProofs WITH
  Images <- {"v1", "mute", "crash", "other"}, Factory <- "v1", Good <- {"v1"},
  Crash <- {"crash"}, Stuck <- {}, Foreign <- {"other"}, NoMagic <- {}, NoDescriptor <- {},
  Size <- 3, ReadMost <- 2, ShortReads <- FALSE, MAX_RECV_TIMEOUTS <- 2, ValidationTime <- 2,
  AlwaysOnline <- FALSE, Uploads <- {"crash", "other"}, Downloads <- {"mute", "other"},
  flash <- ota_flash, http <- ota_http, cloud <- ota_cloud,
  Values <- [endpoint |-> {"broker"}, thing |-> {"none"}, enabled |-> {"true"}, cert |-> {"a", "b"}, key |-> {"a"}],
  Broker <- "broker", Pairs <- {"a", "b"}, Jobs <- 0, Cancels <- FALSE, Updates <- FALSE,
  MaxRequests <- 2, MaxOutages <- 0, MaxReboots <- 1

UpdateTypo == INSTANCE UpdateProofs WITH
  Images <- {"v1", "v2", "other", "text"}, Factory <- "v1", Good <- {"v1", "v2"}, Crash <- {},
  Stuck <- {}, Foreign <- {"other"}, NoMagic <- {"text"}, NoDescriptor <- {}, Size <- 3,
  ReadMost <- 2, ShortReads <- TRUE, MAX_RECV_TIMEOUTS <- 2, ValidationTime <- 2,
  AlwaysOnline <- FALSE, Uploads <- {}, Downloads <- {"v1", "v2", "other", "text"},
  flash <- ota_flash, http <- ota_http, cloud <- ota_cloud,
  Values <- [endpoint |-> {"broker", "mistyped"}, thing |-> {"none"}, enabled |-> {"true"}, cert |-> {"a"}, key |-> {"a"}],
  Broker <- "broker", Pairs <- {"a", "b"}, Jobs <- 0, Cancels <- FALSE, Updates <- FALSE,
  MaxRequests <- 2, MaxOutages <- 0, MaxReboots <- 0

UpdateJobs == INSTANCE UpdateProofs WITH
  Images <- {"v1", "mute", "crash", "other"}, Factory <- "v1", Good <- {"v1"},
  Crash <- {"crash"}, Stuck <- {}, Foreign <- {"other"}, NoMagic <- {}, NoDescriptor <- {},
  Size <- 3, ReadMost <- 2, ShortReads <- FALSE, MAX_RECV_TIMEOUTS <- 2, ValidationTime <- 2,
  AlwaysOnline <- FALSE, Uploads <- {"crash", "other"}, Downloads <- {"mute", "other"},
  flash <- ota_flash, http <- ota_http, cloud <- ota_cloud,
  Values <- [endpoint |-> {"broker"}, thing |-> {"t1"}, enabled |-> {"true"}, cert |-> {"a"}, key |-> {"a"}],
  Broker <- "broker", Pairs <- {"a", "b"}, Jobs <- 2, Cancels <- TRUE, Updates <- TRUE,
  MaxRequests <- 1, MaxOutages <- 1, MaxReboots <- 1

Radio == INSTANCE RadioProofs WITH
  Callers <- {"render", "module"}, Frames <- {"render"}, CHUNKS <- 2, Jobs <- 2, Locks <- 2,
  MaxFaults <- 2, SlowAcks <- 0, link <- link_link, synced <- link_synced, conn <- link_conn,
  owner <- link_owner, N <- 2, Payload <- {"a", "b"}, MaxConnects <- 2, MaxChanges <- 2,
  MaxMtu <- 1, GattFaults <- 1, MaxLost <- 0, Sensors <- {"s1", "s2"}, Panels <- {"p"},
  Strangers <- {"x"}, Fields <- {"temp", "hum"}, Values <- {"lo", "hi"}, MAX_SEEN <- 2,
  MAX_DEVICES <- 2, MaxFrames <- 3

RadioSlow == INSTANCE RadioProofs WITH
  Callers <- {"render", "module"}, Frames <- {"render"}, CHUNKS <- 2, Jobs <- 1, Locks <- 0,
  MaxFaults <- 1, SlowAcks <- 1, link <- link_link, synced <- link_synced, conn <- link_conn,
  owner <- link_owner, N <- 2, Payload <- {"a", "b"}, MaxConnects <- 1, MaxChanges <- 2,
  MaxMtu <- 1, GattFaults <- 1, MaxLost <- 1, Sensors <- {"s1", "s2"}, Panels <- {"p"},
  Strangers <- {"x"}, Fields <- {"temp", "hum"}, Values <- {"lo", "hi"}, MAX_SEEN <- 2,
  MAX_DEVICES <- 2, MaxFrames <- 3

LEMMA PartStays ==
  ASSUME [Next]_vars
  PROVE  part' = part
BY DEF Next, vars, RunWs, RunAuth, RunSettings, RunWifi, RunMqtt, RunOta, RunShadow, RunCloud,
   RunLink, RunGatt, RunObserver, Rest, Only

-----------------------------------------------------------------------------
(* A step of the tier is one of the part that runs, or leaves it alone, and *)
(* so a behaviour in which a part runs is one of its module.                *)

LEMMA WsRuns ==
  /\ Spec /\ [](part = "ws") => Ws!Spec
  /\ Spec /\ [](part = "ws_one") => WsOne!Spec
  /\ Spec /\ [](part = "ws_faults") => WsFaults!Spec
  /\ Spec /\ [](part = "ws_left") => WsLeft!Spec
<1>1. /\ Init /\ part = "ws" => Ws!Init
      /\ Init /\ part = "ws_one" => WsOne!Init
      /\ Init /\ part = "ws_faults" => WsFaults!Init
      /\ Init /\ part = "ws_left" => WsLeft!Init
  BY DEF Init
<1>2. /\ [Next]_vars /\ part = "ws" => [Ws!Next]_(Ws!vars)
      /\ [Next]_vars /\ part = "ws_one" => [WsOne!Next]_(WsOne!vars)
      /\ [Next]_vars /\ part = "ws_faults" => [WsFaults!Next]_(WsFaults!vars)
      /\ [Next]_vars /\ part = "ws_left" => [WsLeft!Next]_(WsLeft!vars)
  BY DEF Next, vars, wsVars, Ws!vars, Ws!store, Ws!net, Ws!seen, WsOne!vars, WsOne!store,
         WsOne!net, WsOne!seen, WsFaults!vars, WsFaults!store, WsFaults!net, WsFaults!seen,
         WsLeft!vars, WsLeft!store, WsLeft!net, WsLeft!seen, RunWs, RunAuth, RunSettings, RunWifi,
         RunMqtt, RunOta, RunShadow, RunCloud, RunLink, RunGatt, RunObserver, Rest, Only
<1> QED
  BY <1>1, <1>2, PTL DEF Spec, Ws!Spec, WsOne!Spec, WsFaults!Spec, WsLeft!Spec

LEMMA AuthRuns ==
  Spec /\ [](part = "auth") => Auth!Spec
<1>1. Init /\ part = "auth" => Auth!Init
  BY DEF Init
<1>2. [Next]_vars /\ part = "auth" => [Auth!Next]_(Auth!vars)
  BY DEF Next, vars, authVars, Auth!vars, RunWs, RunAuth, RunSettings, RunWifi, RunMqtt, RunOta,
         RunShadow, RunCloud, RunLink, RunGatt, RunObserver, Rest, Only
<1> QED
  BY <1>1, <1>2, PTL DEF Spec, Auth!Spec

LEMMA SettingsRuns ==
  Spec /\ [](part = "settings") => Settings!Spec
<1>1. Init /\ part = "settings" => Settings!Init
  BY DEF Init
<1>2. [Next]_vars /\ part = "settings" => [Settings!Next]_(Settings!vars)
  BY DEF Next, vars, settingsVars, Settings!vars, RunWs, RunAuth, RunSettings, RunWifi, RunMqtt,
         RunOta, RunShadow, RunCloud, RunLink, RunGatt, RunObserver, Rest, Only
<1> QED
  BY <1>1, <1>2, PTL DEF Spec, Settings!Spec

LEMMA OtaRuns ==
  /\ Spec /\ [](part = "ota") => Upload!Spec
  /\ Spec /\ [](part = "ota_cloud") => Download!Spec
<1>1. /\ Init /\ part = "ota" => Upload!Init
      /\ Init /\ part = "ota_cloud" => Download!Init
  BY DEF Init
<1>2. /\ [Next]_vars /\ part = "ota" => [Upload!Next]_(Upload!vars)
      /\ [Next]_vars /\ part = "ota_cloud" => [Download!Next]_(Download!vars)
  BY DEF Next, vars, otaVars, Upload!vars, Download!vars, RunWs, RunAuth, RunSettings, RunWifi,
         RunMqtt, RunOta, RunShadow, RunCloud, RunLink, RunGatt, RunObserver, Rest, Only
<1> QED
  BY <1>1, <1>2, PTL DEF Spec, Upload!Spec, Download!Spec

LEMMA CloudRuns ==
  /\ Spec /\ [](part = "cloud") => Cloud!Spec
  /\ Spec /\ [](part = "cloud_typo") => CloudTypo!Spec
  /\ Spec /\ [](part = "cloud_jobs") => CloudJobs!Spec
<1>1. /\ Init /\ part = "cloud" => Cloud!Init
      /\ Init /\ part = "cloud_typo" => CloudTypo!Init
      /\ Init /\ part = "cloud_jobs" => CloudJobs!Init
  BY DEF Init
<1>2. /\ [Next]_vars /\ part = "cloud" => [Cloud!Next]_(Cloud!vars)
      /\ [Next]_vars /\ part = "cloud_typo" => [CloudTypo!Next]_(CloudTypo!vars)
      /\ [Next]_vars /\ part = "cloud_jobs" => [CloudJobs!Next]_(CloudJobs!vars)
  BY DEF Next, vars, cloudVars, Cloud!vars, Cloud!config, Cloud!http, Cloud!connection,
         Cloud!jobs, Cloud!telling, CloudTypo!vars, CloudTypo!config, CloudTypo!http,
         CloudTypo!connection, CloudTypo!jobs, CloudTypo!telling, CloudJobs!vars,
         CloudJobs!config, CloudJobs!http, CloudJobs!connection, CloudJobs!jobs,
         CloudJobs!telling, RunWs, RunAuth, RunSettings, RunWifi, RunMqtt, RunOta, RunShadow,
         RunCloud, RunLink, RunGatt, RunObserver, Rest, Only
<1> QED
  BY <1>1, <1>2, PTL DEF Spec, Cloud!Spec, CloudTypo!Spec, CloudJobs!Spec

LEMMA LinkRuns ==
  /\ Spec /\ [](part = "ble_link") => Link!Spec
  /\ Spec /\ [](part = "ble_slow") => LinkSlow!Spec
<1>1. /\ Init /\ part = "ble_link" => Link!Init
      /\ Init /\ part = "ble_slow" => LinkSlow!Init
  BY DEF Init
<1>2. /\ [Next]_vars /\ part = "ble_link" => [Link!Next]_(Link!vars)
      /\ [Next]_vars /\ part = "ble_slow" => [LinkSlow!Next]_(LinkSlow!vars)
  BY DEF Next, vars, linkVars, Link!vars, Link!linkVars, Link!taskVars, Link!lockVars,
         LinkSlow!vars, LinkSlow!linkVars, LinkSlow!taskVars, LinkSlow!lockVars, RunWs, RunAuth,
         RunSettings, RunWifi, RunMqtt, RunOta, RunShadow, RunCloud, RunLink, RunGatt,
         RunObserver, Rest, Only
<1> QED
  BY <1>1, <1>2, PTL DEF Spec, Link!Spec, LinkSlow!Spec

LEMMA GattRuns ==
  /\ Spec /\ [](part = "ble_gatt") => Gatt!Spec
  /\ Spec /\ [](part = "ble_lost") => GattLost!Spec
<1>1. /\ Init /\ part = "ble_gatt" => Gatt!Init
      /\ Init /\ part = "ble_lost" => GattLost!Init
  BY DEF Init
<1>2. /\ [Next]_vars /\ part = "ble_gatt" => [Gatt!Next]_(Gatt!vars)
      /\ [Next]_vars /\ part = "ble_lost" => [GattLost!Next]_(GattLost!vars)
  BY DEF Next, vars, gattVars, Gatt!vars, Gatt!link, Gatt!cache, Gatt!update, Gatt!wifi,
         GattLost!vars, GattLost!link, GattLost!cache, GattLost!update, GattLost!wifi, RunWs,
         RunAuth, RunSettings, RunWifi, RunMqtt, RunOta, RunShadow, RunCloud, RunLink, RunGatt,
         RunObserver, Rest, Only
<1> QED
  BY <1>1, <1>2, PTL DEF Spec, Gatt!Spec, GattLost!Spec

LEMMA ObserverRuns ==
  Spec /\ [](part = "ble_observer") => Observer!Spec
<1>1. Init /\ part = "ble_observer" => Observer!Init
  BY DEF Init
<1>2. [Next]_vars /\ part = "ble_observer" => [Observer!Next]_(Observer!vars)
  BY DEF Next, vars, observerVars, Observer!vars, RunWs, RunAuth, RunSettings, RunWifi, RunMqtt,
         RunOta, RunShadow, RunCloud, RunLink, RunGatt, RunObserver, Rest, Only
<1> QED
  BY <1>1, <1>2, PTL DEF Spec, Observer!Spec

-----------------------------------------------------------------------------
(* The instances a proof is about are those of MCNetwork, definition by     *)
(* definition.                                                              *)

LEMMA AuthIsProved ==
  /\ Auth!Spec => Http!Spec
  /\ [](Http!OwnerMatches => Auth!OwnerMatches)
  /\ [](Http!InForceIsStored => Auth!InForceIsStored)
  /\ [](Http!RateLimited => Auth!RateLimited)
  /\ Auth!HttpAuthAssumption => Http!HttpAuthAssumption
<1>1. Auth!Init => Http!Init
  BY DEF Auth!Init, Auth!Factory, Auth!PairOf, Auth!NoneWrong, Http!Init, Http!Factory,
         Http!PairOf, Http!NoneWrong
<1>2. ASSUME [Auth!Next]_(Auth!vars)
      PROVE  [Http!Next]_(Http!vars)
  BY <1>2, ZenonT(90)
  DEF Auth!Next, Auth!vars, Auth!Pair, Auth!SignIn, Auth!Rejected, Auth!Requests, Auth!PostAuth,
      Auth!SaveAuth, Auth!Tick, Auth!PowerLoss, Auth!Granted, Auth!Refused, Auth!NoText,
      Auth!Verdict, Auth!Change, Auth!Written, Auth!NoneWrong, Auth!PairOf, Auth!LockedOut,
      Auth!Matches, Auth!Throttled, Auth!Mismatch, Auth!WrongPassword, Auth!BadPassword,
      Auth!BadName, Auth!Asked, Auth!Fields, Auth!Header, Auth!ColonAt, Auth!Count, Auth!Contains,
      Auth!Factory, Auth!SelectInSeq, Auth!Min, Http!Next, Http!vars, Http!Pair, Http!SignIn,
      Http!Rejected, Http!Requests, Http!PostAuth, Http!SaveAuth, Http!Tick, Http!PowerLoss,
      Http!Granted, Http!Refused, Http!NoText, Http!Verdict, Http!Change, Http!Written,
      Http!NoneWrong, Http!PairOf, Http!LockedOut, Http!Matches, Http!Throttled, Http!Mismatch,
      Http!WrongPassword, Http!BadPassword, Http!BadName, Http!Asked, Http!Fields, Http!Header,
      Http!ColonAt, Http!Count, Http!Contains, Http!Factory, Http!SelectInSeq, Http!Min
<1>3. /\ Http!OwnerMatches => Auth!OwnerMatches
      /\ Http!InForceIsStored => Auth!InForceIsStored
      /\ Http!RateLimited => Auth!RateLimited
      /\ Auth!HttpAuthAssumption => Http!HttpAuthAssumption
  BY DEF Auth!OwnerMatches, Auth!InForceIsStored, Auth!RateLimited, Auth!HttpAuthAssumption,
         Auth!Matches, Auth!Cardinality, Auth!NoText, Auth!Contains, Auth!Header, Auth!ColonAt,
         Auth!SelectInSeq, Auth!Min, Http!OwnerMatches, Http!InForceIsStored, Http!RateLimited,
         Http!HttpAuthAssumption, Http!Matches, Http!Cardinality, Http!NoText, Http!Contains,
         Http!Header, Http!ColonAt, Http!SelectInSeq, Http!Min
<1> QED
  BY <1>1, <1>2, <1>3, PTL DEF Auth!Spec, Http!Spec

LEMMA SettingsIsProved ==
  /\ Settings!Spec => Http!Settings!Spec
  /\ [](Http!Settings!FlashTyped => Settings!FlashTyped)
  /\ [](Http!Settings!InRange => Settings!InRange)
  /\ [](Http!Settings!RestoreFaithful => Settings!RestoreFaithful)
  /\ [](Http!Settings!TypedIsKept => Settings!TypedIsKept)
  /\ Settings!HttpSettingsAssumption => Http!Settings!HttpSettingsAssumption
<1>1. Settings!Init => Http!Settings!Init
  BY DEF Settings!Init, Settings!Keys, Settings!Default, Settings!NoValue, Settings!NoFile,
         Settings!NoJob, Settings!Bool, Settings!Val, Settings!Type, Http!Settings!Init,
         Http!Settings!Keys, Http!Settings!Default, Http!Settings!NoValue, Http!Settings!NoFile,
         Http!Settings!NoJob, Http!Settings!Bool, Http!Settings!Val, Http!Settings!Type
<1>2. ASSUME [Settings!Next]_(Settings!vars)
      PROVE  [Http!Settings!Next]_(Http!Settings!vars)
  BY <1>2, ZenonT(90)
  DEF Settings!Next, Settings!vars, Settings!Keys, Settings!Numbers, Settings!PostSettings,
      Settings!Command, Settings!Declared, Settings!ModuleSets, Settings!Flush,
      Settings!PostRestart, Settings!FlushStopped, Settings!Restart, Settings!PowerLoss,
      Settings!GetBackup, Settings!PostRestore, Settings!RestoreKey, Settings!RestoreFlush,
      Settings!NoJob, Settings!Counted, Settings!Set, Settings!JsonValue, Settings!TextAccepted,
      Settings!TextValue, Settings!Touch, Settings!Bool, Settings!Flushed, Settings!FlushNow,
      Settings!Restarting, Settings!Reboot, Settings!Loaded, Settings!Type, Settings!Shown,
      Settings!NoFile, Settings!FromFile, Settings!Val, Settings!Clamp, Settings!AsFloat,
      Settings!AsInt, Settings!Storable, Settings!NoValue, Settings!Default, Settings!NaN,
      Settings!Whole, Http!Settings!Next, Http!Settings!vars, Http!Settings!Keys,
      Http!Settings!Numbers, Http!Settings!PostSettings, Http!Settings!Command,
      Http!Settings!Declared, Http!Settings!ModuleSets, Http!Settings!Flush,
      Http!Settings!PostRestart, Http!Settings!FlushStopped, Http!Settings!Restart,
      Http!Settings!PowerLoss, Http!Settings!GetBackup, Http!Settings!PostRestore,
      Http!Settings!RestoreKey, Http!Settings!RestoreFlush, Http!Settings!NoJob,
      Http!Settings!Counted, Http!Settings!Set, Http!Settings!JsonValue,
      Http!Settings!TextAccepted, Http!Settings!TextValue, Http!Settings!Touch,
      Http!Settings!Bool, Http!Settings!Flushed, Http!Settings!FlushNow, Http!Settings!Restarting,
      Http!Settings!Reboot, Http!Settings!Loaded, Http!Settings!Type, Http!Settings!Shown,
      Http!Settings!NoFile, Http!Settings!FromFile, Http!Settings!Val, Http!Settings!Clamp,
      Http!Settings!AsFloat, Http!Settings!AsInt, Http!Settings!Storable, Http!Settings!NoValue,
      Http!Settings!Default, Http!Settings!NaN, Http!Settings!Whole
<1>3. /\ Http!Settings!FlashTyped => Settings!FlashTyped
      /\ Http!Settings!InRange => Settings!InRange
      /\ Http!Settings!RestoreFaithful => Settings!RestoreFaithful
      /\ Http!Settings!TypedIsKept => Settings!TypedIsKept
      /\ Settings!HttpSettingsAssumption => Http!Settings!HttpSettingsAssumption
  BY DEF Settings!FlashTyped, Settings!InRange, Settings!RestoreFaithful, Settings!TypedIsKept,
         Settings!HttpSettingsAssumption, Settings!Keys, Settings!NoValue, Settings!Type,
         Settings!Bounds, Settings!Loaded, Settings!Val, Settings!Default, Settings!Bool,
         Http!Settings!FlashTyped, Http!Settings!InRange, Http!Settings!RestoreFaithful,
         Http!Settings!TypedIsKept, Http!Settings!HttpSettingsAssumption, Http!Settings!Keys,
         Http!Settings!NoValue, Http!Settings!Type, Http!Settings!Bounds, Http!Settings!Loaded,
         Http!Settings!Val, Http!Settings!Default, Http!Settings!Bool
<1> QED
  BY <1>1, <1>2, <1>3, PTL DEF Settings!Spec, Http!Settings!Spec

LEMMA UploadIsProved ==
  /\ Upload!Spec => Update!Spec
  /\ [](Update!AlwaysAFallback => Upload!AlwaysAFallback)
  /\ [](Update!BoardMatches => Upload!BoardMatches)
  /\ Upload!OtaAssumption => Update!OtaAssumption
<1>1. Upload!Init => Update!Init
  BY DEF Upload!Init, Upload!Slots, Upload!Units, Upload!NoUpload, Upload!NoDownload, Update!Init,
         Update!Slots, Update!Units, Update!NoUpload, Update!NoDownload
<1>2. ASSUME [Upload!Next]_(Upload!vars)
      PROVE  [Update!Next]_(Update!vars)
  BY <1>2, ZenonT(90)
  DEF Upload!Next, Upload!vars, Upload!Bootloader, Upload!PowerLoss, Upload!Network,
      Upload!MainStep, Upload!HttpClient, Upload!HttpTask, Upload!start_ota, Upload!CloudTaskStep,
      Upload!Intact, Upload!Reboot, Upload!BringUp, Upload!CrashInInit, Upload!ValidateTurn,
      Upload!GiveUpTurn, Upload!Turn, Upload!RecvFails, Upload!Units, Upload!Recv, Upload!Upload,
      Upload!RecvTimeout, Upload!RecvGivesUp, Upload!FinishUpload, Upload!RestartAfterUpload,
      Upload!NoDownload, Upload!Partitions, Upload!CloudStays, Upload!OpenFails, Upload!Open,
      Upload!ReadFails, Upload!Read, Upload!EndOfStream, Upload!VerifyDownload,
      Upload!RestartAfterDownload, Upload!NoUpload, Upload!Content, Upload!pending_verify,
      Upload!net_ok, Upload!HttpFails, Upload!Reads, Upload!HeaderAccepted, Upload!Flashed,
      Upload!HttpStays, Upload!BeginSucceeds, Upload!Patient, Upload!CountTimeout, Upload!Update,
      Upload!SetBootPartition, Upload!CloudFails, Upload!HeaderGathered, Upload!ChecksumMatches,
      Upload!ReachesNetwork, Update!Next, Update!vars, Update!Bootloader, Update!PowerLoss,
      Update!Network, Update!MainStep, Update!HttpClient, Update!HttpTask, Update!start_ota,
      Update!CloudTaskStep, Update!Intact, Update!Reboot, Update!BringUp, Update!CrashInInit,
      Update!ValidateTurn, Update!GiveUpTurn, Update!Turn, Update!RecvFails, Update!Units,
      Update!Recv, Update!Upload, Update!RecvTimeout, Update!RecvGivesUp, Update!FinishUpload,
      Update!RestartAfterUpload, Update!NoDownload, Update!Partitions, Update!CloudStays,
      Update!OpenFails, Update!Open, Update!ReadFails, Update!Read, Update!EndOfStream,
      Update!VerifyDownload, Update!RestartAfterDownload, Update!NoUpload, Update!Content,
      Update!pending_verify, Update!net_ok, Update!HttpFails, Update!Reads, Update!HeaderAccepted,
      Update!Flashed, Update!HttpStays, Update!BeginSucceeds, Update!Patient, Update!CountTimeout,
      Update!Update, Update!SetBootPartition, Update!CloudFails, Update!HeaderGathered,
      Update!ChecksumMatches, Update!ReachesNetwork
<1>3. /\ Update!AlwaysAFallback => Upload!AlwaysAFallback
      /\ Update!BoardMatches => Upload!BoardMatches
      /\ Upload!OtaAssumption => Update!OtaAssumption
  BY DEF Upload!AlwaysAFallback, Upload!BoardMatches, Upload!OtaAssumption, Upload!Slots,
         Upload!Intact, Upload!Content, Upload!Units, Update!AlwaysAFallback, Update!BoardMatches,
         Update!OtaAssumption, Update!Slots, Update!Intact, Update!Content, Update!Units
<1> QED
  BY <1>1, <1>2, <1>3, PTL DEF Upload!Spec, Update!Spec

LEMMA DownloadIsProved ==
  /\ Download!Spec => UpdateTypo!Spec
  /\ [](UpdateTypo!InstallsWhatItChecked => Download!InstallsWhatItChecked)
  /\ [](UpdateTypo!BoardMatches => Download!BoardMatches)
  /\ Download!OtaAssumption => UpdateTypo!OtaAssumption
<1>1. Download!Init => UpdateTypo!Init
  BY DEF Download!Init, Download!Slots, Download!Units, Download!NoUpload, Download!NoDownload,
         UpdateTypo!Init, UpdateTypo!Slots, UpdateTypo!Units, UpdateTypo!NoUpload,
         UpdateTypo!NoDownload
<1>2. ASSUME [Download!Next]_(Download!vars)
      PROVE  [UpdateTypo!Next]_(UpdateTypo!vars)
  BY <1>2, ZenonT(90)
  DEF Download!Next, Download!vars, Download!Bootloader, Download!PowerLoss, Download!Network,
      Download!MainStep, Download!HttpClient, Download!HttpTask, Download!start_ota,
      Download!CloudTaskStep, Download!Intact, Download!Reboot, Download!BringUp,
      Download!CrashInInit, Download!ValidateTurn, Download!GiveUpTurn, Download!Turn,
      Download!RecvFails, Download!Units, Download!Recv, Download!Upload, Download!RecvTimeout,
      Download!RecvGivesUp, Download!FinishUpload, Download!RestartAfterUpload,
      Download!NoDownload, Download!Partitions, Download!CloudStays, Download!OpenFails,
      Download!Open, Download!ReadFails, Download!Read, Download!EndOfStream,
      Download!VerifyDownload, Download!RestartAfterDownload, Download!NoUpload, Download!Content,
      Download!pending_verify, Download!net_ok, Download!HttpFails, Download!Reads,
      Download!HeaderAccepted, Download!Flashed, Download!HttpStays, Download!BeginSucceeds,
      Download!Patient, Download!CountTimeout, Download!Update, Download!SetBootPartition,
      Download!CloudFails, Download!HeaderGathered, Download!ChecksumMatches,
      Download!ReachesNetwork, UpdateTypo!Next, UpdateTypo!vars, UpdateTypo!Bootloader,
      UpdateTypo!PowerLoss, UpdateTypo!Network, UpdateTypo!MainStep, UpdateTypo!HttpClient,
      UpdateTypo!HttpTask, UpdateTypo!start_ota, UpdateTypo!CloudTaskStep, UpdateTypo!Intact,
      UpdateTypo!Reboot, UpdateTypo!BringUp, UpdateTypo!CrashInInit, UpdateTypo!ValidateTurn,
      UpdateTypo!GiveUpTurn, UpdateTypo!Turn, UpdateTypo!RecvFails, UpdateTypo!Units,
      UpdateTypo!Recv, UpdateTypo!Upload, UpdateTypo!RecvTimeout, UpdateTypo!RecvGivesUp,
      UpdateTypo!FinishUpload, UpdateTypo!RestartAfterUpload, UpdateTypo!NoDownload,
      UpdateTypo!Partitions, UpdateTypo!CloudStays, UpdateTypo!OpenFails, UpdateTypo!Open,
      UpdateTypo!ReadFails, UpdateTypo!Read, UpdateTypo!EndOfStream, UpdateTypo!VerifyDownload,
      UpdateTypo!RestartAfterDownload, UpdateTypo!NoUpload, UpdateTypo!Content,
      UpdateTypo!pending_verify, UpdateTypo!net_ok, UpdateTypo!HttpFails, UpdateTypo!Reads,
      UpdateTypo!HeaderAccepted, UpdateTypo!Flashed, UpdateTypo!HttpStays,
      UpdateTypo!BeginSucceeds, UpdateTypo!Patient, UpdateTypo!CountTimeout, UpdateTypo!Update,
      UpdateTypo!SetBootPartition, UpdateTypo!CloudFails, UpdateTypo!HeaderGathered,
      UpdateTypo!ChecksumMatches, UpdateTypo!ReachesNetwork
<1>3. /\ UpdateTypo!InstallsWhatItChecked => Download!InstallsWhatItChecked
      /\ UpdateTypo!BoardMatches => Download!BoardMatches
      /\ Download!OtaAssumption => UpdateTypo!OtaAssumption
  BY DEF Download!InstallsWhatItChecked, Download!BoardMatches, Download!OtaAssumption,
         Download!Intact, Download!Update, Download!Content, Download!Units,
         UpdateTypo!InstallsWhatItChecked, UpdateTypo!BoardMatches, UpdateTypo!OtaAssumption,
         UpdateTypo!Intact, UpdateTypo!Update, UpdateTypo!Content, UpdateTypo!Units
<1> QED
  BY <1>1, <1>2, <1>3, PTL DEF Download!Spec, UpdateTypo!Spec

LEMMA CloudIsProved ==
  /\ Cloud!Spec => Update!Aws!Spec
  /\ [](Update!Aws!AcknowledgedIsKept => Cloud!AcknowledgedIsKept)
  /\ [](Update!Aws!CertLoadedIsTrue => Cloud!CertLoadedIsTrue)
  /\ [](Update!Aws!NeverWithoutCertificate => Cloud!NeverWithoutCertificate)
  /\ Cloud!AwsCloudAssumption => Update!Aws!AwsCloudAssumption
<1>1. Cloud!Init => Update!Aws!Init
  BY DEF Cloud!Init, Cloud!Empty, Cloud!load_config, Cloud!NoRequest, Cloud!NoClient, Cloud!NoJob,
         Cloud!Idle, Cloud!Fields, Cloud!None, Cloud!Default, Update!Aws!Init, Update!Aws!Empty,
         Update!Aws!load_config, Update!Aws!NoRequest, Update!Aws!NoClient, Update!Aws!NoJob,
         Update!Aws!Idle, Update!Aws!Fields, Update!Aws!None, Update!Aws!Default
<1>2. ASSUME [Cloud!Next]_(Cloud!vars)
      PROVE  [Update!Aws!Next]_(Update!Aws!vars)
  BY <1>2, ZenonT(90)
  DEF Cloud!Next, Cloud!vars, Cloud!HttpTask, Cloud!StartClient, Cloud!Connects,
      Cloud!Disconnects, Cloud!Network, Cloud!JobStep, Cloud!CloudStep, Cloud!OtherUpdate,
      Cloud!OtaFails, Cloud!OtaSucceeds, Cloud!PowerLoss, Cloud!config, Cloud!http,
      Cloud!connection, Cloud!jobs, Cloud!Post, Cloud!WriteField, Cloud!Answer, Cloud!Serving,
      Cloud!NoClient, Cloud!Accepts, Cloud!Idle, Cloud!Use, Cloud!NoJob, Cloud!telling,
      Cloud!HandleJob, Cloud!Begin, Cloud!Refuse, Cloud!TellRefusal, Cloud!Notify, Cloud!Deliver,
      Cloud!Expire, Cloud!Cancel, Cloud!Other, Cloud!Reboot, Cloud!NoRequest, Cloud!Fields,
      Cloud!Loaded, Cloud!None, Cloud!Tell, Cloud!Open, Cloud!First, Cloud!Refusals, Cloud!Start,
      Cloud!AnyUploaded, Cloud!load_config, Cloud!load_certificates, Cloud!Default,
      Update!Aws!Next, Update!Aws!vars, Update!Aws!HttpTask, Update!Aws!StartClient,
      Update!Aws!Connects, Update!Aws!Disconnects, Update!Aws!Network, Update!Aws!JobStep,
      Update!Aws!CloudStep, Update!Aws!OtherUpdate, Update!Aws!OtaFails, Update!Aws!OtaSucceeds,
      Update!Aws!PowerLoss, Update!Aws!config, Update!Aws!http, Update!Aws!connection,
      Update!Aws!jobs, Update!Aws!Post, Update!Aws!WriteField, Update!Aws!Answer,
      Update!Aws!Serving, Update!Aws!NoClient, Update!Aws!Accepts, Update!Aws!Idle,
      Update!Aws!Use, Update!Aws!NoJob, Update!Aws!telling, Update!Aws!HandleJob,
      Update!Aws!Begin, Update!Aws!Refuse, Update!Aws!TellRefusal, Update!Aws!Notify,
      Update!Aws!Deliver, Update!Aws!Expire, Update!Aws!Cancel, Update!Aws!Other,
      Update!Aws!Reboot, Update!Aws!NoRequest, Update!Aws!Fields, Update!Aws!Loaded,
      Update!Aws!None, Update!Aws!Tell, Update!Aws!Open, Update!Aws!First, Update!Aws!Refusals,
      Update!Aws!Start, Update!Aws!AnyUploaded, Update!Aws!load_config,
      Update!Aws!load_certificates, Update!Aws!Default
<1>3. /\ Update!Aws!AcknowledgedIsKept => Cloud!AcknowledgedIsKept
      /\ Update!Aws!CertLoadedIsTrue => Cloud!CertLoadedIsTrue
      /\ Update!Aws!NeverWithoutCertificate => Cloud!NeverWithoutCertificate
      /\ Cloud!AwsCloudAssumption => Update!Aws!AwsCloudAssumption
  BY DEF Cloud!AcknowledgedIsKept, Cloud!CertLoadedIsTrue, Cloud!NeverWithoutCertificate,
         Cloud!AwsCloudAssumption, Cloud!NoRequest, Cloud!load_config, Cloud!None, Cloud!NoClient,
         Cloud!Fields, Cloud!Default, Update!Aws!AcknowledgedIsKept, Update!Aws!CertLoadedIsTrue,
         Update!Aws!NeverWithoutCertificate, Update!Aws!AwsCloudAssumption, Update!Aws!NoRequest,
         Update!Aws!load_config, Update!Aws!None, Update!Aws!NoClient, Update!Aws!Fields,
         Update!Aws!Default
<1> QED
  BY <1>1, <1>2, <1>3, PTL DEF Cloud!Spec, Update!Aws!Spec

LEMMA CloudTypoIsProved ==
  /\ CloudTypo!Spec => UpdateTypo!Aws!Spec
  /\ [](UpdateTypo!Aws!AcknowledgedIsKept => CloudTypo!AcknowledgedIsKept)
  /\ [](UpdateTypo!Aws!CertLoadedIsTrue => CloudTypo!CertLoadedIsTrue)
  /\ CloudTypo!AwsCloudAssumption => UpdateTypo!Aws!AwsCloudAssumption
<1>1. CloudTypo!Init => UpdateTypo!Aws!Init
  BY DEF CloudTypo!Init, CloudTypo!Empty, CloudTypo!load_config, CloudTypo!NoRequest,
         CloudTypo!NoClient, CloudTypo!NoJob, CloudTypo!Idle, CloudTypo!Fields, CloudTypo!None,
         CloudTypo!Default, UpdateTypo!Aws!Init, UpdateTypo!Aws!Empty, UpdateTypo!Aws!load_config,
         UpdateTypo!Aws!NoRequest, UpdateTypo!Aws!NoClient, UpdateTypo!Aws!NoJob,
         UpdateTypo!Aws!Idle, UpdateTypo!Aws!Fields, UpdateTypo!Aws!None, UpdateTypo!Aws!Default
<1>2. ASSUME [CloudTypo!Next]_(CloudTypo!vars)
      PROVE  [UpdateTypo!Aws!Next]_(UpdateTypo!Aws!vars)
  BY <1>2, ZenonT(90)
  DEF CloudTypo!Next, CloudTypo!vars, CloudTypo!HttpTask, CloudTypo!StartClient,
      CloudTypo!Connects, CloudTypo!Disconnects, CloudTypo!Network, CloudTypo!JobStep,
      CloudTypo!CloudStep, CloudTypo!OtherUpdate, CloudTypo!OtaFails, CloudTypo!OtaSucceeds,
      CloudTypo!PowerLoss, CloudTypo!config, CloudTypo!http, CloudTypo!connection, CloudTypo!jobs,
      CloudTypo!Post, CloudTypo!WriteField, CloudTypo!Answer, CloudTypo!Serving,
      CloudTypo!NoClient, CloudTypo!Accepts, CloudTypo!Idle, CloudTypo!Use, CloudTypo!NoJob,
      CloudTypo!telling, CloudTypo!HandleJob, CloudTypo!Begin, CloudTypo!Refuse,
      CloudTypo!TellRefusal, CloudTypo!Notify, CloudTypo!Deliver, CloudTypo!Expire,
      CloudTypo!Cancel, CloudTypo!Other, CloudTypo!Reboot, CloudTypo!NoRequest, CloudTypo!Fields,
      CloudTypo!Loaded, CloudTypo!None, CloudTypo!Tell, CloudTypo!Open, CloudTypo!First,
      CloudTypo!Refusals, CloudTypo!Start, CloudTypo!AnyUploaded, CloudTypo!load_config,
      CloudTypo!load_certificates, CloudTypo!Default, UpdateTypo!Aws!Next, UpdateTypo!Aws!vars,
      UpdateTypo!Aws!HttpTask, UpdateTypo!Aws!StartClient, UpdateTypo!Aws!Connects,
      UpdateTypo!Aws!Disconnects, UpdateTypo!Aws!Network, UpdateTypo!Aws!JobStep,
      UpdateTypo!Aws!CloudStep, UpdateTypo!Aws!OtherUpdate, UpdateTypo!Aws!OtaFails,
      UpdateTypo!Aws!OtaSucceeds, UpdateTypo!Aws!PowerLoss, UpdateTypo!Aws!config,
      UpdateTypo!Aws!http, UpdateTypo!Aws!connection, UpdateTypo!Aws!jobs, UpdateTypo!Aws!Post,
      UpdateTypo!Aws!WriteField, UpdateTypo!Aws!Answer, UpdateTypo!Aws!Serving,
      UpdateTypo!Aws!NoClient, UpdateTypo!Aws!Accepts, UpdateTypo!Aws!Idle, UpdateTypo!Aws!Use,
      UpdateTypo!Aws!NoJob, UpdateTypo!Aws!telling, UpdateTypo!Aws!HandleJob,
      UpdateTypo!Aws!Begin, UpdateTypo!Aws!Refuse, UpdateTypo!Aws!TellRefusal,
      UpdateTypo!Aws!Notify, UpdateTypo!Aws!Deliver, UpdateTypo!Aws!Expire, UpdateTypo!Aws!Cancel,
      UpdateTypo!Aws!Other, UpdateTypo!Aws!Reboot, UpdateTypo!Aws!NoRequest,
      UpdateTypo!Aws!Fields, UpdateTypo!Aws!Loaded, UpdateTypo!Aws!None, UpdateTypo!Aws!Tell,
      UpdateTypo!Aws!Open, UpdateTypo!Aws!First, UpdateTypo!Aws!Refusals, UpdateTypo!Aws!Start,
      UpdateTypo!Aws!AnyUploaded, UpdateTypo!Aws!load_config, UpdateTypo!Aws!load_certificates,
      UpdateTypo!Aws!Default
<1>3. /\ UpdateTypo!Aws!AcknowledgedIsKept => CloudTypo!AcknowledgedIsKept
      /\ UpdateTypo!Aws!CertLoadedIsTrue => CloudTypo!CertLoadedIsTrue
      /\ CloudTypo!AwsCloudAssumption => UpdateTypo!Aws!AwsCloudAssumption
  BY DEF CloudTypo!AcknowledgedIsKept, CloudTypo!CertLoadedIsTrue, CloudTypo!AwsCloudAssumption,
         CloudTypo!NoRequest, CloudTypo!load_config, CloudTypo!None, CloudTypo!Fields,
         CloudTypo!Default, UpdateTypo!Aws!AcknowledgedIsKept, UpdateTypo!Aws!CertLoadedIsTrue,
         UpdateTypo!Aws!AwsCloudAssumption, UpdateTypo!Aws!NoRequest, UpdateTypo!Aws!load_config,
         UpdateTypo!Aws!None, UpdateTypo!Aws!Fields, UpdateTypo!Aws!Default
<1> QED
  BY <1>1, <1>2, <1>3, PTL DEF CloudTypo!Spec, UpdateTypo!Aws!Spec

LEMMA CloudJobsIsProved ==
  /\ CloudJobs!Spec => UpdateJobs!Aws!Spec
  /\ [](UpdateJobs!Aws!JobsAreToldTruly => CloudJobs!JobsAreToldTruly)
  /\ CloudJobs!AwsCloudAssumption => UpdateJobs!Aws!AwsCloudAssumption
<1>1. CloudJobs!Init => UpdateJobs!Aws!Init
  BY DEF CloudJobs!Init, CloudJobs!Empty, CloudJobs!load_config, CloudJobs!NoRequest,
         CloudJobs!NoClient, CloudJobs!NoJob, CloudJobs!Idle, CloudJobs!Fields, CloudJobs!None,
         CloudJobs!Default, UpdateJobs!Aws!Init, UpdateJobs!Aws!Empty, UpdateJobs!Aws!load_config,
         UpdateJobs!Aws!NoRequest, UpdateJobs!Aws!NoClient, UpdateJobs!Aws!NoJob,
         UpdateJobs!Aws!Idle, UpdateJobs!Aws!Fields, UpdateJobs!Aws!None, UpdateJobs!Aws!Default
<1>2. ASSUME [CloudJobs!Next]_(CloudJobs!vars)
      PROVE  [UpdateJobs!Aws!Next]_(UpdateJobs!Aws!vars)
  BY <1>2, ZenonT(90)
  DEF CloudJobs!Next, CloudJobs!vars, CloudJobs!HttpTask, CloudJobs!StartClient,
      CloudJobs!Connects, CloudJobs!Disconnects, CloudJobs!Network, CloudJobs!JobStep,
      CloudJobs!CloudStep, CloudJobs!OtherUpdate, CloudJobs!OtaFails, CloudJobs!OtaSucceeds,
      CloudJobs!PowerLoss, CloudJobs!config, CloudJobs!http, CloudJobs!connection, CloudJobs!jobs,
      CloudJobs!Post, CloudJobs!WriteField, CloudJobs!Answer, CloudJobs!Serving,
      CloudJobs!NoClient, CloudJobs!Accepts, CloudJobs!Idle, CloudJobs!Use, CloudJobs!NoJob,
      CloudJobs!telling, CloudJobs!HandleJob, CloudJobs!Begin, CloudJobs!Refuse,
      CloudJobs!TellRefusal, CloudJobs!Notify, CloudJobs!Deliver, CloudJobs!Expire,
      CloudJobs!Cancel, CloudJobs!Other, CloudJobs!Reboot, CloudJobs!NoRequest, CloudJobs!Fields,
      CloudJobs!Loaded, CloudJobs!None, CloudJobs!Tell, CloudJobs!Open, CloudJobs!First,
      CloudJobs!Refusals, CloudJobs!Start, CloudJobs!AnyUploaded, CloudJobs!load_config,
      CloudJobs!load_certificates, CloudJobs!Default, UpdateJobs!Aws!Next, UpdateJobs!Aws!vars,
      UpdateJobs!Aws!HttpTask, UpdateJobs!Aws!StartClient, UpdateJobs!Aws!Connects,
      UpdateJobs!Aws!Disconnects, UpdateJobs!Aws!Network, UpdateJobs!Aws!JobStep,
      UpdateJobs!Aws!CloudStep, UpdateJobs!Aws!OtherUpdate, UpdateJobs!Aws!OtaFails,
      UpdateJobs!Aws!OtaSucceeds, UpdateJobs!Aws!PowerLoss, UpdateJobs!Aws!config,
      UpdateJobs!Aws!http, UpdateJobs!Aws!connection, UpdateJobs!Aws!jobs, UpdateJobs!Aws!Post,
      UpdateJobs!Aws!WriteField, UpdateJobs!Aws!Answer, UpdateJobs!Aws!Serving,
      UpdateJobs!Aws!NoClient, UpdateJobs!Aws!Accepts, UpdateJobs!Aws!Idle, UpdateJobs!Aws!Use,
      UpdateJobs!Aws!NoJob, UpdateJobs!Aws!telling, UpdateJobs!Aws!HandleJob,
      UpdateJobs!Aws!Begin, UpdateJobs!Aws!Refuse, UpdateJobs!Aws!TellRefusal,
      UpdateJobs!Aws!Notify, UpdateJobs!Aws!Deliver, UpdateJobs!Aws!Expire, UpdateJobs!Aws!Cancel,
      UpdateJobs!Aws!Other, UpdateJobs!Aws!Reboot, UpdateJobs!Aws!NoRequest,
      UpdateJobs!Aws!Fields, UpdateJobs!Aws!Loaded, UpdateJobs!Aws!None, UpdateJobs!Aws!Tell,
      UpdateJobs!Aws!Open, UpdateJobs!Aws!First, UpdateJobs!Aws!Refusals, UpdateJobs!Aws!Start,
      UpdateJobs!Aws!AnyUploaded, UpdateJobs!Aws!load_config, UpdateJobs!Aws!load_certificates,
      UpdateJobs!Aws!Default
<1>3. /\ UpdateJobs!Aws!JobsAreToldTruly => CloudJobs!JobsAreToldTruly
      /\ CloudJobs!AwsCloudAssumption => UpdateJobs!Aws!AwsCloudAssumption
  BY DEF CloudJobs!JobsAreToldTruly, CloudJobs!AwsCloudAssumption, CloudJobs!Refusals,
         CloudJobs!Fields, UpdateJobs!Aws!JobsAreToldTruly, UpdateJobs!Aws!AwsCloudAssumption,
         UpdateJobs!Aws!Refusals, UpdateJobs!Aws!Fields
<1> QED
  BY <1>1, <1>2, <1>3, PTL DEF CloudJobs!Spec, UpdateJobs!Aws!Spec

LEMMA LinkIsProved ==
  /\ Link!Spec => Radio!Spec
  /\ [](Radio!SensorsAreHeard => Link!SensorsAreHeard)
  /\ [](Radio!LinkMatchesRadio => Link!LinkMatchesRadio)
  /\ [](Radio!OneOutstanding => Link!OneOutstanding)
  /\ Link!ConstantsAssumption => Radio!ConstantsAssumption
<1>1. Link!Init => Radio!Init
  BY DEF Link!Init, Link!None, Link!Mutexes, Link!Cardinality, Radio!Init, Radio!None,
         Radio!Mutexes, Radio!Cardinality
<1>2. ASSUME [Link!Next]_(Link!vars)
      PROVE  [Radio!Next]_(Radio!vars)
  BY <1>2, ZenonT(90)
  DEF Link!Next, Link!vars, Link!Host, Link!Write, Link!linkVars, Link!taskVars, Link!lockVars,
      Link!Sync, Link!StackReset, Link!OnScanHit, Link!OnConnect, Link!OnDiscovered,
      Link!OnDisconnect, Link!CooldownEnds, Link!OnWriteDone, Link!Begin, Link!CreateMutex,
      Link!TakeLock, Link!Body, Link!WriteFlat, Link!Woken, Link!TimedOut, Link!Unlock,
      Link!Quiet, Link!Fault, Link!None, Link!FailWrites, Link!HostOnly, Link!NoFault,
      Link!ResetLink, Link!BecomeReady, Link!GiveUp, Link!IsFrame, Link!CanWrite, Link!EnterLock,
      Link!LeaveTask, Link!Goto, Link!Holds, Link!GiveLock, Link!StartScan, Link!Mutexes,
      Link!Cardinality, Radio!Next, Radio!vars, Radio!Host, Radio!Write, Radio!linkVars,
      Radio!taskVars, Radio!lockVars, Radio!Sync, Radio!StackReset, Radio!OnScanHit,
      Radio!OnConnect, Radio!OnDiscovered, Radio!OnDisconnect, Radio!CooldownEnds,
      Radio!OnWriteDone, Radio!Begin, Radio!CreateMutex, Radio!TakeLock, Radio!Body,
      Radio!WriteFlat, Radio!Woken, Radio!TimedOut, Radio!Unlock, Radio!Quiet, Radio!Fault,
      Radio!None, Radio!FailWrites, Radio!HostOnly, Radio!NoFault, Radio!ResetLink,
      Radio!BecomeReady, Radio!GiveUp, Radio!IsFrame, Radio!CanWrite, Radio!EnterLock,
      Radio!LeaveTask, Radio!Goto, Radio!Holds, Radio!GiveLock, Radio!StartScan, Radio!Mutexes,
      Radio!Cardinality
<1>3. /\ Radio!SensorsAreHeard => Link!SensorsAreHeard
      /\ Radio!LinkMatchesRadio => Link!LinkMatchesRadio
      /\ Radio!OneOutstanding => Link!OneOutstanding
      /\ Link!ConstantsAssumption => Radio!ConstantsAssumption
  BY DEF Link!SensorsAreHeard, Link!LinkMatchesRadio, Link!OneOutstanding,
         Link!ConstantsAssumption, Link!None, Link!Cardinality, Radio!SensorsAreHeard,
         Radio!LinkMatchesRadio, Radio!OneOutstanding, Radio!ConstantsAssumption, Radio!None,
         Radio!Cardinality
<1> QED
  BY <1>1, <1>2, <1>3, PTL DEF Link!Spec, Radio!Spec

LEMMA LinkSlowIsProved ==
  /\ LinkSlow!Spec => RadioSlow!Spec
  /\ [](RadioSlow!SensorsAreHeard => LinkSlow!SensorsAreHeard)
  /\ [](RadioSlow!LinkMatchesRadio => LinkSlow!LinkMatchesRadio)
<1>1. LinkSlow!Init => RadioSlow!Init
  BY DEF LinkSlow!Init, LinkSlow!None, LinkSlow!Mutexes, LinkSlow!Cardinality, RadioSlow!Init,
         RadioSlow!None, RadioSlow!Mutexes, RadioSlow!Cardinality
<1>2. ASSUME [LinkSlow!Next]_(LinkSlow!vars)
      PROVE  [RadioSlow!Next]_(RadioSlow!vars)
  BY <1>2, ZenonT(90)
  DEF LinkSlow!Next, LinkSlow!vars, LinkSlow!Host, LinkSlow!Write, LinkSlow!linkVars,
      LinkSlow!taskVars, LinkSlow!lockVars, LinkSlow!Sync, LinkSlow!StackReset,
      LinkSlow!OnScanHit, LinkSlow!OnConnect, LinkSlow!OnDiscovered, LinkSlow!OnDisconnect,
      LinkSlow!CooldownEnds, LinkSlow!OnWriteDone, LinkSlow!Begin, LinkSlow!CreateMutex,
      LinkSlow!TakeLock, LinkSlow!Body, LinkSlow!WriteFlat, LinkSlow!Woken, LinkSlow!TimedOut,
      LinkSlow!Unlock, LinkSlow!Quiet, LinkSlow!Fault, LinkSlow!None, LinkSlow!FailWrites,
      LinkSlow!HostOnly, LinkSlow!NoFault, LinkSlow!ResetLink, LinkSlow!BecomeReady,
      LinkSlow!GiveUp, LinkSlow!IsFrame, LinkSlow!CanWrite, LinkSlow!EnterLock,
      LinkSlow!LeaveTask, LinkSlow!Goto, LinkSlow!Holds, LinkSlow!GiveLock, LinkSlow!StartScan,
      LinkSlow!Mutexes, LinkSlow!Cardinality, RadioSlow!Next, RadioSlow!vars, RadioSlow!Host,
      RadioSlow!Write, RadioSlow!linkVars, RadioSlow!taskVars, RadioSlow!lockVars, RadioSlow!Sync,
      RadioSlow!StackReset, RadioSlow!OnScanHit, RadioSlow!OnConnect, RadioSlow!OnDiscovered,
      RadioSlow!OnDisconnect, RadioSlow!CooldownEnds, RadioSlow!OnWriteDone, RadioSlow!Begin,
      RadioSlow!CreateMutex, RadioSlow!TakeLock, RadioSlow!Body, RadioSlow!WriteFlat,
      RadioSlow!Woken, RadioSlow!TimedOut, RadioSlow!Unlock, RadioSlow!Quiet, RadioSlow!Fault,
      RadioSlow!None, RadioSlow!FailWrites, RadioSlow!HostOnly, RadioSlow!NoFault,
      RadioSlow!ResetLink, RadioSlow!BecomeReady, RadioSlow!GiveUp, RadioSlow!IsFrame,
      RadioSlow!CanWrite, RadioSlow!EnterLock, RadioSlow!LeaveTask, RadioSlow!Goto,
      RadioSlow!Holds, RadioSlow!GiveLock, RadioSlow!StartScan, RadioSlow!Mutexes,
      RadioSlow!Cardinality
<1>3. /\ RadioSlow!SensorsAreHeard => LinkSlow!SensorsAreHeard
      /\ RadioSlow!LinkMatchesRadio => LinkSlow!LinkMatchesRadio
  BY DEF LinkSlow!SensorsAreHeard, LinkSlow!LinkMatchesRadio, LinkSlow!None,
         RadioSlow!SensorsAreHeard, RadioSlow!LinkMatchesRadio, RadioSlow!None
<1> QED
  BY <1>1, <1>2, <1>3, PTL DEF LinkSlow!Spec, RadioSlow!Spec

LEMMA GattIsProved ==
  /\ Gatt!Spec => Radio!Gatt!Spec
  /\ [](Radio!Gatt!Reachable => Gatt!Reachable)
  /\ [](Radio!Gatt!HandleIsLive => Gatt!HandleIsLive)
<1>1. Gatt!Init => Radio!Gatt!Init
  BY DEF Gatt!Init, Gatt!None, Gatt!Empty, Gatt!Budget, Radio!Gatt!Init, Radio!Gatt!None,
         Radio!Gatt!Empty, Radio!Gatt!Budget
<1>2. ASSUME [Gatt!Next]_(Gatt!vars)
      PROVE  [Radio!Gatt!Next]_(Radio!Gatt!vars)
  BY <1>2, ZenonT(90)
  DEF Gatt!Next, Gatt!vars, Gatt!HostTask, Gatt!MainTask, Gatt!Joined, Gatt!ApplyCommand,
      Gatt!link, Gatt!cache, Gatt!update, Gatt!wifi, Gatt!RequestReconnect, Gatt!Sync,
      Gatt!StackReset, Gatt!Connect, Gatt!ConnectFails, Gatt!Disconnect, Gatt!ExchangeMtu,
      Gatt!Subscribe, Gatt!SaveCredentials, Gatt!BeginUpdate, Gatt!Serialize, Gatt!CacheValue,
      Gatt!Notify, Gatt!Reconnect, Gatt!Spend, Gatt!StartAdvertising, Gatt!None,
      Gatt!OnGattDisconnect, Gatt!Empty, Gatt!OnGattConnect, Gatt!Goto, Gatt!Budget,
      Radio!Gatt!Next, Radio!Gatt!vars, Radio!Gatt!HostTask, Radio!Gatt!MainTask,
      Radio!Gatt!Joined, Radio!Gatt!ApplyCommand, Radio!Gatt!link, Radio!Gatt!cache,
      Radio!Gatt!update, Radio!Gatt!wifi, Radio!Gatt!RequestReconnect, Radio!Gatt!Sync,
      Radio!Gatt!StackReset, Radio!Gatt!Connect, Radio!Gatt!ConnectFails, Radio!Gatt!Disconnect,
      Radio!Gatt!ExchangeMtu, Radio!Gatt!Subscribe, Radio!Gatt!SaveCredentials,
      Radio!Gatt!BeginUpdate, Radio!Gatt!Serialize, Radio!Gatt!CacheValue, Radio!Gatt!Notify,
      Radio!Gatt!Reconnect, Radio!Gatt!Spend, Radio!Gatt!StartAdvertising, Radio!Gatt!None,
      Radio!Gatt!OnGattDisconnect, Radio!Gatt!Empty, Radio!Gatt!OnGattConnect, Radio!Gatt!Goto,
      Radio!Gatt!Budget
<1>3. /\ Radio!Gatt!Reachable => Gatt!Reachable
      /\ Radio!Gatt!HandleIsLive => Gatt!HandleIsLive
  BY DEF Gatt!Reachable, Gatt!HandleIsLive, Gatt!None, Radio!Gatt!Reachable,
         Radio!Gatt!HandleIsLive, Radio!Gatt!None
<1> QED
  BY <1>1, <1>2, <1>3, PTL DEF Gatt!Spec, Radio!Gatt!Spec

LEMMA GattLostIsProved ==
  /\ GattLost!Spec => RadioSlow!Gatt!Spec
  /\ [](RadioSlow!Gatt!Reachable => GattLost!Reachable)
  /\ [](RadioSlow!Gatt!HandleIsLive => GattLost!HandleIsLive)
<1>1. GattLost!Init => RadioSlow!Gatt!Init
  BY DEF GattLost!Init, GattLost!None, GattLost!Empty, GattLost!Budget, RadioSlow!Gatt!Init,
         RadioSlow!Gatt!None, RadioSlow!Gatt!Empty, RadioSlow!Gatt!Budget
<1>2. ASSUME [GattLost!Next]_(GattLost!vars)
      PROVE  [RadioSlow!Gatt!Next]_(RadioSlow!Gatt!vars)
  BY <1>2, ZenonT(90)
  DEF GattLost!Next, GattLost!vars, GattLost!HostTask, GattLost!MainTask, GattLost!Joined,
      GattLost!ApplyCommand, GattLost!link, GattLost!cache, GattLost!update, GattLost!wifi,
      GattLost!RequestReconnect, GattLost!Sync, GattLost!StackReset, GattLost!Connect,
      GattLost!ConnectFails, GattLost!Disconnect, GattLost!ExchangeMtu, GattLost!Subscribe,
      GattLost!SaveCredentials, GattLost!BeginUpdate, GattLost!Serialize, GattLost!CacheValue,
      GattLost!Notify, GattLost!Reconnect, GattLost!Spend, GattLost!StartAdvertising,
      GattLost!None, GattLost!OnGattDisconnect, GattLost!Empty, GattLost!OnGattConnect,
      GattLost!Goto, GattLost!Budget, RadioSlow!Gatt!Next, RadioSlow!Gatt!vars,
      RadioSlow!Gatt!HostTask, RadioSlow!Gatt!MainTask, RadioSlow!Gatt!Joined,
      RadioSlow!Gatt!ApplyCommand, RadioSlow!Gatt!link, RadioSlow!Gatt!cache,
      RadioSlow!Gatt!update, RadioSlow!Gatt!wifi, RadioSlow!Gatt!RequestReconnect,
      RadioSlow!Gatt!Sync, RadioSlow!Gatt!StackReset, RadioSlow!Gatt!Connect,
      RadioSlow!Gatt!ConnectFails, RadioSlow!Gatt!Disconnect, RadioSlow!Gatt!ExchangeMtu,
      RadioSlow!Gatt!Subscribe, RadioSlow!Gatt!SaveCredentials, RadioSlow!Gatt!BeginUpdate,
      RadioSlow!Gatt!Serialize, RadioSlow!Gatt!CacheValue, RadioSlow!Gatt!Notify,
      RadioSlow!Gatt!Reconnect, RadioSlow!Gatt!Spend, RadioSlow!Gatt!StartAdvertising,
      RadioSlow!Gatt!None, RadioSlow!Gatt!OnGattDisconnect, RadioSlow!Gatt!Empty,
      RadioSlow!Gatt!OnGattConnect, RadioSlow!Gatt!Goto, RadioSlow!Gatt!Budget
<1>3. /\ RadioSlow!Gatt!Reachable => GattLost!Reachable
      /\ RadioSlow!Gatt!HandleIsLive => GattLost!HandleIsLive
  BY DEF GattLost!Reachable, GattLost!HandleIsLive, GattLost!None, RadioSlow!Gatt!Reachable,
         RadioSlow!Gatt!HandleIsLive, RadioSlow!Gatt!None
<1> QED
  BY <1>1, <1>2, <1>3, PTL DEF GattLost!Spec, RadioSlow!Gatt!Spec

LEMMA ObserverIsProved ==
  /\ Observer!Spec => Radio!Observer!Spec
  /\ [](Radio!Observer!BoundIsHeard => Observer!BoundIsHeard)
<1>1. Observer!Init => Radio!Observer!Init
  BY DEF Observer!Init, Observer!NoReading, Observer!Absent, Radio!Observer!Init,
         Radio!Observer!NoReading, Radio!Observer!Absent
<1>2. ASSUME [Observer!Next]_(Observer!vars)
      PROVE  [Radio!Observer!Next]_(Radio!Observer!vars)
  BY <1>2, ZenonT(90)
  DEF Observer!Next, Observer!vars, Observer!GapScanEvent, Observer!OnUpdate,
      Observer!RegisterMac, Observer!Frames, Observer!UpdateSensor, Observer!LogRaw,
      Observer!MatchConnectable, Observer!ClaimSlot, Observer!ClearSlot, Observer!Absent,
      Observer!NoReading, Observer!Hear, Observer!Dispatch, Observer!See, Observer!Merge,
      Observer!Recorded, Observer!TypeOf, Observer!Cardinality, Observer!Put,
      Observer!HasSeenIndex, Observer!Entry, Observer!Unknown, Radio!Observer!Next,
      Radio!Observer!vars, Radio!Observer!GapScanEvent, Radio!Observer!OnUpdate,
      Radio!Observer!RegisterMac, Radio!Observer!Frames, Radio!Observer!UpdateSensor,
      Radio!Observer!LogRaw, Radio!Observer!MatchConnectable, Radio!Observer!ClaimSlot,
      Radio!Observer!ClearSlot, Radio!Observer!Absent, Radio!Observer!NoReading,
      Radio!Observer!Hear, Radio!Observer!Dispatch, Radio!Observer!See, Radio!Observer!Merge,
      Radio!Observer!Recorded, Radio!Observer!TypeOf, Radio!Observer!Cardinality,
      Radio!Observer!Put, Radio!Observer!HasSeenIndex, Radio!Observer!Entry,
      Radio!Observer!Unknown
<1>3. Radio!Observer!BoundIsHeard => Observer!BoundIsHeard
  BY DEF Observer!BoundIsHeard, Radio!Observer!BoundIsHeard
<1> QED
  BY <1>1, <1>2, <1>3, PTL DEF Observer!Spec, Radio!Observer!Spec

-----------------------------------------------------------------------------
(* The part of a behaviour is the same throughout, so what holds of the    *)
(* part while it runs, and trivially while it does not, always holds.      *)

(* Every browser has been sent the shared state, once all under way has    *)
(* arrived, but for what it was left without, and no slot of the client    *)
(* table is lost; without the four causes of that nothing is left out.     *)
THEOREM BrowsersAreAlwaysCurrent == Spec => []BrowsersAreCurrent
<1>1. /\ Ws!StoreAssumption /\ Ws!WsAssumption
      /\ WsOne!StoreAssumption /\ WsOne!WsAssumption
      /\ WsFaults!StoreAssumption /\ WsFaults!WsAssumption
      /\ WsLeft!StoreAssumption /\ WsLeft!WsAssumption
  BY NetworkAssumption
<1>2. {"client_dropped", "send_error"} \cap {"state_dropped", "delta_skipped"} = {}
  OBVIOUS
<1>3. Ws!NothingIsSkipped /\ WsOne!NothingIsSkipped
  <2>1. Ws!IsFiniteSet({"k1", "k2"}) /\ Ws!Cardinality({"k1", "k2"}) = 2
    BY Ws!TwoKeys, "k1" # "k2"
  <2>2. WsOne!IsFiniteSet({"k1", "k2"}) /\ WsOne!Cardinality({"k1", "k2"}) = 2
    BY WsOne!TwoKeys, "k1" # "k2"
  <2>3. Ws!Cardinality({"k1", "k2"}) <= 2 /\ WsOne!Cardinality({"k1", "k2"}) <= 2 /\ 2 \in Nat
    BY <2>1, <2>2
  <2>4. Ws!NothingIsSkipped
    BY ONLY <1>2, <2>1, <2>3, ZenonT(90) DEF Ws!NothingIsSkipped
  <2>5. WsOne!NothingIsSkipped
    BY ONLY <1>2, <2>2, <2>3, ZenonT(90) DEF WsOne!NothingIsSkipped
  <2> QED
    BY <2>4, <2>5
<1>4. /\ [Next]_vars /\ part = "ws" => (part = "ws")'
      /\ [Next]_vars /\ ~(part = "ws") => (~(part = "ws"))'
      /\ [Next]_vars /\ part = "ws_one" => (part = "ws_one")'
      /\ [Next]_vars /\ ~(part = "ws_one") => (~(part = "ws_one"))'
      /\ [Next]_vars /\ part = "ws_faults" => (part = "ws_faults")'
      /\ [Next]_vars /\ ~(part = "ws_faults") => (~(part = "ws_faults"))'
      /\ [Next]_vars /\ part = "ws_left" => (part = "ws_left")'
      /\ [Next]_vars /\ ~(part = "ws_left") => (~(part = "ws_left"))'
  BY PartStays
<1>5. /\ (part = "ws" => Ws!ViewsAreCurrent /\ Ws!NothingIsMissed /\ Ws!NoSlotIsLost)
      /\ (part = "ws_one" => WsOne!ViewsAreCurrent /\ WsOne!NothingIsMissed)
      /\ (part = "ws_faults" => WsFaults!ViewsAreCurrent /\ WsFaults!NoSlotIsLost)
      /\ (part = "ws_left" => WsLeft!ViewsAreCurrent)
      => BrowsersAreCurrent
  BY DEF BrowsersAreCurrent
<1>6. Spec => [](part = "ws" => Ws!ViewsAreCurrent /\ Ws!NothingIsMissed /\ Ws!NoSlotIsLost)
  BY <1>1, <1>3, <1>4, WsRuns, Ws!NobodyIsLeftBehind, Ws!NobodyEverMisses, Ws!NoSlotIsEverLost,
     PTL DEF Spec
<1>7. Spec => /\ [](part = "ws_one" => WsOne!ViewsAreCurrent /\ WsOne!NothingIsMissed)
              /\ [](part = "ws_left" => WsLeft!ViewsAreCurrent)
  BY <1>1, <1>3, <1>4, WsRuns, WsOne!NobodyIsLeftBehind, WsOne!NobodyEverMisses,
     WsLeft!NobodyIsLeftBehind, PTL DEF Spec
<1>8. Spec => [](part = "ws_faults" => WsFaults!ViewsAreCurrent /\ WsFaults!NoSlotIsLost)
  BY <1>1, <1>4, WsRuns, WsFaults!NobodyIsLeftBehind, WsFaults!NoSlotIsEverLost, PTL DEF Spec
<1> QED
  BY <1>5, <1>6, <1>7, <1>8, PTL

(* Whoever holds the pair last asked for matches, what is in force is      *)
(* stored, and guesses are limited.                                        *)
THEOREM OwnersAreAlwaysMatched == Spec => []OwnersAreMatched
<1>1. Http!HttpAuthAssumption
  BY NetworkAssumption, AuthIsProved
<1>2. /\ [Next]_vars /\ part = "auth" => (part = "auth")'
      /\ [Next]_vars /\ ~(part = "auth") => (~(part = "auth"))'
  BY PartStays
<1>3. (part = "auth" => Auth!OwnerMatches /\ Auth!InForceIsStored /\ Auth!RateLimited)
      => OwnersAreMatched
  BY DEF OwnersAreMatched
<1> QED
  BY <1>1, <1>2, <1>3, AuthRuns, AuthIsProved, Http!OwnersAlwaysMatch, Http!GuessesAreLimited,
     PTL DEF Spec

(* Settings are kept in their type and range, restored as they were, and   *)
(* loaded as they were accepted.                                           *)
THEOREM SettingsAreAlwaysKept == Spec => []SettingsAreKept
<1>1. Http!Settings!HttpSettingsAssumption /\ "nan" \notin {"number", "true", "null"}
  BY NetworkAssumption, SettingsIsProved
<1>2. /\ [Next]_vars /\ part = "settings" => (part = "settings")'
      /\ [Next]_vars /\ ~(part = "settings") => (~(part = "settings"))'
  BY PartStays
<1>3. (part = "settings" => Settings!FlashTyped /\ Settings!InRange /\ Settings!RestoreFaithful /\ Settings!TypedIsKept)
      => SettingsAreKept
  BY DEF SettingsAreKept
<1> QED
  BY <1>1, <1>2, <1>3, SettingsRuns, SettingsIsProved, Http!SettingsAreDurable,
     Http!NumbersAreInRange, PTL DEF Spec

(* Updates leave a fallback and never run an image of another board,       *)
(* downloads install what was checked, and jobs are told truly.            *)
THEOREM UpdatesAreAlwaysSafe == Spec => []UpdatesAreSafe
<1>1. Update!OtaAssumption /\ UpdateTypo!OtaAssumption
  BY NetworkAssumption, UploadIsProved, DownloadIsProved
<1>2. UpdateJobs!Aws!AwsCloudAssumption
  BY NetworkAssumption, CloudJobsIsProved
<1>3. Update!DescriptorsAreRead /\ UpdateTypo!DescriptorsAreRead
  BY DEF Update!DescriptorsAreRead, UpdateTypo!DescriptorsAreRead
<1>4. /\ [Next]_vars /\ part = "ota" => (part = "ota")'
      /\ [Next]_vars /\ ~(part = "ota") => (~(part = "ota"))'
      /\ [Next]_vars /\ part = "ota_cloud" => (part = "ota_cloud")'
      /\ [Next]_vars /\ ~(part = "ota_cloud") => (~(part = "ota_cloud"))'
      /\ [Next]_vars /\ part = "cloud_jobs" => (part = "cloud_jobs")'
      /\ [Next]_vars /\ ~(part = "cloud_jobs") => (~(part = "cloud_jobs"))'
  BY PartStays
<1>5. /\ (part = "ota" => Upload!AlwaysAFallback /\ Upload!BoardMatches)
      /\ (part = "ota_cloud" => Download!InstallsWhatItChecked /\ Download!BoardMatches)
      /\ (part = "cloud_jobs" => CloudJobs!JobsAreToldTruly)
      => UpdatesAreSafe
  BY DEF UpdatesAreSafe
<1>6. Spec => [](part = "ota" => Upload!AlwaysAFallback /\ Upload!BoardMatches)
  BY <1>1, <1>3, <1>4, OtaRuns, UploadIsProved, Update!AFallbackIsKept, Update!TheBoardMatches,
     PTL DEF Spec
<1>7. UpdateTypo!Spec => []UpdateTypo!InstallsWhatItChecked
  BY <1>1, UpdateTypo!DownloadsAloneAreWhole
<1>8. Spec => [](part = "ota_cloud" => Download!InstallsWhatItChecked /\ Download!BoardMatches)
  BY <1>1, <1>3, <1>4, <1>7, OtaRuns, DownloadIsProved, UpdateTypo!TheBoardMatches, PTL DEF Spec
<1> QED
  BY <1>4, <1>5, <1>6, <1>8, <1>2, CloudRuns, CloudJobsIsProved, UpdateJobs!JobsAreAlwaysToldTruly,
     PTL DEF Spec

(* The cloud's configuration is the one acknowledged, cert_loaded is true  *)
(* of the halves, and the client is made with both.                        *)
THEOREM CloudConfigIsAlwaysKept == Spec => []CloudConfigIsKept
<1>1. Update!HalvesAreSaid
  BY DEF Update!HalvesAreSaid, Update!Aws!None
<1>2. Update!Aws!AwsCloudAssumption /\ UpdateTypo!Aws!AwsCloudAssumption
  BY NetworkAssumption, CloudIsProved, CloudTypoIsProved
<1>3. /\ [Next]_vars /\ part = "cloud" => (part = "cloud")'
      /\ [Next]_vars /\ ~(part = "cloud") => (~(part = "cloud"))'
      /\ [Next]_vars /\ part = "cloud_typo" => (part = "cloud_typo")'
      /\ [Next]_vars /\ ~(part = "cloud_typo") => (~(part = "cloud_typo"))'
  BY PartStays
<1>4. /\ (part = "cloud" => Cloud!AcknowledgedIsKept /\ Cloud!CertLoadedIsTrue /\ Cloud!NeverWithoutCertificate)
      /\ (part = "cloud_typo" => CloudTypo!AcknowledgedIsKept /\ CloudTypo!CertLoadedIsTrue)
      => CloudConfigIsKept
  BY DEF CloudConfigIsKept
<1> QED
  BY <1>1, <1>3, <1>4, <1>2, CloudRuns, CloudIsProved, CloudTypoIsProved, Update!AcknowledgedStays,
     Update!CertLoadedStaysTrue, Update!ACertificateIsThere, UpdateTypo!AcknowledgedStays,
     UpdateTypo!CertLoadedStaysTrue, PTL DEF Spec

(* While the panel is idle or ready the sensors are scanned for, the state *)
(* of the link is the radio's, one acknowledged write at most is in the    *)
(* air, the thermostat can be reached, its handle is of the live           *)
(* connection, and every frame of a bound sensor reaches its slot.         *)
THEOREM RadioIsAlwaysTrue == Spec => []RadioIsTrue
<1>1. Radio!ConstantsAssumption /\ Radio!Locked /\ Radio!Prompt
  BY NetworkAssumption, LinkIsProved, Radio!TwoCallers, "render" # "module" DEF Radio!Prompt
<1>2. /\ [Next]_vars /\ part = "ble_link" => (part = "ble_link")'
      /\ [Next]_vars /\ ~(part = "ble_link") => (~(part = "ble_link"))'
      /\ [Next]_vars /\ part = "ble_slow" => (part = "ble_slow")'
      /\ [Next]_vars /\ ~(part = "ble_slow") => (~(part = "ble_slow"))'
      /\ [Next]_vars /\ part = "ble_gatt" => (part = "ble_gatt")'
      /\ [Next]_vars /\ ~(part = "ble_gatt") => (~(part = "ble_gatt"))'
      /\ [Next]_vars /\ part = "ble_lost" => (part = "ble_lost")'
      /\ [Next]_vars /\ ~(part = "ble_lost") => (~(part = "ble_lost"))'
      /\ [Next]_vars /\ part = "ble_observer" => (part = "ble_observer")'
      /\ [Next]_vars /\ ~(part = "ble_observer") => (~(part = "ble_observer"))'
  BY PartStays
<1>3. /\ (part = "ble_link" => Link!SensorsAreHeard /\ Link!LinkMatchesRadio /\ Link!OneOutstanding)
      /\ (part = "ble_slow" => LinkSlow!SensorsAreHeard /\ LinkSlow!LinkMatchesRadio)
      /\ (part = "ble_gatt" => Gatt!Reachable /\ Gatt!HandleIsLive)
      /\ (part = "ble_lost" => GattLost!Reachable /\ GattLost!HandleIsLive)
      /\ (part = "ble_observer" => Observer!BoundIsHeard)
      => RadioIsTrue
  BY DEF RadioIsTrue
<1>4. Spec => [](part = "ble_link" =>
                   Link!SensorsAreHeard /\ Link!LinkMatchesRadio /\ Link!OneOutstanding)
  BY <1>1, <1>2, LinkRuns, LinkIsProved, Radio!SensorsAreAlwaysHeard, Radio!OneWriteIsOutstanding,
     PTL DEF Spec
<1>5. Spec => /\ [](part = "ble_slow" => LinkSlow!SensorsAreHeard /\ LinkSlow!LinkMatchesRadio)
              /\ [](part = "ble_lost" => GattLost!Reachable /\ GattLost!HandleIsLive)
  BY <1>2, LinkRuns, GattRuns, LinkSlowIsProved, GattLostIsProved, RadioSlow!SensorsAreAlwaysHeard,
     RadioSlow!ThermostatIsAlwaysReachable, PTL DEF Spec
<1>6. Spec => /\ [](part = "ble_gatt" => Gatt!Reachable /\ Gatt!HandleIsLive)
              /\ [](part = "ble_observer" => Observer!BoundIsHeard)
  BY <1>2, GattRuns, ObserverRuns, GattIsProved, ObserverIsProved,
     Radio!ThermostatIsAlwaysReachable, Radio!BoundIsAlwaysHeard, PTL DEF Spec
<1> QED
  BY <1>3, <1>4, <1>5, <1>6, PTL

=============================================================================
