----------------------------- MODULE RadioProofs -----------------------------
(***************************************************************************)
(* What the three halves of the radio keep, for any callers, devices and   *)
(* bounds: the panel link (BleLink), the peripheral (Gatt) and the         *)
(* observer of the sensors (Observer).                                     *)
(***************************************************************************)
EXTENDS BleLink, FiniteSetTheorems, TLAPS

CONSTANTS N, MaxConnects, MaxChanges, MaxMtu, MaxLost, GattFaults, Payload,
          Sensors, Panels, Strangers, Fields, Values, MAX_SEEN, MAX_DEVICES, MaxFrames

VARIABLES
  gatt_synced, adv, gatt_conn, fit, handle, subscribed, last, gatt_value, gatt_main, buf, to,
  gatt_seen, ap, creds, applied, reconnect, prov, gatt_used,
  slots, observer_seen, count, published, binding, heard, since, frames

Gatt == INSTANCE BleGatt WITH
  Values <- Payload, MaxFaults <- GattFaults, synced <- gatt_synced, conn <- gatt_conn,
  value <- gatt_value, main <- gatt_main, seen <- gatt_seen, used <- gatt_used

Observer == INSTANCE BleObserver WITH seen <- observer_seen

-----------------------------------------------------------------------------
(* BleLink: the link and the radio. *)

LinkTyped ==
  /\ synced \in BOOLEAN /\ scan \in BOOLEAN
  /\ link \in {"IDLE", "CONNECTING", "DISCOVERING", "READY"}
  /\ conn \in {None, "opening", "up", "closing"}

LinkInv == LinkTyped /\ SensorsAreHeard /\ LinkMatchesRadio

LEMMA InitLinkInv == Init => LinkInv
BY DEF Init, LinkInv, LinkTyped, SensorsAreHeard, LinkMatchesRadio, None

(* The tasks that write look at the link and leave it as it is.            *)
LEMMA WritersLeaveLink ==
  ASSUME NEW c \in Callers, Write(c)
  PROVE  UNCHANGED linkVars
BY DEF Write, Begin, CreateMutex, TakeLock, Body, WriteFlat, Woken, TimedOut, Unlock, LeaveTask

LEMMA NextLinkInv == LinkInv /\ [Next]_vars => LinkInv'
<1> SUFFICES ASSUME LinkInv, [Next]_vars
             PROVE  LinkInv'
  OBVIOUS
<1> USE DEF LinkInv, LinkTyped, SensorsAreHeard, LinkMatchesRadio, None
<1>1. ASSUME UNCHANGED linkVars PROVE LinkInv'
  BY <1>1 DEF linkVars
<1>2. CASE Sync
  BY <1>2 DEF Sync
<1>3. CASE StackReset
  BY <1>3 DEF StackReset
<1>4. CASE OnScanHit
  <2>1. conn = None /\ link = "IDLE" /\ UNCHANGED synced
    BY <1>4 DEF OnScanHit
  <2>2. CASE link' = "CONNECTING" /\ scan' = FALSE /\ conn' = "opening"
    BY <2>1, <2>2
  <2>3. CASE ResetLink /\ UNCHANGED conn
    BY <2>1, <2>3 DEF ResetLink, StartScan
  <2> QED
    BY <1>4, <2>2, <2>3 DEF OnScanHit
<1>5. CASE OnConnect
  BY <1>5 DEF OnConnect, ResetLink, StartScan
<1>6. CASE OnDiscovered
  BY <1>6 DEF OnDiscovered, BecomeReady, GiveUp, StartScan
<1>7. CASE OnDisconnect
  BY <1>7 DEF OnDisconnect, ResetLink, StartScan
<1>8. CASE CooldownEnds
  BY <1>8 DEF CooldownEnds
<1>9. CASE \E c \in Callers : OnWriteDone(c)
  BY <1>1, <1>9 DEF OnWriteDone
<1>10. CASE \E c \in Callers : Write(c)
  BY <1>1, <1>10, WritersLeaveLink
<1>11. CASE UNCHANGED vars
  BY <1>1, <1>11 DEF vars
<1> QED
  BY <1>2, <1>3, <1>4, <1>5, <1>6, <1>7, <1>8, <1>9, <1>10, <1>11 DEF Next, Host

(* While the link is idle or ready the sensors are heard, whichever way a  *)
(* connection ended; and it is idle exactly when there is no connection.   *)
THEOREM SensorsAreAlwaysHeard == Spec => [](SensorsAreHeard /\ LinkMatchesRadio)
<1>1. LinkInv => SensorsAreHeard /\ LinkMatchesRadio
  BY DEF LinkInv
<1> QED
  BY <1>1, InitLinkInv, NextLinkInv, PTL DEF Spec

-----------------------------------------------------------------------------
(* BleLink: the lock of the writers, once there is one. *)

Locked == Locks \in Mutexes

(* Two tasks may each have made one.                                       *)
LEMMA TwoCallers ==
  ASSUME NEW a, NEW b, a # b, Callers = {a, b}, Locks = 2
  PROVE  Locked
<1>1. IsFiniteSet({a}) /\ Cardinality({a}) = 1
  BY FS_Singleton
<1>2. {a, b} = {a} \cup {b} /\ b \notin {a}
  OBVIOUS
<1>3. Cardinality({a} \cup {b}) = IF b \in {a} THEN Cardinality({a}) ELSE Cardinality({a}) + 1
  BY <1>1, FS_AddElement
<1>4. Cardinality(Callers) = 2
  BY <1>1, <1>2, <1>3
<1> QED
  BY <1>4 DEF Locked, Mutexes

Places == {"idle", "create", "lock", "body", "locked", "wait", "unlock", "release"}

TasksTyped ==
  /\ pc \in [Callers -> Places \ {"create"}]
  /\ sent \in [Callers -> Nat]
  /\ owner \in [Mutexes -> Callers \cup {None}]
  /\ depth \in [Mutexes -> Nat]

Holder == owner[Locks]

(* A frame holds the lock twice while it writes, any other write once.     *)
HolderIs(c) ==
  IF IsFrame(c)
  THEN \/ pc[c] \in {"body", "lock", "release"} /\ depth[Locks] = 1
       \/ pc[c] \in {"locked", "wait", "unlock"} /\ depth[Locks] = 2
  ELSE pc[c] \in {"locked", "wait", "unlock"} /\ depth[Locks] = 1

(* One mutex is used; who does not hold it is before the lock, with nothing *)
(* of its frame sent.                                                       *)
OneLock ==
  /\ mutex = Locks
  /\ \A m \in Mutexes \ {Locks} : owner[m] = None
  /\ Holder = None => depth[Locks] = 0
  /\ Holder # None => HolderIs(Holder)
  /\ \A c \in Callers : c # Holder => pc[c] \in {"idle", "lock"} /\ sent[c] = 0

LockInv == TasksTyped /\ OneLock

LEMMA LocksTyped ==
  ASSUME ConstantsAssumption, Locked
  PROVE  Locks \in Nat /\ Locks # 0 /\ Locks \in Mutexes /\ None \notin Callers
BY DEF ConstantsAssumption, Locked, Mutexes

LEMMA InitLockInv ==
  ASSUME ConstantsAssumption, Locked, Init
  PROVE  LockInv
<1>1. TasksTyped
  BY DEF Init, TasksTyped, Places
<1>2. OneLock
  BY LocksTyped DEF Init, OneLock, Holder
<1> QED
  BY <1>1, <1>2 DEF LockInv

LEMMA HostLeavesTasks == Host => UNCHANGED <<taskVars, lockVars>>
BY DEF Host, Sync, StackReset, OnScanHit, OnConnect, OnDiscovered, OnDisconnect, CooldownEnds,
   OnWriteDone, Quiet, HostOnly

LEMMA HoldsIsHolder ==
  ASSUME ConstantsAssumption, Locked, LockInv, NEW c \in Callers
  PROVE  Holds(c) <=> Holder = c
BY LocksTyped DEF Holds, LockInv, OneLock, Holder

(* The step of a caller that is not the holder, or becomes it.             *)
LEMMA BeginLock ==
  ASSUME ConstantsAssumption, Locked, LockInv, NEW c \in Callers, Begin(c)
  PROVE  LockInv'
<1>1. /\ pc[c] = "idle" /\ pc' = [pc EXCEPT ![c] = "lock"]
      /\ UNCHANGED <<sent, mutex, owner, depth>>
  BY LocksTyped DEF Begin, EnterLock, Goto, LockInv, OneLock, lockVars
<1>2. Holder # c
  BY <1>1, LocksTyped DEF LockInv, OneLock, HolderIs, TasksTyped
<1>3. Holder' = Holder /\ pc' \in [Callers -> Places \ {"create"}]
  BY <1>1 DEF Holder, LockInv, TasksTyped, Places
<1>4. \A d \in Callers : d # c => pc'[d] = pc[d]
  BY <1>1 DEF LockInv, TasksTyped
<1>5. Holder # None => Holder \in Callers /\ pc'[Holder] = pc[Holder]
  BY <1>2, <1>4, LocksTyped DEF LockInv, TasksTyped, Holder
<1>6. pc'[c] = "lock"
  BY <1>1 DEF LockInv, TasksTyped
<1> QED
  BY <1>1, <1>2, <1>3, <1>4, <1>5, <1>6 DEF LockInv, TasksTyped, OneLock, HolderIs

(* A step of the holder that keeps the lock.                               *)
LEMMA HolderGoesOn ==
  ASSUME ConstantsAssumption, Locked, LockInv, NEW c \in Callers, Holder = c,
         NEW place \in Places \ {"create"}, pc' = [pc EXCEPT ![c] = place],
         UNCHANGED lockVars,
         \/ place \in {"body", "lock", "release"} /\ pc[c] \in {"body", "lock", "release"} /\ IsFrame(c)
         \/ place \in {"locked", "wait", "unlock"} /\ pc[c] \in {"locked", "wait", "unlock"},
         sent' \in [Callers -> Nat], \A d \in Callers : d # c => sent'[d] = sent[d]
  PROVE  LockInv'
<1>1. Holder' = c /\ pc'[c] = place /\ \A d \in Callers : d # c => pc'[d] = pc[d]
  BY DEF Holder, lockVars, LockInv, TasksTyped
<1>2. pc' \in [Callers -> Places \ {"create"}]
  BY DEF LockInv, TasksTyped
<1>3. c # None
  BY LocksTyped
<1>4. HolderIs(c)'
  BY <1>1, <1>3 DEF LockInv, OneLock, HolderIs, lockVars, IsFrame
<1> QED
  BY <1>1, <1>2, <1>3, <1>4 DEF LockInv, TasksTyped, OneLock, lockVars

LEMMA TakeLockKeeps ==
  ASSUME ConstantsAssumption, Locked, LockInv, NEW c \in Callers, TakeLock(c)
  PROVE  LockInv'
<1> DEFINE place == IF IsFrame(c) /\ ~Holds(c) THEN "body" ELSE "locked"
<1>1. /\ pc[c] = "lock" /\ Holder \in {None, c}
      /\ owner' = [owner EXCEPT ![Locks] = c] /\ depth' = [depth EXCEPT ![Locks] = @ + 1]
      /\ pc' = [pc EXCEPT ![c] = place] /\ mutex' = mutex /\ sent' = sent
  BY DEF TakeLock, Goto, LockInv, OneLock, Holder
<1>2. c # None /\ Locks \in Mutexes
  BY LocksTyped
<1>3. owner' \in [Mutexes -> Callers \cup {None}] /\ depth' \in [Mutexes -> Nat]
  BY <1>1, <1>2 DEF LockInv, TasksTyped
<1>4. Holder' = c /\ depth'[Locks] = depth[Locks] + 1 /\ \A m \in Mutexes \ {Locks} : owner'[m] = owner[m]
  BY <1>1, <1>2 DEF LockInv, TasksTyped, Holder
<1>5. place \in Places \ {"create"} /\ pc'[c] = place /\ \A d \in Callers : d # c => pc'[d] = pc[d]
  BY <1>1 DEF LockInv, TasksTyped, Places
<1>6. pc' \in [Callers -> Places \ {"create"}]
  BY <1>1, <1>5 DEF LockInv, TasksTyped
<1>7. HolderIs(c)'
  <2>1. CASE Holder = None
    <3>1. depth'[Locks] = 1
      BY <1>4, <2>1 DEF LockInv, OneLock
    <3>2. place = IF IsFrame(c) THEN "body" ELSE "locked"
      BY <1>2, <2>1, HoldsIsHolder
    <3> QED
      BY <1>5, <3>1, <3>2 DEF HolderIs, IsFrame
  <2>2. CASE Holder = c
    <3>1. IsFrame(c) /\ depth'[Locks] = 2
      BY <1>1, <1>2, <1>4, <2>2 DEF LockInv, OneLock, HolderIs
    <3>2. place = "locked"
      BY <2>2, HoldsIsHolder
    <3> QED
      BY <1>5, <3>1, <3>2 DEF HolderIs, IsFrame
  <2> QED
    BY <1>1, <2>1, <2>2
<1>8. \A d \in Callers : d # c => pc'[d] \in {"idle", "lock"} /\ sent'[d] = 0
  BY <1>1, <1>5, LocksTyped DEF LockInv, OneLock
<1> HIDE DEF place
<1>9. OneLock'
  BY <1>1, <1>2, <1>4, <1>7, <1>8 DEF LockInv, OneLock
<1> QED
  BY <1>1, <1>3, <1>6, <1>9 DEF LockInv, TasksTyped

(* Who is past the lock holds it.                                          *)
LEMMA PastTheLock ==
  ASSUME ConstantsAssumption, Locked, LockInv, NEW c \in Callers, pc[c] \notin {"idle", "lock"}
  PROVE  Holder = c /\ HolderIs(c)
<1>1. Holder = c
  BY DEF LockInv, OneLock
<1> QED
  BY <1>1, LocksTyped DEF LockInv, OneLock

LEMMA BodyKeeps ==
  ASSUME ConstantsAssumption, Locked, LockInv, NEW c \in Callers, Body(c)
  PROVE  LockInv'
<1>1. pc[c] = "body" /\ UNCHANGED <<sent, lockVars>>
  BY DEF Body
<1>2. Holder = c /\ IsFrame(c)
  BY <1>1, PastTheLock DEF HolderIs
<1>3. PICK place \in {"lock", "release"} : pc' = [pc EXCEPT ![c] = place]
  BY LocksTyped DEF Body, EnterLock, Goto, LockInv, OneLock
<1> QED
  BY <1>1, <1>2, <1>3, HolderGoesOn DEF Places, LockInv, TasksTyped

LEMMA WriteFlatKeeps ==
  ASSUME ConstantsAssumption, Locked, LockInv, NEW c \in Callers, WriteFlat(c)
  PROVE  LockInv'
<1>1. pc[c] = "locked" /\ UNCHANGED lockVars
  BY DEF WriteFlat
<1>2. Holder = c
  BY <1>1, PastTheLock
<1>3. PICK place \in {"wait", "unlock"} : pc' = [pc EXCEPT ![c] = place]
  BY DEF WriteFlat, Goto
<1>4. sent' \in [Callers -> Nat] /\ \A d \in Callers : d # c => sent'[d] = sent[d]
  BY DEF WriteFlat, LockInv, TasksTyped
<1> QED
  BY <1>1, <1>2, <1>3, <1>4, HolderGoesOn DEF Places

LEMMA WaitKeeps ==
  ASSUME ConstantsAssumption, Locked, LockInv, NEW c \in Callers, Woken(c) \/ TimedOut(c)
  PROVE  LockInv'
<1>1. pc[c] = "wait" /\ UNCHANGED <<sent, lockVars>> /\ pc' = [pc EXCEPT ![c] = "unlock"]
  BY DEF Woken, TimedOut, Goto
<1>2. Holder = c
  BY <1>1, PastTheLock
<1> QED
  BY <1>1, <1>2, HolderGoesOn DEF Places, LockInv, TasksTyped

LEMMA UnlockKeeps ==
  ASSUME ConstantsAssumption, Locked, LockInv, NEW c \in Callers, Unlock(c)
  PROVE  LockInv'
<1>1. pc[c] \in {"unlock", "release"} /\ UNCHANGED mutex /\ GiveLock(c)
  BY DEF Unlock
<1>2. Holder = c /\ HolderIs(c) /\ owner[mutex] = c /\ mutex = Locks
  BY <1>1, PastTheLock DEF LockInv, OneLock, Holder
<1>3. /\ depth' = [depth EXCEPT ![Locks] = @ - 1]
      /\ owner' = [owner EXCEPT ![Locks] = IF depth[Locks] = 1 THEN None ELSE @]
  BY <1>1, <1>2 DEF GiveLock
<1>4. Locks \in Mutexes /\ c # None /\ depth[Locks] \in {1, 2}
  BY <1>2, LocksTyped DEF HolderIs
<1>5. owner' \in [Mutexes -> Callers \cup {None}] /\ depth' \in [Mutexes -> Nat]
  BY <1>3, <1>4 DEF LockInv, TasksTyped
<1>6. \A m \in Mutexes \ {Locks} : owner'[m] = None
  BY <1>3, <1>4 DEF LockInv, TasksTyped, OneLock
<1>7. CASE IsFrame(c) /\ pc[c] = "unlock"
  <2>1. depth[Locks] = 2 /\ Holder' = c /\ depth'[Locks] = 1
    BY <1>2, <1>3, <1>4, <1>7 DEF HolderIs, Holder, LockInv, TasksTyped
  <2>2. pc' = [pc EXCEPT ![c] = "body"] /\ UNCHANGED sent
    BY <1>7 DEF Unlock, Goto
  <2>3. /\ pc' \in [Callers -> Places \ {"create"}] /\ pc'[c] = "body"
        /\ \A d \in Callers : d # c => pc'[d] = pc[d]
    BY <2>2 DEF LockInv, TasksTyped, Places
  <2>4. HolderIs(c)'
    BY <1>7, <2>1, <2>3 DEF HolderIs, IsFrame
  <2>5. \A d \in Callers : d # c => pc'[d] \in {"idle", "lock"} /\ sent'[d] = 0
    BY <1>2, <2>2, <2>3 DEF LockInv, OneLock
  <2> QED
    BY <1>1, <1>2, <1>4, <1>5, <1>6, <2>1, <2>2, <2>3, <2>4, <2>5 DEF LockInv, TasksTyped, OneLock
<1>8. CASE ~(IsFrame(c) /\ pc[c] = "unlock")
  <2>1. depth[Locks] = 1 /\ Holder' = None /\ depth'[Locks] = 0
    BY <1>1, <1>2, <1>3, <1>4, <1>8 DEF HolderIs, Holder, LockInv, TasksTyped
  <2>2. pc' = [pc EXCEPT ![c] = "idle"] /\ sent' = [sent EXCEPT ![c] = 0]
    BY <1>8 DEF Unlock, Goto
  <2>3. /\ pc' \in [Callers -> Places \ {"create"}] /\ sent' \in [Callers -> Nat]
        /\ pc'[c] = "idle" /\ sent'[c] = 0
        /\ \A d \in Callers : d # c => pc'[d] = pc[d] /\ sent'[d] = sent[d]
    BY <2>2 DEF LockInv, TasksTyped, Places
  <2>4. \A d \in Callers : pc'[d] \in {"idle", "lock"} /\ sent'[d] = 0
    BY <1>2, <2>3 DEF LockInv, OneLock
  <2> QED
    BY <1>1, <1>2, <1>5, <1>6, <2>1, <2>3, <2>4 DEF LockInv, TasksTyped, OneLock
<1> QED
  BY <1>7, <1>8

LEMMA NextLockInv ==
  ASSUME ConstantsAssumption, Locked, LockInv, [Next]_vars
  PROVE  LockInv'
<1>1. ASSUME UNCHANGED <<taskVars, lockVars>> PROVE LockInv'
  BY <1>1 DEF LockInv, TasksTyped, OneLock, HolderIs, Holder, taskVars, lockVars
<1>2. ASSUME NEW c \in Callers, Write(c) PROVE LockInv'
  <2>1. CASE CreateMutex(c)
    BY <2>1 DEF CreateMutex, LockInv, TasksTyped
  <2> QED
    BY <1>2, <2>1, BeginLock, TakeLockKeeps, BodyKeeps, WriteFlatKeeps, WaitKeeps, UnlockKeeps
    DEF Write
<1>3. CASE UNCHANGED vars
  BY <1>1, <1>3 DEF vars
<1> QED
  BY <1>1, <1>2, <1>3, HostLeavesTasks DEF Next

(* A chunk goes out under the lock, and a frame that is half sent holds it: *)
(* no write of another task comes between, whatever drops meanwhile.       *)
THEOREM FramesAreNeverSplit ==
  ASSUME ConstantsAssumption, Locked
  PROVE  Spec => FrameIsAtomic
<1>1. LockInv /\ [Next]_vars =>
        [\A c, d \in Callers : c # d /\ sent'[c] > sent[c] => ~MidFrame(d)]_vars
  <2> SUFFICES ASSUME LockInv, Next, NEW c \in Callers, NEW d \in Callers, c # d,
                      sent'[c] > sent[c]
               PROVE  ~MidFrame(d)
    OBVIOUS
  <2>1. PICK e \in Callers : Write(e)
    <3>1. sent'[c] # sent[c]
      BY DEF LockInv, TasksTyped
    <3> QED
      BY <3>1, HostLeavesTasks DEF Next, taskVars
  <2>2. WriteFlat(c)
    <3>1. CASE WriteFlat(e)
      <4>1. e = c
        BY <3>1 DEF WriteFlat, LockInv, TasksTyped
      <4> QED
        BY <3>1, <4>1
    <3>2. CASE Unlock(e)
      <4>1. sent'[c] = sent[c] \/ sent'[c] = 0
        BY <3>2 DEF Unlock, LockInv, TasksTyped
      <4> QED
        BY <4>1 DEF LockInv, TasksTyped
    <3> QED
      BY <2>1, <3>1, <3>2 DEF Write, Begin, CreateMutex, TakeLock, Body, Woken, TimedOut,
         LockInv, TasksTyped
  <2>3. Holder = c
    BY <2>2, PastTheLock DEF WriteFlat
  <2>4. sent[d] = 0
    BY <2>3 DEF LockInv, OneLock
  <2> QED
    BY <2>4 DEF MidFrame, ConstantsAssumption
<1>2. Init => LockInv
  BY InitLockInv
<1>3. LockInv /\ [Next]_vars => LockInv'
  BY NextLockInv
<1> QED
  BY <1>1, <1>2, <1>3, PTL DEF Spec, FrameIsAtomic

(* As long as no answer is late, what is in the air is the write of the    *)
(* holder that waits, until the semaphore is given.                        *)
Awaited ==
  /\ sem \in BOOLEAN /\ air \subseteq Callers
  /\ \A c \in air : pc[c] = "wait"
  /\ \A c \in Callers : pc[c] = "wait" => (c \in air <=> ~sem)

Prompt == SlowAcks = 0

AirInv == LockInv /\ slow = 0 /\ Awaited

LEMMA OnlyTheHolderWaits ==
  ASSUME ConstantsAssumption, Locked, LockInv, NEW c \in Callers, pc[c] = "wait"
  PROVE  \A d \in Callers : pc[d] \notin {"idle", "lock"} => d = c
BY PastTheLock

(* The stack fails what is in the air and wakes who waits for it.          *)
LEMMA FailWritesKeeps ==
  ASSUME Awaited, UNCHANGED pc, FailWrites
  PROVE  Awaited'
BY DEF Awaited, FailWrites

LEMMA NextAwaited ==
  ASSUME ConstantsAssumption, Locked, Prompt, AirInv, [Next]_vars
  PROVE  (slow = 0 /\ Awaited)'
<1> USE DEF AirInv
<1>1. ASSUME UNCHANGED <<slow, pc, sem, air>> PROVE (slow = 0 /\ Awaited)'
  BY <1>1 DEF Awaited
<1>2. CASE Sync \/ OnScanHit \/ OnConnect \/ OnDiscovered \/ CooldownEnds
  BY <1>1, <1>2 DEF Sync, OnScanHit, OnConnect, OnDiscovered, CooldownEnds, Quiet, HostOnly, taskVars
<1>3. CASE StackReset \/ OnDisconnect
  BY <1>3, FailWritesKeeps DEF StackReset, OnDisconnect, HostOnly, taskVars
<1>4. ASSUME NEW c \in Callers, OnWriteDone(c) PROVE (slow = 0 /\ Awaited)'
  <2>1. /\ c \in air /\ air' = air \ {c} /\ sem' = TRUE /\ UNCHANGED <<pc, slow>>
    BY <1>4 DEF OnWriteDone, taskVars
  <2>2. pc[c] = "wait" /\ \A d \in Callers : pc[d] = "wait" => d = c
    BY <2>1, OnlyTheHolderWaits DEF Awaited
  <2>3. air' = {}
    BY <2>1, <2>2 DEF Awaited
  <2> QED
    BY <2>1, <2>2, <2>3 DEF Awaited
<1>5. ASSUME NEW c \in Callers, Write(c) PROVE (slow = 0 /\ Awaited)'
  <2> USE DEF Goto, LockInv, TasksTyped
  <2>1. ASSUME NEW place \in Places \ {"wait"}, pc[c] # "wait", pc' = [pc EXCEPT ![c] = place],
               UNCHANGED <<slow, sem, air>>
        PROVE  (slow = 0 /\ Awaited)'
    BY <2>1 DEF Awaited
  <2>2. CASE Begin(c) \/ TakeLock(c) \/ Body(c) \/ Unlock(c) \/ CreateMutex(c)
    BY <2>1, <2>2 DEF Begin, TakeLock, Body, Unlock, CreateMutex, EnterLock, Places
  <2>3. CASE WriteFlat(c)
    <3>1. pc[c] = "locked"
      BY <2>3 DEF WriteFlat
    <3>2. \A d \in Callers : pc[d] # "wait"
      BY <3>1, OnlyTheHolderWaits
    <3>3. air = {}
      BY <3>2 DEF Awaited
    <3>4. CASE CanWrite
      <4>1. sem' = FALSE /\ air' = {c} /\ pc' = [pc EXCEPT ![c] = "wait"] /\ slow' = slow
        BY <2>3, <3>3, <3>4 DEF WriteFlat
      <4> QED
        BY <3>2, <4>1 DEF Awaited
    <3>5. CASE ~CanWrite
      <4>1. pc' = [pc EXCEPT ![c] = "unlock"] /\ UNCHANGED <<slow, sem, air>>
        BY <2>3, <3>5 DEF WriteFlat
      <4> QED
        BY <2>1, <3>1, <4>1 DEF Places
    <3> QED
      BY <3>4, <3>5
  <2>4. CASE Woken(c)
    <3>1. /\ pc[c] = "wait" /\ sem /\ sem' = FALSE
          /\ pc' = [pc EXCEPT ![c] = "unlock"] /\ UNCHANGED <<air, slow>>
      BY <2>4 DEF Woken
    <3>2. \A d \in Callers : pc[d] = "wait" => d = c
      BY <3>1, OnlyTheHolderWaits
    <3>3. air = {}
      BY <3>1, <3>2 DEF Awaited
    <3> QED
      BY <3>1, <3>2, <3>3 DEF Awaited
  <2>5. CASE TimedOut(c)
    BY <2>5 DEF TimedOut, Prompt
  <2> QED
    BY <1>5, <2>2, <2>3, <2>4, <2>5 DEF Write
<1>6. CASE UNCHANGED vars
  BY <1>1, <1>6 DEF vars, taskVars
<1> QED
  BY <1>2, <1>3, <1>4, <1>5, <1>6 DEF Next, Host

(* One acknowledged write at most is in the air, whichever tasks write and *)
(* however the link comes and goes, once the mutex exists and as long as   *)
(* the panel answers in time.                                              *)
THEOREM OneWriteIsOutstanding ==
  ASSUME ConstantsAssumption, Locked, Prompt
  PROVE  Spec => []OneOutstanding
<1>1. Init => AirInv
  BY InitLockInv DEF Init, AirInv, Awaited
<1>2. AirInv /\ [Next]_vars => AirInv'
  BY NextLockInv, NextAwaited DEF AirInv
<1>3. AirInv => OneOutstanding
  <2> SUFFICES ASSUME AirInv PROVE OneOutstanding
    OBVIOUS
  <2>1. CASE air = {}
    BY <2>1, FS_EmptySet DEF OneOutstanding
  <2>2. ASSUME NEW c \in air PROVE OneOutstanding
    <3>1. air = {c}
      BY <2>2, OnlyTheHolderWaits DEF AirInv, Awaited
    <3> QED
      BY <3>1, FS_Singleton DEF OneOutstanding
  <2> QED
    BY <2>1, <2>2
<1> QED
  BY <1>1, <1>2, <1>3, PTL DEF Spec

-----------------------------------------------------------------------------
(* BleGatt: whatever ends a connection or makes one fail, a synced host     *)
(* advertises or has its central, and what on_update goes by is the live    *)
(* connection.                                                              *)

CountsTyped == gatt_used \in [DOMAIN Gatt!Budget -> Nat]

GattInv == CountsTyped /\ Gatt!Reachable /\ Gatt!HandleIsLive

LEMMA SpentIsTyped ==
  ASSUME CountsTyped, NEW b \in DOMAIN Gatt!Budget, Gatt!Spend(b)
  PROVE  CountsTyped'
BY DEF CountsTyped, Gatt!Spend, Gatt!Budget

LEMMA NextGattInv == GattInv /\ [Gatt!Next]_(Gatt!vars) => GattInv'
<1> SUFFICES ASSUME GattInv, [Gatt!Next]_(Gatt!vars)
             PROVE  GattInv'
  OBVIOUS
<1> USE DEF GattInv, Gatt!Reachable, Gatt!HandleIsLive, Gatt!None
<1>1. \A b \in {"connects", "changes", "mtu", "faults", "lost"} : Gatt!Spend(b) => CountsTyped'
  BY SpentIsTyped DEF Gatt!Budget
<1>2. UNCHANGED gatt_used => CountsTyped'
  BY DEF CountsTyped
<1>3. ASSUME UNCHANGED <<Gatt!link, handle, subscribed>>, CountsTyped'
      PROVE  GattInv'
  BY <1>3 DEF Gatt!link
<1>4. CASE Gatt!Sync
  BY <1>2, <1>4 DEF Gatt!Sync, Gatt!StartAdvertising, Gatt!cache
<1>5. CASE Gatt!StackReset
  BY <1>1, <1>5 DEF Gatt!StackReset, Gatt!OnGattDisconnect, Gatt!cache
<1>6. CASE Gatt!Connect
  <2>1. gatt_conn' # 0
    <3>1. gatt_used["connects"] \in Nat
      BY DEF CountsTyped, Gatt!Budget
    <3> QED
      BY <1>6, <3>1 DEF Gatt!Connect
  <2> QED
    BY <1>1, <1>6, <2>1 DEF Gatt!Connect, Gatt!OnGattConnect
<1>7. CASE Gatt!ConnectFails
  BY <1>1, <1>7 DEF Gatt!ConnectFails, Gatt!StartAdvertising, Gatt!cache
<1>8. CASE Gatt!Disconnect
  BY <1>2, <1>8 DEF Gatt!Disconnect, Gatt!OnGattDisconnect, Gatt!StartAdvertising
<1>9. CASE Gatt!ExchangeMtu
  BY <1>1, <1>9 DEF Gatt!ExchangeMtu, Gatt!cache
<1>10. CASE \E on \in BOOLEAN : Gatt!Subscribe(on)
  BY <1>1, <1>10 DEF Gatt!Subscribe, Gatt!link
<1>11. CASE Gatt!SaveCredentials \/ \E k \in 1..N, v \in Payload : Gatt!ApplyCommand(k, v)
  BY <1>1, <1>3, <1>11 DEF Gatt!SaveCredentials, Gatt!ApplyCommand, Gatt!cache
<1>12. CASE Gatt!RequestReconnect \/ Gatt!Joined
  BY <1>2, <1>3, <1>12 DEF Gatt!RequestReconnect, Gatt!Joined, Gatt!cache
<1>13. CASE Gatt!MainTask
  BY <1>1, <1>2, <1>3, <1>13 DEF Gatt!MainTask, Gatt!BeginUpdate, Gatt!Serialize, Gatt!CacheValue,
     Gatt!Notify, Gatt!Reconnect, Gatt!cache
<1>14. CASE UNCHANGED Gatt!vars
  BY <1>2, <1>3, <1>14 DEF Gatt!vars, Gatt!cache
<1> QED
  BY <1>4, <1>5, <1>6, <1>7, <1>8, <1>9, <1>10, <1>11, <1>12, <1>13, <1>14
  DEF Gatt!Next, Gatt!HostTask

(* The thermostat can be reached again after whatever ended its connection, *)
(* and the handle and the subscription are those of the live connection.   *)
THEOREM ThermostatIsAlwaysReachable == Gatt!Spec => [](Gatt!Reachable /\ Gatt!HandleIsLive)
<1>1. Gatt!Init => GattInv
  BY DEF Gatt!Init, GattInv, CountsTyped, Gatt!Reachable, Gatt!HandleIsLive, Gatt!Budget
<1>2. GattInv => Gatt!Reachable /\ Gatt!HandleIsLive
  BY DEF GattInv
<1> QED
  BY <1>1, <1>2, NextGattInv, PTL DEF Gatt!Spec

-----------------------------------------------------------------------------
(* BleObserver *)

(* A bound slot that was cleared holds what its device has sent since.      *)
SlotsAreHeard ==
  /\ DOMAIN slots \subseteq Sensors /\ DOMAIN since = Sensors
  /\ binding \subseteq DOMAIN slots
  /\ Observer!BoundIsHeard

LEMMA InitSlots == Observer!Init => SlotsAreHeard
BY DEF Observer!Init, SlotsAreHeard, Observer!BoundIsHeard

LEMMA NextSlots == SlotsAreHeard /\ [Observer!Next]_(Observer!vars) => SlotsAreHeard'
<1> SUFFICES ASSUME SlotsAreHeard, [Observer!Next]_(Observer!vars)
             PROVE  SlotsAreHeard'
  OBVIOUS
<1> USE DEF SlotsAreHeard, Observer!BoundIsHeard
<1>1. ASSUME UNCHANGED <<slots, since, binding>> PROVE SlotsAreHeard'
  BY <1>1
<1>2. ASSUME NEW d \in Sensors, NEW frame, Observer!UpdateSensor(d, frame) PROVE SlotsAreHeard'
  <2>1. /\ slots' = IF d \in DOMAIN slots
                    THEN [slots EXCEPT ![d] = Observer!Merge(slots[d], frame)] ELSE slots
        /\ since' = [since EXCEPT ![d] = Observer!Merge(since[d], frame)]
        /\ binding' = binding
    BY <1>2 DEF Observer!UpdateSensor, Observer!Dispatch
  <2>2. \A e \in DOMAIN slots \ binding : slots'[e] = since'[e]
    BY <2>1
  <2> QED
    BY <2>1, <2>2
<1>3. ASSUME NEW d \in Sensors, Observer!ClaimSlot(d) PROVE SlotsAreHeard'
  <2>1. /\ d \notin DOMAIN slots
        /\ slots' = [e \in DOMAIN slots \cup {d} |-> IF e = d THEN Observer!NoReading ELSE slots[e]]
        /\ since' = [since EXCEPT ![d] = Observer!NoReading]
        /\ binding' = binding \cup {d}
    BY <1>3 DEF Observer!ClaimSlot, Observer!Put
  <2>2. \A e \in DOMAIN slots' \ binding' : e \in DOMAIN slots \ binding /\ e # d
    BY <2>1
  <2> QED
    BY <2>1, <2>2
<1>4. ASSUME NEW d \in Sensors, Observer!ClearSlot(d) PROVE SlotsAreHeard'
  <2>1. /\ d \in DOMAIN slots
        /\ slots' = [slots EXCEPT ![d] = Observer!NoReading]
        /\ since' = [since EXCEPT ![d] = Observer!NoReading]
        /\ binding' = binding \ {d}
    BY <1>4 DEF Observer!ClearSlot
  <2> QED
    BY <2>1
<1>5. CASE Observer!OnUpdate \/ UNCHANGED Observer!vars
  BY <1>1, <1>5 DEF Observer!OnUpdate, Observer!vars
<1>6. CASE Observer!GapScanEvent
  BY <1>1, <1>2, <1>6 DEF Observer!GapScanEvent, Observer!LogRaw, Observer!MatchConnectable
<1> QED
  BY <1>3, <1>4, <1>5, <1>6 DEF Observer!Next, Observer!RegisterMac

(* A bound driver reads, field by field, the last its own device sent since *)
(* it was bound, whatever else is heard and however full the tables are.    *)
THEOREM BoundIsAlwaysHeard == Observer!Spec => []Observer!BoundIsHeard
<1>1. SlotsAreHeard => Observer!BoundIsHeard
  BY DEF SlotsAreHeard
<1> QED
  BY <1>1, InitSlots, NextSlots, PTL DEF Observer!Spec

(* A device seen is entered as what it is, and a panel has no reading.      *)
SeenAsItIs ==
  \A d \in DOMAIN observer_seen :
    IF d \in Panels
    THEN observer_seen[d] = Observer!Entry("panel", Observer!NoReading)
    ELSE observer_seen[d].type \in {"sensor", Observer!Unknown}

LEMMA SeeEntry ==
  ASSUME NEW d, NEW kind, NEW reading, Observer!See(d, kind, reading)
  PROVE  /\ \A e \in DOMAIN observer_seen :
              /\ e \in DOMAIN observer_seen'
              /\ e # d => observer_seen'[e] = observer_seen[e]
         /\ \A e \in DOMAIN observer_seen' : e # d => e \in DOMAIN observer_seen
         /\ d \in DOMAIN observer_seen' => observer_seen'[d] = Observer!Entry(kind, reading)
BY DEF Observer!See, Observer!Put, Observer!HasSeenIndex

LEMMA EntryFields ==
  ASSUME NEW kind, NEW reading
  PROVE  /\ Observer!Entry(kind, reading).type = kind
         /\ Observer!Entry(kind, reading).reading = reading
BY DEF Observer!Entry

Kept ==
  \A d \in DOMAIN observer_seen :
    /\ d \in DOMAIN observer_seen'
    /\ observer_seen[d].type # Observer!Unknown => observer_seen'[d].type = observer_seen[d].type
    /\ \A f \in Fields : observer_seen[d].reading[f] # Observer!Absent
                           => observer_seen'[d].reading[f] # Observer!Absent

LEMMA NextSeen ==
  ASSUME Observer!ConstantsAssumption, SeenAsItIs, [Observer!Next]_(Observer!vars)
  PROVE  SeenAsItIs' /\ Kept
<1>1. ASSUME UNCHANGED observer_seen PROVE SeenAsItIs' /\ Kept
  BY <1>1 DEF SeenAsItIs, Kept
<1>2. ASSUME NEW d \in Sensors, NEW frame, Observer!UpdateSensor(d, frame)
      PROVE  SeenAsItIs' /\ Kept
  <2> DEFINE reading == Observer!Merge(Observer!Recorded(d), frame)
  <2>1. Observer!See(d, "sensor", reading)
    BY <1>2 DEF Observer!UpdateSensor
  <2>2. d \notin Panels
    BY DEF Observer!ConstantsAssumption
  <2>3. d \in DOMAIN observer_seen =>
          \A f \in Fields : observer_seen[d].reading[f] # Observer!Absent
                              => reading[f] # Observer!Absent
    BY DEF Observer!Recorded, Observer!Merge
  <2> HIDE DEF reading
  <2>4. SeenAsItIs'
    BY <2>1, <2>2, SeeEntry, EntryFields DEF SeenAsItIs
  <2>5. Kept
    BY <2>1, <2>2, <2>3, SeeEntry, EntryFields DEF SeenAsItIs, Kept
  <2> QED
    BY <2>4, <2>5
<1>3. ASSUME NEW d \in Sensors \cup Strangers, Observer!LogRaw(d)
      PROVE  SeenAsItIs' /\ Kept
  <2>1. Observer!See(d, Observer!TypeOf(d), Observer!Recorded(d))
    BY <1>3 DEF Observer!LogRaw
  <2>2. d \notin Panels
    BY DEF Observer!ConstantsAssumption
  <2>3. /\ d \in DOMAIN observer_seen => /\ Observer!TypeOf(d) = observer_seen[d].type
                                         /\ Observer!Recorded(d) = observer_seen[d].reading
        /\ d \notin DOMAIN observer_seen => Observer!TypeOf(d) = Observer!Unknown
    BY DEF Observer!Recorded, Observer!TypeOf
  <2>4. SeenAsItIs'
    BY <2>1, <2>2, <2>3, SeeEntry, EntryFields DEF SeenAsItIs
  <2>5. Kept
    BY <2>1, <2>2, <2>3, SeeEntry, EntryFields DEF SeenAsItIs, Kept
  <2> QED
    BY <2>4, <2>5
<1>4. ASSUME NEW d \in Panels, Observer!MatchConnectable(d)
      PROVE  SeenAsItIs' /\ Kept
  <2>1. Observer!See(d, "panel", Observer!NoReading)
    BY <1>4 DEF Observer!MatchConnectable
  <2>2. SeenAsItIs'
    BY <2>1, SeeEntry DEF SeenAsItIs
  <2>3. d \in DOMAIN observer_seen => observer_seen'[d] = observer_seen[d]
    BY <2>1, SeeEntry DEF SeenAsItIs
  <2>4. \A e \in DOMAIN observer_seen : e \in DOMAIN observer_seen' /\ observer_seen'[e] = observer_seen[e]
    BY <2>1, <2>3, SeeEntry
  <2> QED
    BY <2>2, <2>4 DEF Kept
<1>5. CASE Observer!OnUpdate \/ UNCHANGED Observer!vars \/ \E d \in Sensors : Observer!RegisterMac(d)
  BY <1>1, <1>5 DEF Observer!OnUpdate, Observer!vars, Observer!RegisterMac, Observer!ClaimSlot,
     Observer!ClearSlot
<1> QED
  BY <1>2, <1>3, <1>4, <1>5 DEF Observer!Next, Observer!GapScanEvent

(* A raw or partial frame takes neither its identity nor its reading away  *)
(* from a device that was identified.                                      *)
THEOREM IdentityIsAlwaysKept ==
  ASSUME Observer!ConstantsAssumption
  PROVE  Observer!Spec => Observer!IdentityIsKept
<1>1. Observer!Init => SeenAsItIs
  BY DEF Observer!Init, SeenAsItIs
<1>2. SeenAsItIs /\ [Observer!Next]_(Observer!vars) => SeenAsItIs' /\ Kept
  BY NextSeen
<1>3. Observer!IdentityIsKept <=> [][Kept]_(Observer!vars)
  BY DEF Observer!IdentityIsKept, Kept
<1> QED
  BY <1>1, <1>2, <1>3, PTL DEF Observer!Spec

=============================================================================
