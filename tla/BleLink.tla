------------------------------- MODULE BleLink -------------------------------
(***************************************************************************)
(* BleCentralLink of modesp_ble: one radio scans for advertisements,       *)
(* connects to the panel whose name a driver supplied, discovers its       *)
(* characteristics and writes to them for the tasks of the drivers.        *)
(* The NimBLE host task runs every callback to its end, so that a callback *)
(* is one step; the writers are tasks of their own and interleave with it  *)
(* and with each other at every call that may block.                       *)
(***************************************************************************)
EXTENDS Naturals, FiniteSets

CONSTANTS
  Callers,     \* tasks that write with a response
  Frames,      \* those that write frames of CHUNKS writes, the others write one
  CHUNKS,
  Jobs,        \* frames each caller sends (bound)
  Locks,       \* mutexes there are at the start: 0 before the first write
  MaxFaults,   \* failures of the radio, the panel or the host (bound)
  SlowAcks     \* answers that take longer than the 3 s of a writer (bound)

None == "none"

ConstantsAssumption ==
  /\ Frames \subseteq Callers /\ None \notin Callers
  /\ CHUNKS \in 2..3
  /\ {Jobs, Locks, MaxFaults, SlowAcks} \subseteq Nat

VARIABLES
  link,      \* state_ of the link
  scan,      \* the controller scans
  synced,    \* the host is in step with the controller
  conn,      \* the connection: none, opening, up, closing
  cooldown,  \* cooldown_until_us_ lies ahead
  pc,        \* where each caller stands
  sent,      \* writes of its frame a caller has made
  ok,        \* what its last write returned
  jobs,      \* frames each caller has yet to send
  mutex,     \* s_link_write_mutex: how many were made, the last is used
  owner,     \* who holds each mutex
  depth,     \* and how many times
  sem,       \* s_link_write_sem is given
  air,       \* writes made whose completion has not come
  acked,     \* callers whose present write the panel has confirmed
  faults, slow

linkVars == <<link, scan, synced, conn, cooldown>>
taskVars == <<pc, sent, ok, jobs>>
lockVars == <<mutex, owner, depth>>
vars == <<linkVars, taskVars, lockVars, sem, air, acked, faults, slow>>

Mutexes == 1..Cardinality(Callers)
CanWrite == link = "READY"

Init ==
  /\ link = "IDLE" /\ scan = FALSE /\ synced = FALSE /\ conn = None /\ cooldown = FALSE
  /\ pc = [c \in Callers |-> "idle"] /\ sent = [c \in Callers |-> 0]
  /\ ok = [c \in Callers |-> TRUE] /\ jobs = [c \in Callers |-> Jobs]
  /\ mutex = Locks /\ owner = [m \in Mutexes |-> None] /\ depth = [m \in Mutexes |-> 0]
  /\ sem = FALSE /\ air = {} /\ acked = {} /\ faults = 0 /\ slow = 0

Fault == faults < MaxFaults /\ faults' = faults + 1
NoFault == UNCHANGED faults

(***************************************************************************)
(* The host task.                                                          *)
(***************************************************************************)
StartScan == scan' = synced            \* start_observer_scan: a failure is only logged

ResetLinkNoScan == link' = "IDLE" /\ UNCHANGED scan
ResetLink == link' = "IDLE" /\ StartScan

(* The stack fails every procedure of a connection that ends and calls its
   callback, which gives the semaphore whatever the status.              *)
FailWrites ==
  /\ air' = {}
  /\ sem' = (sem \/ air # {})

HostOnly == UNCHANGED <<taskVars, lockVars, acked, slow>>
Quiet == HostOnly /\ UNCHANGED <<sem, air>>

Sync ==                                \* on_stack_sync: handle_sync
  /\ ~synced
  /\ synced' = TRUE /\ scan' = TRUE
  /\ UNCHANGED <<link, conn, cooldown, faults>> /\ Quiet

StackReset ==                          \* the stack ends all that runs, then syncs again
  /\ synced /\ Fault
  /\ synced' = FALSE /\ scan' = FALSE /\ conn' = None
  /\ link' = "IDLE"
  /\ FailWrites /\ UNCHANGED cooldown /\ HostOnly

OnScanHit ==                           \* the panel advertises only unconnected
  /\ scan /\ conn = None /\ link = "IDLE" /\ ~cooldown
  /\ \/ link' = "CONNECTING" /\ scan' = FALSE /\ conn' = "opening" /\ NoFault
     \/ ResetLink /\ UNCHANGED conn /\ Fault
  /\ UNCHANGED <<synced, cooldown>> /\ Quiet

OnConnect ==
  /\ conn = "opening"
  /\ \/ link' = "DISCOVERING" /\ conn' = "up" /\ UNCHANGED scan /\ NoFault
     \/ ResetLink /\ conn' = None /\ Fault
  /\ UNCHANGED <<synced, cooldown>> /\ Quiet

BecomeReady == link' = "READY" /\ StartScan /\ UNCHANGED conn

GiveUp == conn' = "closing" /\ UNCHANGED <<link, scan>>      \* ble_gap_terminate

(* on_chr and on_dsc are entered once for each attribute and once at the end:
   the handles gathered on the way decide what the end does.             *)
OnDiscovered ==
  /\ link = "DISCOVERING" /\ conn = "up"
  /\ \/ BecomeReady /\ UNCHANGED cooldown /\ NoFault
     \/ GiveUp /\ UNCHANGED cooldown /\ Fault                \* an error of on_chr or on_dsc
     \/ GiveUp /\ cooldown' = TRUE /\ Fault                  \* no write characteristic
  /\ UNCHANGED synced /\ Quiet

OnDisconnect ==
  /\ \/ conn = "closing" /\ NoFault
     \/ conn = "up" /\ Fault
  /\ conn' = None /\ ResetLink /\ FailWrites
  /\ UNCHANGED <<synced, cooldown>> /\ HostOnly

CooldownEnds == cooldown /\ cooldown' = FALSE
                /\ UNCHANGED <<link, scan, synced, conn, faults>> /\ Quiet

OnWriteDone(c) ==                      \* link_on_write_done for the panel's answer
  /\ c \in air
  /\ air' = air \ {c} /\ sem' = TRUE
  /\ acked' = acked \cup {c}
  /\ UNCHANGED <<linkVars, taskVars, lockVars, faults, slow>>

Host == Sync \/ StackReset \/ OnScanHit \/ OnConnect \/ OnDiscovered \/ OnDisconnect
        \/ CooldownEnds \/ \E c \in Callers : OnWriteDone(c)

(***************************************************************************)
(* The writers. A frame takes the recursive mutex around its body, every   *)
(* write takes it again.                                                   *)
(***************************************************************************)
IsFrame(c) == c \in Frames
Goto(c, place) == pc' = [pc EXCEPT ![c] = place]

LeaveTask == UNCHANGED <<linkVars, faults>>

EnterLock(c) == Goto(c, IF mutex = 0 THEN "create" ELSE "lock")

(* write() looks at the link before it locks, write_frame() does not.    *)
Begin(c) ==
  /\ pc[c] = "idle" /\ jobs[c] > 0
  /\ IsFrame(c) \/ CanWrite
  /\ jobs' = [jobs EXCEPT ![c] = @ - 1]
  /\ EnterLock(c)
  /\ UNCHANGED <<sent, ok, lockVars, sem, air, acked, slow>> /\ LeaveTask

CreateMutex(c) ==                      \* the test for NULL was a step of its own
  /\ pc[c] = "create"
  /\ mutex' = mutex + 1
  /\ Goto(c, "lock")
  /\ UNCHANGED <<sent, ok, jobs, owner, depth, sem, air, acked, slow>> /\ LeaveTask

Holds(c) == \E m \in Mutexes : owner[m] = c

TakeLock(c) ==
  /\ pc[c] = "lock"
  /\ owner[mutex] \in {None, c}
  /\ owner' = [owner EXCEPT ![mutex] = c] /\ depth' = [depth EXCEPT ![mutex] = @ + 1]
  /\ Goto(c, IF IsFrame(c) /\ ~Holds(c) THEN "body" ELSE "locked")
  /\ UNCHANGED <<sent, ok, jobs, mutex, sem, air, acked, slow>> /\ LeaveTask

(* chunk_body: the next write of the frame, or the end of it.            *)
Body(c) ==
  /\ pc[c] = "body"
  /\ IF CanWrite /\ ok[c] /\ sent[c] < CHUNKS
     THEN EnterLock(c) /\ UNCHANGED ok
     ELSE /\ Goto(c, "release") /\ ok' = [ok EXCEPT ![c] = @ /\ sent[c] = CHUNKS]
  /\ UNCHANGED <<sent, jobs, lockVars, sem, air, acked, slow>> /\ LeaveTask

WriteFlatKeepsLock(c) ==
  /\ pc[c] = "locked"
  /\ IF CanWrite
     THEN /\ sem' = FALSE /\ air' = air \cup {c} /\ acked' = acked \ {c}
          /\ sent' = [sent EXCEPT ![c] = @ + 1]
          /\ Goto(c, "wait") /\ UNCHANGED ok
     ELSE /\ ok' = [ok EXCEPT ![c] = FALSE]
          /\ Goto(c, IF IsFrame(c) THEN "body" ELSE "idle")
          /\ UNCHANGED <<sem, air, acked, sent>>
  /\ UNCHANGED <<jobs, lockVars, slow>> /\ LeaveTask

(* Under the lock: the link is looked at again, a stale completion is
   drained, the write goes out.                                          *)
WriteFlat(c) ==
  /\ pc[c] = "locked"
  /\ IF CanWrite
     THEN /\ sem' = FALSE /\ air' = air \cup {c} /\ acked' = acked \ {c}
          /\ sent' = [sent EXCEPT ![c] = @ + 1]
          /\ Goto(c, "wait") /\ UNCHANGED ok
     ELSE /\ ok' = [ok EXCEPT ![c] = FALSE]
          /\ Goto(c, "unlock") /\ UNCHANGED <<sem, air, acked, sent>>
  /\ UNCHANGED <<jobs, lockVars, slow>> /\ LeaveTask

Woken(c) ==
  /\ pc[c] = "wait" /\ sem
  /\ sem' = FALSE
  /\ Goto(c, "unlock")
  /\ UNCHANGED <<sent, ok, jobs, lockVars, air, acked, slow>> /\ LeaveTask

TimedOut(c) ==                         \* 3 s passed; the answer is still on its way
  /\ pc[c] = "wait" /\ ~sem /\ slow < SlowAcks
  /\ slow' = slow + 1
  /\ ok' = [ok EXCEPT ![c] = FALSE]
  /\ Goto(c, "unlock")
  /\ UNCHANGED <<sent, jobs, lockVars, sem, air, acked>> /\ LeaveTask

(* link_write_unlock gives the mutex the pointer names now: nothing comes of
   giving one that another task holds.                                   *)

GiveLock(c) ==
  IF owner[mutex] = c
  THEN /\ depth' = [depth EXCEPT ![mutex] = @ - 1]
       /\ owner' = [owner EXCEPT ![mutex] = IF depth[mutex] = 1 THEN None ELSE @]
  ELSE UNCHANGED <<owner, depth>>

Unlock(c) ==
  /\ pc[c] \in {"unlock", "release"}
  /\ GiveLock(c)
  /\ IF IsFrame(c) /\ pc[c] = "unlock"
     THEN Goto(c, "body") /\ UNCHANGED <<sent, ok>>
     ELSE /\ Goto(c, "idle")
          /\ sent' = [sent EXCEPT ![c] = 0] /\ ok' = [ok EXCEPT ![c] = TRUE]
  /\ UNCHANGED <<jobs, mutex, sem, air, acked, slow>> /\ LeaveTask

Write(c) == Begin(c) \/ CreateMutex(c) \/ TakeLock(c) \/ Body(c) \/ WriteFlat(c)
            \/ Woken(c) \/ TimedOut(c) \/ Unlock(c)

Next == Host \/ \E c \in Callers : Write(c)

(* The stack ends each procedure it began, the panel advertises in the end,
   and every task is given the processor.                                *)
Fairness ==
  /\ WF_vars(Sync) /\ SF_vars(OnScanHit) /\ WF_vars(OnConnect) /\ WF_vars(OnDiscovered)
  /\ WF_vars(conn = "closing" /\ OnDisconnect) /\ WF_vars(CooldownEnds)
  /\ \A c \in Callers : WF_vars(OnWriteDone(c)) /\ SF_vars(TakeLock(c))
                        /\ WF_vars(pc[c] # "idle" /\ Write(c))

Spec == Init /\ [][Next]_vars
LiveSpec == Spec /\ Fairness

(***************************************************************************)
(* Properties.                                                             *)
(***************************************************************************)
TypeOK ==
  /\ link \in {"IDLE", "CONNECTING", "DISCOVERING", "READY"}
  /\ conn \in {None, "opening", "up", "closing"}
  /\ {scan, synced, cooldown, sem} \subseteq BOOLEAN
  /\ pc \in [Callers -> {"idle", "create", "lock", "body", "locked", "wait", "unlock", "release"}]
  /\ sent \in [Callers -> 0..3] /\ ok \in [Callers -> BOOLEAN] /\ jobs \in [Callers -> 0..Jobs]
  /\ mutex \in 0..Cardinality(Callers)
  /\ owner \in [Mutexes -> Callers \cup {None}] /\ depth \in [Mutexes -> 0..2]
  /\ {air, acked} \subseteq SUBSET Callers
  /\ faults \in 0..MaxFaults /\ slow \in 0..SlowAcks

(* The link takes the scan away while it connects and discovers, and gives it
   back whichever way that ends: the broadcast sensors are heard whenever the
   link is idle or ready (ble_service.cpp, reset_link, on_chr, on_dsc).  *)
SensorsAreHeard == synced /\ link \in {"IDLE", "READY"} => scan

(* The link never thinks it is idle while a connection is being made or is up:
   it would scan for a panel that it holds.                              *)
LinkMatchesRadio == (conn = None) <=> (link = "IDLE")

(* "One outstanding write at a time" (ble_service.cpp, link_on_write_done),
   whichever tasks write and however the link comes and goes.            *)
OneOutstanding == Cardinality(air) <= 1

(* No write of another task reaches the panel between two writes of a frame
   (central_link.h, write_frame).                                        *)
MidFrame(c) == c \in Frames /\ sent[c] \in 1..(CHUNKS - 1) /\ pc[c] # "release" /\ ok[c]
FrameIsAtomic ==
  [][\A c, d \in Callers : c # d /\ sent'[c] > sent[c] => ~MidFrame(d)]_vars

(* A writer that is told its write succeeded was told so by the panel.   *)
\* Broken by the code: a write whose connection ends before the panel
\* answered returns TRUE.
TrueMeansWritten ==
  [][\A c \in Callers : pc[c] = "wait" /\ pc'[c] = "unlock" /\ ok'[c] => c \in acked]_vars

(* A task that writes comes back: no lock is kept and no wait is endless,
   whenever the link drops.                                              *)
WritersReturn == \A c \in Callers : pc[c] # "idle" ~> pc[c] = "idle"

(* Once the failures end the panel is found and connected again.         *)
PanelIsReached == <>[](link = "READY")
==============================================================================
