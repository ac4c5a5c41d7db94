-------------------------- MODULE ScenarioPersist ----------------------------
(***************************************************************************)
(* The NVS backend of the scenario engine: main/scenario_persist.cpp.      *)
(*                                                                         *)
(* Two tasks hand over tokens, snapshots of a slot's run: the main task    *)
(* from within the engine's tick (phase changes, deferred; the end of a    *)
(* run, crash-critical) and the HTTP task from within start() (crash-      *)
(* critical).  A drain task takes them off one queue and writes them to    *)
(* flash.  A crash-critical call waits for the drain task's completion     *)
(* signal and falls back to a write of its own when it waits too long.     *)
(*                                                                         *)
(* A token is known by its slot, its edge and a sequence number that       *)
(* counts the snapshots taken of the slot; its bytes are not modelled.     *)
(***************************************************************************)
EXTENDS Naturals, Sequences, FiniteSets

CONSTANTS
  Slot,         \* the engine's slots, one NVS key each
  QUEUE_DEPTH,  \* capacity of the queue
  MaxTokens,    \* bound: snapshots taken of a slot
  Faults        \* what may go wrong

ASSUME PersistAssumption ==
  /\ QUEUE_DEPTH \in Nat \ {0}
  /\ MaxTokens \in Nat
  /\ Faults \subseteq {"stall", "nvs_error", "power_loss"}

VARIABLES
  async_enabled,  \* outcome of init()
  snapshots,      \* how many tokens have been serialised, per slot
  pc, item, ok,   \* each task's place in write(), its Item and its result
  committed,      \* history: has the task's current token been written?
  flush_mutex, flush_done, flush_result,
  queue,
  drain,          \* the drain task: where it is, its Item, its write's result
  nvs             \* the token stored under each slot's key

taskVars  == <<pc, item, ok, committed>>
flushVars == <<flush_mutex, flush_done, flush_result>>
vars == <<async_enabled, snapshots, taskVars, flushVars, queue, drain, nvs>>

Task == {"tick", "http"}
Free == "nobody"

(* The edges on which each task hands over a token (nvs_observer.cpp).     *)
EdgesOf(p) == IF p = "tick" THEN {"phase", "terminal"} ELSE {"started"}
Deferred   == {"phase"}
Edge       == {"phase", "terminal", "started"}

Item   == [slot : Slot, seq : 1..MaxTokens, edge : Edge, flush : BOOLEAN]
NoItem == [slot |-> "none", seq |-> 0, edge |-> "none", flush |-> FALSE]

Token   == [seq : 1..MaxTokens, edge : Edge]
NoToken == [seq |-> 0, edge |-> "none"]

SameToken(a, b) == a.slot = b.slot /\ a.seq = b.seq /\ a.edge = b.edge

IdleDrain == [at |-> "receive", item |-> NoItem, ok |-> FALSE]

NoItems  == [p \in Task |-> NoItem]
AllIdle  == [p \in Task |-> "idle"]
AllFalse == [p \in Task |-> FALSE]

(* init() may fail to allocate its objects or the drain task; persistence  *)
(* then works without them.                                                *)
Init ==
  /\ async_enabled \in BOOLEAN
  /\ snapshots = [s \in Slot |-> 0]
  /\ pc = AllIdle /\ item = NoItems /\ ok = AllFalse /\ committed = AllFalse
  /\ flush_mutex = Free /\ flush_done = FALSE /\ flush_result = FALSE
  /\ queue = <<>>
  /\ drain = IdleDrain
  /\ nvs = [s \in Slot |-> NoToken]

(***************************************************************************)
(* do_nvs_write: on an error the key keeps its value.                      *)
(***************************************************************************)
WriteResult == IF "nvs_error" \in Faults THEN BOOLEAN ELSE {TRUE}

NvsWrite(it, success) ==
  /\ nvs' = IF success THEN [nvs EXCEPT ![it.slot] = [seq |-> it.seq, edge |-> it.edge]] ELSE nvs
  /\ committed' = [p \in Task |-> committed[p] \/ (success /\ SameToken(item[p], it))]

(***************************************************************************)
(* write(), on the task that calls it.                                     *)
(***************************************************************************)
Goto(p, from, to) == pc[p] = from /\ pc' = [pc EXCEPT ![p] = to]

(* The observer serialises the slot and calls write().                     *)
Write(p, s, edge) ==
  /\ snapshots[s] < MaxTokens
  /\ snapshots' = [snapshots EXCEPT ![s] = @ + 1]
  /\ item' = [item EXCEPT ![p] =
       [slot |-> s, seq |-> snapshots[s] + 1, edge |-> edge, flush |-> FALSE]]
  /\ committed' = [committed EXCEPT ![p] = FALSE]
  /\ Goto(p, "idle", CASE ~ async_enabled                       -> "write"
                       [] async_enabled /\ edge \in Deferred    -> "enqueue"
                       [] async_enabled /\ edge \notin Deferred -> "take")
  /\ UNCHANGED <<async_enabled, ok, flushVars, queue, drain, nvs>>

(* Seeded fault: one item too many.                                        *)
QueueOverfull == Len(queue) > QUEUE_DEPTH

QueueFull == Len(queue) >= QUEUE_DEPTH

(* enqueue_deferred: never blocks; on a full queue the token is dropped.   *)
EnqueueDeferred(p) ==
  /\ Goto(p, "enqueue", "idle")
  /\ queue' = IF QueueFull THEN queue ELSE Append(queue, item[p])
  /\ UNCHANGED <<async_enabled, snapshots, item, ok, committed, flushVars, drain, nvs>>

(* Seeded fault: the flushes of the two tasks are not serialised.          *)
TakeNoMutex(p) ==
  /\ Goto(p, "take", "arm")
  /\ flush_mutex' = p
  /\ UNCHANGED <<async_enabled, snapshots, item, ok, committed, flush_done, flush_result,
                 queue, drain, nvs>>

(* flush_crash_critical                                                    *)
TakeMutex(p) ==
  /\ Goto(p, "take", "arm")
  /\ flush_mutex = Free
  /\ flush_mutex' = p
  /\ UNCHANGED <<async_enabled, snapshots, item, ok, committed, flush_done, flush_result,
                 queue, drain, nvs>>

Arm(p) ==
  /\ Goto(p, "arm", "send")
  /\ flush_done' = FALSE
  /\ flush_result' = FALSE
  /\ UNCHANGED <<async_enabled, snapshots, item, ok, committed, flush_mutex, queue, drain, nvs>>

(* Seeded fault: xQueueSendToFront, the crash-critical token first.        *)
SendToFront(p) ==
  /\ Goto(p, "send", "wait")
  /\ ~ QueueFull
  /\ queue' = <<[item[p] EXCEPT !.flush = TRUE]>> \o queue
  /\ UNCHANGED <<async_enabled, snapshots, item, ok, committed, flushVars, drain, nvs>>

Send(p) ==
  /\ Goto(p, "send", "wait")
  /\ ~ QueueFull
  /\ queue' = Append(queue, [item[p] EXCEPT !.flush = TRUE])
  /\ UNCHANGED <<async_enabled, snapshots, item, ok, committed, flushVars, drain, nvs>>

(* SEND_TIMEOUT and FLUSH_TIMEOUT run out only when the drain task stalls. *)
SendTimesOut(p) ==
  /\ "stall" \in Faults
  /\ Goto(p, "send", "write")
  /\ QueueFull
  /\ UNCHANGED <<async_enabled, snapshots, item, ok, committed, flushVars, queue, drain, nvs>>

FlushTimesOut(p) ==
  /\ "stall" \in Faults
  /\ Goto(p, "wait", "write")
  /\ ~ flush_done
  /\ UNCHANGED <<async_enabled, snapshots, item, ok, committed, flushVars, queue, drain, nvs>>

(* Take flush_done, then read the result.                                  *)
SeeDone(p) ==
  /\ Goto(p, "wait", "give")
  /\ flush_done
  /\ flush_done' = FALSE
  /\ ok' = [ok EXCEPT ![p] = flush_result]
  /\ UNCHANGED <<async_enabled, snapshots, item, committed, flush_mutex, flush_result,
                 queue, drain, nvs>>

(* Seeded fault: the fallback returns without giving the mutex back.       *)
DirectWriteReturns(p) ==
  /\ Goto(p, "write", "idle")
  /\ \E success \in WriteResult :
       /\ NvsWrite(item[p], success)
       /\ ok' = [ok EXCEPT ![p] = success]
  /\ UNCHANGED <<async_enabled, snapshots, item, flushVars, queue, drain>>

(* A write on the calling task: the fallback, or all there is without the  *)
(* queue.                                                                  *)
DirectWrite(p) ==
  /\ Goto(p, "write", IF async_enabled THEN "give" ELSE "idle")
  /\ \E success \in WriteResult :
       /\ NvsWrite(item[p], success)
       /\ ok' = [ok EXCEPT ![p] = success]
  /\ UNCHANGED <<async_enabled, snapshots, item, flushVars, queue, drain>>

GiveMutex(p) ==
  /\ Goto(p, "give", "idle")
  /\ flush_mutex' = Free
  /\ UNCHANGED <<async_enabled, snapshots, item, ok, committed, flush_done, flush_result,
                 queue, drain, nvs>>

(* drain_task                                                              *)
(* Seeded fault: the latest item first.                                    *)
ReceiveLatest ==
  /\ async_enabled
  /\ drain.at = "receive"
  /\ queue # <<>>
  /\ drain' = [at |-> "write", item |-> queue[Len(queue)], ok |-> FALSE]
  /\ queue' = SubSeq(queue, 1, Len(queue) - 1)
  /\ UNCHANGED <<async_enabled, snapshots, taskVars, flushVars, nvs>>

Receive ==
  /\ async_enabled
  /\ drain.at = "receive"
  /\ queue # <<>>
  /\ drain' = [at |-> "write", item |-> Head(queue), ok |-> FALSE]
  /\ queue' = Tail(queue)
  /\ UNCHANGED <<async_enabled, snapshots, taskVars, flushVars, nvs>>

Commit ==
  /\ drain.at = "write"
  /\ \E success \in WriteResult :
       /\ NvsWrite(drain.item, success)
       /\ drain' = [at   |-> IF drain.item.flush THEN "signal" ELSE "receive",
                    item |-> drain.item, ok |-> success]
  /\ UNCHANGED <<async_enabled, snapshots, pc, item, ok, flushVars, queue>>

(* Seeded fault: the result of the write is not passed on.                 *)
SignalSuccess ==
  /\ drain.at = "signal"
  /\ flush_result' = TRUE
  /\ flush_done' = TRUE
  /\ drain' = [drain EXCEPT !.at = "receive"]
  /\ UNCHANGED <<async_enabled, snapshots, taskVars, flush_mutex, queue, nvs>>

Signal ==
  /\ drain.at = "signal"
  /\ flush_result' = drain.ok
  /\ flush_done' = TRUE
  /\ drain' = [drain EXCEPT !.at = "receive"]
  /\ UNCHANGED <<async_enabled, snapshots, taskVars, flush_mutex, queue, nvs>>

DrainTask == Receive \/ Commit \/ Signal

(* Power is lost and the firmware boots again: only flash remains.         *)
PowerLoss ==
  /\ "power_loss" \in Faults
  /\ async_enabled' \in BOOLEAN
  /\ pc' = AllIdle /\ item' = NoItems /\ ok' = AllFalse /\ committed' = AllFalse
  /\ flush_mutex' = Free /\ flush_done' = FALSE /\ flush_result' = FALSE
  /\ queue' = <<>>
  /\ drain' = IdleDrain
  /\ UNCHANGED <<snapshots, nvs>>

Flush(p) ==
  \/ TakeMutex(p) \/ Arm(p) \/ Send(p) \/ SendTimesOut(p) \/ FlushTimesOut(p)
  \/ SeeDone(p) \/ DirectWrite(p) \/ GiveMutex(p)

Finish(p) == EnqueueDeferred(p) \/ Flush(p)

Next ==
  \/ \E p \in Task :
       \/ \E s \in Slot : \E edge \in EdgesOf(p) : Write(p, s, edge)
       \/ Finish(p)
  \/ DrainTask
  \/ PowerLoss

Spec == Init /\ [][Next]_vars

(***************************************************************************)
(* A task that is in write() goes on, and the one that waits for the mutex *)
(* gets it sooner or later: the task that gave it back next waits for its  *)
(* next tick or request.  Nothing is assumed of the drain task.            *)
(***************************************************************************)
TasksGoOn ==
  \A p \in Task : WF_vars(Finish(p)) /\ SF_vars(TakeMutex(p))

FairSpec == Spec /\ TasksGoOn

(***************************************************************************)
(* Properties.                                                             *)
(***************************************************************************)
Place == {"idle", "enqueue", "take", "arm", "send", "wait", "write", "give"}

TypeOK ==
  /\ async_enabled \in BOOLEAN
  /\ snapshots \in [Slot -> 0..MaxTokens]
  /\ pc \in [Task -> Place]
  /\ item \in [Task -> Item \cup {NoItem}]
  /\ \A p \in Task : pc[p] # "idle" => item[p] \in Item
  /\ ok \in [Task -> BOOLEAN]
  /\ committed \in [Task -> BOOLEAN]
  /\ flush_mutex \in Task \cup {Free}
  /\ flush_done \in BOOLEAN /\ flush_result \in BOOLEAN
  /\ queue \in Seq(Item) /\ Len(queue) <= QUEUE_DEPTH
  /\ drain \in [at : {"receive", "write", "signal"}, item : Item \cup {NoItem}, ok : BOOLEAN]
  /\ drain.at # "receive" => drain.item \in Item
  /\ nvs \in [Slot -> Token \cup {NoToken}]

(***************************************************************************)
(* A crash-critical call reports what became of its own token: it returns  *)
(* true exactly when that token has been committed, so that the other      *)
(* task's completion signal is never taken for one's own.                  *)
(***************************************************************************)
ResultIsOwn ==
  \A p \in Task : pc[p] = "give" => (ok[p] <=> committed[p])

(***************************************************************************)
(* When a crash-critical call returns, every token its task handed over    *)
(* before has reached flash or was dropped: none is still on its way.      *)
(***************************************************************************)
Writing == drain.at = "write"

OnTheWay(it) ==
  \/ \E i \in DOMAIN queue : queue[i] = it
  \/ Writing /\ drain.item = it

BacklogIsFlushed ==
  \A p \in Task : pc[p] = "give" => \A it \in Item : OnTheWay(it) => it.edge \notin EdgesOf(p)

(***************************************************************************)
(* Why this holds as long as no timeout runs out: the mutex is held from   *)
(* arm to give; of all items under way at most one asks for the signal, it *)
(* is the one its holder waits for, and nothing of the holder follows it.  *)
(***************************************************************************)
Holding == {"arm", "send", "wait", "give"}

PlacesAgree ==
  /\ \A p \in Task : pc[p] \in Holding <=> flush_mutex = p
  /\ \A p \in Task : pc[p] # "idle" => item[p].edge \in EdgesOf(p) /\ ~ item[p].flush
  /\ \A p \in Task : pc[p] \in Holding \cup {"take"} => item[p].edge \notin Deferred
  /\ \A p \in Task : pc[p] = "enqueue" => item[p].edge \in Deferred
  /\ \A p \in Task : pc[p] = "write" => ~ async_enabled
  /\ ~ async_enabled =>
       queue = <<>> /\ drain.at = "receive" /\ \A p \in Task : pc[p] \in {"idle", "write"}

FlushesAreCritical ==
  /\ \A i \in DOMAIN queue : queue[i].flush <=> queue[i].edge \notin Deferred
  /\ drain.at # "receive" => (drain.item.flush <=> drain.item.edge \notin Deferred)

AwaitedBy(p, it) ==
  /\ pc[p] = "wait" /\ ~ flush_done
  /\ SameToken(item[p], it)

Uncommitted ==
  \A p \in Task : pc[p] \in {"take", "arm", "send"} => ~ committed[p]

QueuedFlush ==
  \A i \in DOMAIN queue : queue[i].flush =>
    /\ \E p \in Task : AwaitedBy(p, queue[i]) /\ ~ committed[p]
    /\ drain.at = "receive" \/ ~ drain.item.flush

FlushIsLast ==
  \A i, j \in DOMAIN queue : queue[i].flush /\ i < j =>
    /\ ~ queue[j].flush
    /\ \A p \in Task : queue[i].edge \in EdgesOf(p) => queue[j].edge \notin EdgesOf(p)

DrainedFlush ==
  drain.at # "receive" /\ drain.item.flush =>
    \E p \in Task :
      /\ AwaitedBy(p, drain.item)
      /\ IF Writing THEN ~ committed[p] ELSE drain.ok <=> committed[p]
      /\ \A i \in DOMAIN queue : queue[i].edge \notin EdgesOf(p)

SignalIsOwn ==
  /\ drain.at = "signal" => drain.item.flush
  /\ flush_done => \E p \in Task : pc[p] = "wait"
  /\ flush_done => \A p \in Task : pc[p] = "wait" =>
       /\ flush_result <=> committed[p]
       /\ \A it \in Item : OnTheWay(it) => it.edge \notin EdgesOf(p)

Handshake ==
  /\ PlacesAgree /\ FlushesAreCritical /\ Uncommitted
  /\ QueuedFlush /\ FlushIsLast /\ DrainedFlush /\ SignalIsOwn

(* A phase token never lands on top of a later terminal token, not even    *)
(* across a power loss (the rationale of scenario_persist.h).              *)
PhaseNeverOverTerminal ==
  [][\A s \in Slot :
       nvs[s].edge = "terminal" /\ nvs'[s].edge = "phase" => nvs'[s].seq > nvs[s].seq]_vars

(* A finished run is never taken for an unfinished one: what replaces its  *)
(* terminal token was taken later (the rationale of on_scenario_terminal). *)
FinishedIsRemembered ==
  [][\A s \in Slot :
       nvs[s].edge = "terminal" /\ nvs'[s] # nvs[s] => nvs'[s].seq > nvs[s].seq]_vars

(* What enqueue_deferred says of a full queue: with nothing left on its    *)
(* way, the stored token is at most one snapshot behind.                   *)
\* Broken by the code: several snapshots in a row can find the queue full.
AtMostOneBehind ==
  (/\ queue = <<>> /\ drain.at = "receive" /\ \A p \in Task : pc[p] = "idle") =>
    \A s \in Slot : snapshots[s] <= nvs[s].seq + 1

(* No call blocks its task for ever, even if the drain task is dead.       *)
WritesReturn ==
  \A p \in Task : pc[p] # "idle" ~> pc[p] = "idle"

=============================================================================
