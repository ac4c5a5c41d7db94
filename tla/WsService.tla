----------------------------- MODULE WsService ------------------------------
(***************************************************************************)
(* The WebSocket broadcast of the shared state to browsers:                *)
(* components/modesp_net/src/ws_service.cpp.                               *)
(*                                                                         *)
(* The main task drains the changed keys and queues one send per client;   *)
(* the HTTP server's task, which also runs the handshake of new clients,   *)
(* works the queue off and writes to the sockets.  Both use the client     *)
(* table, under its own mutex.                                             *)
(*                                                                         *)
(* A payload is the entries it carries.  Control frames from the client    *)
(* are consumed and answered without effect on the state below; a failed   *)
(* receive and a CLOSE frame both end in remove_client and the end of the  *)
(* session.                                                                *)
(***************************************************************************)
EXTENDS SharedState, Sequences

CONSTANTS
  Fd,              \* socket numbers, reused after a session has ended
  NoFd,            \* -1 in a free slot
  MAX_WS_CLIENTS,
  BufferEntries,   \* how many entries broadcast_state's buffer holds
  Faults,          \* what may go wrong
  Preempts,        \* may the main task run in the middle of a handshake?
  MaxSets,         \* bound: calls of set()
  MaxWork          \* bound: deltas queued at a time

WsAssumption ==
  /\ NoFd \notin Fd
  /\ MAX_WS_CLIENTS \in Nat \ {0} /\ {MaxSets, MaxWork} \subseteq Nat
  /\ Faults \subseteq {"state_dropped",   \* no heap or no room for the full state
                       "client_dropped",  \* no memory or no room for a delta
                       "delta_skipped",   \* heap below 8 KB
                       "send_error"}
  /\ Preempts \in BOOLEAN

VARIABLES
  sets,        \* how many calls of set() there have been
  session,     \* per fd, the HTTP server's session: "none", "http" or "ws"
  client_fds,  \* the client table
  work,        \* sends queued with httpd_queue_work
  main,        \* the main task inside broadcast_state or send_ping_to_all
  handshake,   \* the HTTP task inside ws_handler's handshake branch
  view,        \* per fd, what the session's browser has been sent
  missed       \* per fd, a history: the keys whose last change it was left without

net  == <<session, client_fds>>
seen == <<view, missed>>
vars == <<store, sets, net, work, main, handshake, seen>>

Slots    == 1..MAX_WS_CLIENTS
Nothing  == [k \in Key |-> NoValue]
Idle     == [at |-> "idle", data |-> Nothing, fds |-> {}]
NoShake  == [at |-> "idle", fd |-> NoFd, data |-> Nothing]

Payload(ks) == [k \in Key |-> IF k \in ks THEN map[k] ELSE NoValue]
Clients     == {client_fds[i] : i \in Slots} \ {NoFd}
is_ws_client(fd) == session[fd] = "ws"

TypeOK ==
  /\ StoreTypeOK
  /\ sets \in 0..MaxSets
  /\ session \in [Fd -> {"none", "ws"}]
  /\ client_fds \in [Slots -> Fd \cup {NoFd}]
  /\ Len(work) <= MaxWork + 1
  /\ \A i \in DOMAIN work : work[i] \in [fd : Fd, data : Entries]
  /\ main \in [at : {"idle", "send"}, data : Entries, fds : SUBSET Fd] \cup
              [at : {"drained"}, data : Entries, fds : {{}}]
  /\ handshake \in [at : {"idle", "added", "copied"}, fd : Fd \cup {NoFd}, data : Entries]
  /\ view \in [Fd -> Entries] /\ missed \in [Fd -> SUBSET Key]

Init ==
  /\ StoreInit
  /\ sets = 0
  /\ session = [fd \in Fd |-> "none"]
  /\ client_fds = [i \in Slots |-> NoFd]
  /\ work = <<>> /\ main = Idle /\ handshake = NoShake
  /\ view = [fd \in Fd |-> Nothing] /\ missed = [fd \in Fd |-> {}]

(* On one core the HTTP task, whose priority is higher, finishes its       *)
(* handshake before the main task runs again; on two they overlap.         *)
MainRuns == Preempts \/ handshake.at = "idle"
HttpFree == handshake.at = "idle"

(***************************************************************************)
(* Any task sets a key.                                                    *)
(***************************************************************************)
SetKey(k, v) ==
  /\ MainRuns /\ sets < MaxSets
  /\ Set(k, v, TRUE)
  /\ sets' = sets + 1
  /\ UNCHANGED <<net, work, main, handshake, seen>>

(***************************************************************************)
(* The client table.                                                       *)
(***************************************************************************)
Without(table, gone) == [i \in Slots |-> IF table[i] \in gone THEN NoFd ELSE table[i]]
Dead == {fd \in Fd : ~is_ws_client(fd)}

(* add_client(): the fd of a new session may still be in the table.        *)
AddClient(fd) ==
  LET swept == Without(client_fds, Dead \ {fd})
      free  == {i \in Slots : swept[i] = NoFd}
  IN  client_fds' = IF fd \in Clients THEN client_fds
                    ELSE IF free = {} THEN swept
                    ELSE [swept EXCEPT ![CHOOSE i \in free : \A j \in free : i <= j] = fd]

RemoveClient(fd) == client_fds' = Without(client_fds, {fd})

(***************************************************************************)
(* The HTTP task: handshake of a new session, in three steps.              *)
(***************************************************************************)
Connect(fd) ==
  /\ HttpFree /\ session[fd] = "none" /\ Len(work) <= MaxWork
  /\ session' = [session EXCEPT ![fd] = "ws"]
  /\ AddClient(fd)
  /\ handshake' = [NoShake EXCEPT !.at = "added", !.fd = fd]
  /\ view' = [view EXCEPT ![fd] = Nothing]
  /\ UNCHANGED <<store, sets, work, main, missed>>

(* send_full_state_to(): its buffer is made for all keys.  It gives up,    *)
(* and leaves the client listed, when memory or the queue is short.        *)
CopyState ==
  /\ handshake.at = "added"
  /\ handshake' = [handshake EXCEPT !.at = "copied", !.data = Payload(Present)]
  /\ missed' = [missed EXCEPT ![handshake.fd] = {}]
  /\ UNCHANGED <<store, sets, net, work, main, view>>

SkipFullState ==
  /\ handshake.at # "idle" /\ "state_dropped" \in Faults
  /\ handshake' = NoShake
  /\ missed' = [missed EXCEPT ![handshake.fd] = Present]
  /\ UNCHANGED <<store, sets, net, work, main, view>>

(* httpd_queue_work of a send.                                             *)
Queue(fd, data) == work' = Append(work, [fd |-> fd, data |-> data])

QueueFullState ==
  /\ handshake.at = "copied"
  /\ Queue(handshake.fd, handshake.data)
  /\ handshake' = NoShake
  /\ UNCHANGED <<store, sets, net, main, seen>>

(***************************************************************************)
(* async_send_cb(): the HTTP task sends the head of the queue.             *)
(***************************************************************************)
Send ==
  /\ HttpFree /\ work # <<>>
  /\ work' = Tail(work)
  /\ LET fd == Head(work).fd  data == Head(work).data IN
     \/ /\ fd \notin Clients \/ ~is_ws_client(fd)    \* skipped
        /\ RemoveClient(fd)
        /\ UNCHANGED <<session, view>>
     \/ /\ fd \in Clients /\ is_ws_client(fd)
        /\ view' = [view EXCEPT ![fd] = [k \in Key |->
                      IF data[k] = NoValue THEN view[fd][k] ELSE data[k]]]
        /\ UNCHANGED net
     \/ /\ fd \in Clients /\ is_ws_client(fd) /\ "send_error" \in Faults
        /\ RemoveClient(fd)
        /\ session' = [session EXCEPT ![fd] = "none"]   \* trigger_close
        /\ UNCHANGED view
  /\ UNCHANGED <<store, sets, main, handshake, missed>>

(* The session ends.  on_session_close() sweeps the table; whether the     *)
(* server still answers for the closing session's fd is up to the library. *)
(* A CLOSE frame or a failed receive removes the fd itself.                *)
Close(fd) ==
  /\ HttpFree /\ is_ws_client(fd)
  /\ session' = [session EXCEPT ![fd] = "none"]
  /\ \E gone \in {Dead, Dead \cup {fd}} : client_fds' = Without(client_fds, gone)
  /\ UNCHANGED <<store, sets, work, main, handshake, seen>>

(***************************************************************************)
(* The main task: on_update, when a timer has run out.                     *)
(***************************************************************************)
(* broadcast_state(): entries that do not fit the buffer are passed over.  *)
Drain ==
  /\ MainRuns /\ main.at = "idle" /\ has_changes
  /\ \E fit \in SUBSET Changed :
       /\ Cardinality(fit) = BufferEntries
            \/ (fit = Changed /\ Cardinality(fit) < BufferEntries)
       /\ main' = [Idle EXCEPT !.at = "drained", !.data = Payload(fit)]
       /\ missed' = [fd \in Fd |-> missed[fd] \cup (Changed \ fit)]
  /\ ClearChanged
  /\ UNCHANGED <<sets, net, work, handshake, view>>

(* send_to_all(): the table is copied under the mutex.                     *)
CopyTable ==
  /\ MainRuns /\ main.at = "drained"
  /\ client_fds' = Without(client_fds, Dead)
  /\ main' = [main EXCEPT !.at = "send", !.fds = Clients \ Dead]
  /\ UNCHANGED <<store, sets, session, work, handshake, seen>>

(* The heartbeat: cleanup_dead_clients(), then a ping to everyone left.  A *)
(* ping carries nothing.                                                   *)
Heartbeat ==
  /\ MainRuns /\ main.at = "idle" /\ Clients # {}
  /\ client_fds' = Without(client_fds, Dead)
  /\ main' = [at |-> "send", data |-> Nothing, fds |-> Clients \ Dead]
  /\ UNCHANGED <<store, sets, session, work, handshake, seen>>

(* A delta that is queued between the copy and the queueing of a full      *)
(* state is overtaken by the older copy.                                   *)
Told == {k \in Key : main.data[k] # NoValue}
Overtaken(fd) == {k \in Told : /\ handshake.at = "copied" /\ handshake.fd = fd
                               /\ handshake.data[k] \notin {NoValue, main.data[k]}}

QueueSend(fd) ==
  /\ MainRuns /\ main.at = "send" /\ fd \in main.fds
  /\ main' = IF main.fds = {fd} THEN Idle ELSE [main EXCEPT !.fds = @ \ {fd}]
  /\ \/ /\ Len(work) < MaxWork
        /\ Queue(fd, main.data)
        /\ missed' = [missed EXCEPT ![fd] = (@ \ Told) \cup Overtaken(fd)]
        /\ UNCHANGED client_fds
     \/ /\ "client_dropped" \in Faults
        /\ RemoveClient(fd)
        /\ UNCHANGED <<work, missed>>
     \/ /\ "delta_skipped" \in Faults
        /\ missed' = [missed EXCEPT ![fd] = @ \cup Told]
        /\ UNCHANGED <<client_fds, work>>
  /\ UNCHANGED <<store, sets, session, handshake, view>>

SendToNobody ==
  /\ MainRuns /\ main.at = "send" /\ main.fds = {}
  /\ main' = Idle
  /\ UNCHANGED <<store, sets, net, work, handshake, seen>>

Next ==
  \/ \E k \in Key, v \in Value : SetKey(k, v)
  \/ \E fd \in Fd : Connect(fd) \/ Close(fd) \/ QueueSend(fd)
  \/ CopyState \/ SkipFullState \/ QueueFullState \/ Send
  \/ Drain \/ CopyTable \/ Heartbeat \/ SendToNobody

Spec == Init /\ [][Next]_vars

-----------------------------------------------------------------------------
(* Nothing is on its way to a browser.                                     *)
Quiet == ~has_changes /\ work = <<>> /\ main = Idle /\ handshake = NoShake

(***************************************************************************)
(* No browser is left behind: once everything under way has arrived, what  *)
(* every listed client has been sent of a key is its value in the shared   *)
(* state, whatever the order of handshakes, broadcasts, closed and reused  *)
(* sockets and failed sends, but for the keys whose last change a named    *)
(* step has left out: a full state given up, a delta skipped, a buffer too *)
(* small, or a broadcast overtaken by a handshake's copy.  A change lost   *)
(* in any other way would stay lost, as its key is not changed again.      *)
(***************************************************************************)
ViewsAreCurrent ==
  Quiet => \A fd \in Clients : is_ws_client(fd) =>
             \A k \in Key \ missed[fd] : view[fd][k] = map[k]

(***************************************************************************)
(* Where memory and buffer suffice and no broadcast runs in the middle of  *)
(* a handshake, no change is left out.                                     *)
(***************************************************************************)
NothingIsMissed == \A fd \in Fd : missed[fd] = {}

(***************************************************************************)
(* The table lists no socket twice: add_client, the sweeps of both tasks   *)
(* and the reuse of socket numbers do not lose a slot.                     *)
(***************************************************************************)
NoSlotIsLost ==
  \A i, j \in Slots : client_fds[i] = client_fds[j] /\ i # j => client_fds[i] = NoFd

(***************************************************************************)
(* ws_service.h:7, "New clients receive full state immediately on          *)
(* connect": who has connected is served.                                  *)
(***************************************************************************)
\* Broken by the code: a browser that finds the client table full stays
\* connected and is never sent anything.
ConnectedAreServed ==
  Quiet => \A fd \in Fd : is_ws_client(fd) => fd \in Clients
=============================================================================
