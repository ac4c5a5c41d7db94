------------------------------ MODULE WsProofs ------------------------------
(***************************************************************************)
(* No browser is left behind, for any keys, values, sockets, size of the   *)
(* client table and of the buffer, whatever fails and whichever task       *)
(* preempts the other: once all that is under way has arrived, what every  *)
(* listed client has been sent of a key is its value, but for the keys     *)
(* that one of the four steps named in WsService has left out.             *)
(***************************************************************************)
EXTENDS WsService, FiniteSetTheorems, TLAPS

-----------------------------------------------------------------------------
(* The inductive invariant. *)

(* A change that the next broadcast will carry.                            *)
Pending(k) == force_full \/ k \in changed_keys

(* What the main task has drained and not yet queued for a client.         *)
MainCarries(fd, k) ==
  /\ main.data[k] # NoValue
  /\ main.at = "drained" \/ (main.at = "send" /\ fd \in main.fds)

(* The value that a client has of a key once the queue is worked off: the  *)
(* last one queued for it, or else the last one it was sent.               *)
Carried(w, i, fd, k) == w[i].fd = fd /\ w[i].data[k] # NoValue
Last(w, sent, fd, k, v) ==
  \/ \E i \in 1..Len(w) :
       /\ Carried(w, i, fd, k) /\ w[i].data[k] = v
       /\ \A j \in 1..Len(w) : j > i => ~Carried(w, j, fd, k)
  \/ sent[fd][k] = v /\ \A j \in 1..Len(w) : ~Carried(w, j, fd, k)

(* The copy of a client's full state that is still to be queued will carry *)
(* the key to it, and over what is queued for it now.                      *)
CopyCarries(fd, k) == handshake.fd = fd /\ ~(handshake.at = "copied" /\ handshake.data[k] = NoValue)

(* What is not pending is on its way, or has arrived, or was left out: for *)
(* every listed client but the keys that its full state has still to bring.*)
Listed(fd) == fd \in Clients /\ is_ws_client(fd)
Served(fd, k) == Listed(fd) /\ ~CopyCarries(fd, k)
NothingElse(fd, k) == ~Pending(k) /\ ~MainCarries(fd, k) /\ k \notin missed[fd]
NobodyLeftBehind ==
  \A fd \in Fd, k \in Key :
    Served(fd, k) /\ NothingElse(fd, k) => Last(work, view, fd, k, map[k])

(* What is carried is of the state, and of its last change if none is      *)
(* pending.                                                                *)
DrainedIsCurrent ==
  \A k \in Key : main.data[k] # NoValue /\ ~Pending(k) => main.data[k] = map[k]
OnlyWhatIsThere ==
  \A k \in Key : map[k] = NoValue =>
    /\ main.data[k] = NoValue /\ handshake.data[k] = NoValue
    /\ \A fd \in Fd : view[fd][k] = NoValue
    /\ \A i \in 1..Len(work) : work[i].data[k] = NoValue

(* The copy of the full state is current but for what is under way to the  *)
(* same client or was left out.                                            *)
ShakeIsCurrent ==
  handshake.at = "copied" /\ Listed(handshake.fd) =>
    \A k \in Key : handshake.data[k] # NoValue /\ NothingElse(handshake.fd, k)
                     => handshake.data[k] = map[k]

BroadcastInv ==
  /\ NobodyLeftBehind /\ DrainedIsCurrent /\ OnlyWhatIsThere /\ ShakeIsCurrent

(* The types, and what of the queue and of the handshake they rest on.     *)
WorkItem == [fd : Fd, data : Entries]
TypeInv ==
  /\ TypeOK /\ IsFiniteSet(changed_keys) /\ work \in Seq(WorkItem)
  /\ handshake.at = "idle" => handshake.fd = NoFd
  /\ handshake.at # "idle" => handshake.fd \in Fd /\ Len(work) <= MaxWork

(* Memory and buffer suffice, and no broadcast runs in the middle of a     *)
(* handshake.                                                              *)
NothingIsSkipped ==
  /\ ~Preempts /\ Faults \cap {"state_dropped", "delta_skipped"} = {}
  /\ IsFiniteSet(Key) /\ Cardinality(Key) <= BufferEntries /\ BufferEntries \in Nat

-----------------------------------------------------------------------------
(* The queue                                                               *)

LEMMA LastAppend ==
  ASSUME NEW w \in Seq(WorkItem), NEW sent, NEW item \in WorkItem, NEW g, NEW k, NEW v
  PROVE  /\ item.fd = g /\ item.data[k] # NoValue => Last(Append(w, item), sent, g, k, item.data[k])
         /\ ~(item.fd = g /\ item.data[k] # NoValue) /\ Last(w, sent, g, k, v)
              => Last(Append(w, item), sent, g, k, v)
<1> DEFINE n == Len(w)
           u == Append(w, item)
<1>1. n \in Nat /\ Len(u) = n + 1 /\ u[n + 1] = item /\ \A i \in 1..n : u[i] = w[i]
  OBVIOUS
<1>2. \A i \in 1..n : Carried(u, i, g, k) <=> Carried(w, i, g, k)
  BY <1>1 DEF Carried
<1>3. Carried(u, n + 1, g, k) <=> item.fd = g /\ item.data[k] # NoValue
  BY <1>1 DEF Carried
<1> HIDE DEF n, u
<1>4. n = Len(w) /\ u = Append(w, item)
  BY DEF n, u
<1>5. ASSUME item.fd = g, item.data[k] # NoValue
      PROVE  Last(u, sent, g, k, item.data[k])
  <2>1. n + 1 \in 1..Len(u) /\ Carried(u, n + 1, g, k) /\ u[n + 1].data[k] = item.data[k]
    BY <1>1, <1>3, <1>5
  <2>2. \A j \in 1..Len(u) : ~(j > n + 1)
    BY <1>1
  <2> QED
    BY <2>1, <2>2 DEF Last
<1>6. ASSUME ~(item.fd = g /\ item.data[k] # NoValue), Last(w, sent, g, k, v)
      PROVE  Last(u, sent, g, k, v)
  <2>1. \A j \in 1..Len(u) : j \in 1..n \/ j = n + 1
    BY <1>1
  <2>2. ~Carried(u, n + 1, g, k)
    BY <1>3, <1>6
  <2>3. CASE sent[g][k] = v /\ \A j \in 1..n : ~Carried(w, j, g, k)
    BY <1>2, <2>1, <2>2, <2>3 DEF Last
  <2>4. ASSUME NEW i \in 1..n, Carried(w, i, g, k), w[i].data[k] = v,
               \A j \in 1..n : j > i => ~Carried(w, j, g, k)
        PROVE  Last(u, sent, g, k, v)
    <3>1. i \in 1..Len(u) /\ Carried(u, i, g, k) /\ u[i].data[k] = v
      BY <1>1, <1>2, <2>4
    <3>2. \A j \in 1..Len(u) : j > i => ~Carried(u, j, g, k)
      BY <1>2, <2>1, <2>2, <2>4
    <3> QED
      BY <3>1, <3>2 DEF Last
  <2> QED
    BY <1>4, <1>6, <2>3, <2>4 DEF Last
<1> QED
  BY <1>4, <1>5, <1>6

(* The head of the queue is sent, or was not carried to this client.       *)
LEMMA LastTail ==
  ASSUME NEW w \in Seq(WorkItem), w # <<>>, NEW sent, NEW sentNow, NEW g, NEW k, NEW v,
         Last(w, sent, g, k, v),
         sentNow[g][k] = IF Carried(w, 1, g, k) THEN w[1].data[k] ELSE sent[g][k]
  PROVE  Last(Tail(w), sentNow, g, k, v)
<1> DEFINE n == Len(w)
           u == Tail(w)
<1>1. n \in Nat \ {0} /\ Len(u) = n - 1 /\ \A i \in 1..(n - 1) : u[i] = w[i + 1]
  OBVIOUS
<1>2. \A i \in 1..(n - 1) : Carried(u, i, g, k) <=> Carried(w, i + 1, g, k)
  BY <1>1 DEF Carried
<1> HIDE DEF n, u
<1>3. n = Len(w) /\ u = Tail(w)
  BY DEF n, u
<1>4. \A i \in 1..(n - 1) : i + 1 \in 1..n
  BY <1>1
<1>5. CASE sent[g][k] = v /\ \A j \in 1..n : ~Carried(w, j, g, k)
  <2>1. sentNow[g][k] = v
    BY <1>1, <1>5
  <2>2. \A j \in 1..Len(u) : ~Carried(u, j, g, k)
    BY <1>1, <1>2, <1>4, <1>5
  <2> QED
    BY <1>3, <2>1, <2>2 DEF Last
<1>6. ASSUME NEW i \in 1..n, Carried(w, i, g, k), w[i].data[k] = v,
             \A j \in 1..n : j > i => ~Carried(w, j, g, k)
      PROVE  Last(u, sentNow, g, k, v)
  <2>1. \A j \in 1..(n - 1) : j + 1 > i => ~Carried(u, j, g, k)
    BY <1>1, <1>2, <1>4, <1>6
  <2>2. CASE i = 1
    <3>1. sentNow[g][k] = v
      BY <1>6, <2>2
    <3>2. \A j \in 1..Len(u) : ~Carried(u, j, g, k)
      BY <1>1, <2>1, <2>2
    <3> QED
      BY <3>1, <3>2 DEF Last
  <2>3. CASE i # 1
    <3>1. i - 1 \in 1..(n - 1) /\ (i - 1) + 1 = i
      BY <1>1, <2>3
    <3>2. Carried(u, i - 1, g, k) /\ u[i - 1].data[k] = v
      BY <1>1, <1>2, <1>6, <3>1
    <3>3. \A j \in 1..Len(u) : j > i - 1 => ~Carried(u, j, g, k)
      BY <1>1, <2>1, <3>1
    <3> QED
      BY <1>1, <3>1, <3>2, <3>3 DEF Last
  <2> QED
    BY <2>2, <2>3
<1> QED
  BY <1>3, <1>5, <1>6 DEF Last

-----------------------------------------------------------------------------
(* The client table                                                        *)

LEMMA Swept ==
  ASSUME client_fds \in [Slots -> Fd \cup {NoFd}], NEW gone,
         client_fds' = Without(client_fds, gone)
  PROVE  /\ client_fds' \in [Slots -> Fd \cup {NoFd}]
         /\ Clients' \subseteq Clients /\ (gone \subseteq Fd /\ NoFd \notin Fd => Clients' \cap gone = {})
         /\ NoSlotIsLost => NoSlotIsLost'
<1>1. \A i \in Slots : client_fds'[i] = IF client_fds[i] \in gone THEN NoFd ELSE client_fds[i]
  BY DEF Without
<1>2. client_fds' \in [Slots -> Fd \cup {NoFd}]
  BY DEF Without
<1>3. Clients' \subseteq Clients /\ (gone \subseteq Fd /\ NoFd \notin Fd => Clients' \cap gone = {})
  BY <1>1 DEF Clients
<1>4. NoSlotIsLost => NoSlotIsLost'
  BY <1>1 DEF NoSlotIsLost
<1> QED
  BY <1>2, <1>3, <1>4

(* Whichever free slot is taken.                                           *)
LEMMA Added ==
  ASSUME client_fds \in [Slots -> Fd \cup {NoFd}], NEW fd \in Fd, NoFd \notin Fd, AddClient(fd)
  PROVE  /\ client_fds' \in [Slots -> Fd \cup {NoFd}]
         /\ Clients' \subseteq Clients \cup {fd}
         /\ NoSlotIsLost => NoSlotIsLost'
<1> DEFINE swept == Without(client_fds, Dead \ {fd})
           free == {i \in Slots : swept[i] = NoFd}
           at == CHOOSE i \in free : \A j \in free : i <= j
<1>1. \A i \in Slots : swept[i] = IF client_fds[i] \in Dead \ {fd} THEN NoFd ELSE client_fds[i]
  BY DEF Without
<1>2. swept \in [Slots -> Fd \cup {NoFd}] /\ [swept EXCEPT ![at] = fd] \in [Slots -> Fd \cup {NoFd}]
  BY DEF Without
<1>3. CASE client_fds' = client_fds
  BY <1>3 DEF Clients, NoSlotIsLost
<1>4. CASE client_fds' = swept
  BY <1>4, Swept DEF Clients
<1>5. CASE fd \notin Clients /\ client_fds' = [swept EXCEPT ![at] = fd]
  <2>1. \A i \in Slots : client_fds'[i] = IF i = at THEN fd ELSE swept[i]
    BY <1>2, <1>5
  <2>2. \A i \in Slots : client_fds[i] # fd
    BY <1>5 DEF Clients
  <2> HIDE DEF swept, at
  <2>3. Clients' \subseteq Clients \cup {fd}
    BY <1>1, <2>1 DEF Clients
  <2>4. NoSlotIsLost => NoSlotIsLost'
    BY <1>1, <2>1, <2>2 DEF NoSlotIsLost
  <2> QED
    BY <1>2, <1>5, <2>3, <2>4
<1> QED
  BY <1>3, <1>4, <1>5 DEF AddClient

-----------------------------------------------------------------------------
(* Types *)

LEMMA PayloadType ==
  ASSUME map \in Entries, NEW ks
  PROVE  Payload(ks) \in Entries
BY DEF Payload, Entries

LEMMA NothingType == Nothing \in Entries
BY DEF Nothing, Entries

LEMMA MissedTypes ==
  ASSUME TypeInv, [Next]_vars
  PROVE  missed' \in [Fd -> SUBSET Key]
<1>1. missed \in [Fd -> SUBSET Key]
  BY DEF TypeInv, TypeOK
<1>2. Present \subseteq Key /\ Changed \subseteq Key /\ Told \subseteq Key
      /\ \A fd : Overtaken(fd) \subseteq Key
  BY DEF Present, Changed, Told, Overtaken
<1>3. CASE CopyState \/ SkipFullState \/ Drain
  <2> HIDE DEF Present, Changed
  <2> QED
    BY <1>1, <1>2, <1>3 DEF CopyState, SkipFullState, Drain
<1>4. ASSUME NEW fd \in Fd, QueueSend(fd)
      PROVE  missed' \in [Fd -> SUBSET Key]
  <2> HIDE DEF Told, Overtaken
  <2> QED
    BY <1>1, <1>2, <1>4 DEF QueueSend
<1>5. CASE missed' = missed
  BY <1>1, <1>5
<1> QED
  BY <1>3, <1>4, <1>5 DEF Next, vars, seen, SetKey, Connect, Close, QueueFullState, Send, CopyTable,
     Heartbeat, SendToNobody

LEMMA SetTypes ==
  ASSUME StoreAssumption, WsAssumption, TypeInv, NEW k \in Key, NEW v \in Value, SetKey(k, v),
         missed' \in [Fd -> SUBSET Key]
  PROVE  TypeInv'
<1>1. sets \in Nat /\ sets < MaxSets /\ sets' = sets + 1 /\ MaxSets \in Nat
  BY DEF SetKey, TypeInv, TypeOK, WsAssumption
<1>2. UNCHANGED <<session, client_fds, work, main, handshake, view, missed>>
  BY DEF SetKey, net, seen
<1>3. map' \in Entries
  BY DEF SetKey, Set, TypeInv, TypeOK, StoreTypeOK, Entries
<1>4. version' \in 0..(VERSION_RANGE - 1)
  <2>1. VERSION_RANGE \in Nat \ {0} /\ version \in 0..(VERSION_RANGE - 1)
    BY DEF StoreAssumption, TypeInv, TypeOK, StoreTypeOK
  <2>2. (version + 1) % VERSION_RANGE \in 0..(VERSION_RANGE - 1)
    BY <2>1
  <2> QED
    BY <2>1, <2>2 DEF SetKey, Set
<1>5. force_full' \in BOOLEAN
  BY DEF SetKey, Set, NoteChanged, TypeInv, TypeOK, StoreTypeOK
<1>6. IsFiniteSet(changed_keys') /\ changed_keys' \subseteq Key
      /\ Cardinality(changed_keys') <= MAX_CHANGED_KEYS
  <2>1. IsFiniteSet(changed_keys) /\ changed_keys \subseteq Key
        /\ Cardinality(changed_keys) <= MAX_CHANGED_KEYS /\ MAX_CHANGED_KEYS \in Nat
    BY DEF StoreAssumption, TypeInv, TypeOK, StoreTypeOK
  <2>2. Cardinality(changed_keys) \in Nat
    BY <2>1, FS_CardinalityType
  <2>3. IsFiniteSet(changed_keys \cup {k})
        /\ Cardinality(changed_keys \cup {k}) =
             IF k \in changed_keys THEN Cardinality(changed_keys) ELSE Cardinality(changed_keys) + 1
    BY <2>1, FS_AddElement
  <2>4. changed_keys' = changed_keys
        \/ (changed_keys' = changed_keys \cup {k}
            /\ ~(k \notin changed_keys /\ Cardinality(changed_keys) >= MAX_CHANGED_KEYS))
    BY DEF SetKey, Set, NoteChanged
  <2> QED
    BY <2>1, <2>2, <2>3, <2>4
<1> QED
  BY <1>1, <1>2, <1>3, <1>4, <1>5, <1>6 DEF TypeInv, TypeOK, StoreTypeOK, Slots

(* Actions that leave the store alone.                                     *)
LEMMA StoreStays ==
  ASSUME StoreTypeOK, UNCHANGED store
  PROVE  StoreTypeOK'
BY DEF StoreTypeOK, store, Entries

LEMMA HttpTypes ==
  ASSUME WsAssumption, TypeInv,
         \/ \E fd \in Fd : Connect(fd) \/ Close(fd)
         \/ CopyState \/ SkipFullState \/ QueueFullState,
         missed' \in [Fd -> SUBSET Key]
  PROVE  TypeInv'
<1>1. UNCHANGED store /\ StoreTypeOK' /\ changed_keys' = changed_keys /\ sets' = sets
      /\ main' = main
  BY StoreStays DEF Connect, Close, CopyState, SkipFullState, QueueFullState, TypeInv, TypeOK, store
<1>2. NoFd \notin Fd /\ MaxWork \in Nat /\ NoShake = [at |-> "idle", fd |-> NoFd, data |-> Nothing]
      /\ NoShake.fd = NoFd /\ NoShake.at = "idle"
      /\ NoShake \in [at : {"idle", "added", "copied"}, fd : Fd \cup {NoFd}, data : Entries]
  BY NothingType DEF WsAssumption, NoShake
<1>3. ASSUME NEW fd \in Fd, Connect(fd)
      PROVE  TypeInv'
  <2>1. client_fds' \in [Slots -> Fd \cup {NoFd}]
    BY <1>2, <1>3, Added DEF Connect, TypeInv, TypeOK
  <2>2. session' \in [Fd -> {"none", "ws"}] /\ view' \in [Fd -> Entries] /\ work' = work
        /\ Len(work) <= MaxWork
    BY <1>3, NothingType DEF Connect, TypeInv, TypeOK
  <2>3. handshake' = [at |-> "added", fd |-> fd, data |-> Nothing]
    BY <1>3 DEF Connect, NoShake
  <2>4. handshake' \in [at : {"idle", "added", "copied"}, fd : Fd \cup {NoFd}, data : Entries]
        /\ handshake'.at = "added" /\ handshake'.fd = fd
    BY <2>3, NothingType
  <2> QED
    BY <1>1, <2>1, <2>2, <2>4 DEF TypeInv, TypeOK, Slots, WorkItem, Entries
<1>4. ASSUME NEW fd \in Fd, Close(fd)
      PROVE  TypeInv'
  <2>1. client_fds' \in [Slots -> Fd \cup {NoFd}]
    BY <1>4, Swept DEF Close, TypeInv, TypeOK
  <2>2. session' \in [Fd -> {"none", "ws"}] /\ view' = view /\ work' = work /\ handshake' = handshake
    BY <1>4 DEF Close, seen, TypeInv, TypeOK
  <2> QED
    BY <1>1, <2>1, <2>2 DEF TypeInv, TypeOK, Slots, WorkItem, Entries
<1>5. CASE CopyState
  <2>1. Payload(Present) \in Entries
    BY PayloadType DEF TypeInv, TypeOK, StoreTypeOK
  <2>2. handshake' = [handshake EXCEPT !.at = "copied", !.data = Payload(Present)]
        /\ handshake \in [at : {"idle", "added", "copied"}, fd : Fd \cup {NoFd}, data : Entries]
        /\ handshake.fd \in Fd /\ Len(work) <= MaxWork
    BY <1>5 DEF CopyState, TypeInv, TypeOK
  <2>3. handshake' \in [at : {"idle", "added", "copied"}, fd : Fd \cup {NoFd}, data : Entries]
        /\ handshake'.at = "copied" /\ handshake'.fd = handshake.fd
    BY <2>1, <2>2
  <2> QED
    BY <1>1, <1>5, <2>2, <2>3 DEF CopyState, TypeInv, TypeOK, net, seen, Slots, WorkItem, Entries
<1>6. CASE SkipFullState
  BY <1>1, <1>2, <1>6 DEF SkipFullState, TypeInv, TypeOK, net, seen, Slots, WorkItem, Entries
<1>7. CASE QueueFullState
  <2>1. handshake.fd \in Fd /\ handshake.data \in Entries /\ Len(work) <= MaxWork
    BY <1>7 DEF QueueFullState, TypeInv, TypeOK
  <2> DEFINE item == [fd |-> handshake.fd, data |-> handshake.data]
  <2>2. item \in WorkItem /\ work \in Seq(WorkItem) /\ work' = Append(work, item)
    BY <1>7, <2>1 DEF QueueFullState, Queue, TypeInv, WorkItem
  <2> HIDE DEF item
  <2>3. work' \in Seq(WorkItem) /\ Len(work') <= MaxWork + 1
    BY <1>2, <2>1, <2>2
  <2>4. \A i \in DOMAIN work' : work'[i] \in WorkItem
    BY <2>3
  <2>5. UNCHANGED <<session, client_fds, view>> /\ handshake' = NoShake
    BY <1>7 DEF QueueFullState, net, seen
  <2>6. TypeOK'
    BY <1>1, <1>2, <2>3, <2>4, <2>5 DEF TypeInv, TypeOK, Slots, WorkItem, Entries
  <2> QED
    BY <1>1, <1>2, <2>3, <2>5, <2>6 DEF TypeInv, WorkItem, Entries
<1> QED
  BY <1>3, <1>4, <1>5, <1>6, <1>7

LEMMA SendTypes ==
  ASSUME WsAssumption, TypeInv, Send, missed' \in [Fd -> SUBSET Key]
  PROVE  TypeInv'
<1>1. UNCHANGED store /\ StoreTypeOK' /\ changed_keys' = changed_keys /\ sets' = sets
      /\ main' = main /\ handshake' = handshake
  BY StoreStays DEF Send, TypeInv, TypeOK, store
<1>2. work \in Seq(WorkItem) /\ work # <<>> /\ work' = Tail(work) /\ MaxWork \in Nat
  BY DEF Send, TypeInv, WsAssumption
<1>3. Head(work) \in WorkItem /\ work' \in Seq(WorkItem) /\ Len(work') = Len(work) - 1
      /\ Len(work) \in Nat /\ \A i \in DOMAIN work' : work'[i] \in WorkItem
  BY <1>2
<1>4. Head(work).fd \in Fd /\ Head(work).data \in Entries
  BY <1>3 DEF WorkItem
<1>5. client_fds' \in [Slots -> Fd \cup {NoFd}]
  <2>1. client_fds' = client_fds \/ client_fds' = Without(client_fds, {Head(work).fd})
    BY DEF Send, RemoveClient, net, seen
  <2>2. client_fds \in [Slots -> Fd \cup {NoFd}]
    BY DEF TypeInv, TypeOK
  <2> QED
    BY <2>1, <2>2, Swept
<1>6. session' \in [Fd -> {"none", "ws"}]
  BY DEF Send, TypeInv, TypeOK, net, seen
<1>7. view' \in [Fd -> Entries]
  <2> DEFINE data == Head(work).data
             sent == [k \in Key |-> IF data[k] = NoValue THEN view[Head(work).fd][k] ELSE data[k]]
  <2>1. view \in [Fd -> Entries]
    BY DEF TypeInv, TypeOK
  <2>2. view[Head(work).fd] \in Entries
    BY <1>4, <2>1
  <2>3. sent \in Entries
    BY <1>4, <2>2 DEF Entries
  <2>4. view' = view \/ view' = [view EXCEPT ![Head(work).fd] = sent]
    BY DEF Send, net, seen
  <2> QED
    BY <2>1, <2>3, <2>4
<1> QED
  BY <1>1, <1>2, <1>3, <1>5, <1>6, <1>7 DEF TypeInv, TypeOK, Slots, WorkItem, Entries

LEMMA MainTypes ==
  ASSUME StoreAssumption, WsAssumption, TypeInv,
         \/ Drain \/ CopyTable \/ Heartbeat \/ SendToNobody \/ \E fd \in Fd : QueueSend(fd),
         missed' \in [Fd -> SUBSET Key]
  PROVE  TypeInv'
<1> DEFINE Mains == [at : {"idle", "send"}, data : Entries, fds : SUBSET Fd] \cup
                    [at : {"drained"}, data : Entries, fds : {{}}]
<1>1. UNCHANGED <<session, handshake, view, sets, map>>
  BY DEF Drain, CopyTable, Heartbeat, SendToNobody, QueueSend, net, seen, store, ClearChanged
<1>2. IsFiniteSet(changed_keys') /\ StoreTypeOK'
  <2>1. CASE Drain
    <3>1. changed_keys' = {} /\ force_full' = FALSE /\ map' = map /\ version' = version
      BY <2>1 DEF Drain, ClearChanged
    <3>2. map \in Entries /\ version \in 0..(VERSION_RANGE - 1)
      BY DEF TypeInv, TypeOK, StoreTypeOK
    <3>3. IsFiniteSet({}) /\ Cardinality({}) = 0 /\ 0 <= MAX_CHANGED_KEYS
      BY FS_EmptySet DEF StoreAssumption
    <3>4. IsFiniteSet(changed_keys') /\ Cardinality(changed_keys') <= MAX_CHANGED_KEYS
      BY <3>1, <3>3
    <3> QED
      BY <3>1, <3>2, <3>4 DEF StoreTypeOK, Entries
  <2>2. CASE UNCHANGED store
    BY <2>2, StoreStays DEF TypeInv, TypeOK, store
  <2> QED
    BY <2>1, <2>2 DEF CopyTable, Heartbeat, SendToNobody, QueueSend
<1>3. client_fds' \in [Slots -> Fd \cup {NoFd}]
  <2>1. client_fds' = client_fds \/ \E gone : client_fds' = Without(client_fds, gone)
    BY DEF Drain, CopyTable, Heartbeat, SendToNobody, QueueSend, RemoveClient, net, seen
  <2>2. client_fds \in [Slots -> Fd \cup {NoFd}]
    BY DEF TypeInv, TypeOK
  <2> QED
    BY <2>1, <2>2, Swept
<1>4. Clients \subseteq Fd
  BY DEF TypeInv, TypeOK, Clients
<1>5. main \in Mains /\ Idle \in Mains
  BY NothingType DEF TypeInv, TypeOK, Idle
<1>6. main' \in Mains
  <2>1. CASE Drain
    <3>1. PICK fit : main' = [Idle EXCEPT !.at = "drained", !.data = Payload(fit)]
      BY <2>1 DEF Drain
    <3>2. Payload(fit) \in Entries
      BY PayloadType DEF TypeInv, TypeOK, StoreTypeOK
    <3>3. main' = [at |-> "drained", data |-> Payload(fit), fds |-> {}]
      BY <3>1 DEF Idle
    <3> QED
      BY <3>2, <3>3
  <2>2. CASE CopyTable
    <3>1. main \in [at : {"drained"}, data : Entries, fds : {{}}]
      BY <1>5, <2>2 DEF CopyTable
    <3>2. main' = [at |-> "send", data |-> main.data, fds |-> Clients \ Dead]
      BY <2>2, <3>1 DEF CopyTable
    <3> QED
      BY <1>4, <3>1, <3>2
  <2>3. CASE Heartbeat
    BY <1>4, <2>3, NothingType DEF Heartbeat
  <2>4. CASE SendToNobody
    BY <1>5, <2>4 DEF SendToNobody
  <2>5. ASSUME NEW fd \in Fd, QueueSend(fd)
        PROVE  main' \in Mains
    <3>1. main \in [at : {"idle", "send"}, data : Entries, fds : SUBSET Fd]
      BY <1>5, <2>5 DEF QueueSend
    <3>2. [main EXCEPT !.fds = @ \ {fd}] \in Mains
      BY <3>1
    <3> QED
      BY <1>5, <2>5, <3>2 DEF QueueSend
  <2> QED
    BY <2>1, <2>2, <2>3, <2>4, <2>5
<1>7. work' \in Seq(WorkItem) /\ Len(work') <= MaxWork + 1
      /\ (handshake.at # "idle" => Len(work') <= MaxWork)
  <2>1. work \in Seq(WorkItem) /\ Len(work) <= MaxWork + 1 /\ MaxWork \in Nat
        /\ (handshake.at # "idle" => Len(work) <= MaxWork)
    BY DEF TypeInv, TypeOK, WsAssumption
  <2>2. CASE work' = work
    BY <2>1, <2>2
  <2>3. ASSUME NEW fd \in Fd, QueueSend(fd), work' # work
        PROVE  work' \in Seq(WorkItem) /\ Len(work') <= MaxWork
    <3> DEFINE item == [fd |-> fd, data |-> main.data]
    <3>1. main.data \in Entries
      BY <1>5
    <3>2. item \in WorkItem /\ work' = Append(work, item) /\ Len(work) < MaxWork
      BY <2>3, <3>1 DEF QueueSend, Queue, WorkItem
    <3> HIDE DEF item
    <3> QED
      BY <2>1, <3>2
  <2>4. work' = work \/ \E fd \in Fd : QueueSend(fd)
    BY DEF Drain, CopyTable, Heartbeat, SendToNobody
  <2> QED
    BY <2>1, <2>2, <2>3, <2>4
<1>8. \A i \in DOMAIN work' : work'[i] \in WorkItem
  BY <1>7
<1>9. TypeOK'
  BY <1>1, <1>2, <1>3, <1>6, <1>7, <1>8 DEF TypeInv, TypeOK, Slots, WorkItem, Entries
<1> QED
  BY <1>1, <1>2, <1>7, <1>9 DEF TypeInv, WorkItem, Entries

LEMMA NextTypes ==
  ASSUME StoreAssumption, WsAssumption, TypeInv, [Next]_vars
  PROVE  TypeInv'
<1>1. CASE UNCHANGED vars
  <2>1. UNCHANGED <<map, changed_keys, force_full, version, sets, session, client_fds, work, main,
                    handshake, view, missed>>
    BY <1>1 DEF vars, store, net, seen
  <2>2. StoreTypeOK'
    BY <2>1, StoreStays DEF TypeInv, TypeOK, store
  <2> QED
    BY <2>1, <2>2 DEF TypeInv, TypeOK, Slots, WorkItem, Entries
<1> QED
  BY <1>1, MissedTypes, SetTypes, HttpTypes, SendTypes, MainTypes DEF Next

LEMMA InitTypes ==
  ASSUME StoreAssumption, WsAssumption, Init
  PROVE  TypeInv
<1>1. IsFiniteSet({}) /\ Cardinality({}) = 0
  BY FS_EmptySet
<1>2. StoreTypeOK /\ IsFiniteSet(changed_keys)
  <2>1. map = [k \in Key |-> NoValue] /\ changed_keys = {} /\ force_full = FALSE /\ version = 0
    BY DEF Init, StoreInit
  <2>2. map \in Entries /\ version \in 0..(VERSION_RANGE - 1) /\ 0 <= MAX_CHANGED_KEYS
    BY <2>1 DEF StoreAssumption, Entries
  <2>3. changed_keys \subseteq Key /\ Cardinality(changed_keys) <= MAX_CHANGED_KEYS
        /\ IsFiniteSet(changed_keys) /\ force_full \in BOOLEAN
    BY <1>1, <2>1, <2>2
  <2> QED
    BY <2>2, <2>3 DEF StoreTypeOK
<1>3. main \in [at : {"idle", "send"}, data : Entries, fds : SUBSET Fd]
      /\ handshake \in [at : {"idle", "added", "copied"}, fd : Fd \cup {NoFd}, data : Entries]
      /\ handshake.at = "idle" /\ handshake.fd = NoFd
  BY NothingType DEF Init, Idle, NoShake
<1>4. work = <<>> /\ work \in Seq(WorkItem) /\ Len(work) = 0 /\ DOMAIN work = {}
  BY DEF Init
<1>5. sets \in 0..MaxSets /\ Len(work) <= MaxWork + 1
  BY <1>4 DEF Init, WsAssumption
<1>6. session \in [Fd -> {"none", "ws"}] /\ client_fds \in [Slots -> Fd \cup {NoFd}]
      /\ view \in [Fd -> Entries] /\ missed \in [Fd -> SUBSET Key]
  BY NothingType DEF Init
<1> QED
  BY <1>2, <1>3, <1>4, <1>5, <1>6 DEF TypeInv, TypeOK

-----------------------------------------------------------------------------
(* The slots of the client table                                           *)

LEMMA SlotsStay ==
  ASSUME WsAssumption, TypeInv, NoSlotIsLost, [Next]_vars
  PROVE  NoSlotIsLost'
<1>1. client_fds \in [Slots -> Fd \cup {NoFd}] /\ NoFd \notin Fd
  BY DEF TypeInv, TypeOK, WsAssumption
<1>2. \/ client_fds' = client_fds
      \/ \E gone : client_fds' = Without(client_fds, gone)
      \/ \E fd \in Fd : AddClient(fd)
  <2>1. ASSUME NEW fd \in Fd, QueueSend(fd)
        PROVE  client_fds' = client_fds \/ client_fds' = Without(client_fds, {fd})
    BY <2>1 DEF QueueSend, RemoveClient
  <2>2. CASE Send
    BY <2>2 DEF Send, RemoveClient, net
  <2>3. CASE Drain \/ CopyTable \/ Heartbeat \/ SendToNobody
    BY <2>3 DEF Drain, CopyTable, Heartbeat, SendToNobody, net
  <2>4. CASE CopyState \/ SkipFullState \/ QueueFullState \/ UNCHANGED vars
    BY <2>4 DEF CopyState, SkipFullState, QueueFullState, vars, net
  <2> QED
    BY <2>1, <2>2, <2>3, <2>4 DEF Next, SetKey, Connect, Close, net
<1>3. CASE client_fds' = client_fds
  BY <1>3 DEF NoSlotIsLost, Slots
<1> QED
  BY <1>1, <1>2, <1>3, Swept, Added

-----------------------------------------------------------------------------
(* What a broadcast leaves to be done                                      *)

(* Only a handshake adds a client, and there is one at a time.             *)
LEMMA StaysListed ==
  ASSUME Clients' \subseteq Clients, \A fd \in Fd : is_ws_client(fd)' => is_ws_client(fd)
  PROVE  \A fd \in Fd : Listed(fd)' => Listed(fd)
BY DEF Listed

LEMMA StaysServed ==
  ASSUME Clients' \subseteq Clients, \A fd \in Fd : is_ws_client(fd)' => is_ws_client(fd),
         handshake' = handshake
  PROVE  \A fd \in Fd, k \in Key : Served(fd, k)' => Served(fd, k)
BY StaysListed DEF Served, CopyCarries

(* The copy of the full state is left alone while the HTTP task is free.   *)
LEMMA NoCopy ==
  ASSUME handshake'.at # "copied"
  PROVE  ShakeIsCurrent'
BY DEF ShakeIsCurrent

LEMMA SetBroadcast ==
  ASSUME StoreAssumption, TypeInv, BroadcastInv, NEW key \in Key, NEW v \in Value, SetKey(key, v)
  PROVE  BroadcastInv'
<1>1. UNCHANGED <<session, client_fds, work, main, handshake, view, missed>>
  BY DEF SetKey, net, seen
<1>2. \A k \in Key : map'[k] = IF k = key THEN v ELSE map[k]
  BY DEF SetKey, Set, TypeInv, TypeOK, StoreTypeOK, Entries
<1>3. \A k \in Key : Pending(k) => Pending(k)'
  BY DEF Pending, SetKey, Set, NoteChanged
<1>4. map[key] # v => Pending(key)'
  BY DEF Pending, SetKey, Set, NoteChanged
<1>5. ASSUME NEW k \in Key, ~Pending(k)'
      PROVE  ~Pending(k) /\ map'[k] = map[k]
  BY <1>2, <1>3, <1>4, <1>5
<1>6. \A fd, k : (MainCarries(fd, k)' <=> MainCarries(fd, k)) /\ (Served(fd, k)' <=> Served(fd, k))
                 /\ (Listed(fd)' <=> Listed(fd))
  BY <1>1 DEF MainCarries, Served, Listed, CopyCarries, Clients, is_ws_client
<1>7. NobodyLeftBehind'
  <2>1. ASSUME NEW fd \in Fd, NEW k \in Key, Served(fd, k)', NothingElse(fd, k)'
        PROVE  Last(work, view, fd, k, map'[k])
    BY <1>1, <1>5, <1>6, <2>1 DEF BroadcastInv, NobodyLeftBehind, NothingElse
  <2> QED
    BY <1>1, <2>1 DEF NobodyLeftBehind
<1>8. DrainedIsCurrent'
  BY <1>1, <1>5 DEF BroadcastInv, DrainedIsCurrent
<1>9. OnlyWhatIsThere'
  <2>1. \A k \in Key : map'[k] = NoValue => map[k] = NoValue
    BY <1>2 DEF StoreAssumption
  <2> QED
    BY <1>1, <2>1 DEF BroadcastInv, OnlyWhatIsThere
<1>10. ShakeIsCurrent'
  <2>1. ASSUME NEW k \in Key, NEW fd, NothingElse(fd, k)'
        PROVE  NothingElse(fd, k) /\ map'[k] = map[k]
    BY <1>1, <1>5, <1>6, <2>1 DEF NothingElse
  <2> QED
    BY <1>1, <1>6, <2>1 DEF BroadcastInv, ShakeIsCurrent
<1> QED
  BY <1>7, <1>8, <1>9, <1>10 DEF BroadcastInv

LEMMA ConnectBroadcast ==
  ASSUME WsAssumption, TypeInv, BroadcastInv, NEW fd \in Fd, Connect(fd)
  PROVE  BroadcastInv'
<1>1. UNCHANGED <<map, changed_keys, force_full, work, main, missed>> /\ handshake.fd = NoFd
  BY DEF Connect, store, HttpFree, TypeInv
<1>2. handshake'.at = "added" /\ handshake'.fd = fd /\ handshake'.data = Nothing
  BY DEF Connect, NoShake
<1>3. \A g \in Fd : view'[g] = IF g = fd THEN Nothing ELSE view[g]
  BY DEF Connect, TypeInv, TypeOK
<1>4. Clients' \subseteq Clients \cup {fd}
  BY Added DEF Connect, TypeInv, TypeOK, WsAssumption
<1>5. \A g \in Fd : g # fd /\ is_ws_client(g)' => is_ws_client(g)
  BY DEF Connect, is_ws_client, TypeInv, TypeOK
<1>6. \A g \in Fd, k \in Key : Served(g, k)' => g # fd /\ Served(g, k)
  BY <1>1, <1>2, <1>4, <1>5 DEF Served, Listed, CopyCarries, WsAssumption
<1>7. NobodyLeftBehind'
  <2>1. \A g, k : NothingElse(g, k)' <=> NothingElse(g, k)
    BY <1>1 DEF NothingElse, Pending, MainCarries
  <2>2. ASSUME NEW g \in Fd, NEW k \in Key, Served(g, k)', NothingElse(g, k)'
        PROVE  Last(work', view', g, k, map'[k])
    <3>1. Last(work, view, g, k, map[k]) /\ view'[g][k] = view[g][k]
      BY <1>3, <1>6, <2>1, <2>2 DEF BroadcastInv, NobodyLeftBehind
    <3> QED
      BY <1>1, <3>1 DEF Last
  <2> QED
    BY <2>2 DEF NobodyLeftBehind
<1>8. DrainedIsCurrent'
  BY <1>1 DEF BroadcastInv, DrainedIsCurrent, Pending
<1>9. OnlyWhatIsThere'
  <2>1. \A k \in Key : Nothing[k] = NoValue
    BY DEF Nothing
  <2> QED
    BY <1>1, <1>2, <1>3, <2>1 DEF BroadcastInv, OnlyWhatIsThere
<1>10. ShakeIsCurrent'
  BY <1>2, NoCopy
<1> QED
  BY <1>7, <1>8, <1>9, <1>10 DEF BroadcastInv

LEMMA CloseBroadcast ==
  ASSUME TypeInv, BroadcastInv, NEW fd \in Fd, Close(fd)
  PROVE  BroadcastInv'
<1>1. UNCHANGED <<map, changed_keys, force_full, work, main, handshake, view, missed>>
      /\ handshake.at = "idle"
  BY DEF Close, store, seen, HttpFree
<1>2. Clients' \subseteq Clients
  BY Swept DEF Close, TypeInv, TypeOK
<1>3. \A g \in Fd : is_ws_client(g)' => is_ws_client(g)
  BY DEF Close, is_ws_client, TypeInv, TypeOK
<1>4. \A g \in Fd, k \in Key : Served(g, k)' => Served(g, k)
  BY <1>1, <1>2, <1>3, StaysServed
<1>5. NobodyLeftBehind'
  BY <1>1, <1>4 DEF BroadcastInv, NobodyLeftBehind, NothingElse, Pending, MainCarries
<1>6. DrainedIsCurrent' /\ OnlyWhatIsThere' /\ ShakeIsCurrent'
  BY <1>1 DEF BroadcastInv, DrainedIsCurrent, OnlyWhatIsThere, ShakeIsCurrent, Pending
<1> QED
  BY <1>5, <1>6 DEF BroadcastInv

(* A fresh copy brings all there is; of the rest the client has nothing.   *)
LEMMA CopyBroadcast ==
  ASSUME TypeInv, BroadcastInv, CopyState
  PROVE  BroadcastInv'
<1>1. UNCHANGED <<map, changed_keys, force_full, session, client_fds, work, main, view>>
  BY DEF CopyState, store, net
<1>2. handshake'.at = "copied" /\ handshake'.fd = handshake.fd
      /\ \A k \in Key : handshake'.data[k] = map[k]
  BY DEF CopyState, TypeInv, TypeOK, Payload, Present
<1>3. \A g \in Fd : g # handshake.fd => missed'[g] = missed[g]
  BY DEF CopyState, TypeInv, TypeOK
<1>4. \A g \in Fd : Listed(g)' <=> Listed(g)
  BY <1>1 DEF Listed, Clients, is_ws_client
<1>5. NobodyLeftBehind'
  <2>1. ASSUME NEW g \in Fd, NEW k \in Key, Served(g, k)', NothingElse(g, k)'
        PROVE  Last(work, view, g, k, map[k])
    <3>1. CASE g # handshake.fd
      BY <1>1, <1>3, <1>4, <2>1, <3>1
      DEF BroadcastInv, NobodyLeftBehind, Served, CopyCarries, NothingElse, Pending, MainCarries
    <3>2. CASE g = handshake.fd
      <4>1. map[k] = NoValue
        BY <1>2, <2>1, <3>2 DEF Served, CopyCarries
      <4>2. view[g][k] = NoValue /\ \A i \in 1..Len(work) : work[i].data[k] = NoValue
        BY <4>1 DEF BroadcastInv, OnlyWhatIsThere
      <4> QED
        BY <4>1, <4>2 DEF Last, Carried
    <3> QED
      BY <3>1, <3>2
  <2> QED
    BY <1>1, <2>1 DEF NobodyLeftBehind
<1>6. DrainedIsCurrent' /\ OnlyWhatIsThere'
  BY <1>1, <1>2 DEF BroadcastInv, DrainedIsCurrent, OnlyWhatIsThere, Pending
<1>7. ShakeIsCurrent'
  BY <1>1, <1>2 DEF ShakeIsCurrent
<1> QED
  BY <1>5, <1>6, <1>7 DEF BroadcastInv

(* A full state that is given up leaves the client without all there is.   *)
LEMMA SkipBroadcast ==
  ASSUME TypeInv, BroadcastInv, SkipFullState
  PROVE  BroadcastInv'
<1>1. UNCHANGED <<map, changed_keys, force_full, session, client_fds, work, main, view>>
      /\ handshake' = NoShake
  BY DEF SkipFullState, store, net
<1>2. handshake.fd \in Fd /\ missed' = [missed EXCEPT ![handshake.fd] = Present]
      /\ missed \in [Fd -> SUBSET Key]
  BY DEF SkipFullState, TypeInv, TypeOK
<1>3. \A g \in Fd : Listed(g)' <=> Listed(g)
  BY <1>1 DEF Listed, Clients, is_ws_client
<1>4. NobodyLeftBehind'
  <2>1. ASSUME NEW g \in Fd, NEW k \in Key, Served(g, k)', NothingElse(g, k)'
        PROVE  Last(work, view, g, k, map[k])
    <3>1. CASE g # handshake.fd
      BY <1>1, <1>2, <1>3, <2>1, <3>1
      DEF BroadcastInv, NobodyLeftBehind, Served, CopyCarries, NothingElse, Pending, MainCarries
    <3>2. CASE g = handshake.fd
      <4>1. map[k] = NoValue
        BY <1>2, <2>1, <3>2 DEF NothingElse, Present
      <4>2. view[g][k] = NoValue /\ \A i \in 1..Len(work) : work[i].data[k] = NoValue
        BY <4>1 DEF BroadcastInv, OnlyWhatIsThere
      <4> QED
        BY <4>1, <4>2 DEF Last, Carried
    <3> QED
      BY <3>1, <3>2
  <2> QED
    BY <1>1, <2>1 DEF NobodyLeftBehind
<1>5. DrainedIsCurrent' /\ OnlyWhatIsThere'
  <2>1. \A k \in Key : NoShake.data[k] = NoValue
    BY DEF NoShake, Nothing
  <2> QED
    BY <1>1, <2>1 DEF BroadcastInv, DrainedIsCurrent, OnlyWhatIsThere, Pending
<1>6. ShakeIsCurrent'
  BY <1>1, NoCopy DEF NoShake
<1> QED
  BY <1>4, <1>5, <1>6 DEF BroadcastInv

LEMMA FullStateBroadcast ==
  ASSUME WsAssumption, TypeInv, BroadcastInv, QueueFullState
  PROVE  BroadcastInv'
<1> DEFINE item == [fd |-> handshake.fd, data |-> handshake.data]
<1>1. UNCHANGED <<map, changed_keys, force_full, session, client_fds, main, view, missed>>
      /\ work' = Append(work, item) /\ handshake' = NoShake /\ handshake.at = "copied"
  BY DEF QueueFullState, Queue, store, net, seen
<1>2. handshake.fd \in Fd /\ handshake.data \in Entries /\ work \in Seq(WorkItem)
  BY DEF QueueFullState, TypeInv, TypeOK
<1>3. item \in WorkItem /\ item.fd = handshake.fd /\ item.data = handshake.data
  BY <1>2 DEF WorkItem
<1> HIDE DEF item
<1>4. ASSUME NEW g \in Fd, NEW k \in Key, Served(g, k)', NothingElse(g, k)'
      PROVE  Last(work', view', g, k, map'[k])
  <2>1. NothingElse(g, k) /\ Listed(g)
    BY <1>1, <1>4 DEF NothingElse, Pending, MainCarries, Served, Listed, Clients, is_ws_client
  <2>2. CASE ~(g = handshake.fd /\ handshake.data[k] # NoValue)
    <3>1. Last(work, view, g, k, map[k])
      BY <1>1, <2>1, <2>2 DEF BroadcastInv, NobodyLeftBehind, Served, CopyCarries
    <3>2. Last(Append(work, item), view, g, k, map[k])
      BY <1>2, <1>3, <2>2, <3>1, LastAppend
    <3> QED
      BY <1>1, <3>2
  <2>3. CASE g = handshake.fd /\ handshake.data[k] # NoValue
    <3>1. Last(Append(work, item), view, g, k, item.data[k])
      BY <1>2, <1>3, <2>3, LastAppend
    <3>2. handshake.data[k] = map[k]
      BY <1>1, <2>1, <2>3 DEF BroadcastInv, ShakeIsCurrent
    <3> QED
      BY <1>1, <1>3, <3>1, <3>2
  <2> QED
    BY <2>2, <2>3
<1>5. NobodyLeftBehind'
  BY <1>4 DEF NobodyLeftBehind
<1>6. DrainedIsCurrent' /\ ShakeIsCurrent'
  BY <1>1, NoCopy DEF BroadcastInv, DrainedIsCurrent, Pending, NoShake
<1>7. OnlyWhatIsThere'
  <2>1. \A i \in 1..Len(work') : work'[i] = item \/ (i \in 1..Len(work) /\ work'[i] = work[i])
    BY <1>1, <1>2, <1>3
  <2>2. \A k \in Key : NoShake.data[k] = NoValue
    BY DEF NoShake, Nothing
  <2> QED
    BY <1>1, <1>3, <2>1, <2>2 DEF BroadcastInv, OnlyWhatIsThere
<1> QED
  BY <1>5, <1>6, <1>7 DEF BroadcastInv

LEMMA SendBroadcast ==
  ASSUME WsAssumption, TypeInv, BroadcastInv, Send
  PROVE  BroadcastInv'
<1>1. UNCHANGED <<map, changed_keys, force_full, main, handshake, missed>> /\ handshake.at = "idle"
  BY DEF Send, HttpFree, store
<1>2. work \in Seq(WorkItem) /\ work # <<>> /\ work' = Tail(work) /\ Head(work) = work[1]
      /\ 1 \in 1..Len(work) /\ work[1] \in WorkItem
  BY DEF Send, TypeInv
<1>3. work[1].fd \in Fd /\ work[1].data \in Entries
  BY <1>2 DEF WorkItem
<1>4. client_fds \in [Slots -> Fd \cup {NoFd}] /\ session \in [Fd -> {"none", "ws"}]
      /\ view \in [Fd -> Entries] /\ NoFd \notin Fd
  BY DEF TypeInv, TypeOK, WsAssumption
<1>5. \/ /\ work[1].fd \notin Clients \/ ~is_ws_client(work[1].fd)
         /\ RemoveClient(work[1].fd) /\ UNCHANGED <<session, view>>
      \/ /\ view' = [view EXCEPT ![work[1].fd] = [k \in Key |->
              IF work[1].data[k] = NoValue THEN view[work[1].fd][k] ELSE work[1].data[k]]]
         /\ UNCHANGED <<session, client_fds>>
      \/ /\ RemoveClient(work[1].fd)
         /\ session' = [session EXCEPT ![work[1].fd] = "none"] /\ UNCHANGED view
  BY <1>2 DEF Send, net
<1>6. Clients' \subseteq Clients /\ (RemoveClient(work[1].fd) => work[1].fd \notin Clients')
  <2>1. CASE RemoveClient(work[1].fd)
    BY <1>3, <1>4, <2>1, Swept DEF RemoveClient
  <2>2. CASE client_fds' = client_fds /\ ~RemoveClient(work[1].fd)
    BY <2>2 DEF Clients
  <2> QED
    BY <1>5, <2>1, <2>2
<1>7. \A g \in Fd, k \in Key : Served(g, k)' => Served(g, k)
  <2>1. \A g \in Fd : is_ws_client(g)' => is_ws_client(g)
    BY <1>4, <1>5 DEF is_ws_client
  <2> QED
    BY <1>1, <1>6, <2>1, StaysServed
<1>8. ASSUME NEW g \in Fd, NEW k \in Key, Served(g, k)'
      PROVE  view'[g][k] = IF Carried(work, 1, g, k) THEN work[1].data[k] ELSE view[g][k]
  <2>1. CASE RemoveClient(work[1].fd) /\ UNCHANGED view
    BY <1>6, <1>8, <2>1 DEF Served, Listed, Carried
  <2>2. CASE view' = [view EXCEPT ![work[1].fd] = [j \in Key |->
               IF work[1].data[j] = NoValue THEN view[work[1].fd][j] ELSE work[1].data[j]]]
    BY <1>3, <1>4, <2>2 DEF Carried
  <2> QED
    BY <1>5, <2>1, <2>2
<1>9. NobodyLeftBehind'
  <2>1. ASSUME NEW g \in Fd, NEW k \in Key, Served(g, k)', NothingElse(g, k)'
        PROVE  Last(work', view', g, k, map'[k])
    <3>1. Last(work, view, g, k, map[k])
      BY <1>1, <1>7, <2>1 DEF BroadcastInv, NobodyLeftBehind, NothingElse, Pending, MainCarries
    <3>2. Last(Tail(work), view', g, k, map[k])
      BY <1>2, <1>8, <2>1, <3>1, LastTail
    <3> QED
      BY <1>1, <1>2, <3>2
  <2> QED
    BY <2>1 DEF NobodyLeftBehind
<1>10. DrainedIsCurrent' /\ ShakeIsCurrent'
  BY <1>1 DEF BroadcastInv, DrainedIsCurrent, ShakeIsCurrent, Pending
<1>11. OnlyWhatIsThere'
  <2>1. \A i \in 1..Len(work') : i + 1 \in 1..Len(work) /\ work'[i] = work[i + 1]
    BY <1>2
  <2>2. ASSUME NEW k \in Key, NEW g \in Fd, map[k] = NoValue
        PROVE  view'[g][k] = NoValue
    <3>1. view[g][k] = NoValue /\ work[1].data[k] = NoValue
      BY <1>2, <2>2 DEF BroadcastInv, OnlyWhatIsThere
    <3> QED
      BY <1>3, <1>4, <1>5, <3>1
  <2> QED
    BY <1>1, <2>1, <2>2 DEF BroadcastInv, OnlyWhatIsThere
<1> QED
  BY <1>9, <1>10, <1>11 DEF BroadcastInv

(* What the buffer has no room for is left out for every client; the rest  *)
(* is drained, and what is not there is nowhere.                           *)
LEMMA DrainBroadcast ==
  ASSUME WsAssumption, TypeInv, BroadcastInv, Drain
  PROVE  BroadcastInv'
<1>1. UNCHANGED <<map, session, client_fds, work, handshake, view>> /\ main.at = "idle"
      /\ changed_keys' = {} /\ force_full' = FALSE
  BY DEF Drain, ClearChanged, net
<1>2. \A k \in Key : ~Pending(k)'
  BY <1>1 DEF Pending
<1>3. PICK fit \in SUBSET Changed :
        /\ main' = [Idle EXCEPT !.at = "drained", !.data = Payload(fit)]
        /\ missed' = [fd \in Fd |-> missed[fd] \cup (Changed \ fit)]
  BY DEF Drain
<1>4. main'.at = "drained" /\ main'.data = Payload(fit)
  BY <1>3 DEF Idle
<1>5. \A k \in Key : main'.data[k] = IF k \in fit THEN map[k] ELSE NoValue
  BY <1>4 DEF Payload
<1>6. ASSUME NEW g \in Fd, NEW k \in Key, NothingElse(g, k)', map[k] # NoValue
      PROVE  NothingElse(g, k)
  <2>1. k \notin Changed
    BY <1>3, <1>4, <1>5, <1>6 DEF NothingElse, MainCarries
  <2> QED
    BY <1>1, <1>3, <1>6, <2>1 DEF NothingElse, Pending, MainCarries, Changed, Present
<1>7. NobodyLeftBehind'
  <2>1. ASSUME NEW g \in Fd, NEW k \in Key, Served(g, k)', NothingElse(g, k)'
        PROVE  Last(work, view, g, k, map[k])
    <3>1. CASE map[k] # NoValue
      <4>1. Served(g, k)
        BY <1>1, <2>1 DEF Served, Listed, CopyCarries, Clients, is_ws_client
      <4> QED
        BY <1>6, <2>1, <3>1, <4>1 DEF BroadcastInv, NobodyLeftBehind
    <3>2. CASE map[k] = NoValue
      <4>1. view[g][k] = NoValue /\ \A i \in 1..Len(work) : work[i].data[k] = NoValue
        BY <3>2 DEF BroadcastInv, OnlyWhatIsThere
      <4> QED
        BY <3>2, <4>1 DEF Last, Carried
    <3> QED
      BY <3>1, <3>2
  <2> QED
    BY <1>1, <2>1 DEF NobodyLeftBehind
<1>8. DrainedIsCurrent' /\ OnlyWhatIsThere'
  BY <1>1, <1>5 DEF BroadcastInv, DrainedIsCurrent, OnlyWhatIsThere
<1>9. ShakeIsCurrent'
  <2>1. ASSUME NEW g \in Fd, g = handshake.fd, handshake.at = "copied", Listed(g),
               NEW k \in Key, handshake.data[k] # NoValue, NothingElse(g, k)'
        PROVE  handshake.data[k] = map[k]
    <3>1. map[k] # NoValue
      BY <2>1 DEF BroadcastInv, OnlyWhatIsThere
    <3>2. NothingElse(g, k)
      BY <1>6, <2>1, <3>1
    <3> QED
      BY <2>1, <3>2 DEF BroadcastInv, ShakeIsCurrent
  <2>2. handshake.at = "copied" => handshake.fd \in Fd
    BY DEF TypeInv
  <2>3. \A g : Listed(g)' <=> Listed(g)
    BY <1>1 DEF Listed, Clients, is_ws_client
  <2> QED
    BY <1>1, <2>1, <2>2, <2>3 DEF ShakeIsCurrent
<1> QED
  BY <1>7, <1>8, <1>9 DEF BroadcastInv

(* The main task turns to the clients, or finds none.                      *)
LEMMA TurnBroadcast ==
  ASSUME TypeInv, BroadcastInv, CopyTable \/ Heartbeat \/ SendToNobody
  PROVE  BroadcastInv'
<1>1. UNCHANGED <<map, changed_keys, force_full, session, work, handshake, view, missed>>
  BY DEF CopyTable, Heartbeat, SendToNobody, net, seen, store
<1>2. Clients' \subseteq Clients
  BY Swept DEF CopyTable, Heartbeat, SendToNobody, net, TypeInv, TypeOK, Clients
<1>3. \A g \in Fd, k \in Key : (Served(g, k)' => Served(g, k)) /\ (Listed(g)' => Listed(g))
  BY <1>1, <1>2, StaysListed, StaysServed DEF is_ws_client
<1>4. \A k \in Key : main'.data[k] # NoValue => main'.data[k] = main.data[k]
  <2>1. \A k \in Key : Nothing[k] = NoValue /\ Idle.data[k] = NoValue
    BY DEF Nothing, Idle
  <2>2. CASE CopyTable
    BY <2>2 DEF CopyTable, TypeInv, TypeOK
  <2> QED
    BY <2>1, <2>2 DEF Heartbeat, SendToNobody
<1>5. ASSUME NEW g \in Fd, NEW k \in Key, Listed(g), MainCarries(g, k)
      PROVE  MainCarries(g, k)'
  <2>1. CASE CopyTable
    <3>1. main.at = "drained" /\ main' = [main EXCEPT !.at = "send", !.fds = Clients \ Dead]
      BY <2>1 DEF CopyTable
    <3>2. main'.at = "send" /\ main'.fds = Clients \ Dead /\ main'.data = main.data
      BY <3>1 DEF TypeInv, TypeOK
    <3> QED
      BY <1>5, <3>2 DEF MainCarries, Listed, Dead
  <2>2. CASE Heartbeat \/ SendToNobody
    BY <1>5, <2>2 DEF Heartbeat, SendToNobody, MainCarries
  <2> QED
    BY <2>1, <2>2
<1>6. \A g \in Fd, k \in Key : Listed(g) /\ NothingElse(g, k)' => NothingElse(g, k)
  BY <1>1, <1>5 DEF NothingElse, Pending
<1>7. NobodyLeftBehind'
  <2>1. ASSUME NEW g \in Fd, NEW k \in Key, Served(g, k)', NothingElse(g, k)'
        PROVE  Last(work, view, g, k, map[k])
    BY <1>3, <1>6, <2>1 DEF BroadcastInv, NobodyLeftBehind, Served
  <2> QED
    BY <1>1, <2>1 DEF NobodyLeftBehind
<1>8. DrainedIsCurrent' /\ OnlyWhatIsThere'
  BY <1>1, <1>4 DEF BroadcastInv, DrainedIsCurrent, OnlyWhatIsThere, Pending
<1>9. ShakeIsCurrent'
  <2>1. handshake.at = "copied" => handshake.fd \in Fd
    BY DEF TypeInv
  <2> QED
    BY <1>1, <1>3, <1>6, <2>1 DEF BroadcastInv, ShakeIsCurrent
<1> QED
  BY <1>7, <1>8, <1>9 DEF BroadcastInv

LEMMA QueueBroadcast ==
  ASSUME WsAssumption, TypeInv, BroadcastInv, NEW fd \in Fd, QueueSend(fd)
  PROVE  BroadcastInv'
<1> DEFINE item == [fd |-> fd, data |-> main.data]
<1>1. UNCHANGED <<map, changed_keys, force_full, session, handshake, view>>
      /\ main.at = "send" /\ fd \in main.fds
  BY DEF QueueSend, store
<1>2. \/ /\ work' = Append(work, item) /\ client_fds' = client_fds
         /\ missed' = [missed EXCEPT ![fd] = (@ \ Told) \cup Overtaken(fd)]
      \/ RemoveClient(fd) /\ work' = work /\ missed' = missed
      \/ /\ work' = work /\ client_fds' = client_fds
         /\ missed' = [missed EXCEPT ![fd] = @ \cup Told]
  BY DEF QueueSend, Queue
<1>3. client_fds \in [Slots -> Fd \cup {NoFd}] /\ NoFd \notin Fd /\ work \in Seq(WorkItem)
      /\ main \in [at : {"idle", "send"}, data : Entries, fds : SUBSET Fd]
      /\ missed \in [Fd -> SUBSET Key]
  BY <1>1 DEF TypeInv, TypeOK, WsAssumption
<1>4. item \in WorkItem /\ item.fd = fd /\ item.data = main.data
  BY <1>3 DEF WorkItem
<1> HIDE DEF item
<1>5. Clients' \subseteq Clients /\ (RemoveClient(fd) => fd \notin Clients')
  <2>1. CASE RemoveClient(fd)
    BY <1>3, <2>1, Swept DEF RemoveClient
  <2>2. CASE client_fds' = client_fds /\ ~RemoveClient(fd)
    BY <2>2 DEF Clients
  <2> QED
    BY <1>2, <2>1, <2>2
<1>6. \A g \in Fd, k \in Key : (Served(g, k)' => Served(g, k)) /\ (Listed(g)' => Listed(g))
  BY <1>1, <1>5, StaysListed, StaysServed DEF is_ws_client
<1>7. \/ main' = Idle /\ main.fds = {fd}
      \/ main'.at = "send" /\ main'.data = main.data /\ main'.fds = main.fds \ {fd}
  BY <1>1, <1>3 DEF QueueSend
<1>8. \A k \in Key : main'.data[k] # NoValue => main'.data[k] = main.data[k]
  BY <1>7 DEF Idle, Nothing
<1>9. ASSUME NEW g \in Fd, NEW k \in Key, g # fd, NothingElse(g, k)'
      PROVE  NothingElse(g, k)
  <2>1. MainCarries(g, k) => MainCarries(g, k)'
    BY <1>1, <1>7, <1>9 DEF MainCarries
  <2>2. missed'[g] = missed[g]
    BY <1>2, <1>3, <1>9
  <2> QED
    BY <1>1, <1>9, <2>1, <2>2 DEF NothingElse, Pending
(* What is not left out after this step was told in it or settled before.  *)
<1>10. ASSUME NEW k \in Key, NothingElse(fd, k)', Listed(fd)'
       PROVE  /\ ~Pending(k)
              /\ main.data[k] = NoValue => NothingElse(fd, k)
              /\ main.data[k] # NoValue => /\ work' = Append(work, item) /\ main.data[k] = map[k]
                                           /\ k \notin Overtaken(fd)
  <2>1. ~RemoveClient(fd) /\ ~Pending(k) /\ k \notin missed'[fd]
    BY <1>1, <1>5, <1>10 DEF NothingElse, Pending, Listed
  <2>2. CASE main.data[k] = NoValue
    <3>1. k \notin Told /\ ~MainCarries(fd, k)
      BY <2>2 DEF Told, MainCarries
    <3>2. k \notin missed[fd]
      <4> HIDE DEF Told, Overtaken
      <4> QED
        BY <1>2, <1>3, <2>1, <3>1
    <3> QED
      BY <2>1, <2>2, <3>1, <3>2 DEF NothingElse
  <2>3. CASE main.data[k] # NoValue
    <3>1. k \in Told
      BY <2>3 DEF Told
    <3>2. work' = Append(work, item) /\ k \notin Overtaken(fd)
      <4> HIDE DEF Told, Overtaken
      <4> QED
        BY <1>2, <1>3, <2>1, <3>1
    <3>3. main.data[k] = map[k]
      BY <2>1, <2>3 DEF BroadcastInv, DrainedIsCurrent
    <3> QED
      BY <2>1, <2>3, <3>2, <3>3
  <2> QED
    BY <2>2, <2>3
<1>11. ASSUME NEW g \in Fd, NEW k \in Key, Served(g, k)', NothingElse(g, k)'
       PROVE  Last(work', view, g, k, map[k])
  <2>1. Served(g, k) /\ Listed(g)'
    BY <1>6, <1>11 DEF Served
  <2>2. CASE g = fd /\ main.data[k] # NoValue
    <3>1. work' = Append(work, item) /\ main.data[k] = map[k]
      BY <1>10, <1>11, <2>1, <2>2
    <3>2. Last(Append(work, item), view, g, k, item.data[k])
      BY <1>3, <1>4, <2>2, LastAppend
    <3> QED
      BY <1>4, <3>1, <3>2
  <2>3. CASE ~(g = fd /\ main.data[k] # NoValue)
    <3>1. NothingElse(g, k)
      BY <1>9, <1>10, <1>11, <2>1, <2>3
    <3>2. Last(work, view, g, k, map[k])
      BY <2>1, <3>1 DEF BroadcastInv, NobodyLeftBehind
    <3>3. Last(Append(work, item), view, g, k, map[k])
      BY <1>3, <1>4, <2>3, <3>2, LastAppend
    <3> QED
      BY <1>2, <3>2, <3>3
  <2> QED
    BY <2>2, <2>3
<1>12. NobodyLeftBehind'
  BY <1>1, <1>11 DEF NobodyLeftBehind
<1>13. DrainedIsCurrent'
  BY <1>1, <1>8 DEF BroadcastInv, DrainedIsCurrent, Pending
<1>14. ShakeIsCurrent'
  <2>1. ASSUME NEW g \in Fd, g = handshake.fd, handshake.at = "copied", Listed(g)',
               NEW k \in Key, handshake.data[k] # NoValue, NothingElse(g, k)'
        PROVE  handshake.data[k] = map[k]
    <3>1. CASE g = fd /\ main.data[k] # NoValue
      <4>1. main.data[k] = map[k] /\ k \notin Overtaken(fd)
        BY <1>10, <2>1, <3>1
      <4> QED
        BY <2>1, <3>1, <4>1 DEF Overtaken, Told
    <3>2. CASE ~(g = fd /\ main.data[k] # NoValue)
      <4>1. NothingElse(g, k) /\ Listed(g)
        BY <1>6, <1>9, <1>10, <2>1, <3>2
      <4> QED
        BY <2>1, <4>1 DEF BroadcastInv, ShakeIsCurrent
    <3> QED
      BY <3>1, <3>2
  <2>2. handshake.at = "copied" => handshake.fd \in Fd
    BY DEF TypeInv
  <2> QED
    BY <1>1, <2>1, <2>2 DEF ShakeIsCurrent
<1>15. OnlyWhatIsThere'
  <2>1. \A i \in 1..Len(work') : work'[i] = item \/ (i \in 1..Len(work) /\ work'[i] = work[i])
    BY <1>2, <1>3, <1>4
  <2> QED
    BY <1>1, <1>4, <1>8, <2>1 DEF BroadcastInv, OnlyWhatIsThere
<1> QED
  BY <1>12, <1>13, <1>14, <1>15 DEF BroadcastInv

LEMMA NextBroadcast ==
  ASSUME StoreAssumption, WsAssumption, TypeInv, BroadcastInv, [Next]_vars
  PROVE  BroadcastInv'
<1>1. CASE UNCHANGED vars
  <2>1. UNCHANGED <<map, changed_keys, force_full, session, client_fds, work, main, handshake, view,
                    missed>>
    BY <1>1 DEF vars, store, net, seen
  <2>2. \A fd, k : (NothingElse(fd, k)' <=> NothingElse(fd, k)) /\ (Served(fd, k)' <=> Served(fd, k))
                   /\ (Listed(fd)' <=> Listed(fd))
    BY <2>1 DEF NothingElse, Served, Listed, CopyCarries, Clients, is_ws_client, Pending, MainCarries
  <2>3. NobodyLeftBehind' /\ ShakeIsCurrent'
    BY <2>1, <2>2 DEF BroadcastInv, NobodyLeftBehind, ShakeIsCurrent
  <2>4. DrainedIsCurrent' /\ OnlyWhatIsThere'
    BY <2>1 DEF BroadcastInv, DrainedIsCurrent, OnlyWhatIsThere, Pending
  <2> QED
    BY <2>3, <2>4 DEF BroadcastInv
<1> QED
  BY <1>1, SetBroadcast, ConnectBroadcast, CloseBroadcast, CopyBroadcast, SkipBroadcast,
     FullStateBroadcast, SendBroadcast, DrainBroadcast, TurnBroadcast, QueueBroadcast DEF Next

LEMMA InitBroadcast ==
  ASSUME Init
  PROVE  BroadcastInv
<1>1. work = <<>> /\ Len(work) = 0 /\ main = Idle /\ handshake = NoShake
  BY DEF Init
<1>2. Clients = {} /\ (\A k \in Key : Idle.data[k] = NoValue /\ NoShake.data[k] = NoValue)
      /\ NoShake.at = "idle"
  BY DEF Init, Clients, Idle, Nothing, NoShake
<1>3. \A k \in Key, fd \in Fd : view[fd][k] = NoValue
  BY DEF Init, Nothing
<1> QED
  BY <1>1, <1>2, <1>3 DEF BroadcastInv, NobodyLeftBehind, Served, Listed, DrainedIsCurrent,
     OnlyWhatIsThere, ShakeIsCurrent

(* Once all has arrived, nothing is pending, drained or queued.            *)
LEMMA NothingIsLeft ==
  ASSUME TypeInv, WsAssumption, BroadcastInv
  PROVE  ViewsAreCurrent
<1> SUFFICES ASSUME Quiet, NEW fd \in Clients, is_ws_client(fd), NEW k \in Key \ missed[fd]
             PROVE  view[fd][k] = map[k]
  BY DEF ViewsAreCurrent
<1>1. fd \in Fd /\ NoFd \notin Fd
  BY DEF Clients, TypeInv, TypeOK, WsAssumption
<1>2. Served(fd, k)
  BY <1>1 DEF Quiet, Served, Listed, CopyCarries, NoShake
<1>3. NothingElse(fd, k)
  BY DEF Quiet, has_changes, NothingElse, Pending, MainCarries, Idle
<1>4. work = <<>> /\ Len(work) = 0
  BY DEF Quiet
<1> QED
  BY <1>1, <1>2, <1>3, <1>4 DEF BroadcastInv, NobodyLeftBehind, Last

-----------------------------------------------------------------------------
(* Where nothing is skipped                                                *)

(* All that has changed fits the buffer.                                   *)
LEMMA AllFits ==
  ASSUME NothingIsSkipped, NEW fit \in SUBSET Changed,
         Cardinality(fit) = BufferEntries \/ fit = Changed
  PROVE  fit = Changed
<1>1. Changed \subseteq Key /\ IsFiniteSet(Key)
  BY DEF Changed, Present, NothingIsSkipped
<1>2. IsFiniteSet(fit) /\ Cardinality(fit) <= Cardinality(Key)
      /\ (Cardinality(fit) = Cardinality(Key) => fit = Key)
  BY <1>1, FS_Subset
<1>3. Cardinality(fit) \in Nat /\ Cardinality(Key) \in Nat
  BY <1>1, <1>2, FS_CardinalityType
<1>4. ASSUME Cardinality(fit) = BufferEntries
      PROVE  fit = Changed
  <2>1. fit = Key
    BY <1>2, <1>3, <1>4 DEF NothingIsSkipped
  <2> QED
    BY <1>1, <2>1
<1> QED
  BY <1>4

LEMMA NobodyMisses ==
  ASSUME NothingIsSkipped, TypeInv, NothingIsMissed, [Next]_vars
  PROVE  NothingIsMissed'
<1>1. missed \in [Fd -> SUBSET Key] /\ \A fd \in Fd : missed[fd] = {}
  BY DEF TypeInv, TypeOK, NothingIsMissed
<1>2. CASE CopyState
  BY <1>1, <1>2 DEF CopyState, NothingIsMissed
<1>3. ~SkipFullState
  BY DEF SkipFullState, NothingIsSkipped
<1>4. CASE Drain
  <2>1. PICK fit \in SUBSET Changed :
          /\ Cardinality(fit) = BufferEntries \/ fit = Changed
          /\ missed' = [fd \in Fd |-> missed[fd] \cup (Changed \ fit)]
    BY <1>4 DEF Drain
  <2>2. fit = Changed
    BY <2>1, AllFits
  <2> QED
    BY <1>1, <2>1, <2>2 DEF NothingIsMissed
<1>5. ASSUME NEW fd \in Fd, QueueSend(fd)
      PROVE  NothingIsMissed'
  <2>1. Overtaken(fd) = {}
    BY <1>5 DEF QueueSend, MainRuns, NothingIsSkipped, Overtaken
  <2>2. missed' = missed \/ missed' = [missed EXCEPT ![fd] = (@ \ Told) \cup Overtaken(fd)]
    BY <1>5 DEF QueueSend, NothingIsSkipped
  <2> HIDE DEF Told, Overtaken
  <2> QED
    BY <1>1, <2>1, <2>2 DEF NothingIsMissed
<1>6. CASE missed' = missed
  BY <1>6 DEF NothingIsMissed
<1> QED
  BY <1>2, <1>3, <1>4, <1>5, <1>6 DEF Next, vars, seen, SetKey, Connect, Close, QueueFullState, Send,
     CopyTable, Heartbeat, SendToNobody

(* Two keys make a set of two, which fits a buffer of two entries.         *)
LEMMA TwoKeys ==
  ASSUME NEW a, NEW b, a # b
  PROVE  IsFiniteSet({a, b}) /\ Cardinality({a, b}) = 2
<1>1. IsFiniteSet({a}) /\ Cardinality({a}) = 1
  BY FS_Singleton
<1>2. {a, b} = {a} \cup {b} /\ b \notin {a}
  OBVIOUS
<1>3. /\ IsFiniteSet({a} \cup {b})
      /\ Cardinality({a} \cup {b}) = IF b \in {a} THEN Cardinality({a}) ELSE Cardinality({a}) + 1
  BY <1>1, FS_AddElement
<1> QED
  BY <1>1, <1>2, <1>3

-----------------------------------------------------------------------------
(* The theorems                                                            *)

(* The client table lists no socket twice and the variables have their     *)
(* types, whatever fails and whichever tasks preempt each other.           *)
THEOREM NoSlotIsEverLost ==
  ASSUME StoreAssumption, WsAssumption
  PROVE  Spec => [](TypeOK /\ NoSlotIsLost)
<1>1. Init => TypeInv /\ NoSlotIsLost
  <2>1. Init => NoSlotIsLost
    BY DEF Init, NoSlotIsLost
  <2> QED
    BY <2>1, InitTypes
<1>2. TypeInv /\ NoSlotIsLost /\ [Next]_vars => (TypeInv /\ NoSlotIsLost)'
  BY NextTypes, SlotsStay
<1>3. TypeInv => TypeOK
  BY DEF TypeInv
<1> QED
  BY <1>1, <1>2, <1>3, PTL DEF Spec

(* Every browser that is listed has been sent the current value of every   *)
(* key once all under way has arrived, but for those that a named step has *)
(* left it without: also one whose socket number was used before, whose    *)
(* delta found no memory, or that connected between a change and its       *)
(* broadcast.                                                              *)
THEOREM NobodyIsLeftBehind ==
  ASSUME StoreAssumption, WsAssumption
  PROVE  Spec => []ViewsAreCurrent
<1>1. Init => TypeInv /\ BroadcastInv
  BY InitTypes, InitBroadcast
<1>2. TypeInv /\ BroadcastInv /\ [Next]_vars => (TypeInv /\ BroadcastInv)'
  BY NextTypes, NextBroadcast
<1>3. TypeInv /\ BroadcastInv => ViewsAreCurrent
  BY NothingIsLeft
<1> QED
  BY <1>1, <1>2, <1>3, PTL DEF Spec

(* No step leaves anything out where memory and buffer suffice and a       *)
(* handshake is not preempted.                                             *)
LEMMA NobodyEverMisses ==
  ASSUME StoreAssumption, WsAssumption, NothingIsSkipped
  PROVE  Spec => []NothingIsMissed
<1>1. Init => TypeInv /\ NothingIsMissed
  <2>1. Init => NothingIsMissed
    BY DEF Init, NothingIsMissed
  <2> QED
    BY <2>1, InitTypes
<1>2. TypeInv /\ NothingIsMissed /\ [Next]_vars => (TypeInv /\ NothingIsMissed)'
  BY NextTypes, NobodyMisses
<1> QED
  BY <1>1, <1>2, PTL DEF Spec

=============================================================================
