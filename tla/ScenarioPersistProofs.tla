----------------------- MODULE ScenarioPersistProofs -------------------------
(***************************************************************************)
(* Proofs about ScenarioPersist: as long as the drain task keeps up, so    *)
(* that no timeout runs out, the flush handshake is right for every queue  *)
(* depth, every number of slots and whatever writes fail or power is lost. *)
(***************************************************************************)
EXTENDS ScenarioPersist, TLAPS, SequenceTheorems

IInv == TypeOK /\ Handshake /\ ResultIsOwn /\ BacklogIsFlushed

NoStall == "stall" \notin Faults

(***************************************************************************)
(* Facts about the data.                                                   *)
(***************************************************************************)

(* No edge is handed over by both tasks.                                   *)
LEMMA TaskEdges ==
  /\ \A p, q \in Task, e \in Edge : e \in EdgesOf(p) /\ e \in EdgesOf(q) => p = q
  /\ \A p \in Task : EdgesOf(p) \subseteq Edge
  /\ Free \notin Task
BY DEF Task, EdgesOf, Edge, Free

(* The fields of an item have their types.                                 *)
LEMMA ItemFields ==
  ASSUME NEW x \in Item
  PROVE  /\ x.slot \in Slot /\ x.seq \in 1..MaxTokens
         /\ x.edge \in Edge /\ x.flush \in BOOLEAN
BY DEF Item

(* The item that Send puts on the queue.                                   *)
LEMMA FlushItem ==
  ASSUME NEW x \in Item
  PROVE  /\ [x EXCEPT !.flush = TRUE] \in Item
         /\ [x EXCEPT !.flush = TRUE].flush
         /\ [x EXCEPT !.flush = TRUE].edge = x.edge
         /\ SameToken(x, [x EXCEPT !.flush = TRUE])
BY DEF Item, SameToken

(* xQueueSend puts an item behind all others.                              *)
LEMMA AppendFacts ==
  ASSUME NEW q \in Seq(Item), NEW x \in Item
  PROVE  /\ Append(q, x) \in Seq(Item)
         /\ Len(q) \in Nat
         /\ Len(Append(q, x)) = Len(q) + 1
         /\ DOMAIN q = 1..Len(q)
         /\ DOMAIN Append(q, x) = 1..(Len(q) + 1)
         /\ \A i \in 1..Len(q) : Append(q, x)[i] = q[i]
         /\ Append(q, x)[Len(q) + 1] = x
OBVIOUS

(* xQueueReceive takes the first item; the others move up.                 *)
LEMMA TailFacts ==
  ASSUME NEW q \in Seq(Item), q # <<>>
  PROVE  /\ Len(q) \in Nat \ {0}
         /\ DOMAIN q = 1..Len(q)
         /\ Head(q) = q[1]
         /\ q[1] \in Item
         /\ Tail(q) \in Seq(Item)
         /\ Len(Tail(q)) = Len(q) - 1
         /\ DOMAIN Tail(q) = 1..(Len(q) - 1)
         /\ \A i \in 1..(Len(q) - 1) : Tail(q)[i] = q[i + 1]
OBVIOUS

(* A queue is indexed from one to its length.                              *)
LEMMA QueueFacts ==
  ASSUME NEW q \in Seq(Item)
  PROVE  DOMAIN q = 1..Len(q) /\ Len(q) \in Nat /\ \A i \in DOMAIN q : q[i] \in Item
OBVIOUS

(* The call of write() keeps the inductive invariant.                      *)
LEMMA WriteStep ==
  ASSUME IInv, NoStall, NEW p \in Task, NEW s \in Slot, NEW edge \in EdgesOf(p), Write(p, s, edge)
  PROVE  IInv'
<1> USE DEF IInv, Handshake, TypeOK, taskVars, flushVars
<1>1. TypeOK'
  BY TaskEdges, PersistAssumption DEF Write, Goto, Place, Item, Token
<1>2. PlacesAgree'
  BY TaskEdges DEF Write, Goto, PlacesAgree, Holding
<1>3. FlushesAreCritical'
  BY TaskEdges DEF Write, Goto, FlushesAreCritical
<1>4. Uncommitted'
  BY TaskEdges DEF Write, Goto, Uncommitted
<1>5. QueuedFlush'
  BY TaskEdges DEF Write, Goto, QueuedFlush, AwaitedBy
<1>6. FlushIsLast'
  BY TaskEdges DEF Write, Goto, FlushIsLast
<1>7. DrainedFlush'
  <2>1. \A q \in Task : AwaitedBy(q, drain.item) => q # p /\ pc'[q] = "wait" /\ item'[q] = item[q]
                                                       /\ committed'[q] = committed[q]
    BY DEF Write, Goto, AwaitedBy
  <2>2. UNCHANGED <<drain, queue, flush_done>>
    BY DEF Write
  <2> QED
    BY <2>1, <2>2 DEF DrainedFlush, AwaitedBy, Writing
<1>8. SignalIsOwn'
  BY TaskEdges DEF Write, Goto, SignalIsOwn, OnTheWay, Writing
<1>9. ResultIsOwn'
  BY TaskEdges DEF Write, Goto, ResultIsOwn
<1>10. BacklogIsFlushed'
  BY TaskEdges DEF Write, Goto, BacklogIsFlushed, OnTheWay, Writing
<1> QED
  BY <1>1, <1>2, <1>3, <1>4, <1>5, <1>6, <1>7, <1>8, <1>9, <1>10

(* A deferred token, queued or dropped, keeps the inductive invariant.     *)
LEMMA EnqueueDeferredStep ==
  ASSUME IInv, NoStall, NEW p \in Task, EnqueueDeferred(p)
  PROVE  IInv'
<1> USE DEF IInv, Handshake, TypeOK, taskVars, flushVars
<1>a. item[p] \in Item /\ item[p].edge \in EdgesOf(p) /\ item[p].edge \in Deferred
  BY DEF EnqueueDeferred, Goto, PlacesAgree
<1>b. queue' = queue \/ (Len(queue) < QUEUE_DEPTH /\ queue' = Append(queue, item[p]))
  <2>1. Len(queue) \in Nat /\ QUEUE_DEPTH \in Nat
    BY QueueFacts, PersistAssumption
  <2>2. queue' = IF QueueFull THEN queue ELSE Append(queue, item[p])
    BY DEF EnqueueDeferred
  <2> QED
    BY <2>1, <2>2 DEF QueueFull
<1>c. \A i \in DOMAIN queue' : \/ i \in DOMAIN queue /\ queue'[i] = queue[i]
                               \/ i = Len(queue) + 1 /\ queue'[i] = item[p]
  <2>1. CASE queue' = queue
    BY <2>1
  <2>2. CASE queue' = Append(queue, item[p])
    BY <1>a, <2>2, AppendFacts
  <2> QED
    BY <1>b, <2>1, <2>2
<1>d. DOMAIN queue = 1..Len(queue) /\ Len(queue) \in Nat
  BY QueueFacts
<1>1. TypeOK'
  <2>1. queue' \in Seq(Item) /\ Len(queue') <= QUEUE_DEPTH
    <3>1. CASE queue' = queue
      BY <3>1
    <3>2. CASE queue' = Append(queue, item[p]) /\ Len(queue) < QUEUE_DEPTH
      BY <1>a, <1>d, <3>2, AppendFacts, PersistAssumption
    <3> QED
      BY <1>b, <3>1, <3>2
  <2> QED
    BY <2>1 DEF EnqueueDeferred, Goto, Place
<1>2. PlacesAgree'
  BY TaskEdges, <1>a, <1>c, <1>d DEF EnqueueDeferred, Goto, QueueFull, PlacesAgree, Holding
<1>3. FlushesAreCritical'
  <2>1. ~ item[p].flush
    BY DEF EnqueueDeferred, Goto, PlacesAgree
  <2> QED
    BY <1>a, <1>c, <2>1 DEF EnqueueDeferred, FlushesAreCritical
<1>4. Uncommitted'
  BY TaskEdges, <1>a, <1>c, <1>d DEF EnqueueDeferred, Goto, QueueFull, Uncommitted
<1>5. QueuedFlush'
  <2>1. \A i \in DOMAIN queue' : queue'[i].flush => i \in DOMAIN queue /\ queue'[i] = queue[i]
    BY <1>c DEF EnqueueDeferred, Goto, PlacesAgree
  <2>2. \A q \in Task, x \in Item : AwaitedBy(q, x) => AwaitedBy(q, x)'
    BY DEF EnqueueDeferred, Goto, AwaitedBy, SameToken
  <2>3. \A i \in DOMAIN queue : queue[i] \in Item
    BY QueueFacts
  <2> QED
    BY <2>1, <2>2, <2>3 DEF EnqueueDeferred, QueuedFlush
<1>6. FlushIsLast'
  <2>1. \A i \in DOMAIN queue : queue[i].flush => queue[i].edge \notin EdgesOf(p)
    <3> SUFFICES ASSUME NEW i \in DOMAIN queue, queue[i].flush, queue[i].edge \in EdgesOf(p)
                 PROVE  FALSE
      OBVIOUS
    <3>1. PICK h \in Task : AwaitedBy(h, queue[i])
      BY DEF QueuedFlush
    <3>2. queue[i].edge \in EdgesOf(h) /\ queue[i].edge \in Edge
      BY <3>1, QueueFacts, ItemFields DEF AwaitedBy, SameToken, PlacesAgree
    <3> QED
      BY <3>1, <3>2, TaskEdges DEF EnqueueDeferred, Goto, AwaitedBy
  <2>2. ~ item[p].flush
    BY DEF EnqueueDeferred, Goto, PlacesAgree
  <2>3. \A i \in DOMAIN queue, q \in Task :
          queue[i].flush /\ queue[i].edge \in EdgesOf(q) => item[p].edge \notin EdgesOf(q)
    BY <1>a, <2>1, TaskEdges
  <2> QED
    BY <1>c, <1>d, <2>2, <2>3 DEF FlushIsLast
<1>7. DrainedFlush'
  BY TaskEdges, <1>a, <1>c, <1>d DEF EnqueueDeferred, Goto, QueueFull, DrainedFlush, AwaitedBy, Writing
<1>8. SignalIsOwn'
  BY TaskEdges, <1>a, <1>c, <1>d DEF EnqueueDeferred, Goto, QueueFull, SignalIsOwn, OnTheWay, Writing
<1>9. ResultIsOwn'
  BY TaskEdges, <1>a, <1>c, <1>d DEF EnqueueDeferred, Goto, QueueFull, ResultIsOwn
<1>10. BacklogIsFlushed'
  BY TaskEdges, <1>a, <1>c, <1>d DEF EnqueueDeferred, Goto, QueueFull, BacklogIsFlushed, OnTheWay, Writing
<1> QED
  BY <1>1, <1>2, <1>3, <1>4, <1>5, <1>6, <1>7, <1>8, <1>9, <1>10

(* A step of a task that does not wait leaves those that do waiting for    *)
(* the item that is drained.                                               *)
LEMMA WaitersStay ==
  ASSUME DrainedFlush, UNCHANGED <<item, committed, queue, drain>>, flush_done' => flush_done,
         \A q \in Task : pc[q] = "wait" => pc'[q] = "wait"
  PROVE  DrainedFlush'
<1> SUFFICES ASSUME drain.at # "receive", drain.item.flush
             PROVE  (\E q \in Task :
                       /\ AwaitedBy(q, drain.item)
                       /\ IF Writing THEN ~ committed[q] ELSE drain.ok <=> committed[q]
                       /\ \A i \in DOMAIN queue : queue[i].edge \notin EdgesOf(q))'
  BY DEF DrainedFlush
<1>1. PICK q \in Task :
        /\ AwaitedBy(q, drain.item)
        /\ IF Writing THEN ~ committed[q] ELSE drain.ok <=> committed[q]
        /\ \A i \in DOMAIN queue : queue[i].edge \notin EdgesOf(q)
  BY DEF DrainedFlush
<1>2. AwaitedBy(q, drain.item)'
  BY <1>1 DEF AwaitedBy
<1> QED
  BY <1>1, <1>2 DEF Writing

(* Taking the mutex keeps the inductive invariant: nobody else is inside.  *)
LEMMA TakeMutexStep ==
  ASSUME IInv, NoStall, NEW p \in Task, TakeMutex(p)
  PROVE  IInv'
<1> USE DEF IInv, Handshake, TypeOK, taskVars, flushVars
<1>1. TypeOK'
  BY TaskEdges DEF TakeMutex, Goto, Place
<1>2. PlacesAgree'
  BY TaskEdges DEF TakeMutex, Goto, PlacesAgree, Holding
<1>3. FlushesAreCritical'
  BY TaskEdges DEF TakeMutex, Goto, FlushesAreCritical
<1>4. Uncommitted'
  BY TaskEdges DEF TakeMutex, Goto, Uncommitted
<1>5. QueuedFlush'
  BY TaskEdges DEF TakeMutex, Goto, QueuedFlush, AwaitedBy
<1>6. FlushIsLast'
  BY TaskEdges DEF TakeMutex, Goto, FlushIsLast
<1>7. DrainedFlush'
  BY WaitersStay DEF TakeMutex, Goto
<1>8. SignalIsOwn'
  BY TaskEdges DEF TakeMutex, Goto, SignalIsOwn, OnTheWay, Writing
<1>9. ResultIsOwn'
  BY TaskEdges DEF TakeMutex, Goto, ResultIsOwn
<1>10. BacklogIsFlushed'
  BY TaskEdges DEF TakeMutex, Goto, BacklogIsFlushed, OnTheWay, Writing
<1> QED
  BY <1>1, <1>2, <1>3, <1>4, <1>5, <1>6, <1>7, <1>8, <1>9, <1>10

(* Clearing a stale signal keeps the inductive invariant: nobody waits for *)
(* it.                                                                     *)
LEMMA ArmStep ==
  ASSUME IInv, NoStall, NEW p \in Task, Arm(p)
  PROVE  IInv'
<1> USE DEF IInv, Handshake, TypeOK, taskVars, flushVars
<1>1. TypeOK'
  BY TaskEdges DEF Arm, Goto, Place
<1>2. PlacesAgree'
  BY TaskEdges DEF Arm, Goto, PlacesAgree, Holding
<1>3. FlushesAreCritical'
  BY TaskEdges DEF Arm, Goto, FlushesAreCritical
<1>4. Uncommitted'
  BY TaskEdges DEF Arm, Goto, Uncommitted
<1>5. QueuedFlush'
  BY TaskEdges DEF Arm, Goto, QueuedFlush, AwaitedBy
<1>6. FlushIsLast'
  BY TaskEdges DEF Arm, Goto, FlushIsLast
<1>7. DrainedFlush'
  BY WaitersStay DEF Arm, Goto
<1>8. SignalIsOwn'
  BY TaskEdges DEF Arm, Goto, SignalIsOwn, OnTheWay, Writing
<1>9. ResultIsOwn'
  BY TaskEdges DEF Arm, Goto, ResultIsOwn
<1>10. BacklogIsFlushed'
  BY TaskEdges DEF Arm, Goto, BacklogIsFlushed, OnTheWay, Writing
<1> QED
  BY <1>1, <1>2, <1>3, <1>4, <1>5, <1>6, <1>7, <1>8, <1>9, <1>10

(* Queueing the crash-critical token keeps the inductive invariant: no     *)
(* other flush is under way, and what its task queued before is ahead of   *)
(* it.                                                                     *)
LEMMA SendStep ==
  ASSUME IInv, NoStall, NEW p \in Task, Send(p)
  PROVE  IInv'
<1> USE DEF IInv, Handshake, TypeOK, taskVars, flushVars
<1>0. PICK it : it = [item[p] EXCEPT !.flush = TRUE]
  OBVIOUS
<1>a. /\ it \in Item /\ it.flush /\ it.edge = item[p].edge /\ SameToken(item[p], it)
      /\ it.edge \in EdgesOf(p) /\ it.edge \notin Deferred
  BY <1>0, FlushItem DEF Send, Goto, PlacesAgree, Holding
<1>b. queue' = Append(queue, it) /\ Len(queue) < QUEUE_DEPTH
  BY <1>0, PersistAssumption, QueueFacts DEF Send, QueueFull
<1>c. \A i \in DOMAIN queue' : \/ i \in DOMAIN queue /\ queue'[i] = queue[i]
                               \/ i = Len(queue) + 1 /\ queue'[i] = it
  BY <1>a, <1>b, AppendFacts, QueueFacts
<1>d. \A q \in Task : pc[q] # "wait"
  BY TaskEdges DEF Send, Goto, PlacesAgree, Holding
<1>e. /\ \A i \in DOMAIN queue : ~ queue[i].flush
      /\ drain.at # "receive" => ~ drain.item.flush
  BY <1>d DEF QueuedFlush, DrainedFlush, AwaitedBy
<1>1. TypeOK'
  <2>1. queue' \in Seq(Item) /\ Len(queue') <= QUEUE_DEPTH
    BY <1>a, <1>b, AppendFacts, PersistAssumption
  <2> QED
    BY <2>1 DEF Send, Goto, Place
<1>2. PlacesAgree'
  BY TaskEdges, <1>a, <1>c, <1>d, <1>e, QueueFacts DEF Send, Goto, QueueFull, PlacesAgree, Holding
<1>3. FlushesAreCritical'
  BY TaskEdges, <1>a, <1>c, <1>d, <1>e, QueueFacts DEF Send, Goto, QueueFull, FlushesAreCritical
<1>4. Uncommitted'
  BY TaskEdges, <1>a, <1>c, <1>d, <1>e, QueueFacts DEF Send, Goto, QueueFull, Uncommitted
<1>5. QueuedFlush'
  <2>1. AwaitedBy(p, it)' /\ ~ committed'[p]
    BY <1>a, <1>d DEF Send, Goto, AwaitedBy, SameToken, SignalIsOwn, Uncommitted
  <2>2. drain' = drain /\ (drain.at = "receive" \/ ~ drain.item.flush)
    BY <1>e DEF Send
  <2>3. \A i \in DOMAIN queue' : queue'[i].flush => queue'[i] = it
    BY <1>c, <1>e
  <2> QED
    BY <2>1, <2>2, <2>3 DEF QueuedFlush, AwaitedBy, SameToken
<1>6. FlushIsLast'
  BY TaskEdges, <1>a, <1>c, <1>d, <1>e, QueueFacts DEF Send, Goto, QueueFull, FlushIsLast
<1>7. DrainedFlush'
  BY TaskEdges, <1>a, <1>c, <1>d, <1>e, QueueFacts DEF Send, Goto, QueueFull, DrainedFlush, AwaitedBy, Writing
<1>8. SignalIsOwn'
  BY TaskEdges, <1>a, <1>c, <1>d, <1>e, QueueFacts DEF Send, Goto, QueueFull, SignalIsOwn, OnTheWay, Writing
<1>9. ResultIsOwn'
  BY TaskEdges, <1>a, <1>c, <1>d, <1>e, QueueFacts DEF Send, Goto, QueueFull, ResultIsOwn
<1>10. BacklogIsFlushed'
  BY TaskEdges, <1>a, <1>c, <1>d, <1>e, QueueFacts DEF Send, Goto, QueueFull, BacklogIsFlushed, OnTheWay, Writing
<1> QED
  BY <1>1, <1>2, <1>3, <1>4, <1>5, <1>6, <1>7, <1>8, <1>9, <1>10

(* Taking the signal keeps the inductive invariant and makes the result    *)
(* one's own.                                                              *)
LEMMA SeeDoneStep ==
  ASSUME IInv, NoStall, NEW p \in Task, SeeDone(p)
  PROVE  IInv'
<1> USE DEF IInv, Handshake, TypeOK, taskVars, flushVars
<1>1. TypeOK'
  BY TaskEdges DEF SeeDone, Goto, Place
<1>2. PlacesAgree'
  BY TaskEdges DEF SeeDone, Goto, PlacesAgree, Holding
<1>3. FlushesAreCritical'
  BY TaskEdges DEF SeeDone, Goto, FlushesAreCritical
<1>4. Uncommitted'
  BY TaskEdges DEF SeeDone, Goto, Uncommitted
<1>5. QueuedFlush'
  BY TaskEdges DEF SeeDone, Goto, QueuedFlush, AwaitedBy
<1>6. FlushIsLast'
  BY TaskEdges DEF SeeDone, Goto, FlushIsLast
<1>7. DrainedFlush'
  BY TaskEdges DEF SeeDone, Goto, DrainedFlush, AwaitedBy, Writing
<1>8. SignalIsOwn'
  BY TaskEdges DEF SeeDone, Goto, SignalIsOwn, PlacesAgree, Holding
<1>9. ResultIsOwn'
  BY TaskEdges DEF SeeDone, Goto, ResultIsOwn, SignalIsOwn
<1>10. BacklogIsFlushed'
  BY TaskEdges DEF SeeDone, Goto, BacklogIsFlushed, SignalIsOwn, OnTheWay, Writing
<1> QED
  BY <1>1, <1>2, <1>3, <1>4, <1>5, <1>6, <1>7, <1>8, <1>9, <1>10

(* A direct write keeps the inductive invariant: without a stall there is  *)
(* none but the one that works without a queue.                            *)
LEMMA DirectWriteStep ==
  ASSUME IInv, NoStall, NEW p \in Task, DirectWrite(p)
  PROVE  IInv'
<1> USE DEF IInv, Handshake, TypeOK, taskVars, flushVars
<1>a. /\ ~ async_enabled /\ queue = <<>> /\ drain.at = "receive"
      /\ \A q \in Task : pc[q] \in {"idle", "write"}
  BY DEF DirectWrite, Goto, PlacesAgree
<1>1. TypeOK'
  <2>1. PICK success \in BOOLEAN : NvsWrite(item[p], success) /\ ok' = [ok EXCEPT ![p] = success]
    BY DEF DirectWrite, WriteResult
  <2>2. item[p] \in Item
    BY DEF DirectWrite, Goto
  <2>3. nvs' \in [Slot -> Token \cup {NoToken}]
    BY <2>1, <2>2, ItemFields DEF NvsWrite, Token
  <2>4. committed' \in [Task -> BOOLEAN] /\ ok' \in [Task -> BOOLEAN]
    BY <2>1 DEF NvsWrite
  <2> QED
    BY <2>3, <2>4 DEF DirectWrite, Goto, Place
<1>2. PlacesAgree'
  BY TaskEdges, <1>a DEF DirectWrite, Goto, PlacesAgree, Holding
<1>3. FlushesAreCritical'
  BY TaskEdges, <1>a DEF DirectWrite, Goto, FlushesAreCritical
<1>4. Uncommitted'
  BY TaskEdges, <1>a DEF DirectWrite, Goto, Uncommitted
<1>5. QueuedFlush'
  BY TaskEdges, <1>a DEF DirectWrite, Goto, QueuedFlush, AwaitedBy
<1>6. FlushIsLast'
  BY TaskEdges, <1>a DEF DirectWrite, Goto, FlushIsLast
<1>7. DrainedFlush'
  BY TaskEdges, <1>a DEF DirectWrite, Goto, DrainedFlush, AwaitedBy, Writing
<1>8. SignalIsOwn'
  BY TaskEdges, <1>a DEF DirectWrite, Goto, SignalIsOwn, OnTheWay, Writing
<1>9. ResultIsOwn'
  BY TaskEdges, <1>a DEF DirectWrite, Goto, ResultIsOwn
<1>10. BacklogIsFlushed'
  BY TaskEdges, <1>a DEF DirectWrite, Goto, BacklogIsFlushed, OnTheWay, Writing
<1> QED
  BY <1>1, <1>2, <1>3, <1>4, <1>5, <1>6, <1>7, <1>8, <1>9, <1>10

(* Giving the mutex back keeps the inductive invariant.                    *)
LEMMA GiveMutexStep ==
  ASSUME IInv, NoStall, NEW p \in Task, GiveMutex(p)
  PROVE  IInv'
<1> USE DEF IInv, Handshake, TypeOK, taskVars, flushVars
<1>1. TypeOK'
  BY TaskEdges DEF GiveMutex, Goto, Place
<1>2. PlacesAgree'
  BY TaskEdges DEF GiveMutex, Goto, PlacesAgree, Holding
<1>3. FlushesAreCritical'
  BY TaskEdges DEF GiveMutex, Goto, FlushesAreCritical
<1>4. Uncommitted'
  BY TaskEdges DEF GiveMutex, Goto, Uncommitted
<1>5. QueuedFlush'
  BY TaskEdges DEF GiveMutex, Goto, QueuedFlush, AwaitedBy
<1>6. FlushIsLast'
  BY TaskEdges DEF GiveMutex, Goto, FlushIsLast
<1>7. DrainedFlush'
  BY WaitersStay DEF GiveMutex, Goto
<1>8. SignalIsOwn'
  BY TaskEdges DEF GiveMutex, Goto, SignalIsOwn, OnTheWay, Writing
<1>9. ResultIsOwn'
  BY TaskEdges DEF GiveMutex, Goto, ResultIsOwn
<1>10. BacklogIsFlushed'
  BY TaskEdges DEF GiveMutex, Goto, BacklogIsFlushed, OnTheWay, Writing
<1> QED
  BY <1>1, <1>2, <1>3, <1>4, <1>5, <1>6, <1>7, <1>8, <1>9, <1>10

(* The drain task's receive keeps the inductive invariant.                 *)
LEMMA ReceiveStep ==
  ASSUME IInv, NoStall, Receive
  PROVE  IInv'
<1> USE DEF IInv, Handshake, TypeOK, taskVars, flushVars
<1>a. /\ queue # <<>> /\ queue' = Tail(queue) /\ drain.at = "receive"
      /\ drain' = [at |-> "write", item |-> queue[1], ok |-> FALSE]
  BY TailFacts DEF Receive
<1>b. /\ Len(queue) \in Nat \ {0} /\ DOMAIN queue = 1..Len(queue)
      /\ DOMAIN queue' = 1..(Len(queue) - 1)
      /\ \A i \in DOMAIN queue' : i + 1 \in DOMAIN queue /\ queue'[i] = queue[i + 1]
  BY <1>a, TailFacts
<1>c. drain'.at = "write" /\ drain'.item = queue[1]
  BY <1>a
<1>d. UNCHANGED <<async_enabled, pc, item, ok, committed, flush_mutex, flush_done, flush_result>>
  BY DEF Receive
<1>e. \A x \in Item : OnTheWay(x)' => OnTheWay(x)
  BY <1>a, <1>b, <1>c DEF OnTheWay, Writing
<1>f. 1 \in DOMAIN queue
  BY <1>b
<1>1. TypeOK'
  <2>1. queue' \in Seq(Item) /\ Len(queue') <= QUEUE_DEPTH
    BY <1>a, <1>b, TailFacts, PersistAssumption
  <2>2. queue[1] \in Item
    BY <1>a, TailFacts
  <2>3. drain' \in [at : {"receive", "write", "signal"}, item : Item \cup {NoItem}, ok : BOOLEAN]
    BY <1>a, <2>2
  <2> QED
    BY <1>c, <2>1, <2>2, <2>3 DEF Receive
<1>2. PlacesAgree'
  BY TaskEdges, <1>a, <1>b, <1>c DEF Receive, PlacesAgree, Holding
<1>3. FlushesAreCritical'
  BY <1>b, <1>c, <1>f DEF FlushesAreCritical
<1>4. Uncommitted'
  BY TaskEdges, <1>a, <1>b, <1>c DEF Receive, Uncommitted
<1>5. QueuedFlush'
  <2> SUFFICES ASSUME NEW i \in DOMAIN queue', queue'[i].flush
               PROVE  /\ \E p \in Task : AwaitedBy(p, queue[i + 1]) /\ ~ committed[p]
                      /\ ~ queue[1].flush
    BY <1>b, <1>c, <1>d DEF QueuedFlush, AwaitedBy
  <2>1. i + 1 \in DOMAIN queue /\ queue[i + 1].flush /\ 1 < i + 1
    BY <1>b
  <2> QED
    BY <1>f, <2>1 DEF QueuedFlush, FlushIsLast
<1>6. FlushIsLast'
  <2> SUFFICES ASSUME NEW i \in DOMAIN queue', NEW j \in DOMAIN queue', queue'[i].flush, i < j
               PROVE  /\ ~ queue'[j].flush
                      /\ \A p \in Task : queue'[i].edge \in EdgesOf(p) => queue'[j].edge \notin EdgesOf(p)
    BY DEF FlushIsLast
  <2>1. i + 1 \in DOMAIN queue /\ j + 1 \in DOMAIN queue /\ i + 1 < j + 1
    BY <1>b
  <2>2. queue'[i] = queue[i + 1] /\ queue'[j] = queue[j + 1]
    BY <1>b
  <2> QED
    BY <2>1, <2>2 DEF FlushIsLast
<1>7. DrainedFlush'
  <2> SUFFICES ASSUME queue[1].flush  PROVE DrainedFlush'
    BY <1>c DEF DrainedFlush
  <2>1. PICK h \in Task : AwaitedBy(h, queue[1]) /\ ~ committed[h]
    BY <1>f DEF QueuedFlush
  <2>2. queue[1].edge \in EdgesOf(h)
    BY <2>1 DEF AwaitedBy, SameToken, PlacesAgree
  <2>3. \A i \in DOMAIN queue' : queue'[i].edge \notin EdgesOf(h)
    <3> SUFFICES ASSUME NEW i \in DOMAIN queue'  PROVE queue[i + 1].edge \notin EdgesOf(h)
      BY <1>b
    <3>1. i + 1 \in DOMAIN queue /\ 1 < i + 1
      BY <1>b
    <3> QED
      BY <1>f, <2>2, <3>1 DEF FlushIsLast
  <2>4. pc'[h] = "wait" /\ ~ flush_done' /\ SameToken(item'[h], queue[1]) /\ ~ committed'[h]
    BY <1>d, <2>1 DEF AwaitedBy
  <2> QED
    BY <1>c, <2>3, <2>4 DEF DrainedFlush, AwaitedBy, Writing
<1>8. SignalIsOwn'
  BY <1>c, <1>d, <1>e DEF SignalIsOwn
<1>9. ResultIsOwn'
  BY TaskEdges, <1>a, <1>b, <1>c DEF Receive, ResultIsOwn
<1>10. BacklogIsFlushed'
  BY <1>d, <1>e DEF BacklogIsFlushed
<1> QED
  BY <1>1, <1>2, <1>3, <1>4, <1>5, <1>6, <1>7, <1>8, <1>9, <1>10

(* The drain task's write, successful or not, keeps the inductive          *)
(* invariant.                                                              *)
LEMMA CommitStep ==
  ASSUME IInv, NoStall, Commit
  PROVE  IInv'
<1> USE DEF IInv, Handshake, TypeOK, taskVars, flushVars
<1>a. drain.at = "write" /\ drain.item \in Item
  BY DEF Commit
<1>b. PICK success \in BOOLEAN :
        /\ NvsWrite(drain.item, success)
        /\ drain' = [at |-> IF drain.item.flush THEN "signal" ELSE "receive",
                     item |-> drain.item, ok |-> success]
  BY DEF Commit, WriteResult
<1>c. /\ drain'.at = IF drain.item.flush THEN "signal" ELSE "receive"
      /\ drain'.item = drain.item
      /\ drain'.ok = success
  BY <1>b
<1>d. \A q \in Task : committed'[q] = (committed[q] \/ (success /\ SameToken(item[q], drain.item)))
  BY <1>b DEF NvsWrite
<1>e. \A q \in Task : pc[q] \in Holding \cup {"take"} =>
        \/ committed'[q] = committed[q]
        \/ /\ drain.item.flush /\ AwaitedBy(q, drain.item)
           /\ committed'[q] = success
  <2> SUFFICES ASSUME NEW q \in Task, pc[q] \in Holding \cup {"take"},
                      SameToken(item[q], drain.item), success
               PROVE  drain.item.flush /\ AwaitedBy(q, drain.item) /\ committed'[q] = success
    BY <1>b, <1>d
  <2>1. drain.item.flush
    BY <1>a DEF SameToken, PlacesAgree, FlushesAreCritical
  <2>2. PICK h \in Task : AwaitedBy(h, drain.item)
    BY <1>a, <2>1 DEF DrainedFlush
  <2>3. drain.item.edge \in EdgesOf(h) /\ drain.item.edge \in EdgesOf(q) /\ drain.item.edge \in Edge
    BY <1>a, <2>2, ItemFields DEF AwaitedBy, SameToken, PlacesAgree, Holding
  <2>4. q = h
    BY <2>3, TaskEdges
  <2> QED
    BY <1>d, <2>1, <2>2, <2>4
<1>f. UNCHANGED <<async_enabled, snapshots, pc, item, ok, flush_mutex, flush_done, flush_result, queue>>
  BY DEF Commit
<1>1. TypeOK'
  <2>1. drain' \in [at : {"receive", "write", "signal"}, item : Item \cup {NoItem}, ok : BOOLEAN]
    BY <1>a, <1>b
  <2>2. nvs' \in [Slot -> Token \cup {NoToken}]
    BY <1>a, <1>b, ItemFields DEF NvsWrite, Token
  <2>3. committed' \in [Task -> BOOLEAN]
    BY <1>b DEF NvsWrite
  <2> QED
    BY <1>a, <1>c, <2>1, <2>2, <2>3 DEF Commit
<1>2. PlacesAgree'
  BY TaskEdges DEF Commit, PlacesAgree, Holding
<1>3. FlushesAreCritical'
  BY TaskEdges DEF Commit, FlushesAreCritical
<1>4. Uncommitted'
  BY <1>e, <1>f DEF Uncommitted, AwaitedBy, Holding
<1>5. QueuedFlush'
  BY <1>a, <1>c, <1>e, <1>f DEF QueuedFlush, AwaitedBy, Holding
<1>6. FlushIsLast'
  BY TaskEdges DEF Commit, FlushIsLast
<1>7. DrainedFlush'
  <2> SUFFICES ASSUME drain.item.flush  PROVE DrainedFlush'
    BY <1>c DEF DrainedFlush
  <2>1. PICK h \in Task : /\ AwaitedBy(h, drain.item) /\ ~ committed[h]
                          /\ \A i \in DOMAIN queue : queue[i].edge \notin EdgesOf(h)
    BY <1>a DEF DrainedFlush, Writing
  <2>2. committed'[h] = success
    BY <1>d, <2>1 DEF AwaitedBy
  <2>3. drain'.ok <=> committed'[h]
    BY <1>c, <2>2
  <2>4. AwaitedBy(h, drain.item)'
    BY <1>c, <1>f, <2>1 DEF AwaitedBy, SameToken
  <2> QED
    BY <1>c, <1>f, <2>1, <2>3, <2>4 DEF DrainedFlush, Writing
<1>8. SignalIsOwn'
  <2>1. flush_done => \A q \in Task : pc[q] = "wait" => committed'[q] = committed[q]
    BY <1>e DEF AwaitedBy, Holding
  <2>2. \A x \in Item : OnTheWay(x)' => OnTheWay(x)
    BY <1>c, <1>f DEF OnTheWay, Writing
  <2> QED
    BY <1>c, <1>f, <2>1, <2>2 DEF SignalIsOwn
<1>9. ResultIsOwn'
  BY <1>e, <1>f DEF ResultIsOwn, AwaitedBy, Holding
<1>10. BacklogIsFlushed'
  BY TaskEdges DEF Commit, BacklogIsFlushed, OnTheWay, Writing
<1> QED
  BY <1>1, <1>2, <1>3, <1>4, <1>5, <1>6, <1>7, <1>8, <1>9, <1>10

(* The completion signal keeps the inductive invariant: the item it is     *)
(* about is the one the waiting task has sent.                             *)
LEMMA SignalStep ==
  ASSUME IInv, NoStall, Signal
  PROVE  IInv'
<1> USE DEF IInv, Handshake, TypeOK, taskVars, flushVars
<1>a. /\ drain.at = "signal" /\ drain.item \in Item /\ drain.item.flush
      /\ flush_done' = TRUE /\ flush_result' = drain.ok
      /\ drain'.at = "receive"
      /\ UNCHANGED <<pc, item, ok, committed, flush_mutex, queue>>
  BY DEF Signal, SignalIsOwn
<1>b. PICK h \in Task :
        /\ AwaitedBy(h, drain.item) /\ (drain.ok <=> committed[h])
        /\ \A i \in DOMAIN queue : queue[i].edge \notin EdgesOf(h)
  BY <1>a DEF DrainedFlush, Writing
<1>c. \A q \in Task : pc[q] = "wait" => q = h
  BY <1>b, TaskEdges DEF AwaitedBy, PlacesAgree, Holding
<1>1. TypeOK'
  BY TaskEdges, <1>a DEF Signal, Place
<1>2. PlacesAgree'
  BY TaskEdges, <1>a DEF Signal, PlacesAgree, Holding
<1>3. FlushesAreCritical'
  BY TaskEdges, <1>a DEF Signal, FlushesAreCritical
<1>4. Uncommitted'
  BY TaskEdges, <1>a DEF Signal, Uncommitted
<1>5. QueuedFlush'
  <2>1. \A i \in DOMAIN queue : ~ queue[i].flush
    BY <1>a DEF QueuedFlush
  <2> QED
    BY <1>a, <2>1 DEF QueuedFlush
<1>6. FlushIsLast'
  BY TaskEdges, <1>a DEF Signal, FlushIsLast
<1>7. DrainedFlush'
  BY TaskEdges, <1>a DEF Signal, DrainedFlush, AwaitedBy, Writing
<1>8. SignalIsOwn'
  <2>1. \A x \in Item : OnTheWay(x)' => x.edge \notin EdgesOf(h)
    BY <1>a, <1>b DEF OnTheWay, Writing
  <2> QED
    BY <1>a, <1>b, <1>c, <2>1 DEF SignalIsOwn, AwaitedBy
<1>9. ResultIsOwn'
  BY TaskEdges, <1>a DEF Signal, ResultIsOwn
<1>10. BacklogIsFlushed'
  BY TaskEdges, <1>a DEF Signal, BacklogIsFlushed, OnTheWay, Writing
<1> QED
  BY <1>1, <1>2, <1>3, <1>4, <1>5, <1>6, <1>7, <1>8, <1>9, <1>10

(* A power loss, from any state, keeps the inductive invariant.            *)
LEMMA PowerLossStep ==
  ASSUME IInv, NoStall, PowerLoss
  PROVE  IInv'
<1> USE DEF IInv, Handshake, TypeOK, taskVars, flushVars
<1>1. TypeOK'
  <2>1. queue' = <<>> /\ drain' = IdleDrain
    BY DEF PowerLoss
  <2>2. queue' \in Seq(Item) /\ Len(queue') <= QUEUE_DEPTH
    BY <2>1, PersistAssumption
  <2>3. drain' \in [at : {"receive", "write", "signal"}, item : Item \cup {NoItem}, ok : BOOLEAN]
    BY <2>1 DEF IdleDrain
  <2>4. drain'.at = "receive"
    BY <2>1 DEF IdleDrain
  <2> QED
    BY <2>2, <2>3, <2>4 DEF PowerLoss, NoItems, AllIdle, AllFalse, Place
<1>2. PlacesAgree'
  BY TaskEdges DEF PowerLoss, NoItems, AllIdle, AllFalse, IdleDrain, PlacesAgree, Holding
<1>3. FlushesAreCritical'
  BY TaskEdges DEF PowerLoss, NoItems, AllIdle, AllFalse, IdleDrain, FlushesAreCritical
<1>4. Uncommitted'
  BY TaskEdges DEF PowerLoss, NoItems, AllIdle, AllFalse, IdleDrain, Uncommitted
<1>5. QueuedFlush'
  BY TaskEdges DEF PowerLoss, NoItems, AllIdle, AllFalse, IdleDrain, QueuedFlush, AwaitedBy
<1>6. FlushIsLast'
  BY TaskEdges DEF PowerLoss, NoItems, AllIdle, AllFalse, IdleDrain, FlushIsLast
<1>7. DrainedFlush'
  BY TaskEdges DEF PowerLoss, NoItems, AllIdle, AllFalse, IdleDrain, DrainedFlush, AwaitedBy, Writing
<1>8. SignalIsOwn'
  BY TaskEdges DEF PowerLoss, NoItems, AllIdle, AllFalse, IdleDrain, SignalIsOwn, OnTheWay, Writing
<1>9. ResultIsOwn'
  BY TaskEdges DEF PowerLoss, NoItems, AllIdle, AllFalse, IdleDrain, ResultIsOwn
<1>10. BacklogIsFlushed'
  BY TaskEdges DEF PowerLoss, NoItems, AllIdle, AllFalse, IdleDrain, BacklogIsFlushed, OnTheWay, Writing
<1> QED
  BY <1>1, <1>2, <1>3, <1>4, <1>5, <1>6, <1>7, <1>8, <1>9, <1>10


(***************************************************************************)
(* The invariant holds initially and every step preserves it.              *)
(***************************************************************************)
LEMMA InitIInv == Init => IInv
<1> SUFFICES ASSUME Init  PROVE IInv
  OBVIOUS
<1> USE DEF Init, NoItems, AllIdle, AllFalse
<1>1. queue \in Seq(Item) /\ Len(queue) <= QUEUE_DEPTH /\ DOMAIN queue = {}
  BY PersistAssumption
<1>2. /\ drain \in [at : {"receive", "write", "signal"}, item : Item \cup {NoItem}, ok : BOOLEAN]
      /\ drain.at = "receive"
  BY DEF IdleDrain
<1>3. nvs \in [Slot -> Token \cup {NoToken}] /\ snapshots \in [Slot -> 0..MaxTokens]
  BY PersistAssumption
<1>4. TypeOK
  BY <1>1, <1>2, <1>3 DEF TypeOK, Place
<1>5. Handshake
  BY <1>1, <1>2, TaskEdges DEF Handshake, PlacesAgree, Holding, FlushesAreCritical, Uncommitted,
     QueuedFlush, FlushIsLast, DrainedFlush, SignalIsOwn
<1> QED
  BY <1>4, <1>5 DEF IInv, ResultIsOwn, BacklogIsFlushed

(* Every step keeps the inductive invariant when no timeout runs out.      *)
LEMMA NextIInv == NoStall /\ IInv /\ [Next]_vars => IInv'
<1> SUFFICES ASSUME NoStall, IInv, [Next]_vars  PROVE IInv'
  OBVIOUS
<1>1. ASSUME NEW p \in Task, NEW s \in Slot, NEW edge \in EdgesOf(p), Write(p, s, edge)
      PROVE  IInv'
  BY <1>1, WriteStep
<1>2. ASSUME NEW p \in Task, Finish(p)
      PROVE  IInv'
  <2>1. ~ SendTimesOut(p) /\ ~ FlushTimesOut(p)
    BY DEF NoStall, SendTimesOut, FlushTimesOut
  <2> QED
    BY <1>2, <2>1, EnqueueDeferredStep, TakeMutexStep, ArmStep, SendStep, SeeDoneStep,
       DirectWriteStep, GiveMutexStep DEF Finish, Flush
<1>3. CASE DrainTask
  BY <1>3, ReceiveStep, CommitStep, SignalStep DEF DrainTask
<1>4. CASE PowerLoss
  BY <1>4, PowerLossStep
<1>5. CASE UNCHANGED vars
  BY <1>5 DEF vars, taskVars, flushVars, IInv, TypeOK, Handshake, PlacesAgree, FlushesAreCritical,
     Uncommitted, QueuedFlush, FlushIsLast, DrainedFlush, SignalIsOwn, AwaitedBy, Writing, OnTheWay,
     ResultIsOwn, BacklogIsFlushed
<1> QED
  BY <1>1, <1>2, <1>3, <1>4, <1>5 DEF Next

(***************************************************************************)
(* While no timeout runs out, a crash-critical call returns what became of *)
(* its own token, and leaves no earlier token of its task on its way:      *)
(* flush_crash_critical and drain_task, for every queue depth.             *)
(***************************************************************************)
THEOREM FlushIsDurable ==
  ASSUME NoStall
  PROVE  Spec => [](TypeOK /\ Handshake /\ ResultIsOwn /\ BacklogIsFlushed)
<1>1. IInv /\ [Next]_vars => IInv'
  BY NextIInv
<1> QED
  BY <1>1, InitIInv, PTL DEF Spec, IInv

(* The types hold, in particular the queue never exceeds its depth.        *)
COROLLARY TypesAreKept ==
  ASSUME NoStall
  PROVE  Spec => []TypeOK
BY FlushIsDurable, PTL

(* Of all items under way at most one asks for the completion signal, and  *)
(* it is the one the holder of the flush mutex waits for.                  *)
COROLLARY HandshakeHolds ==
  ASSUME NoStall
  PROVE  Spec => []Handshake
BY FlushIsDurable, PTL

(* When flush_crash_critical returns, nothing its task handed over before  *)
(* is still on its way to flash.                                           *)
COROLLARY BacklogIsAlwaysFlushed ==
  ASSUME NoStall
  PROVE  Spec => []BacklogIsFlushed
BY FlushIsDurable, PTL

(***************************************************************************)
(* A phase token never lands on top of a later terminal token.  Snapshots  *)
(* are numbered in the order they are taken, and whatever phase token is   *)
(* still under way was taken after the terminal token in flash: when that  *)
(* one was written the queue held nothing of its task any more.            *)
(***************************************************************************)
InOrder(it) ==
  /\ it.seq <= snapshots[it.slot]
  /\ it.edge = "phase" /\ nvs[it.slot].edge = "terminal" => it.seq > nvs[it.slot].seq

OrderInv ==
  /\ \A s \in Slot : nvs[s].seq <= snapshots[s]
  /\ \A p \in Task : pc[p] # "idle" => InOrder(item[p])
  /\ \A i \in DOMAIN queue : InOrder(queue[i])
  /\ Writing => InOrder(drain.item)

(* The numbers and slots of everything under way.                          *)
LEMMA NumbersAndSlots ==
  ASSUME IInv
  PROVE  /\ \A s \in Slot : nvs[s].seq \in Nat /\ snapshots[s] \in Nat
         /\ \A p \in Task : pc[p] # "idle" => item[p].seq \in Nat /\ item[p].slot \in Slot
         /\ \A i \in DOMAIN queue : queue[i].seq \in Nat /\ queue[i].slot \in Slot
         /\ Writing => drain.item.seq \in Nat /\ drain.item.slot \in Slot
<1>1. \A x \in Item : x.seq \in Nat /\ x.slot \in Slot
  BY PersistAssumption DEF Item
<1>2. \A x \in Token \cup {NoToken} : x.seq \in Nat
  BY PersistAssumption DEF Token, NoToken
<1>3. \A i \in DOMAIN queue : queue[i] \in Item
  BY QueueFacts DEF IInv, TypeOK
<1> QED
  BY <1>1, <1>2, <1>3, PersistAssumption DEF IInv, TypeOK, Writing

(* A new snapshot has the highest number of its slot.                      *)
LEMMA WriteOrder ==
  ASSUME IInv, OrderInv, NEW p \in Task, NEW s \in Slot, NEW edge \in EdgesOf(p), Write(p, s, edge)
  PROVE  OrderInv'
<1> DEFINE new == [slot |-> s, seq |-> snapshots[s] + 1, edge |-> edge, flush |-> FALSE]
<1>1. /\ item'[p] = new /\ UNCHANGED <<queue, drain, nvs>>
      /\ \A q \in Task \ {p} : pc'[q] = pc[q] /\ item'[q] = item[q]
      /\ \A r \in Slot : snapshots'[r] = IF r = s THEN snapshots[s] + 1 ELSE snapshots[r]
  BY DEF Write, Goto, IInv, TypeOK
<1>2. \A r \in Slot : snapshots[r] \in Nat /\ snapshots[r] <= snapshots'[r] /\ nvs[r].seq \in Nat
  BY <1>1, NumbersAndSlots
<1>3. InOrder(item[p])'
  <2>1. new.seq = snapshots[s] + 1 /\ new.slot = s /\ nvs[s].seq <= snapshots[s]
    BY DEF OrderInv
  <2> HIDE DEF new
  <2> QED
    BY <1>1, <1>2, <2>1 DEF InOrder
<1>4. ASSUME NEW it, it.slot \in Slot, it.seq \in Nat, InOrder(it)
      PROVE  it.seq <= snapshots'[it.slot]
             /\ (it.edge = "phase" /\ nvs'[it.slot].edge = "terminal" => it.seq > nvs'[it.slot].seq)
  <2>1. snapshots[it.slot] <= snapshots'[it.slot] /\ snapshots[it.slot] \in Nat
        /\ snapshots'[it.slot] \in Nat
    BY <1>1, <1>2, <1>4
  <2> QED
    BY <1>1, <1>4, <2>1 DEF InOrder
<1>5. \A r \in Slot : nvs'[r].seq <= snapshots'[r]
  BY <1>1, <1>2 DEF OrderInv
<1>6. \A q \in Task : pc'[q] # "idle" => InOrder(item[q])'
  BY <1>1, <1>3, <1>4, NumbersAndSlots DEF OrderInv, InOrder
<1>7. \A i \in DOMAIN queue' : InOrder(queue[i])'
  BY <1>1, <1>4, NumbersAndSlots DEF OrderInv, InOrder
<1>8. Writing' => InOrder(drain.item)'
  BY <1>1, <1>4, NumbersAndSlots DEF OrderInv, InOrder, Writing
<1> QED
  BY <1>5, <1>6, <1>7, <1>8 DEF OrderInv

(* The steps that write nothing to flash and take no snapshot hand items   *)
(* on: every token under way after them was under way before.              *)
LEMMA HandOnOrder ==
  ASSUME OrderInv, UNCHANGED <<snapshots, nvs>>,
         \A p \in Task : pc'[p] # "idle" => pc[p] # "idle" /\ item'[p] = item[p],
         \A i \in DOMAIN queue' :
           \/ \E j \in DOMAIN queue : queue'[i] = queue[j]
           \/ \E p \in Task : pc[p] # "idle" /\ SameToken(item[p], queue'[i]),
         Writing' => \/ Writing /\ drain'.item = drain.item
                     \/ \E j \in DOMAIN queue : drain'.item = queue[j]
  PROVE  OrderInv'
<1>1. \A p \in Task : pc'[p] # "idle" => InOrder(item[p])'
  BY DEF OrderInv, InOrder
<1>2. \A i \in DOMAIN queue' : InOrder(queue[i])'
  BY DEF OrderInv, InOrder, SameToken
<1>3. Writing' => InOrder(drain.item)'
  BY DEF OrderInv, InOrder
<1> QED
  BY <1>1, <1>2, <1>3 DEF OrderInv

(* A write of one of the tokens under way.  When the token is a terminal   *)
(* one, no phase token may be left behind it.                              *)
LEMMA FlashOrder ==
  ASSUME IInv, OrderInv, NEW it \in Item, InOrder(it), NEW success \in BOOLEAN,
         NvsWrite(it, success), UNCHANGED <<snapshots, item, queue>>,
         \A p \in Task : pc'[p] # "idle" => pc[p] # "idle",
         ~ Writing',
         it.edge = "terminal" =>
           /\ \A p \in Task : pc'[p] # "idle" => item[p].edge # "phase"
           /\ \A i \in DOMAIN queue : queue[i].edge # "phase"
  PROVE  /\ OrderInv'
         /\ \A s \in Slot :
              nvs[s].edge = "terminal" /\ nvs'[s].edge = "phase" => nvs'[s].seq > nvs[s].seq
<1>1. it.slot \in Slot /\ it.seq \in Nat /\ it.seq <= snapshots[it.slot]
  BY ItemFields, PersistAssumption DEF InOrder
<1>2. \A s \in Slot : \/ nvs'[s] = nvs[s]
                      \/ s = it.slot /\ nvs'[s].seq = it.seq /\ nvs'[s].edge = it.edge
  BY DEF NvsWrite, IInv, TypeOK
<1>3. \A s \in Slot : nvs'[s].seq <= snapshots'[s]
  BY <1>1, <1>2 DEF OrderInv
<1>4. ASSUME NEW x, x.slot \in Slot, InOrder(x), it.edge = "terminal" => x.edge # "phase"
      PROVE  /\ x.seq <= snapshots'[x.slot]
             /\ x.edge = "phase" /\ nvs'[x.slot].edge = "terminal" => x.seq > nvs'[x.slot].seq
  BY <1>2, <1>4 DEF InOrder
<1>5. OrderInv'
  <2>1. \A p \in Task : pc'[p] # "idle" => InOrder(item[p])'
    BY <1>4, NumbersAndSlots DEF OrderInv, InOrder
  <2>2. \A i \in DOMAIN queue' : InOrder(queue[i])'
    BY <1>4, NumbersAndSlots DEF OrderInv, InOrder
  <2> QED
    BY <1>3, <2>1, <2>2 DEF OrderInv
<1>6. \A s \in Slot :
        nvs[s].edge = "terminal" /\ nvs'[s].edge = "phase" => nvs'[s].seq > nvs[s].seq
  BY <1>2 DEF InOrder
<1> QED
  BY <1>5, <1>6

(* The drain task writes the token it took off the queue.                  *)
LEMMA CommitOrder ==
  ASSUME IInv, OrderInv, Commit
  PROVE  /\ OrderInv'
         /\ \A s \in Slot :
              nvs[s].edge = "terminal" /\ nvs'[s].edge = "phase" => nvs'[s].seq > nvs[s].seq
<1> DEFINE it == drain.item
<1>1. it \in Item /\ InOrder(it) /\ Writing
  BY DEF Commit, Writing, OrderInv, IInv, TypeOK
<1>2. PICK success \in BOOLEAN : NvsWrite(it, success)
  BY DEF Commit, WriteResult
<1>3. UNCHANGED <<snapshots, item, queue, pc>> /\ ~ Writing'
  BY DEF Commit, Writing
<1>4. ASSUME it.edge = "terminal"
      PROVE  /\ \A p \in Task : pc[p] # "idle" => item[p].edge # "phase"
             /\ \A i \in DOMAIN queue : queue[i].edge # "phase"
  <2>1. it.flush
    BY <1>1, <1>4 DEF IInv, Handshake, FlushesAreCritical, Writing, Deferred
  <2>2. PICK p \in Task : /\ AwaitedBy(p, it)
                          /\ \A i \in DOMAIN queue : queue[i].edge \notin EdgesOf(p)
    BY <1>1, <2>1 DEF IInv, Handshake, DrainedFlush, Writing
  <2>3. pc[p] = "wait" /\ item[p].edge = "terminal"
    BY <1>4, <2>2 DEF AwaitedBy, SameToken
  <2>4. \A q \in Task : pc[q] # "idle" => item[q].edge \in EdgesOf(q)
    BY DEF IInv, Handshake, PlacesAgree
  <2>5. p = "tick"
    BY <2>3, <2>4 DEF Task, EdgesOf
  <2> QED
    BY <2>2, <2>3, <2>4, <2>5 DEF Task, EdgesOf
<1> HIDE DEF it
<1> QED
  BY <1>1, <1>2, <1>3, <1>4, FlashOrder

(* Without a queue each task writes its token itself, and there is nothing *)
(* else under way of the main task.                                        *)
LEMMA DirectWriteOrder ==
  ASSUME IInv, OrderInv, NEW p \in Task, DirectWrite(p)
  PROVE  /\ OrderInv'
         /\ \A s \in Slot :
              nvs[s].edge = "terminal" /\ nvs'[s].edge = "phase" => nvs'[s].seq > nvs[s].seq
<1>1. pc[p] = "write" /\ ~ async_enabled
  BY DEF DirectWrite, Goto, IInv, Handshake, PlacesAgree
<1>2. item[p] \in Item /\ InOrder(item[p])
  BY <1>1 DEF OrderInv, IInv, TypeOK
<1>3. PICK success \in BOOLEAN : NvsWrite(item[p], success)
  BY DEF DirectWrite, WriteResult
<1>4. /\ UNCHANGED <<snapshots, item, queue, drain>> /\ queue = <<>> /\ ~ Writing
      /\ pc'[p] = "idle" /\ \A q \in Task \ {p} : pc'[q] = pc[q]
  BY <1>1 DEF DirectWrite, Goto, IInv, TypeOK, Handshake, PlacesAgree, Writing
<1>5. ASSUME item[p].edge = "terminal"
      PROVE  /\ \A q \in Task : pc'[q] # "idle" => item[q].edge # "phase"
             /\ \A i \in DOMAIN queue : queue[i].edge # "phase"
  <2>1. \A q \in Task : pc[q] # "idle" => item[q].edge \in EdgesOf(q)
    BY DEF IInv, Handshake, PlacesAgree
  <2>2. p = "tick"
    BY <1>1, <1>5, <2>1 DEF Task, EdgesOf
  <2> QED
    BY <1>4, <2>1, <2>2 DEF Task, EdgesOf
<1>6. ~ Writing' /\ \A q \in Task : pc'[q] # "idle" => pc[q] # "idle"
  BY <1>4 DEF Writing
<1> QED
  BY <1>2, <1>3, <1>4, <1>5, <1>6, FlashOrder

(* Handing an item to the queue, and the drain task's taking it off.       *)
LEMMA QueueOrder ==
  ASSUME IInv, NoStall, OrderInv, Receive \/ \E p \in Task : EnqueueDeferred(p) \/ Send(p)
  PROVE  OrderInv'
<1>1. CASE Receive
  <2>1. /\ queue # <<>> /\ queue' = Tail(queue) /\ drain'.item = Head(queue)
        /\ UNCHANGED <<snapshots, nvs, pc, item>>
    BY <1>1 DEF Receive, taskVars
  <2>2. queue \in Seq(Item)
    BY DEF IInv, TypeOK
  <2>3. /\ Head(queue) = queue[1] /\ 1 \in DOMAIN queue
        /\ \A i \in DOMAIN queue' : i + 1 \in DOMAIN queue /\ queue'[i] = queue[i + 1]
    BY <2>1, <2>2, TailFacts
  <2> QED
    BY <2>1, <2>3, HandOnOrder
<1>2. ASSUME NEW p \in Task, EnqueueDeferred(p) \/ Send(p)
      PROVE  OrderInv'
  <2>1. /\ pc[p] # "idle" /\ UNCHANGED <<snapshots, nvs, item, drain>>
        /\ \A q \in Task : pc'[q] # "idle" => pc[q] # "idle"
    BY <1>2 DEF EnqueueDeferred, Send, Goto, IInv, TypeOK
  <2>2. item[p] \in Item
    BY <2>1 DEF IInv, TypeOK
  <2>3. PICK x \in Item : SameToken(item[p], x) /\ (queue' = queue \/ queue' = Append(queue, x))
    BY <1>2, <2>2, FlushItem DEF EnqueueDeferred, Send, SameToken
  <2>4. \A i \in DOMAIN queue' :
          (i \in DOMAIN queue /\ queue'[i] = queue[i]) \/ queue'[i] = x
    <3>1. queue \in Seq(Item)
      BY DEF IInv, TypeOK
    <3> QED
      BY <2>3, <3>1, AppendFacts
  <2> QED
    BY <2>1, <2>3, <2>4, HandOnOrder DEF Writing
<1> QED
  BY <1>1, <1>2

(* Every step keeps the order, and obeys it.                               *)
LEMMA NextOrder ==
  ASSUME NoStall, IInv, OrderInv, [Next]_vars
  PROVE  /\ OrderInv'
         /\ \A s \in Slot :
              nvs[s].edge = "terminal" /\ nvs'[s].edge = "phase" => nvs'[s].seq > nvs[s].seq
<1>1. ASSUME UNCHANGED nvs, OrderInv'
      PROVE  /\ OrderInv'
             /\ \A s \in Slot :
                  nvs[s].edge = "terminal" /\ nvs'[s].edge = "phase" => nvs'[s].seq > nvs[s].seq
  BY <1>1
<1>2. ASSUME NEW p \in Task, NEW s \in Slot, NEW edge \in EdgesOf(p), Write(p, s, edge)
      PROVE  OrderInv' /\ UNCHANGED nvs
  BY <1>2, WriteOrder DEF Write
<1>3. ASSUME NEW p \in Task, EnqueueDeferred(p) \/ Send(p)
      PROVE  OrderInv' /\ UNCHANGED nvs
  BY <1>3, QueueOrder DEF EnqueueDeferred, Send
<1>4. ASSUME NEW p \in Task, TakeMutex(p) \/ Arm(p) \/ SeeDone(p) \/ GiveMutex(p)
      PROVE  OrderInv' /\ UNCHANGED nvs
  <2>1. /\ UNCHANGED <<snapshots, nvs, item, drain, queue>>
        /\ \A q \in Task : pc'[q] # "idle" => pc[q] # "idle"
    BY <1>4 DEF TakeMutex, Arm, SeeDone, GiveMutex, Goto, IInv, TypeOK
  <2> QED
    BY <2>1, HandOnOrder DEF Writing
<1>5. ASSUME NEW p \in Task, Finish(p)
      PROVE  (OrderInv' /\ UNCHANGED nvs) \/ DirectWrite(p)
  <2>1. ~ SendTimesOut(p) /\ ~ FlushTimesOut(p)
    BY DEF NoStall, SendTimesOut, FlushTimesOut
  <2> QED
    BY <1>3, <1>4, <1>5, <2>1 DEF Finish, Flush
<1>6. ASSUME Receive \/ Signal
      PROVE  OrderInv' /\ UNCHANGED nvs
  <2>1. CASE Signal
    <3>1. UNCHANGED <<snapshots, nvs, pc, item, queue>> /\ ~ Writing'
      BY <2>1 DEF Signal, taskVars, Writing, IInv, TypeOK
    <3> QED
      BY <3>1, HandOnOrder
  <2> QED
    BY <1>6, <2>1, QueueOrder DEF Receive
<1>7. CASE PowerLoss
  <2>1. DOMAIN queue' = {} /\ ~ Writing' /\ \A p \in Task : pc'[p] = "idle"
    BY <1>7 DEF PowerLoss, IdleDrain, Writing, AllIdle
  <2> QED
    BY <1>7, <2>1 DEF PowerLoss, OrderInv
<1>8. CASE UNCHANGED vars
  <2>1. UNCHANGED <<snapshots, nvs, pc, item, queue, drain>>
    BY <1>8 DEF vars, taskVars
  <2> QED
    BY <2>1, HandOnOrder DEF Writing
<1> QED
  BY <1>1, <1>2, <1>5, <1>6, <1>7, <1>8, CommitOrder, DirectWriteOrder DEF Next, DrainTask, PowerLoss

(***************************************************************************)
(* A phase token never lands on top of a later terminal token of its slot, *)
(* not even across a power loss (the rationale of scenario_persist.h for   *)
(* one queue and one drain task), as long as no timeout runs out.          *)
(***************************************************************************)
THEOREM PhasesNeverOvertake ==
  ASSUME NoStall
  PROVE  Spec => PhaseNeverOverTerminal
<1>1. Init => OrderInv
  BY PersistAssumption DEF Init, OrderInv, Writing, IdleDrain, AllIdle, NoToken
<1>2. IInv /\ OrderInv /\ [Next]_vars => OrderInv'
  BY NextOrder
<1>3. IInv /\ OrderInv /\ [Next]_vars =>
        [\A s \in Slot :
           nvs[s].edge = "terminal" /\ nvs'[s].edge = "phase" => nvs'[s].seq > nvs[s].seq]_vars
  BY NextOrder
<1>4. IInv /\ [Next]_vars => IInv'
  BY NextIInv
<1> QED
  BY <1>1, <1>2, <1>3, <1>4, InitIInv, PTL DEF Spec, PhaseNeverOverTerminal

==============================================================================
